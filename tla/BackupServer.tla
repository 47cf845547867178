---------------------------- MODULE BackupServer ----------------------------
(***************************************************************************)
(* The backup server (src/src/server.cpp): the dispatcher that answers the *)
(* UDP requests, the worker processes it forks, and the table of slots all *)
(* of them share (one backupThread record per TCP port of the interval).   *)
(*                                                                         *)
(* A process is a member of Procs with a program counter and the local     *)
(* variables of newBackup().  A step is atomic when it touches the shared  *)
(* table, the kernel or a socket once.  A worker whose newBackup() returns *)
(* instead of calling exit() goes on with the dispatcher's loop, as in the *)
(* code.  The bytes of a file are in module Transfer; here a file is one   *)
(* unit of the connection.                                                 *)
(***************************************************************************)
EXTENDS Integers, FiniteSets

CONSTANTS
    Interval,   \* configs.port_interval: the number of slots
    Clients,    \* the hosts that ask for backups
    NoClient,
    Main,       \* the process main() starts in
    Workers,    \* the process ids fork() may return
    NoPid,      \* the 0 a fresh mmap holds in backupThread.pid
    MaxFiles,   \* bound: the most files one backup announces
    ToZip,      \* configs.ToZip
    Faults,     \* which of FaultKinds the environment may show
    Commands    \* which of {"TOG", "STP"} the managers send

FaultKinds == { "loss",      \* the datagram with the port is lost
                "giveup",    \* a client stops trying to connect
                "fork",      \* fork() fails
                "socket",    \* socket() fails
                "timewait",  \* a port closed by the server first stays busy
                "disk",      \* a file or directory cannot be written
                "eof",       \* the client closes before the last file
                "reset",     \* the connection is reset
                "silent",    \* the client's machine disappears
                "signal" }   \* SIGINT or SIGHUP

(* The faults that can make a worker's bind fail or leave newBackup() with *)
(* a return.                                                               *)
StraySources == {"socket", "timewait", "disk"}

Slots == 0 .. Interval - 1
Procs == Workers \cup {Main}

ASSUME ConstantsOK ==
    /\ Interval \in Nat
    /\ MaxFiles \in Nat
    /\ Main \notin Workers
    /\ NoPid \notin Procs
    /\ NoClient \notin Clients
    /\ ToZip \in BOOLEAN
    /\ Faults \subseteq FaultKinds
    /\ Commands \subseteq {"TOG", "STP"}

(* Values of backupThread.socket.  getSlot() takes everything below        *)
(* Reserved for free.                                                      *)
Free == -10
BindFailed == -2
Reserved == -1
Fd == 4          \* a descriptor of the worker's own table
NoSlot == -1
MaxTries == 5    \* "atp++ < 5"

VARIABLES
    \* the shared table, processi[]
    sock, pidOf, status, client, nof, ft,
    \* the kernel: who is bound to a slot's port, ports in TIME_WAIT, and
    \* the ports clients were told and still try to connect to
    holder, timeWait, offers,
    \* every process: program counter, keepRunning and newBackup()'s locals
    pc, run, slot, peer, atp, tcps, conn, left, dir

table  == <<sock, pidOf, status, client, nof, ft>>
kernel == <<holder, timeWait, offers>>
local  == <<run, slot, peer, atp, tcps, conn, left, dir>>
vars   == <<table, kernel, pc, local>>

DispatchPC == {"recv", "reserve", "fork", "kill"}
WorkerPC == {"start", "bind", "publish", "accept", "header", "count", "store",
             "wait", "file", "body", "close", "free", "spin"}
DeadPC == {"none", "exit"}

LiveWorkers == {w \in Workers : pc[w] \in WorkerPC}
Dispatchers == {p \in Procs : pc[p] \in DispatchPC}

Init ==
    /\ sock = [s \in Slots |-> Free]
    /\ pidOf = [s \in Slots |-> NoPid]
    /\ status = [s \in Slots |-> 0]
    /\ client = [s \in Slots |-> NoClient]
    /\ nof = [s \in Slots |-> 0]
    /\ ft = [s \in Slots |-> 0]
    /\ holder = [s \in Slots |-> NoPid]
    /\ timeWait = [s \in Slots |-> FALSE]
    /\ offers = {}
    /\ pc = [p \in Procs |-> IF p = Main THEN "recv" ELSE "none"]
    /\ run = [p \in Procs |-> p = Main]
    /\ slot = [p \in Procs |-> NoSlot]
    /\ peer = [p \in Procs |-> NoClient]
    /\ atp = [p \in Procs |-> 0]
    /\ tcps = [p \in Procs |-> Reserved]
    /\ conn = [p \in Procs |-> "none"]
    /\ left = [p \in Procs |-> 0]
    /\ dir = [p \in Procs |-> NoClient]

-----------------------------------------------------------------------------
(* Ends of processes and of newBackup() *)

(* The processes of V are gone and the kernel closes what they had open;   *)
(* the others' slot variables are as in at.                                *)
Die(V, at) ==
    /\ pc' = [p \in Procs |-> IF p \notin V \/ pc[p] \in DeadPC THEN pc[p]
                              ELSE IF p = Main THEN "exit" ELSE "none"]
    /\ holder' = [s \in Slots |-> IF holder[s] \in V THEN NoPid ELSE holder[s]]
    /\ slot' = [p \in Procs |-> IF p \in V THEN NoSlot ELSE at[p]]
    /\ peer' = [p \in Procs |-> IF p \in V THEN NoClient ELSE peer[p]]
    /\ atp' = [p \in Procs |-> IF p \in V THEN 0 ELSE atp[p]]
    /\ tcps' = [p \in Procs |-> IF p \in V THEN Reserved ELSE tcps[p]]
    /\ conn' = [p \in Procs |-> IF p \in V THEN "none" ELSE conn[p]]
    /\ left' = [p \in Procs |-> IF p \in V THEN 0 ELSE left[p]]
    /\ dir' = [p \in Procs |-> IF p \in V THEN NoClient ELSE dir[p]]
    /\ run' = [p \in Procs |-> IF p \in V THEN FALSE ELSE run[p]]

(* newBackup() or a command returns in p: main()'s loop goes on while p's  *)
(* own copy of keepRunning is set, else the shutdown loop starts.          *)
ReturnToMain(p) ==
    /\ pc' = [pc EXCEPT ![p] = IF run[p] THEN "recv" ELSE "kill"]
    /\ slot' = [slot EXCEPT ![p] = IF run[p] THEN NoSlot ELSE 0]
    /\ peer' = [peer EXCEPT ![p] = NoClient]

Goto(p, label) == pc' = [pc EXCEPT ![p] = label]

-----------------------------------------------------------------------------
(* The dispatcher: main()'s loop and the parent side of newBackup() *)

(* Mutant of IsSlotFor: a slot is free as soon as its socket is negative.  *)
ReservedLooksFree(s) ==
    /\ sock[s] < 0
    /\ \A t \in Slots : t < s => sock[t] >= 0

(* getSlot(): the lowest slot whose socket is below Reserved. *)
IsSlotFor(s) ==
    /\ sock[s] < Reserved
    /\ \A t \in Slots : t < s => ~(sock[t] < Reserved)

(* A 'ba' datagram of client c: pick a slot and answer with its port.  The *)
(* slot is not marked yet.  With no free slot nothing is sent or changed.  *)
RecvBackup(d, c) ==
    /\ pc[d] = "recv"
    /\ run[d]
    /\ \E s \in Slots :
         /\ IsSlotFor(s)
         /\ slot' = [slot EXCEPT ![d] = s]
         /\ \/ offers' = offers \cup {<<c, s>>}
            \/ /\ "loss" \in Faults
               /\ offers' = offers
    /\ peer' = [peer EXCEPT ![d] = c]
    /\ Goto(d, "reserve")
    /\ UNCHANGED <<table, holder, timeWait, run, atp, tcps, conn, left, dir>>

(* Mutants of Reserve: one of its two assignments is missing.              *)
ReserveWithoutClient(d) ==
    /\ pc[d] = "reserve"
    /\ sock' = [sock EXCEPT ![slot[d]] = Reserved]
    /\ Goto(d, "fork")
    /\ UNCHANGED <<pidOf, status, client, nof, ft, kernel, local>>

ReserveWithoutMark(d) ==
    /\ pc[d] = "reserve"
    /\ client' = [client EXCEPT ![slot[d]] = peer[d]]
    /\ Goto(d, "fork")
    /\ UNCHANGED <<sock, pidOf, status, nof, ft, kernel, local>>

Reserve(d) ==
    /\ pc[d] = "reserve"
    /\ sock' = [sock EXCEPT ![slot[d]] = Reserved]
    /\ client' = [client EXCEPT ![slot[d]] = peer[d]]
    /\ Goto(d, "fork")
    /\ UNCHANGED <<pidOf, status, nof, ft, kernel, local>>

(* fork(): the child is a copy of the dispatcher, keepRunning included. *)
Fork(d, w) ==
    /\ pc[d] = "fork"
    /\ pc[w] = "none"
    /\ pc' = [pc EXCEPT ![w] = "start", ![d] = IF run[d] THEN "recv" ELSE "kill"]
    /\ slot' = [slot EXCEPT ![w] = slot[d], ![d] = IF run[d] THEN NoSlot ELSE 0]
    /\ peer' = [peer EXCEPT ![d] = NoClient]
    /\ run' = [run EXCEPT ![w] = run[d]]
    /\ UNCHANGED <<table, kernel, atp, tcps, conn, left, dir>>

(* No process can be made: the slot keeps the mark Reserve put on it. *)
ForkFails(d) ==
    /\ pc[d] = "fork"
    /\ "fork" \in Faults \/ \A w \in Workers : pc[w] # "none"
    /\ ReturnToMain(d)
    /\ UNCHANGED <<table, kernel, run, atp, tcps, conn, left, dir>>

(* Mutant of Toggle: counts instead of negating.                           *)
ToggleCounts(d, s) ==
    /\ "TOG" \in Commands
    /\ pc[d] = "recv"
    /\ status' = [status EXCEPT ![s] = @ + 1]
    /\ ReturnToMain(d)
    /\ UNCHANGED <<sock, pidOf, client, nof, ft, kernel>>
    /\ UNCHANGED <<run, atp, tcps, conn, left, dir>>

(* 'mo' commands that write the table.  One more may be handled after the  *)
(* signal: keepRunning is not tested for them, and a recvfrom() woken by   *)
(* the shutdown leaves the previous datagram in the buffer.  The           *)
(* shutdown() of cmd_STP names a descriptor of the worker's table, so it   *)
(* reaches no connection; its writes of the counters are one step here,    *)
(* for no property looks at the counters where "STP" is a command.         *)
Toggle(d, s) ==
    /\ "TOG" \in Commands
    /\ pc[d] = "recv"
    /\ status' = [status EXCEPT ![s] = 1 - @]
    /\ ReturnToMain(d)
    /\ UNCHANGED <<sock, pidOf, client, nof, ft, kernel>>
    /\ UNCHANGED <<run, atp, tcps, conn, left, dir>>

Stop(d, s) ==
    /\ "STP" \in Commands
    /\ pc[d] = "recv"
    /\ nof' = [nof EXCEPT ![s] = 1]
    /\ ft' = [ft EXCEPT ![s] = 1]
    /\ ReturnToMain(d)
    /\ UNCHANGED <<sock, pidOf, status, client, kernel>>
    /\ UNCHANGED <<run, atp, tcps, conn, left, dir>>

-----------------------------------------------------------------------------
(* The worker: the child side of newBackup() *)

(* The pid is written by the child, after the fork. *)
Start(w) ==
    /\ pc[w] = "start"
    /\ pidOf' = [pidOf EXCEPT ![slot[w]] = w]
    /\ Goto(w, "bind")
    /\ UNCHANGED <<sock, status, client, nof, ft, kernel, local>>

(* Mutant of BindResults: the port may be shared (SO_REUSEPORT).           *)
BindShared(s) ==
    { r \in {Fd, BindFailed, Reserved} :
        \/ r = Fd /\ ~timeWait[s]
        \/ r = BindFailed /\ timeWait[s]
        \/ r = Reserved /\ "socket" \in Faults }

(* newTCPSocket_server(): what socket() and bind() may answer. *)
BindResults(s) ==
    { r \in {Fd, BindFailed, Reserved} :
        \/ r = Fd /\ holder[s] = NoPid /\ ~timeWait[s]
        \/ r = BindFailed /\ (holder[s] # NoPid \/ timeWait[s])
        \/ r = Reserved /\ "socket" \in Faults }

(* Mutant of BindOk: the socket stays in a variable local to the loop.     *)
BindShadowed(w) ==
    /\ pc[w] = "bind"
    /\ atp[w] # MaxTries
    /\ Fd \in BindResults(slot[w])
    /\ holder' = [holder EXCEPT ![slot[w]] = w]
    /\ Goto(w, "publish")
    /\ UNCHANGED <<table, timeWait, offers>>
    /\ UNCHANGED <<run, slot, peer, atp, tcps, conn, left, dir>>

BindAgain(w) ==
    /\ pc[w] = "bind"
    /\ atp[w] < MaxTries
    /\ \E r \in BindResults(slot[w]) : r < 0
    /\ atp' = [atp EXCEPT ![w] = @ + 1]
    /\ UNCHANGED <<table, kernel, pc, run, slot, peer, tcps, conn, left, dir>>

BindOk(w) ==
    /\ pc[w] = "bind"
    /\ atp[w] # MaxTries
    /\ Fd \in BindResults(slot[w])
    /\ holder' = [holder EXCEPT ![slot[w]] = w]
    /\ tcps' = [tcps EXCEPT ![w] = Fd]
    /\ Goto(w, "publish")
    /\ UNCHANGED <<table, timeWait, offers>>
    /\ UNCHANGED <<run, slot, peer, atp, conn, left, dir>>

(* The sixth attempt succeeds: atp is 5, which the code takes for failure, *)
(* so the child returns with the port bound.                               *)
BindLate(w) ==
    /\ pc[w] = "bind"
    /\ atp[w] = MaxTries
    /\ Fd \in BindResults(slot[w])
    /\ holder' = [holder EXCEPT ![slot[w]] = w]
    /\ ReturnToMain(w)
    /\ UNCHANGED <<table, timeWait, offers, run, atp, tcps, conn, left, dir>>

(* The sixth attempt fails: atp is 6 and the worker goes on without a      *)
(* socket.                                                                 *)
BindNever(w) ==
    /\ pc[w] = "bind"
    /\ atp[w] = MaxTries
    /\ \E r \in BindResults(slot[w]) :
         /\ r < 0
         /\ tcps' = [tcps EXCEPT ![w] = r]
    /\ atp' = [atp EXCEPT ![w] = @ + 1]
    /\ Goto(w, "publish")
    /\ UNCHANGED <<table, kernel, run, slot, peer, conn, left, dir>>

Publish(w) ==
    /\ pc[w] = "publish"
    /\ sock' = [sock EXCEPT ![slot[w]] = tcps[w]]
    /\ Goto(w, "accept")
    /\ UNCHANGED <<pidOf, status, client, nof, ft, kernel, local>>

(* listen() and accept(), which has no timeout: whoever was told this port *)
(* and still tries gets the connection.                                    *)
Accept(w) ==
    /\ pc[w] = "accept"
    /\ tcps[w] = Fd
    /\ \E c \in Clients :
         /\ <<c, slot[w]>> \in offers
         /\ offers' = offers \ {<<c, slot[w]>>}
         /\ peer' = [peer EXCEPT ![w] = c]
    /\ conn' = [conn EXCEPT ![w] = "up"]
    /\ Goto(w, "header")
    /\ UNCHANGED <<table, holder, timeWait, run, slot, atp, tcps, left, dir>>

AcceptFails(w) ==
    /\ pc[w] = "accept"
    /\ tcps[w] # Fd
    /\ conn' = [conn EXCEPT ![w] = "bad"]
    /\ Goto(w, "header")
    /\ UNCHANGED <<table, kernel, run, slot, peer, atp, tcps, left, dir>>

(* recv_tcp(): whole, or -1, or looping for ever once recv() returns 0.    *)
(* After a reset has been reported the next recv() returns 0.              *)
Arrives(w) == conn[w] = "up"
RecvFails(w) == conn[w] \in {"bad", "reset"}
AfterRecv(w) == [conn EXCEPT ![w] = IF @ = "reset" THEN "eof" ELSE @]

Spin(w) ==
    /\ pc[w] \in {"header", "file", "body"}
    /\ conn[w] = "eof"
    /\ Goto(w, "spin")
    /\ UNCHANGED <<table, kernel, local>>

(* The backup's header; the result of recv_tcp() is not tested, so after   *)
(* an error the number of files is whatever the stack held.                *)
Header(w) ==
    /\ pc[w] = "header"
    /\ Arrives(w) \/ RecvFails(w)
    /\ \E n \in 0 .. MaxFiles :
         /\ nof' = [nof EXCEPT ![slot[w]] = n]
         /\ left' = [left EXCEPT ![w] = n]
    /\ conn' = AfterRecv(w)
    /\ Goto(w, "count")
    /\ UNCHANGED <<sock, pidOf, status, client, ft, kernel>>
    /\ UNCHANGED <<run, slot, peer, atp, tcps, dir>>

(* Mutant of ResetCount: filesTransferred keeps what the last backup left. *)
ResetCountNot(w) ==
    /\ pc[w] = "count"
    /\ Goto(w, "store")
    /\ UNCHANGED <<table, kernel, local>>

(* The second of the two writes; a GET may come between them.              *)
ResetCount(w) ==
    /\ pc[w] = "count"
    /\ ft' = [ft EXCEPT ![slot[w]] = 0]
    /\ Goto(w, "store")
    /\ UNCHANGED <<sock, pidOf, status, client, nof, kernel, local>>

(* The directory and its head.hd, named after the client the table holds   *)
(* now; without head.hd the worker goes to its end.                        *)
Store(w) ==
    /\ pc[w] = "store"
    /\ dir' = [dir EXCEPT ![w] = client[slot[w]]]
    /\ \/ Goto(w, "wait")
       \/ "disk" \in Faults /\ Goto(w, "close")
    /\ UNCHANGED <<table, kernel, run, slot, peer, atp, tcps, conn, left>>

(* Mutant of NextFile: the test of the pause is inverted.                  *)
NextFileInverted(w) ==
    /\ pc[w] = "wait"
    /\ left[w] > 0
    /\ status[slot[w]] # 0
    /\ Goto(w, "file")
    /\ UNCHANGED <<table, kernel, local>>

(* The head of the files' loop, which waits while the slot is paused. *)
NextFile(w) ==
    /\ pc[w] = "wait"
    /\ left[w] > 0
    /\ status[slot[w]] = 0
    /\ Goto(w, "file")
    /\ UNCHANGED <<table, kernel, local>>

LastFile(w) ==
    /\ pc[w] = "wait"
    /\ left[w] = 0
    /\ Goto(w, "close")
    /\ UNCHANGED <<table, kernel, local>>

FileHeader(w) ==
    /\ pc[w] = "file"
    /\ Arrives(w)
    /\ Goto(w, "body")
    /\ UNCHANGED <<table, kernel, local>>

FileHeaderFails(w) ==
    /\ pc[w] = "file"
    /\ RecvFails(w)
    /\ conn' = AfterRecv(w)
    /\ Goto(w, "close")
    /\ UNCHANGED <<table, kernel, run, slot, peer, atp, tcps, left, dir>>

(* The file cannot be opened: "continue" when it is stored as it is, a     *)
(* return when it would be compressed.                                     *)
OpenFails(w) ==
    /\ pc[w] = "file"
    /\ Arrives(w)
    /\ "disk" \in Faults
    /\ left' = [left EXCEPT ![w] = @ - 1]
    /\ Goto(w, "wait")
    /\ UNCHANGED <<table, kernel, run, slot, peer, atp, tcps, conn, dir>>

OpenZipFails(w) ==
    /\ pc[w] = "file"
    /\ Arrives(w)
    /\ "disk" \in Faults
    /\ ToZip
    /\ ReturnToMain(w)
    /\ UNCHANGED <<table, kernel, run, atp, tcps, conn, left, dir>>

Body(w) ==
    /\ pc[w] = "body"
    /\ Arrives(w)
    /\ ft' = [ft EXCEPT ![slot[w]] = @ + 1]
    /\ left' = [left EXCEPT ![w] = @ - 1]
    /\ Goto(w, "wait")
    /\ UNCHANGED <<sock, pidOf, status, client, nof, kernel>>
    /\ UNCHANGED <<run, slot, peer, atp, tcps, conn, dir>>

(* -1 becomes the largest size_t: the "reciv <= 0" of the loop misses it   *)
(* and that many bytes are written from a small buffer.  The process may   *)
(* survive this, and then waits for the file's rest, or die of it.         *)
BodyFails(w) ==
    /\ pc[w] = "body"
    /\ RecvFails(w)
    /\ \/ /\ conn' = AfterRecv(w)
          /\ UNCHANGED <<holder, pc, run, slot, peer, atp, tcps, left, dir>>
       \/ Die({w}, slot)
    /\ UNCHANGED <<table, timeWait, offers>>

Close(w) ==
    /\ pc[w] = "close"
    /\ holder' = [s \in Slots |-> IF holder[s] = w THEN NoPid ELSE holder[s]]
    /\ \/ timeWait' = timeWait
       \/ /\ "timewait" \in Faults
          /\ conn[w] = "up"
          /\ timeWait' = [timeWait EXCEPT ![slot[w]] = TRUE]
    /\ conn' = [conn EXCEPT ![w] = "none"]
    /\ Goto(w, "free")
    /\ UNCHANGED <<table, offers, run, slot, peer, atp, tcps, left, dir>>

(* Mutants of GiveBack: exit() comes before the slot is freed; the child   *)
(* returns instead of exiting.                                             *)
ExitFirst(w) ==
    /\ pc[w] = "free"
    /\ Die({w}, slot)
    /\ UNCHANGED <<table, timeWait, offers>>

FreeAndReturn(w) ==
    /\ pc[w] = "free"
    /\ sock' = [sock EXCEPT ![slot[w]] = Free]
    /\ ReturnToMain(w)
    /\ UNCHANGED <<pidOf, status, client, nof, ft, kernel>>
    /\ UNCHANGED <<run, atp, tcps, conn, left, dir>>

(* The slot is given back and the process exits; pause and counters stay.  *)
GiveBack(w) ==
    /\ pc[w] = "free"
    /\ sock' = [sock EXCEPT ![slot[w]] = Free]
    /\ Die({w}, slot)
    /\ UNCHANGED <<pidOf, status, client, nof, ft, timeWait, offers>>

-----------------------------------------------------------------------------
(* The end of main() *)

(* SIGHUP from a terminal reaches Main only, SIGINT the whole group. *)
Signal ==
    /\ "signal" \in Faults
    /\ \E T \in {{Main}, Procs} :
         run' = [p \in Procs |-> IF p \in T THEN FALSE ELSE run[p]]
    /\ UNCHANGED <<table, kernel, pc, slot, peer, atp, tcps, conn, left, dir>>

(* recvfrom() returns on the socket intHandler() shut down. *)
WakeUp(d) ==
    /\ pc[d] = "recv"
    /\ ~run[d]
    /\ ReturnToMain(d)
    /\ UNCHANGED <<table, kernel, run, atp, tcps, conn, left, dir>>

(* One round of the shutdown loop, slot[d] being its index: the process    *)
(* the table names is killed, the whole group when the pid is still 0.     *)
Kill(d) ==
    /\ pc[d] = "kill"
    /\ slot[d] \in Slots
    /\ LET victims == IF pidOf[slot[d]] = NoPid THEN Procs
                                                ELSE {pidOf[slot[d]]}
       IN \/ /\ sock[slot[d]] = Free
             /\ slot' = [slot EXCEPT ![d] = @ + 1]
             /\ UNCHANGED <<holder, pc, run, peer, atp, tcps, conn, left, dir>>
          \/ /\ sock[slot[d]] # Free
             /\ Die(victims, [slot EXCEPT ![d] = @ + 1])
    /\ UNCHANGED <<table, timeWait, offers>>

Exit(d) ==
    /\ pc[d] = "kill"
    /\ slot[d] = Interval
    /\ Die({d}, slot)
    /\ UNCHANGED <<table, timeWait, offers>>

-----------------------------------------------------------------------------
(* The clients and the network *)

PeerCloses(w) ==
    /\ "eof" \in Faults
    /\ conn[w] = "up"
    /\ conn' = [conn EXCEPT ![w] = "eof"]
    /\ UNCHANGED <<table, kernel, pc, run, slot, peer, atp, tcps, left, dir>>

PeerResets(w) ==
    /\ "reset" \in Faults
    /\ conn[w] = "up"
    /\ conn' = [conn EXCEPT ![w] = "reset"]
    /\ UNCHANGED <<table, kernel, pc, run, slot, peer, atp, tcps, left, dir>>

PeerVanishes(w) ==
    /\ "silent" \in Faults
    /\ conn[w] = "up"
    /\ conn' = [conn EXCEPT ![w] = "silent"]
    /\ UNCHANGED <<table, kernel, pc, run, slot, peer, atp, tcps, left, dir>>

ClientGivesUp(c, s) ==
    /\ "giveup" \in Faults
    /\ <<c, s>> \in offers
    /\ offers' = offers \ {<<c, s>>}
    /\ UNCHANGED <<table, holder, timeWait, pc, local>>

PortCoolsDown(s) ==
    /\ timeWait[s]
    /\ timeWait' = [timeWait EXCEPT ![s] = FALSE]
    /\ UNCHANGED <<table, holder, offers, pc, local>>

-----------------------------------------------------------------------------
Request(d) == \E c \in Clients : RecvBackup(d, c)
Command(d) == \E s \in Slots : Toggle(d, s) \/ Stop(d, s)
Handle(d) == \/ Reserve(d) \/ (\E w \in Workers : Fork(d, w)) \/ ForkFails(d)
             \/ WakeUp(d) \/ Kill(d) \/ Exit(d)

Bind(w) == BindAgain(w) \/ BindOk(w) \/ BindLate(w) \/ BindNever(w)
Receive(w) == \/ Spin(w) \/ Header(w) \/ ResetCount(w)
              \/ FileHeader(w) \/ FileHeaderFails(w) \/ OpenFails(w)
              \/ OpenZipFails(w) \/ Body(w) \/ BodyFails(w)
Serve(w) == \/ Start(w) \/ Bind(w) \/ Publish(w) \/ Accept(w) \/ AcceptFails(w)
            \/ Receive(w) \/ Store(w) \/ NextFile(w) \/ LastFile(w)
            \/ Close(w) \/ GiveBack(w)

Environment ==
    \/ Signal
    \/ \E w \in Workers : PeerCloses(w) \/ PeerResets(w) \/ PeerVanishes(w)
    \/ \E c \in Clients, s \in Slots : ClientGivesUp(c, s)
    \/ \E s \in Slots : PortCoolsDown(s)

Next == \/ \E d \in Procs : Request(d) \/ Command(d) \/ Handle(d)
        \/ \E w \in Workers : Serve(w)
        \/ Environment

Spec == Init /\ [][Next]_vars

(* The system schedules every process, a client that was told a port keeps *)
(* connecting to it and then sends what it announced.                      *)
Fairness == /\ \A d \in Procs : WF_vars(Handle(d))
            /\ \A w \in Workers : WF_vars(Serve(w))

FairSpec == Spec /\ Fairness

-----------------------------------------------------------------------------
TypeOK ==
    /\ sock \in [Slots -> {Free, BindFailed, Reserved, Fd}]
    /\ pidOf \in [Slots -> Procs \cup {NoPid}]
    /\ status \in [Slots -> {0, 1}]
    /\ client \in [Slots -> Clients \cup {NoClient}]
    /\ nof \in [Slots -> Nat]
    /\ ft \in [Slots -> Nat]
    /\ holder \in [Slots -> Procs \cup {NoPid}]
    /\ timeWait \in [Slots -> BOOLEAN]
    /\ offers \subseteq Clients \X Slots
    /\ pc \in [Procs -> DispatchPC \cup WorkerPC \cup DeadPC]
    /\ run \in [Procs -> BOOLEAN]
    /\ slot \in [Procs -> Slots \cup {NoSlot, Interval}]
    /\ peer \in [Procs -> Clients \cup {NoClient}]
    /\ atp \in [Procs -> 0 .. MaxTries + 1]
    /\ tcps \in [Procs -> {BindFailed, Reserved, Fd}]
    /\ conn \in [Procs -> {"none", "up", "reset", "eof", "silent", "bad"}]
    /\ left \in [Procs -> Nat]
    /\ dir \in [Procs -> Clients \cup {NoClient}]
    /\ pc[Main] \notin WorkerPC
    /\ \A p \in Procs :
         /\ pc[p] \in WorkerPC \cup {"reserve", "fork"} => slot[p] \in Slots
         /\ pc[p] \in {"file", "body"} => left[p] > 0

(* No two worker processes serve on the same slot: getSlot() and the marks *)
(* newBackup() leaves in backupThread.socket keep them apart.              *)
SlotExclusive ==
    \A p, q \in LiveWorkers : slot[p] = slot[q] => p = q

(* README: interval is the greatest number of processes at work at once.   *)
WithinInterval == Cardinality(LiveWorkers) <= Interval

(* main()'s loop is run by the process main() started in: no child of      *)
(* newBackup() ever comes back to it.                                      *)
OnlyMainDispatches == Dispatchers \subseteq {Main}

(* A backup is kept in a directory named after the host it came from, not  *)
(* after another host the table named when the directory was made.         *)
StoredForPeer ==
    \A w \in LiveWorkers :
        conn[w] = "up" /\ pc[w] \in {"wait", "file", "body", "close"}
            => dir[w] = peer[w]

(* A slot is only marked while some process will give it back: a live      *)
(* worker of that slot, or the dispatcher about to fork one.               *)
NoLeak ==
    \A s \in Slots : sock[s] # Free =>
        \/ \E w \in LiveWorkers : slot[w] = s
        \/ \E d \in Dispatchers : pc[d] = "fork" /\ slot[d] = s

(* The progress a monitor can read passes its end only between the two     *)
(* writes with which a worker begins its count: the old count stands       *)
(* beside the new number until that worker's next step, never longer, and  *)
(* no backup that ended or broke off leaves it so behind.                  *)
NeverPastTheEnd ==
    pc[Main] \notin {"kill", "exit"} =>
        \A s \in Slots : ft[s] > nof[s] =>
            \E w \in LiveWorkers : slot[w] = s /\ pc[w] = "count"

(* At most one process receives on the connections of a slot, whatever     *)
(* fails: the kernel gives the port to one process at a time.              *)
OneReceiver ==
    \A p, q \in LiveWorkers :
        conn[p] = "up" /\ conn[q] = "up" /\ slot[p] = slot[q] => p = q

(* The slots keep the promise of SlotPool. *)
Owners == [s \in Slots |-> {w \in LiveWorkers : slot[w] = s}]
Pool == INSTANCE SlotPool WITH owners <- Owners
PoolSpec == Pool!Spec

(* A slot that is taken is given back, unless the manager leaves it paused.*)
SlotReturned ==
    \A s \in Slots :
        <>[](status[s] = 0) => [](sock[s] # Free => <>(sock[s] = Free))

(* A client that was told a port gets its connection, paused or not.       *)
OfferAccepted ==
    \A c \in Clients, s \in Slots :
        [](<<c, s>> \in offers => <>(<<c, s>> \notin offers))
=============================================================================
