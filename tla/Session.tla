------------------------------ MODULE Session -------------------------------
(***************************************************************************)
(* One client machine and the backup server: main(), askIdentity(),        *)
(* savePkey() and newBak() of src/src/client.cpp, the answers of           *)
(* src/src/server.cpp, the UDP datagrams between them and the connection   *)
(* to a worker.  The client program is started again and again, as from a  *)
(* timer; what stays is the key file and what the server remembers.        *)
(*                                                                         *)
(* The client's socket is not connected and no datagram carries a mark of  *)
(* the question it answers: every recvfrom() takes whatever comes next.    *)
(* A datagram is abstracted to its kind; of the bytes of a wrong one the   *)
(* model keeps that they make a wild length or port.  A file is one item   *)
(* of the connection, which holds so many and then makes send() wait.      *)
(***************************************************************************)
EXTENDS Integers, Sequences, SequencesExt

CONSTANTS
    Retries,     \* retries of tcp.c
    MaxSlots,    \* the largest interval in Settings
    MaxCopies,   \* bound: how many datagrams arrive twice
    MaxToggles,  \* bound: how often a slot is paused or goes on
    Settings     \* the installations and environments looked at

FaultKinds == { "loss",         \* a datagram is lost
                "delay",        \* an answer takes longer than the time-out
                "reorder",      \* datagrams overtake each other
                "duplicate",    \* a datagram arrives twice
                "slow",         \* a worker is not listening in time
                "unreadable",   \* a listed file cannot be opened
                "pause",        \* the manager pauses slots and lets them go on
                "disk" }        \* the key file cannot be written

ASSUME SessionConstants ==
    /\ Retries \in Nat \ {0} /\ {MaxCopies, MaxToggles} \subseteq Nat
    /\ \A x \in Settings : /\ {x.files, x.slots, x.runs} \subseteq Nat
                           /\ x.room \in Nat \ {0}
                           /\ x.faults \subseteq FaultKinds

VARIABLE setting   \* one of Settings, the same all the time

NFiles == setting.files      \* fileNumbers of the client's list
Interval == setting.slots    \* configs.port_interval
Room == setting.room         \* bound: items the connection's buffers hold
MaxRuns == setting.runs      \* bound: how often the client program is started
Faults == setting.faults     \* which of FaultKinds the environment may show

Runs == 1 .. MaxRuns
Slots == 0 .. Interval - 1
Wild == -7         \* the first bytes of a datagram that is no port
NoPort == -1
NotYet == 99       \* a run that has not ended
Crashed == 139
Nothing == "nothing"   \* what a recvfrom() that timed out leaves

VARIABLES
    \* the datagrams under way, oldest first
    \* and how many were doubled so far
    toServer, toClient, copies,
    keyFile,   \* archive/<server>.public
    \* the client: step, the run, what askIdentity() returns, whether
    \* answ.nextLenght is what was sent, the parts of the key, port, tries
    \* of connect(), whether connected, the next file
    pc, run, res, lengthOk, parts, port, tries, tcp, cf,
    code,      \* the exit code of every run
    sent,      \* files each run put into its connection
    \* the server: step of every slot's worker, the socket that asked for it
    \* (the run's; processi[].client), whether it is paused, the run it
    \* serves, files it waits for; its connection's data, and whether the
    \* client closed it
    worker, askedBy, paused, serves, left, stream, closed,
    toggles,   \* how often a slot was paused or went on
    stored     \* files stored for every run

udp == <<toServer, toClient, copies>>
client == <<pc, run, res, lengthOk, parts, port, tries, tcp, cf>>
slots == <<askedBy, paused, toggles>>
server == <<slots, worker, serves, left, stream, closed, stored>>
vars == <<setting, udp, keyFile, client, code, sent, server>>

Init ==
    /\ setting \in Settings
    /\ toServer = <<>> /\ toClient = <<>> /\ copies = 0
    /\ keyFile = "none"
    /\ pc = "idle" /\ run = 0 /\ res = 0 /\ lengthOk = FALSE
    /\ parts = <<>> /\ port = NoPort /\ tries = 0 /\ tcp = FALSE /\ cf = 1
    /\ code = [r \in Runs |-> NotYet]
    /\ sent = [r \in Runs |-> 0]
    /\ worker = [s \in Slots |-> "free"]
    /\ askedBy = [s \in Slots |-> 0]
    /\ paused = [s \in Slots |-> FALSE]
    /\ toggles = 0
    /\ serves = [s \in Slots |-> 0]
    /\ left = [s \in Slots |-> 0]
    /\ stream = [s \in Slots |-> <<>>]
    /\ closed = [s \in Slots |-> FALSE]
    /\ stored = [r \in Runs |-> 0]

-----------------------------------------------------------------------------
(* The network *)

Part(kind) == [kind |-> kind, port |-> NoPort]
PortIs(s) == [kind |-> "port", port |-> s]

Ask(kind) == toServer' = Append(toServer, [kind |-> kind, run |-> run])

(* An answer goes to the socket the request came from; nobody holds it any *)
(* more when that run has ended.                                           *)
Answer(r, ds) ==
    toClient' = IF r = run /\ pc # "idle" THEN toClient \o ds ELSE toClient

(* The positions of the datagrams that may be the next to arrive. *)
Arrivals(q) == IF "reorder" \in Faults THEN DOMAIN q ELSE DOMAIN q \cap {1}

(* Mutant of TimesOut: recvfrom() waits for ever. *)
WaitsForEver == FALSE

(* SO_RCVTIMEO passes.  Without delays that means nothing is under way.    *)
TimesOut ==
    \/ "delay" \in Faults
    \/ toClient = <<>> /\ \A i \in DOMAIN toServer : toServer[i].run # run

(* One recvfrom() of the client: d is what it gets, or Nothing.            *)
Receives(d) ==
    \/ TimesOut /\ d = Part(Nothing) /\ UNCHANGED toClient
    \/ \E i \in Arrivals(toClient) : d = toClient[i] /\ toClient' = RemoveAt(toClient, i)

Datagrams ==
    {Part(k) : k \in {Nothing, "answ", "sig", "lengths", "n", "e"}}
        \cup {PortIs(s) : s \in Slots}

Lose ==
    /\ "loss" \in Faults
    /\ \/ \E i \in DOMAIN toServer :
              toServer' = RemoveAt(toServer, i) /\ UNCHANGED toClient
       \/ \E i \in DOMAIN toClient :
              toClient' = RemoveAt(toClient, i) /\ UNCHANGED toServer
    /\ UNCHANGED <<copies, keyFile, client, code, sent, server>>

(* The datagram sent last arrives twice. *)
Duplicate ==
    /\ "duplicate" \in Faults /\ copies < MaxCopies
    /\ copies' = copies + 1
    /\ \/ /\ toServer # <<>>
          /\ toServer' = Append(toServer, Last(toServer)) /\ UNCHANGED toClient
       \/ /\ toClient # <<>>
          /\ toClient' = Append(toClient, Last(toClient)) /\ UNCHANGED toServer
    /\ UNCHANGED <<keyFile, client, code, sent, server>>

-----------------------------------------------------------------------------
(* The client: from the start to the request *)

(* The run ends and its sockets are closed. *)
End(c) ==
    /\ pc' = "idle"
    /\ code' = [code EXCEPT ![run] = c]
    /\ toClient' = <<>>
    /\ closed' = [s \in Slots |-> closed[s] \/ (serves[s] = run /\ tcp)]
    /\ UNCHANGED <<toServer, copies, keyFile, run, res, lengthOk, parts, port,
                   tries, tcp, cf, sent, slots,
                   worker, serves, left, stream, stored>>

(* main() up to the question of askIdentity().  A key file that is missing *)
(* or lacks its second line sets errorHappened: -10, nothing is sent.      *)
Start ==
    /\ pc = "idle" /\ run < MaxRuns
    /\ run' = run + 1
    /\ port' = NoPort /\ tries' = 0 /\ tcp' = FALSE /\ cf' = 1 /\ parts' = <<>>
    /\ lengthOk' = FALSE
    /\ IF keyFile \in {"none", "half"}
       THEN /\ res' = -10 /\ pc' = "prompt"
            /\ UNCHANGED toServer
       ELSE /\ res' = 0 /\ pc' = "answ"
            /\ toServer' = Append(toServer, [kind |-> "id", run |-> run + 1])
    /\ UNCHANGED <<toClient, copies, keyFile, code, sent, server>>

(* One byte less than the structure is asked for, so the length's highest  *)
(* byte is what the stack held, even when the right answer arrives.        *)
RecvAnsw ==
    /\ pc = "answ"
    /\ \E d \in Datagrams :
        /\ Receives(d)
        /\ lengthOk' \in {FALSE, d.kind = "answ"}
    /\ pc' = "sig"
    /\ UNCHANGED <<toServer, copies, keyFile, run, res, parts, port, tries, tcp,
                   cf, code, sent, server>>

(* A wild length makes the array number[] too large for the stack.         *)
WildLength ==
    /\ pc = "sig" /\ ~lengthOk
    /\ End(Crashed)

(* What askIdentity() can return: with a wild length the signature is      *)
(* followed by whatever the array held.                                    *)
Verdict(d) ==
    IF keyFile = "good" /\ d.kind = "sig"
    THEN IF lengthOk THEN {1} ELSE {0, 1}
    ELSE {0}

RecvSig ==
    /\ pc = "sig"
    /\ \E d \in Datagrams : Receives(d) /\ res' \in Verdict(d)
    /\ pc' = IF res' > 0 THEN "ask" ELSE "prompt"
    /\ UNCHANGED <<toServer, copies, keyFile, run, lengthOk, parts, port, tries,
                   tcp, cf, code, sent, server>>

(* A stored modulus that reads as 0 divides by zero.                       *)
WildKey ==
    /\ pc = "sig" /\ keyFile = "wrong"
    /\ End(Crashed)

(* "Continue? [y/N]" *)
GoOn ==
    /\ pc = "prompt"
    /\ IF res = -10 THEN Ask("pk") /\ pc' = "key" ELSE pc' = "ask" /\ UNCHANGED toServer
    /\ UNCHANGED <<toClient, copies, keyFile, run, res, lengthOk, parts, port,
                   tries, tcp, cf, code, sent,
                   server>>

GiveUp == pc = "prompt" /\ End(40)

-----------------------------------------------------------------------------
(* The client: savePkey() *)

(* What can stand in the file after the three answers ps.  The second line *)
(* is empty when the third answer timed out; a wrong first answer gives    *)
(* wild lengths, which cut the other two anywhere.                         *)
SavedKey(ps) ==
    CASE ps[3] = Nothing -> {"half"}
      [] ps[1] = "lengths" /\ ps[3] # Nothing ->
            {IF ps[2] = "n" /\ ps[3] = "e" THEN "good" ELSE "wrong"}
      [] OTHER -> {"half", "wrong"} \cup (IF ps[2] = "n" /\ ps[3] = "e" THEN {"good"} ELSE {})

RecvKeyPart ==
    /\ pc = "key" /\ Len(parts) < 3
    /\ \E d \in Datagrams : Receives(d) /\ parts' = Append(parts, d.kind)
    /\ UNCHANGED <<toServer, copies, keyFile, pc, run, res, lengthOk, port, tries,
                   tcp, cf, code, sent, server>>

(* Buffers of a wild length cannot be had: bzero() of a null pointer.      *)
WildKeyLength ==
    /\ pc = "key" /\ Len(parts) = 1 /\ parts[1] # "lengths"
    /\ End(Crashed)

SaveKey ==
    /\ pc = "key" /\ Len(parts) = 3
    /\ \/ keyFile' \in SavedKey(parts)
       \/ "disk" \in Faults /\ UNCHANGED keyFile
    /\ pc' = "ask"
    /\ UNCHANGED <<udp, run, res, lengthOk, parts, port, tries, tcp, cf, code,
                   sent, server>>

-----------------------------------------------------------------------------
(* The client: the request and the backup *)

AskBackup ==
    /\ pc = "ask"
    /\ Ask("ba")
    /\ pc' = "port"
    /\ UNCHANGED <<toClient, copies, keyFile, run, res, lengthOk, parts, port,
                   tries, tcp, cf, code, sent,
                   server>>

(* Mutant of PortOf: only a datagram that times out is no port, and the    *)
(* slots are counted from 1.                                               *)
PortOfShifted(d) ==
    IF d.kind = "port" THEN (d.port + 1) % Interval ELSE Wild

(* The first four bytes of any datagram are a port. *)
PortOf(d) == IF d.kind = "port" THEN d.port ELSE Wild

RecvPort ==
    /\ pc = "port"
    /\ \E d \in Datagrams \ {Part(Nothing)} : Receives(d) /\ port' = PortOf(d)
    /\ pc' = "connect"
    /\ UNCHANGED <<toServer, copies, keyFile, run, res, lengthOk, parts, tries,
                   tcp, cf, code, sent, server>>

NoPortComes == pc = "port" /\ TimesOut /\ End(-10)

Listens(s) == s \in Slots /\ worker[s] = "listen"

Connect ==
    /\ pc = "connect" /\ Listens(port)
    /\ tcp' = TRUE /\ pc' = "header"
    /\ worker' = [worker EXCEPT ![port] = "header"]
    /\ serves' = [serves EXCEPT ![port] = run]
    /\ UNCHANGED <<udp, keyFile, run, res, lengthOk, parts, port, tries, cf, code,
                   sent, slots, left,
                   stream, closed, stored>>

(* Nobody listens: again after delayms.  Unless workers may be slow, one   *)
(* that starts is bound before the last attempt.                           *)
Refused ==
    /\ pc = "connect" /\ ~Listens(port)
    /\ port \in Slots /\ worker[port] = "start" => "slow" \in Faults \/ tries + 1 < Retries
    /\ tries' = tries + 1
    /\ pc' = IF tries' = Retries THEN "header" ELSE "connect"
    /\ UNCHANGED <<udp, keyFile, run, res, lengthOk, parts, port, tcp, cf, code,
                   sent, server>>

(* Mutant of Put: what is sent is lost when nobody reads it yet.           *)
PutIfRead(item) ==
    /\ tcp => Len(stream[port]) < Room
    /\ stream' = IF tcp /\ stream[port] = <<>>
                 THEN [stream EXCEPT ![port] = Append(@, item)] ELSE stream

(* send(): it has no time-out and waits while the buffers are full.        *)
(* Without a connection it returns -1, which is not below an unsigned      *)
(* size: the client goes on.                                               *)
Put(item) ==
    /\ tcp => Len(stream[port]) < Room
    /\ stream' = IF tcp THEN [stream EXCEPT ![port] = Append(@, item)] ELSE stream

SendHeader ==
    /\ pc = "header"
    /\ Put("head")
    /\ pc' = "files"
    /\ UNCHANGED <<udp, keyFile, run, res, lengthOk, parts, port, tries, tcp, cf,
                   code, sent, slots,
                   worker, serves, left, closed, stored>>

OpenFile ==
    /\ pc = "files" /\ cf <= NFiles
    /\ pc' = "send"
    /\ UNCHANGED <<udp, keyFile, run, res, lengthOk, parts, port, tries, tcp, cf,
                   code, sent, server>>

SendFile ==
    /\ pc = "send"
    /\ cf' = cf + 1
    /\ Put("file")
    /\ sent' = IF tcp THEN [sent EXCEPT ![run] = @ + 1] ELSE sent
    /\ pc' = "files"
    /\ UNCHANGED <<udp, keyFile, run, res, lengthOk, parts, port, tries, tcp,
                   code, slots,
                   worker, serves, left, closed, stored>>

SkipFile ==
    /\ pc = "files" /\ cf <= NFiles
    /\ "unreadable" \in Faults
    /\ cf' = cf + 1
    /\ UNCHANGED <<udp, keyFile, pc, run, res, lengthOk, parts, port, tries, tcp,
                   code, sent, server>>

Finish == pc = "files" /\ cf > NFiles /\ End(0)

ClientStep ==
    \/ RecvAnsw \/ WildLength \/ RecvSig \/ WildKey \/ GoOn \/ GiveUp
    \/ RecvKeyPart \/ WildKeyLength \/ SaveKey
    \/ AskBackup \/ RecvPort \/ NoPortComes \/ Connect \/ Refused
    \/ SendHeader \/ OpenFile \/ SendFile \/ SkipFile \/ Finish

-----------------------------------------------------------------------------
(* The server *)

IsFree(s) == worker[s] = "free" /\ \A t \in Slots : t < s => worker[t] # "free"

(* Mutant of KeyAnswer: the exponent is sent before the modulus.           *)
KeyAnswerSwapped == <<Part("lengths"), Part("e"), Part("n")>>

(* sendPkey() and sendIdentification() *)
KeyAnswer == <<Part("lengths"), Part("n"), Part("e")>>
IdAnswer == <<Part("answ"), Part("sig")>>

(* main()'s loop handles the request at position i.  A request for a       *)
(* backup without a free slot is not answered.                             *)
Handle(i) ==
    LET q == toServer[i]
    IN  /\ toServer' = RemoveAt(toServer, i)
        /\ \/ q.kind = "id" /\ Answer(q.run, IdAnswer) /\ UNCHANGED <<worker, askedBy>>
           \/ q.kind = "pk" /\ Answer(q.run, KeyAnswer) /\ UNCHANGED <<worker, askedBy>>
           \/ /\ q.kind = "ba"
              /\ \E s \in Slots :
                    /\ IsFree(s)
                    /\ Answer(q.run, <<PortIs(s)>>)
                    /\ worker' = [worker EXCEPT ![s] = "start"]
                    /\ askedBy' = [askedBy EXCEPT ![s] = q.run]
           \/ /\ q.kind = "ba" /\ \A s \in Slots : worker[s] # "free"
              /\ UNCHANGED <<toClient, worker, askedBy>>
        /\ UNCHANGED <<copies, keyFile, client, code, sent, paused, toggles, serves,
                       left, stream, closed, stored>>

(* A manager's TOG: the pause of a slot, whoever works on it.              *)
Toggle(s) ==
    /\ "pause" \in Faults /\ toggles < MaxToggles
    /\ toggles' = toggles + 1
    /\ paused' = [paused EXCEPT ![s] = ~@]
    /\ UNCHANGED <<udp, keyFile, client, code, sent, worker, askedBy, serves, left,
                   stream, closed, stored>>

Dispatch == \E i \in Arrivals(toServer) : Handle(i)

(* The worker binds its port and waits in accept(), without a time-out.    *)
Listen(s) ==
    /\ worker[s] = "start"
    /\ worker' = [worker EXCEPT ![s] = "listen"]
    /\ UNCHANGED <<udp, keyFile, client, code, sent, slots, serves, left, stream,
                   closed, stored>>

RecvHead(s) ==
    /\ worker[s] = "header" /\ stream[s] # <<>>
    /\ stream' = [stream EXCEPT ![s] = Tail(@)]
    /\ left' = [left EXCEPT ![s] = NFiles]
    /\ worker' = [worker EXCEPT ![s] = "wait"]
    /\ UNCHANGED <<udp, keyFile, client, code, sent, slots, serves, closed, stored>>

(* The head of the files' loop: no file is taken while the slot is paused. *)
NextFile(s) ==
    /\ worker[s] = "wait" /\ left[s] > 0 /\ ~paused[s]
    /\ worker' = [worker EXCEPT ![s] = "file"]
    /\ UNCHANGED <<udp, keyFile, client, code, sent, slots, serves, left, stream,
                   closed, stored>>

RecvFile(s) ==
    /\ worker[s] = "file" /\ stream[s] # <<>>
    /\ stream' = [stream EXCEPT ![s] = Tail(@)]
    /\ left' = [left EXCEPT ![s] = @ - 1]
    /\ stored' = [stored EXCEPT ![serves[s]] = @ + 1]
    /\ worker' = [worker EXCEPT ![s] = "wait"]
    /\ UNCHANGED <<udp, keyFile, client, code, sent, slots, serves, closed>>

(* All announced files came: both sockets are closed, the slot is free.    *)
(* A pause stays, for the next backup.                                     *)
Leave(s) ==
    /\ worker[s] = "wait" /\ left[s] = 0
    /\ worker' = [worker EXCEPT ![s] = "free"]
    /\ serves' = [serves EXCEPT ![s] = 0]
    /\ closed' = [closed EXCEPT ![s] = FALSE]
    /\ stream' = [stream EXCEPT ![s] = <<>>]
    /\ UNCHANGED <<udp, keyFile, client, code, sent, slots, left, stored>>

(* recv_tcp() takes the end of the stream for no progress and loops.       *)
Spin(s) ==
    /\ worker[s] \in {"header", "file"} /\ closed[s] /\ stream[s] = <<>>
    /\ worker' = [worker EXCEPT ![s] = "spin"]
    /\ UNCHANGED <<udp, keyFile, client, code, sent, slots, serves, left, stream,
                   closed, stored>>

Work(s) == \/ Listen(s) \/ RecvHead(s) \/ NextFile(s) \/ RecvFile(s) \/ Leave(s)
           \/ Spin(s)

Next ==
    /\ \/ Start \/ ClientStep \/ Dispatch \/ (\E s \in Slots : Work(s))
       \/ (\E s \in Slots : Toggle(s)) \/ Lose \/ Duplicate
    /\ UNCHANGED setting

Spec == Init /\ [][Next]_vars

(* The operating system runs both programs and somebody answers the        *)
(* prompt.  Nobody has to start the client, to pause a slot or to let it go  *)
(* on, and no fault has to happen.                                         *)
FairSpec ==
    /\ Spec
    /\ WF_vars(ClientStep /\ UNCHANGED setting)
    /\ WF_vars(Dispatch /\ UNCHANGED setting)
    /\ \A s \in 0 .. MaxSlots - 1 : WF_vars(s \in Slots /\ Work(s) /\ UNCHANGED setting)

-----------------------------------------------------------------------------
(* Properties *)

(* What arrives is answered in time, once, and in order. *)
InOrder == Faults \cap {"delay", "reorder", "duplicate"} = {}

(* savePkey() writes whatever arrived, yet lost datagrams alone never make *)
(* it keep a key that is not the server's: what is missing is missing at   *)
(* the end, and half a file is asked for again.                            *)
KeyNeverWrong == InOrder => keyFile # "wrong"

(* While no answer comes late, twice or out of order, the port the client  *)
(* connects to is the answer to its own request: the slot was given to the *)
(* socket of this very run, and its worker has not served anybody yet.     *)
PortAnswered ==
    pc = "connect" /\ InOrder
        => /\ port \in Slots /\ worker[port] \in {"start", "listen"}
           /\ askedBy[port] = run

(* send() waits for a worker that waits for the manager.                   *)
HeldByPause ==
    /\ pc = "send" /\ tcp /\ Len(stream[port]) >= Room
    /\ worker[port] = "wait" /\ paused[port]

(* Every start of the client comes to an end, with whatever code, unless   *)
(* its slot is left paused while it still has files to send: the waits for *)
(* datagrams have a time-out and the tries a bound, send() has neither.    *)
Ended(r) == r \in Runs /\ code[r] # NotYet
ClientEnds == \A r \in 1 .. 3 : run = r ~> Ended(r) \/ [](run = r /\ HeldByPause)

(* Where datagrams are only lost and the client connects and reads what it *)
(* announced, a client that returns 0 has its files stored, though it does *)
(* not wait for that, unless the slot is left paused for ever.             *)
PausedFor(r) == \E s \in Slots : serves[s] = r /\ worker[s] = "wait" /\ paused[s]
Returned(r) == r \in Runs /\ code[r] = 0
AllStored(r) == r \in Runs /\ stored[r] = NFiles
ReturnedIsStored ==
    \A r \in 1 .. 3 :
        Faults \subseteq {"loss", "disk", "pause"} /\ Returned(r)
            ~> AllStored(r) \/ []PausedFor(r)
=============================================================================
