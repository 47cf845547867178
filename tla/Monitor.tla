------------------------------ MODULE Monitor -------------------------------
(***************************************************************************)
(* The web monitor and the server's side of it: WebSocketServer.java,      *)
(* Connector.java, BackupThread.java and the page's onmessage handler      *)
(* (src/monitor/), and main()'s handling of 'mo' datagrams with            *)
(* src/src/commands.cpp.                                                   *)
(*                                                                         *)
(* Every browser has a session whose messages one thread handles in turn.  *)
(* All sessions use the Connector that getInstance() gives them, its one   *)
(* socket and its one receive buffer.  That the user is known is taken for *)
(* granted here (module Accounts).                                         *)
(***************************************************************************)
EXTENDS Integers, Sequences, FiniteSets, SequencesExt

CONSTANTS
    Connectors,   \* the objects `new Connector()' may give
    NoConnector,
    Interval,     \* configs.port_interval
    Base,         \* the 10 of %d, scaled
    Settings      \* the pages and environments looked at

ASSUME MonitorConstants ==
    /\ Interval \in Nat \ {0} /\ NoConnector \notin Connectors
    /\ \A e \in Settings : IsFiniteSet(e.sessions)

VARIABLE setting   \* one of Settings, the same all the time

Sessions == setting.sessions        \* browsers with the page open
DefaultPort == setting.defaultPort  \* whether the port is the 5577 of askStatus()
Lossy == setting.lossy              \* whether datagrams get lost
Backups == setting.backups          \* whether backup clients use the server's socket
MaxMessages == setting.messages     \* bound: messages each page sends
MaxChanges == setting.changes       \* bound: changes of the slots

Slots == 0 .. Interval - 1
Fd == 4
Gone == -10
Commands == {"TOG", "STP"}
Letter == -1     \* a byte that is no digit

(* What a record shows: the version stands for the fields control does    *)
(* not look at, each change of a slot has its own.                         *)
NoRecord == [slot |-> -1, sock |-> 0, status |-> 0, complete |-> FALSE, ver |-> 0]

VARIABLES
    instance, made,      \* Connector.instance, the connectors there are
    conn, spc, todo,     \* every session: its conn, step, messages to come
    len, rows, since,    \* len, ret of askStatus(), the versions when asked
    inbox, receiveData,  \* of every connector
    toServer,            \* datagrams on their way to the server
    task, buffer,        \* the server: its GET in progress, bytes of ricevuto
    table, changes       \* its slots

sessionVars == <<instance, made, conn, spc, todo, len, rows, since>>
serverVars == <<task, buffer, table, changes>>
vars == <<setting, sessionVars, inbox, receiveData, toServer, serverVars>>

Idle == [to |-> NoConnector, next |-> 0]

(* The digits %d prints or reads: one or two of them. *)
Digits(n) == IF n < Base THEN <<n>> ELSE <<n \div Base, n % Base>>

(* sscanf() reads digits up to the first letter. *)
Number(ds) == IF ds[2] = Letter THEN ds[1] ELSE Base * ds[1] + ds[2]

Init ==
    /\ setting \in Settings
    /\ instance = NoConnector /\ made = {}
    /\ conn = [s \in Sessions |-> NoConnector]
    /\ spc = [s \in Sessions |-> "closed"]
    /\ todo = [s \in Sessions |-> MaxMessages]
    /\ len = [s \in Sessions |-> 0]
    /\ rows = [s \in Sessions |-> <<>>]
    /\ since = [s \in Sessions |-> [i \in Slots |-> 0]]
    /\ inbox = [c \in Connectors |-> <<>>]
    /\ receiveData = [c \in Connectors |-> [int |-> 0, rest |-> NoRecord]]
    /\ toServer = <<>>
    /\ task = Idle /\ buffer = <<Letter, Letter>>
    /\ table = [i \in Slots |-> [slot |-> i, sock |-> Gone, status |-> 0, complete |-> FALSE,
                                 ver |-> 0]]
    /\ changes = 0

-----------------------------------------------------------------------------
(* Connector.getInstance(), called by onOpen() without a lock *)

Goto(s, step) == spc' = [spc EXCEPT ![s] = step]

LookUp(s) ==
    /\ spc[s] = "closed"
    /\ Goto(s, IF instance = NoConnector THEN "create" ELSE "return")
    /\ UNCHANGED <<instance, made, conn, todo, len, rows, since, inbox, receiveData, toServer,
                   serverVars>>

Create(s) ==
    /\ spc[s] = "create"
    /\ \E c \in Connectors \ made : made' = made \cup {c} /\ instance' = c
    /\ Goto(s, "return")
    /\ UNCHANGED <<conn, todo, len, rows, since, inbox, receiveData, toServer, serverVars>>

Return(s) ==
    /\ spc[s] = "return"
    /\ conn' = [conn EXCEPT ![s] = instance]
    /\ Goto(s, "ready")
    /\ UNCHANGED <<instance, made, todo, len, rows, since, inbox, receiveData, toServer,
                   serverVars>>

-----------------------------------------------------------------------------
(* onMessage(): GET *)

(* Mutant of Send: the socket of the newest connector is used. *)
SendFromInstance(s, cmd, i) ==
    toServer' = Append(toServer, [cmd |-> cmd, id |-> i, from |-> instance])

Send(s, cmd, i) == toServer' = Append(toServer, [cmd |-> cmd, id |-> i, from |-> conn[s]])

(* getCapableOf() asks how many records there are. *)
AskNumber(s) ==
    /\ spc[s] = "ready" /\ todo[s] > 0
    /\ todo' = [todo EXCEPT ![s] = @ - 1]
    /\ Send(s, "NMR", 0)
    /\ since' = [since EXCEPT ![s] = [i \in Slots |-> table[i].ver]]
    /\ rows' = [rows EXCEPT ![s] = <<>>]
    /\ Goto(s, "number")
    /\ UNCHANGED <<instance, made, conn, len, inbox, receiveData, serverVars>>

(* Mutant of Fill: a record does not overwrite an earlier one. *)
FillOnce(b, d) == [int |-> d.int, rest |-> IF b.rest = NoRecord THEN d.rest ELSE b.rest]

(* A received datagram overwrites the first bytes of the buffer: the four  *)
(* of a number leave the rest of an earlier record.                        *)
Fill(b, d) == [int |-> d.int, rest |-> IF d.rest = NoRecord THEN b.rest ELSE d.rest]

(* receive() waits for ever for the next datagram of the shared socket.    *)
Receive(s, from, to) ==
    /\ spc[s] = from
    /\ inbox[conn[s]] # <<>>
    /\ inbox' = [inbox EXCEPT ![conn[s]] = Tail(@)]
    /\ receiveData' = [receiveData EXCEPT ![conn[s]] = Fill(@, Head(inbox[conn[s]]))]
    /\ Goto(s, to)
    /\ UNCHANGED <<instance, made, conn, todo, len, rows, since, toServer, serverVars>>

ReceiveNumber(s) == Receive(s, "number", "length")

(* Mutant of ReceiveRecord: the wait has a time-out that ends the message. *)
ReceiveRecordOrGiveUp(s) ==
    \/ Receive(s, "record", "parse")
    \/ /\ spc[s] = "record" /\ Goto(s, "ready")
       /\ rows' = [rows EXCEPT ![s] = <<>>]
       /\ UNCHANGED <<instance, made, conn, todo, len, since, inbox, receiveData, toServer,
                      serverVars>>

ReceiveRecord(s) == Receive(s, "record", "parse")

(* new BackupThread[len] throws on a negative length, which ends this      *)
(* message.  The request for the records goes to port 5577 whatever the    *)
(* configuration says.                                                     *)
AskRecords(s) ==
    /\ spc[s] = "length"
    /\ LET n == receiveData[conn[s]].int
       IN  /\ len' = [len EXCEPT ![s] = n]
           /\ Goto(s, IF n < 0 THEN "ready" ELSE "record")
           /\ IF n < 0 \/ ~DefaultPort THEN UNCHANGED toServer ELSE Send(s, "GET", 0)
    /\ UNCHANGED <<instance, made, conn, todo, rows, since, inbox, receiveData, serverVars>>

(* createFromBytes() for record i, whose port names its slot:              *)
(* startedInTime is read as four of the eight bytes of the server's        *)
(* time_t, so status gets its upper half.                                  *)
Row(b, i) == [id |-> i, slot |-> b.rest.slot, sock |-> b.int, status |-> 0,
              complete |-> b.rest.complete, ver |-> b.rest.ver]

Parse(s) ==
    /\ spc[s] = "parse"
    /\ rows' = [rows EXCEPT ![s] = Append(@, Row(receiveData[conn[s]], Len(@)))]
    /\ Goto(s, IF Len(rows'[s]) = len[s] THEN "ready" ELSE "record")
    /\ UNCHANGED <<instance, made, conn, todo, len, since, inbox, receiveData, toServer,
                   serverVars>>

(* onMessage(): a command, sent and not answered. *)
Command(s) ==
    /\ spc[s] = "ready" /\ todo[s] > 0
    /\ todo' = [todo EXCEPT ![s] = @ - 1]
    /\ \E cmd \in Commands, i \in Slots : Send(s, cmd, i)
    /\ UNCHANGED <<instance, made, conn, spc, len, rows, since, inbox, receiveData, serverVars>>

Session(s) ==
    \/ LookUp(s) \/ Create(s) \/ Return(s)
    \/ ReceiveNumber(s) \/ AskRecords(s) \/ ReceiveRecord(s) \/ Parse(s)

-----------------------------------------------------------------------------
(* The server *)

(* The bytes of ricevuto where a command's number stands: a datagram       *)
(* overwrites as many as it has, the rest is of an earlier one.            *)
Received(d) ==
    IF d.cmd \in Commands
    THEN Digits(d.id) \o (IF d.id < Base THEN <<buffer[2]>> ELSE <<>>)
    ELSE buffer

Deliver(c, d) == inbox' = [inbox EXCEPT ![c] = Append(@, d)]

(* cmd_TOG and cmd_STP on a slot's record. *)
Obey(cmd, r) ==
    [slot |-> r.slot, sock |-> r.sock,
     status |-> IF cmd = "TOG" THEN 1 - r.status ELSE r.status,
     complete |-> r.complete \/ cmd = "STP",
     ver |-> changes + 1]

(* parseCmd() *)
Handle ==
    /\ task.to = NoConnector /\ toServer # <<>>
    /\ LET d == Head(toServer)
           n == Number(Received(d))
       IN  /\ toServer' = Tail(toServer)
           /\ buffer' = Received(d)
           /\ \/ /\ d.cmd = "NMR"
                 /\ Deliver(d.from, [int |-> Interval, rest |-> NoRecord])
                 /\ UNCHANGED <<task, table, changes>>
              \/ /\ d.cmd = "GET"
                 /\ task' = [to |-> d.from, next |-> 0]
                 /\ UNCHANGED <<inbox, table, changes>>
              \/ /\ d.cmd \in Commands
                 /\ table' = IF n \in Slots THEN [table EXCEPT ![n] = Obey(d.cmd, @)] ELSE table
                 /\ changes' = changes + 1
                 /\ UNCHANGED <<inbox, task>>
    /\ UNCHANGED <<sessionVars, receiveData>>

(* cmd_GET: one datagram for every slot, while the workers go on.          *)
SendRecord ==
    /\ task.to # NoConnector
    /\ LET i == task.next
       IN  /\ Deliver(task.to, [int |-> table[i].sock, rest |-> table[i]])
           /\ task' = IF i + 1 < Interval THEN [task EXCEPT !.next = @ + 1] ELSE Idle
    /\ UNCHANGED <<sessionVars, receiveData, toServer, buffer, table, changes>>

(* A worker takes its slot, or gives it back with or without all files.   *)
Work(i) ==
    /\ changes < MaxChanges
    /\ changes' = changes + 1
    /\ \E all \in BOOLEAN :
          table' = [table EXCEPT ![i] =
              [slot |-> @.slot, sock |-> IF @.sock = Gone THEN Fd ELSE Gone,
               status |-> @.status, complete |-> all /\ @.sock # Gone, ver |-> changes + 1]]
    /\ UNCHANGED <<sessionVars, inbox, receiveData, toServer, task, buffer>>

(* A backup client's datagram fills all of the buffer. *)
OtherDatagram ==
    /\ Backups /\ task.to = NoConnector
    /\ \E a, b \in {Letter} \cup (0 .. Base - 1) : buffer' = <<a, b>>
    /\ UNCHANGED <<sessionVars, inbox, receiveData, toServer, task, table, changes>>

Lose ==
    /\ Lossy
    /\ \/ toServer # <<>> /\ toServer' = Tail(toServer) /\ UNCHANGED inbox
       \/ \E c \in Connectors : /\ inbox[c] # <<>>
                                /\ inbox' = [inbox EXCEPT ![c] = Front(@)]
                                /\ UNCHANGED toServer
    /\ UNCHANGED <<sessionVars, receiveData, serverVars>>

Server == Handle \/ SendRecord

Next ==
    /\ \/ \E s \in Sessions : Session(s) \/ AskNumber(s) \/ Command(s)
       \/ Server \/ OtherDatagram \/ Lose
       \/ \E i \in Slots : Work(i)
    /\ UNCHANGED setting

Spec == Init /\ [][Next]_vars
-----------------------------------------------------------------------------
(* Properties *)

(* Row k of an answer describes slot k, the number the page's buttons send *)
(* back, and its socket is the one of that record.                         *)
InPlace(s) ==
    \A k \in DOMAIN rows[s] :
        rows[s][k].slot = rows[s][k].id /\ rows[s][k].sock \in {Fd, Gone}

(* However many datagrams get lost, the answer that the only page gets to  *)
(* its end is in place: receive() has no time-out, so after a loss it      *)
(* waits for ever and never takes the rest of one answer for the next.     *)
WholeInPlace ==
    Cardinality(Sessions) = 1 => \A s \in Sessions : spc[s] = "ready" => InPlace(s)

(* Without losses sharing the socket is all that mixes answers up: a       *)
(* session whose connector nobody else has reads its rows in place, even   *)
(* when both were made by the race in getInstance().                       *)
OwnSocketInPlace ==
    ~Lossy => \A s \in Sessions :
        (\A t \in Sessions \ {s} : conn[t] # conn[s]) => InPlace(s)

(* No row is older than the question: what the page shows was true at some *)
(* time since it asked.                                                    *)
RowsAreFresh ==
    Cardinality(Sessions) = 1 => \A s \in Sessions : \A k \in DOMAIN rows[s] :
        rows[s][k].slot \in Slots => rows[s][k].ver >= since[s][rows[s][k].slot]
=============================================================================
