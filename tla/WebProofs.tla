------------------------------ MODULE WebProofs ------------------------------
(***************************************************************************)
(* Proofs about Monitor and Accounts.                                      *)
(***************************************************************************)
EXTENDS Monitor, Accounts, FiniteSetTheorems, SequenceTheorems, TLAPS

-----------------------------------------------------------------------------
(* Monitor, for any number of pages, connectors, slots and messages: what  *)
(* the page that has a connector for itself may take for the answer to its *)
(* question.                                                               *)

Opening == {"closed", "create", "return"}
Steps == Opening \cup {"ready", "number", "length", "record", "parse"}

Records == [slot : Int, sock : Int, status : Int, complete : BOOLEAN, ver : Int]
Datagrams == [int : Int, rest : Records]
Requests == [cmd : Commands \cup {"NMR", "GET"}, id : Int, from : Connectors]
PageRows == [id : Int, slot : Int, sock : Int, status : Int, complete : BOOLEAN, ver : Int]

MonitorTypes ==
    /\ instance \in Connectors \cup {NoConnector}
    /\ conn \in [Sessions -> Connectors \cup {NoConnector}]
    /\ spc \in [Sessions -> Steps]
    /\ len \in [Sessions -> Int]
    /\ rows \in [Sessions -> Seq(PageRows)]
    /\ since \in [Sessions -> [Slots -> Int]]
    /\ inbox \in [Connectors -> Seq(Datagrams)]
    /\ receiveData \in [Connectors -> Datagrams]
    /\ toServer \in Seq(Requests)
    /\ task \in [to : Connectors \cup {NoConnector}, next : 0 .. Interval - 1]
    /\ table \in [Slots -> Records]
    /\ changes \in Nat

(* A session has its connector when getInstance() has returned.            *)
ConnectorsGiven ==
    \A s \in Sessions :
        /\ spc[s] \in Opening <=> conn[s] = NoConnector
        /\ spc[s] \in Opening => rows[s] = <<>>
        /\ spc[s] = "return" => instance # NoConnector

(* Nothing is under way for a connector that no session has.               *)
Given == {conn[t] : t \in Sessions}
OnlyForHeld ==
    /\ \A i \in DOMAIN toServer : toServer[i].from \in Given
    /\ task.to # NoConnector => task.to \in Given
    /\ \A c \in Connectors : inbox[c] # <<>> => c \in Given

(* Every change of a slot has a higher version than the one before.        *)
Versions ==
    \A i \in Slots :
        /\ table[i].slot = i /\ table[i].sock \in {Fd, Gone}
        /\ table[i].ver <= changes
        /\ \A s \in Sessions : since[s][i] <= table[i].ver
-----------------------------------------------------------------------------
(* A session s with a connector c of its own *)

Private(s, c) == conn[s] = c /\ \A t \in Sessions \ {s} : conn[t] # c

(* What the server has been asked for a connector *)
Asks(i, c) == toServer[i].from = c /\ toServer[i].cmd \in {"NMR", "GET"}
Unasked(c) == \A i \in DOMAIN toServer : ~Asks(i, c)
AskedOnce(c, cmd) ==
    \E i \in DOMAIN toServer :
        /\ toServer[i].from = c /\ toServer[i].cmd = cmd
        /\ \A j \in DOMAIN toServer : Asks(j, c) => j = i

Quiet(c) == Unasked(c) /\ task.to # c /\ inbox[c] = <<>>

TheNumber == [int |-> Interval, rest |-> NoRecord]
RecordOf(d, i) == d.int \in {Fd, Gone} /\ d.rest.slot = i

(* The records the session has taken out of its inbox.                     *)
Taken(s) == Len(rows[s]) + (IF spc[s] = "parse" THEN 1 ELSE 0)

(* The records the server has still to send to a connector                 *)
Unsent(c) == IF task.to = c THEN Interval - task.next ELSE 0

(* Records on their way, none missing: those of the inbox go on where the  *)
(* rows end, and the server's next one where the inbox ends.               *)
Arriving(s, c) ==
    /\ spc[s] = "parse" => RecordOf(receiveData[c], Len(rows[s]))
    /\ \A j \in DOMAIN inbox[c] : RecordOf(inbox[c][j], Taken(s) + j - 1)
    /\ Taken(s) + Len(inbox[c]) + Unsent(c) = Interval

RowsInPlace(s) ==
    \A k \in DOMAIN rows[s] :
        /\ rows[s][k].id = k - 1 /\ rows[s][k].slot = k - 1
        /\ rows[s][k].sock \in {Fd, Gone}

Complete(s, c) ==
    /\ spc[s] = "ready" => Quiet(c)
    /\ spc[s] = "number" =>
          /\ rows[s] = <<>> /\ task.to # c
          /\ \/ AskedOnce(c, "NMR") /\ inbox[c] = <<>>
             \/ Unasked(c) /\ inbox[c] = <<TheNumber>>
    /\ spc[s] = "length" =>
          rows[s] = <<>> /\ Quiet(c) /\ receiveData[c].int = Interval
    /\ spc[s] \in {"record", "parse"} =>
          /\ len[s] = Interval
          /\ \/ /\ spc[s] = "record" /\ rows[s] = <<>>
                /\ AskedOnce(c, "GET") /\ task.to # c /\ inbox[c] = <<>>
             \/ Unasked(c) /\ Arriving(s, c)
    /\ RowsInPlace(s)

(* The request for the records went elsewhere, or something was lost: what *)
(* may still come is too little, and the session waits for ever.           *)
Elsewhere(s, c) ==
    ~DefaultPort /\ spc[s] = "record" /\ rows[s] = <<>> /\ len[s] = Interval /\ Quiet(c)

Short(s, c) ==
    \/ spc[s] = "number" /\ Quiet(c)
    \/ /\ spc[s] \in {"record", "parse"} /\ len[s] = Interval /\ Unasked(c)
       /\ Taken(s) + Len(inbox[c]) + Unsent(c) < Interval

(* What has come since the question was true since it was asked.           *)
FreshRecord(asked, r) == r.slot \in Slots => r.ver >= asked[r.slot]
Fresh(s, c) ==
    /\ \A k \in DOMAIN rows[s] : FreshRecord(since[s], rows[s][k])
    /\ spc[s] = "parse" => FreshRecord(since[s], receiveData[c].rest)
    /\ \A j \in DOMAIN inbox[c] :
          /\ FreshRecord(since[s], inbox[c][j].rest)
          /\ spc[s] \in {"record", "parse"} => inbox[c][j].rest.slot \in Slots

Answered(s, c) == (Complete(s, c) \/ Elsewhere(s, c) \/ (Lossy /\ Short(s, c))) /\ Fresh(s, c)

MonitorInv ==
    /\ setting \in Settings
    /\ MonitorTypes /\ ConnectorsGiven /\ OnlyForHeld /\ Versions
    /\ \A s \in Sessions, c \in Connectors : Private(s, c) => Answered(s, c)

(* A step that does not touch a session and its connector.                 *)
SessionUntouched(s) ==
    spc'[s] = spc[s] /\ len'[s] = len[s] /\ rows'[s] = rows[s] /\ since'[s] = since[s]

RequestsUntouched(c) ==
    /\ Unasked(c) => Unasked(c)'
    /\ \A cmd \in {"NMR", "GET"} : AskedOnce(c, cmd) => AskedOnce(c, cmd)'

ConnectorUntouched(c) ==
    /\ inbox'[c] = inbox[c] /\ receiveData'[c] = receiveData[c]
    /\ task.to = c \/ task'.to = c => task' = task
    /\ RequestsUntouched(c)
-----------------------------------------------------------------------------
(* The datagrams on their way to the server *)

LEMMA SettingKept ==
  ASSUME UNCHANGED setting
  PROVE  Sessions' = Sessions /\ Lossy' = Lossy /\ DefaultPort' = DefaultPort
  BY DEF Sessions, Lossy, DefaultPort

LEMMA AppendOther ==
  ASSUME NEW c, NEW d, toServer \in Seq(Requests), d \in Requests,
         toServer' = Append(toServer, d), d.from # c \/ d.cmd \in Commands
  PROVE  RequestsUntouched(c)
<1>1. /\ DOMAIN toServer = 1 .. Len(toServer) /\ Len(toServer) \in Nat
      /\ DOMAIN toServer' = 1 .. Len(toServer) + 1
      /\ \A i \in DOMAIN toServer : toServer'[i] = toServer[i]
      /\ toServer'[Len(toServer) + 1] = d
  BY AppendProperties
<1>2. d.cmd \in Commands => d.cmd \notin {"NMR", "GET"}
  BY DEF Commands
<1>. QED
  BY <1>1, <1>2 DEF RequestsUntouched, Unasked, AskedOnce, Asks

LEMMA AppendAsk ==
  ASSUME NEW c, NEW d, toServer \in Seq(Requests), d \in Requests, Unasked(c),
         toServer' = Append(toServer, d), d.from = c, d.cmd \in {"NMR", "GET"}
  PROVE  AskedOnce(c, d.cmd)'
<1>1. /\ DOMAIN toServer = 1 .. Len(toServer) /\ Len(toServer) \in Nat
      /\ DOMAIN toServer' = 1 .. Len(toServer) + 1
      /\ \A i \in DOMAIN toServer : toServer'[i] = toServer[i]
      /\ toServer'[Len(toServer) + 1] = d
  BY AppendProperties
<1>. QED
  BY <1>1 DEF Unasked, AskedOnce, Asks

LEMMA TailOther ==
  ASSUME NEW c, toServer \in Seq(Requests), toServer # <<>>,
         toServer' = Tail(toServer), ~Asks(1, c)
  PROVE  RequestsUntouched(c)
<1>1. /\ DOMAIN toServer = 1 .. Len(toServer) /\ Len(toServer) \in Nat
      /\ DOMAIN toServer' = 1 .. Len(toServer) - 1
      /\ \A i \in DOMAIN toServer' : toServer'[i] = toServer[i + 1]
  BY HeadTailProperties
<1>2. Unasked(c) => Unasked(c)'
  BY <1>1 DEF Unasked, Asks
<1>3. ASSUME NEW cmd \in {"NMR", "GET"}, AskedOnce(c, cmd) PROVE AskedOnce(c, cmd)'
  <2>1. PICK i \in DOMAIN toServer :
           /\ toServer[i].from = c /\ toServer[i].cmd = cmd
           /\ \A j \in DOMAIN toServer : Asks(j, c) => j = i
    BY <1>3 DEF AskedOnce
  <2>2. i # 1 /\ i - 1 \in DOMAIN toServer'
    BY <1>1, <2>1 DEF Asks
  <2>3. toServer'[i - 1].from = c /\ toServer'[i - 1].cmd = cmd
    BY <1>1, <2>1, <2>2
  <2>4. \A j \in DOMAIN toServer' : Asks(j, c)' => j = i - 1
    BY <1>1, <2>1 DEF Asks
  <2>. QED
    BY <2>2, <2>3, <2>4 DEF AskedOnce
<1>. QED
  BY <1>2, <1>3 DEF RequestsUntouched

LEMMA TailAsk ==
  ASSUME NEW c, toServer \in Seq(Requests), toServer # <<>>,
         toServer' = Tail(toServer), Asks(1, c)
  PROVE  /\ ~Unasked(c)
         /\ \A cmd \in {"NMR", "GET"} :
               AskedOnce(c, cmd) => toServer[1].cmd = cmd /\ Unasked(c)'
<1>1. /\ DOMAIN toServer = 1 .. Len(toServer) /\ Len(toServer) \in Nat
      /\ 1 \in DOMAIN toServer /\ DOMAIN toServer' = 1 .. Len(toServer) - 1
      /\ \A i \in DOMAIN toServer' : toServer'[i] = toServer[i + 1]
  BY HeadTailProperties, EmptySeq
<1>. QED
  BY <1>1 DEF Unasked, AskedOnce, Asks

LEMMA AnswerKept ==
  ASSUME NEW s, NEW c, Answered(s, c), UNCHANGED setting,
         SessionUntouched(s), ConnectorUntouched(c)
  PROVE  Answered(s, c)'
<1>. USE DEF SessionUntouched, ConnectorUntouched, RequestsUntouched
<1>1. Quiet(c) => Quiet(c)'
  BY DEF Quiet
<1>2. Taken(s)' = Taken(s)
  BY DEF Taken
<1>3. Unsent(c)' = Unsent(c) /\ (Arriving(s, c) => Arriving(s, c)')
  BY <1>2 DEF Arriving, Unsent, RecordOf
<1>4. Complete(s, c) => Complete(s, c)'
  BY <1>1, <1>3 DEF Complete, RowsInPlace
<1>5. Elsewhere(s, c) => Elsewhere(s, c)'
  BY <1>1, SettingKept DEF Elsewhere
<1>6. Short(s, c) => Short(s, c)'
  BY <1>1, <1>2, <1>3 DEF Short
<1>7. Fresh(s, c)'
  BY DEF Answered, Fresh, FreshRecord
<1>. QED
  BY <1>4, <1>5, <1>6, <1>7, SettingKept DEF Answered
-----------------------------------------------------------------------------
(* The types *)

LEMMA Fields ==
  ASSUME MonitorTypes
  PROVE  /\ \A c \in Connectors : \A j \in DOMAIN inbox[c] : inbox[c][j] \in Datagrams
         /\ \A i \in DOMAIN toServer : toServer[i] \in Requests
         /\ \A i \in Slots : table[i] \in Records
         /\ \A c \in Connectors : receiveData[c] \in Datagrams
  BY DEF MonitorTypes

LEMMA Consts ==
  /\ Interval \in Nat \ {0} /\ Slots = 0 .. Interval - 1 /\ NoConnector \notin Connectors
  /\ NoRecord \in Records /\ TheNumber \in Datagrams /\ Idle.to = NoConnector
  /\ Idle \in [to : Connectors \cup {NoConnector}, next : 0 .. Interval - 1]
  BY MonitorConstants DEF Slots, NoRecord, Records, TheNumber, Datagrams, Idle

LEMMA IntervalPositive == Interval \in Int /\ Interval > 0
  BY MonitorConstants

LEMMA Sums ==
  ASSUME NEW n \in Nat, NEW i \in Nat, NEW u \in Nat
  PROVE  /\ n + 1 + i + u < Interval => n + 1 < Interval
         /\ n + 1 + i + u = Interval /\ n + 1 = Interval => i = 0 /\ u = 0
         /\ \A k \in Int : n + i + (Interval - k) = Interval => n + i = k
         /\ \A k \in Int : n + i = k => n + (i + 1) + (Interval - k - 1) = Interval
  BY IntervalPositive

LEMMA TypesBegin == Init => MonitorTypes
  BY Consts
  DEF Init, MonitorTypes, Records, Datagrams, NoRecord, Gone, Steps, Opening, Slots

(* A connector is given to every session that has left getInstance().      *)
LEMMA HasConnector ==
  ASSUME MonitorTypes, ConnectorsGiven, NEW s \in Sessions, spc[s] \notin Opening
  PROVE  conn[s] \in Connectors
  BY DEF MonitorTypes, ConnectorsGiven

LEMMA Sent ==
  ASSUME MonitorTypes, NEW s \in Sessions, conn[s] \in Connectors,
         NEW cmd \in Commands \cup {"NMR", "GET"}, NEW i \in Int, Send(s, cmd, i)
  PROVE  /\ [cmd |-> cmd, id |-> i, from |-> conn[s]] \in Requests
         /\ toServer' = Append(toServer, [cmd |-> cmd, id |-> i, from |-> conn[s]])
         /\ toServer' \in Seq(Requests)
<1>1. [cmd |-> cmd, id |-> i, from |-> conn[s]] \in Requests
  BY DEF Requests
<1>. QED
  BY <1>1, AppendProperties DEF MonitorTypes, Send

LEMMA Filled ==
  ASSUME NEW b \in Datagrams, NEW d \in Datagrams
  PROVE  /\ Fill(b, d) \in Datagrams /\ Fill(b, d).int = d.int
         /\ d.rest.slot # -1 => Fill(b, d).rest = d.rest
  BY DEF Fill, Datagrams, NoRecord

LEMMA Obeyed ==
  ASSUME NEW cmd, NEW r \in Records, changes \in Nat
  PROVE  /\ Obey(cmd, r) \in Records
         /\ Obey(cmd, r).slot = r.slot /\ Obey(cmd, r).sock = r.sock
         /\ Obey(cmd, r).ver = changes + 1
  BY DEF Obey, Records

LEMMA SessionTypes ==
  ASSUME MonitorTypes, ConnectorsGiven, UNCHANGED setting,
         NEW s \in Sessions, Session(s) \/ AskNumber(s) \/ Command(s)
  PROVE  MonitorTypes'
<1>0. Sessions' = Sessions /\ toServer \in Seq(Requests)
  BY SettingKept DEF MonitorTypes
<1>1. CASE LookUp(s) \/ Create(s) \/ Return(s)
  BY <1>0, <1>1 DEF LookUp, Create, Return, Goto, serverVars, MonitorTypes, Steps, Opening
<1>2. CASE AskNumber(s)
  <2>1. /\ Send(s, "NMR", 0) /\ spc[s] \notin Opening
        /\ "NMR" \in Commands \cup {"NMR", "GET"} /\ 0 \in Int
    BY <1>2 DEF AskNumber, Opening
  <2>2. toServer' \in Seq(Requests)
    BY <2>1, HasConnector, Sent
  <2>3. since' \in [Sessions -> [Slots -> Int]] /\ rows' \in [Sessions -> Seq(PageRows)]
    BY <1>2, Fields DEF AskNumber, MonitorTypes, Records
  <2>. QED
    BY <1>0, <1>2, <2>2, <2>3 DEF AskNumber, Goto, serverVars, MonitorTypes, Steps
<1>3. CASE ReceiveNumber(s) \/ ReceiveRecord(s)
  <2>1. PICK to \in {"length", "parse"} :
           Receive(s, "number", to) \/ Receive(s, "record", to)
    BY <1>3 DEF ReceiveNumber, ReceiveRecord
  <2>2. conn[s] \in Connectors /\ inbox[conn[s]] \in Seq(Datagrams) /\ inbox[conn[s]] # <<>>
    BY <2>1, HasConnector DEF Receive, Opening, MonitorTypes
  <2>3. Head(inbox[conn[s]]) \in Datagrams /\ Tail(inbox[conn[s]]) \in Seq(Datagrams)
    BY <2>2, HeadTailProperties
  <2>4. Fill(receiveData[conn[s]], Head(inbox[conn[s]])) \in Datagrams
    BY <2>2, <2>3, Filled DEF MonitorTypes
  <2>5. inbox' \in [Connectors -> Seq(Datagrams)]
    BY <2>1, <2>2, <2>3 DEF Receive, MonitorTypes
  <2>6. receiveData' \in [Connectors -> Datagrams]
    BY <2>1, <2>2, <2>4 DEF Receive, MonitorTypes
  <2>7. spc' \in [Sessions -> Steps]
    BY <2>1 DEF Receive, Goto, MonitorTypes, Steps
  <2>8. UNCHANGED <<instance, conn, len, rows, since, toServer, task, table, changes>>
    BY <2>1 DEF Receive, serverVars
  <2>. QED
    BY <1>0, <2>5, <2>6, <2>7, <2>8 DEF MonitorTypes
<1>4. CASE AskRecords(s)
  <2>1. conn[s] \in Connectors
    BY <1>4, HasConnector DEF AskRecords, Opening
  <2>2. receiveData[conn[s]].int \in Int
    BY <2>1, Fields DEF Datagrams
  <2>3. /\ UNCHANGED toServer \/ Send(s, "GET", 0)
        /\ "GET" \in Commands \cup {"NMR", "GET"} /\ 0 \in Int
    BY <1>4 DEF AskRecords
  <2>4. toServer' \in Seq(Requests)
    <3>1. CASE Send(s, "GET", 0)
      BY <2>1, <2>3, <3>1, Sent
    <3>. QED
      BY <1>0, <2>3, <3>1
  <2>5. len' \in [Sessions -> Int] /\ spc' \in [Sessions -> Steps]
    BY <1>4, <2>2 DEF AskRecords, Goto, MonitorTypes, Steps
  <2>6. UNCHANGED <<instance, conn, rows, since, inbox, receiveData, task, table, changes>>
    BY <1>4 DEF AskRecords, serverVars
  <2>. QED
    BY <1>0, <2>4, <2>5, <2>6 DEF MonitorTypes
<1>5. CASE Parse(s)
  <2>1. conn[s] \in Connectors
    BY <1>5, HasConnector DEF Parse, Opening
  <2>2. rows[s] \in Seq(PageRows) /\ Len(rows[s]) \in Int
    BY DEF MonitorTypes
  <2>3. Row(receiveData[conn[s]], Len(rows[s])) \in PageRows
    BY <2>1, <2>2, Fields DEF Row, PageRows, Datagrams, Records
  <2>4. Append(rows[s], Row(receiveData[conn[s]], Len(rows[s]))) \in Seq(PageRows)
    BY <2>2, <2>3, AppendProperties
  <2>5. rows' \in [Sessions -> Seq(PageRows)] /\ spc' \in [Sessions -> Steps]
    BY <1>5, <2>4 DEF Parse, Goto, MonitorTypes, Steps, Opening
  <2>6. UNCHANGED <<instance, conn, len, since, inbox, receiveData, toServer, task, table, changes>>
    BY <1>5 DEF Parse, serverVars
  <2>. QED
    BY <1>0, <2>5, <2>6 DEF MonitorTypes
<1>6. CASE Command(s)
  <2>1. PICK cmd \in Commands, i \in Slots : Send(s, cmd, i)
    BY <1>6 DEF Command
  <2>2. conn[s] \in Connectors
    BY <1>6, HasConnector DEF Command, Opening
  <2>3. toServer' \in Seq(Requests)
    <3>1. i \in Int /\ cmd \in Commands \cup {"NMR", "GET"}
      BY Consts
    <3>. QED
      BY <2>1, <2>2, <3>1, Sent
  <2>. QED
    BY <1>0, <1>6, <2>3 DEF Command, serverVars, MonitorTypes
<1>. QED
  BY <1>1, <1>2, <1>3, <1>4, <1>5, <1>6 DEF Session

LEMMA Delivered ==
  ASSUME MonitorTypes, NEW c \in Connectors, NEW d \in Datagrams, Deliver(c, d)
  PROVE  /\ inbox' \in [Connectors -> Seq(Datagrams)]
         /\ inbox'[c] = Append(inbox[c], d)
         /\ \A e \in Connectors \ {c} : inbox'[e] = inbox[e]
<1>1. inbox[c] \in Seq(Datagrams) /\ Append(inbox[c], d) \in Seq(Datagrams)
  BY AppendProperties DEF MonitorTypes
<1>. QED
  BY <1>1 DEF MonitorTypes, Deliver

(* The request the server takes next *)
LEMMA FirstRequest ==
  ASSUME MonitorTypes, toServer # <<>>
  PROVE  /\ 1 \in DOMAIN toServer /\ Head(toServer) = toServer[1] /\ toServer[1] \in Requests
         /\ Tail(toServer) \in Seq(Requests)
         /\ DOMAIN Tail(toServer) = 1 .. Len(toServer) - 1
         /\ \A i \in DOMAIN Tail(toServer) :
               i + 1 \in DOMAIN toServer /\ Tail(toServer)[i] = toServer[i + 1]
<1>1. toServer \in Seq(Requests)
  BY DEF MonitorTypes
<1>2. Len(toServer) \in Nat \ {0} /\ DOMAIN toServer = 1 .. Len(toServer)
  BY <1>1, EmptySeq
<1>3. /\ Tail(toServer) \in Seq(Requests) /\ DOMAIN Tail(toServer) = 1 .. Len(toServer) - 1
      /\ \A i \in 1 .. Len(toServer) - 1 : Tail(toServer)[i] = toServer[i + 1]
  BY <1>1, HeadTailProperties
<1>. QED
  BY <1>1, <1>2, <1>3

(* The record the server sends next *)
LEMMA NextRecord ==
  ASSUME MonitorTypes, task.to # NoConnector
  PROVE  /\ task.to \in Connectors /\ task.next \in Slots
         /\ [int |-> table[task.next].sock, rest |-> table[task.next]] \in Datagrams
<1>1. task.to \in Connectors /\ task.next \in Slots
  BY Consts DEF MonitorTypes
<1>. QED
  BY <1>1, Fields DEF Datagrams, Records

(* An inbox that has lost its last datagram *)
LEMMA FrontDef ==
  ASSUME NEW S, NEW q \in Seq(S), q # <<>>
  PROVE  /\ Front(q) \in Seq(S) /\ Len(Front(q)) = Len(q) - 1
         /\ \A i \in DOMAIN Front(q) : i \in DOMAIN q /\ Front(q)[i] = q[i]
<1>1. Len(q) \in Nat \ {0} /\ \A i \in 1 .. Len(q) : q[i] \in S
  BY EmptySeq
<1>2. /\ SubSeq(q, 1, Len(q) - 1) \in Seq(S) /\ Len(SubSeq(q, 1, Len(q) - 1)) = Len(q) - 1
      /\ \A i \in 1 .. Len(q) - 1 : SubSeq(q, 1, Len(q) - 1)[i] = q[i]
  BY <1>1, SubSeqProperties
<1>. QED
  BY <1>1, <1>2 DEF Front

(* What a command or a worker makes of a slot's record *)
Renews(i, r) == r \in Records /\ r.slot = i /\ r.sock \in {Fd, Gone} /\ r.ver = changes + 1

LEMMA Renewed ==
  ASSUME MonitorTypes, Versions, NEW i \in Slots
  PROVE  /\ \A cmd : Renews(i, Obey(cmd, table[i]))
         /\ Work(i) => \E r : Renews(i, r) /\ table' = [table EXCEPT ![i] = r]
<1>1. table[i] \in Records /\ changes \in Nat
  BY Fields DEF MonitorTypes
<1>2. \A cmd : Renews(i, Obey(cmd, table[i]))
  BY <1>1, Obeyed DEF Versions, Renews
<1>3. ASSUME NEW all \in BOOLEAN
      PROVE  Renews(i, [slot |-> table[i].slot,
                        sock |-> IF table[i].sock = Gone THEN Fd ELSE Gone,
                        status |-> table[i].status, complete |-> all /\ table[i].sock # Gone,
                        ver |-> changes + 1])
  BY <1>1 DEF Versions, Records, Fd, Gone, Renews
<1>4. Work(i) => \E r : Renews(i, r) /\ table' = [table EXCEPT ![i] = r]
  BY <1>3 DEF Work
<1>. QED
  BY <1>2, <1>4

(* A step of the server changes one slot's record or none.                 *)
LEMMA TableStep ==
  ASSUME MonitorTypes, Versions,
         Server \/ OtherDatagram \/ Lose \/ \E i \in Slots : Work(i)
  PROVE  \/ UNCHANGED table /\ changes' \in {changes, changes + 1}
         \/ /\ \E i \in Slots : \E r : Renews(i, r) /\ table' = [table EXCEPT ![i] = r]
            /\ changes' = changes + 1
<1>1. CASE Handle
  BY <1>1, Renewed DEF Handle
<1>2. ASSUME NEW i \in Slots, Work(i)
      PROVE  /\ \E j \in Slots : \E r : Renews(j, r) /\ table' = [table EXCEPT ![j] = r]
             /\ changes' = changes + 1
  BY <1>2, Renewed DEF Work
<1>3. CASE SendRecord \/ OtherDatagram \/ Lose
  BY <1>3 DEF SendRecord, OtherDatagram, Lose, serverVars
<1>. QED
  BY <1>1, <1>2, <1>3 DEF Server

LEMMA ServerTypes ==
  ASSUME MonitorTypes, Versions, UNCHANGED setting,
         Server \/ OtherDatagram \/ Lose \/ \E i \in Slots : Work(i)
  PROVE  MonitorTypes'
<1>1. Sessions' = Sessions
  BY SettingKept
<1>2. table' \in [Slots -> Records] /\ changes' \in Nat
  <2>1. \/ UNCHANGED table /\ changes' \in {changes, changes + 1}
        \/ /\ \E i \in Slots : \E r : Renews(i, r) /\ table' = [table EXCEPT ![i] = r]
           /\ changes' = changes + 1
    BY TableStep
  <2>2. table \in [Slots -> Records] /\ changes \in Nat
    BY DEF MonitorTypes
  <2>3. CASE UNCHANGED table
    BY <2>1, <2>2, <2>3
  <2>4. ASSUME NEW i \in Slots, NEW r, Renews(i, r), table' = [table EXCEPT ![i] = r],
               changes' = changes + 1
        PROVE  table' \in [Slots -> Records] /\ changes' \in Nat
    BY <2>2, <2>4 DEF Renews
  <2>. QED
    BY <2>1, <2>2, <2>3, <2>4
<1>3. UNCHANGED <<instance, conn, spc, len, rows, since, receiveData>>
  BY DEF Server, Handle, SendRecord, OtherDatagram, Lose, Work, sessionVars
<1>4. toServer' \in Seq(Requests)
  BY FirstRequest DEF Server, Handle, SendRecord, OtherDatagram, Lose, Work, MonitorTypes
<1>5. inbox' \in [Connectors -> Seq(Datagrams)]
  <2>1. CASE Handle
    <3>1. Head(toServer).from \in Connectors
      BY <2>1, FirstRequest DEF Handle, Requests
    <3>2. \/ UNCHANGED inbox
          \/ Deliver(Head(toServer).from, TheNumber)
      BY <2>1 DEF Handle, TheNumber
    <3>. QED
      BY <3>1, <3>2, Delivered, Consts DEF MonitorTypes
  <2>2. CASE SendRecord
    <3>. DEFINE d == [int |-> table[task.next].sock, rest |-> table[task.next]]
    <3>1. Deliver(task.to, d) /\ task.to \in Connectors /\ d \in Datagrams
      BY <2>2, NextRecord DEF SendRecord
    <3>. HIDE DEF d
    <3>. QED
      BY <3>1, Delivered
  <2>3. CASE Lose
    <3>1. ASSUME NEW c \in Connectors, inbox[c] # <<>> PROVE Front(inbox[c]) \in Seq(Datagrams)
      BY <3>1, FrontDef DEF MonitorTypes
    <3>. QED
      BY <2>3, <3>1 DEF Lose, MonitorTypes
  <2>. QED
    BY <2>1, <2>2, <2>3 DEF Server, OtherDatagram, Work, MonitorTypes
<1>6. task' \in [to : Connectors \cup {NoConnector}, next : 0 .. Interval - 1]
  <2>1. CASE Handle
    <3>1. Head(toServer).from \in Connectors
      BY <2>1, FirstRequest DEF Handle, Requests
    <3>. QED
      BY <2>1, <3>1, Consts DEF Handle, MonitorTypes
  <2>2. CASE SendRecord
    <3>1. task.next + 1 < Interval => task.next + 1 \in 0 .. Interval - 1
      BY Consts DEF MonitorTypes
    <3>2. \/ task' = [task EXCEPT !.next = task.next + 1] /\ task.next + 1 < Interval
          \/ task' = Idle
      BY <2>2 DEF SendRecord
    <3>. QED
      BY <3>1, <3>2, Consts DEF MonitorTypes
  <2>. QED
    BY <2>1, <2>2 DEF Server, OtherDatagram, Lose, Work, serverVars, MonitorTypes
<1>. QED
  BY <1>1, <1>2, <1>3, <1>4, <1>5, <1>6 DEF MonitorTypes
-----------------------------------------------------------------------------
(* Who has a connector, and the versions of the slots *)

LEMMA GivenStep ==
  ASSUME MonitorTypes, ConnectorsGiven, Next
  PROVE  ConnectorsGiven'
<1>0. Sessions' = Sessions
  BY SettingKept DEF Next
<1>1. CASE UNCHANGED <<instance, conn, spc, rows>>
  BY <1>0, <1>1 DEF ConnectorsGiven
<1>2. ASSUME NEW s \in Sessions, LookUp(s) \/ Create(s) \/ Return(s) PROVE ConnectorsGiven'
  BY <1>0, <1>2, Consts DEF LookUp, Create, Return, Goto, ConnectorsGiven, MonitorTypes, Opening
<1>3. ASSUME NEW s \in Sessions,
             \/ AskNumber(s) \/ Command(s) \/ AskRecords(s) \/ Parse(s)
             \/ ReceiveNumber(s) \/ ReceiveRecord(s)
      PROVE  ConnectorsGiven'
  <2>1. /\ UNCHANGED <<instance, conn>> /\ spc[s] \notin Opening
        /\ \A t \in Sessions \ {s} : rows'[t] = rows[t]
        /\ spc'[s] \notin Opening /\ \A t \in Sessions \ {s} : spc'[t] = spc[t]
    <3>1. CASE AskNumber(s) \/ Command(s)
      BY <3>1 DEF AskNumber, Command, Goto, Opening, MonitorTypes
    <3>2. CASE AskRecords(s)
      BY <3>2 DEF AskRecords, Goto, Opening, MonitorTypes
    <3>3. CASE Parse(s)
      BY <3>3 DEF Parse, Goto, Opening, MonitorTypes
    <3>4. CASE ReceiveNumber(s) \/ ReceiveRecord(s)
      BY <3>4 DEF ReceiveNumber, ReceiveRecord, Receive, Goto, Opening, MonitorTypes
    <3>. QED
      BY <1>3, <3>1, <3>2, <3>3, <3>4
  <2>. QED
    BY <1>0, <2>1 DEF ConnectorsGiven, Opening
<1>4. CASE Server \/ OtherDatagram \/ Lose \/ \E i \in Slots : Work(i)
  BY <1>1, <1>4 DEF Server, Handle, SendRecord, OtherDatagram, Lose, Work, sessionVars
<1>. QED
  BY <1>2, <1>3, <1>4 DEF Next, Session

(* What a session's step sends, it sends from its own connector.           *)
LEMMA SessionSends ==
  ASSUME MonitorTypes, ConnectorsGiven,
         NEW s \in Sessions, Session(s) \/ AskNumber(s) \/ Command(s)
  PROVE  \/ UNCHANGED toServer
         \/ conn[s] \in Connectors /\ \E d \in Requests :
               d.from = conn[s] /\ toServer' = Append(toServer, d) /\ UNCHANGED conn
<1>1. CASE AskNumber(s) \/ Command(s) \/ AskRecords(s)
  <2>1. spc[s] \notin Opening /\ UNCHANGED conn
    BY <1>1 DEF AskNumber, Command, AskRecords, Opening
  <2>2. \/ UNCHANGED toServer
        \/ \E cmd \in Commands \cup {"NMR", "GET"}, i \in Int : Send(s, cmd, i)
    <3>1. CASE Command(s)
      <4>1. PICK cmd \in Commands, i \in Slots : Send(s, cmd, i)
        BY <3>1 DEF Command
      <4>2. cmd \in Commands \cup {"NMR", "GET"} /\ i \in Int
        BY Consts
      <4>. QED
        BY <4>1, <4>2
    <3>2. CASE AskNumber(s) \/ AskRecords(s)
      <4>1. UNCHANGED toServer \/ Send(s, "NMR", 0) \/ Send(s, "GET", 0)
        BY <3>2 DEF AskNumber, AskRecords
      <4>. QED
        BY <4>1
    <3>. QED
      BY <1>1, <3>1, <3>2
  <2>3. conn[s] \in Connectors
    BY <2>1, HasConnector
  <2>4. ASSUME NEW cmd \in Commands \cup {"NMR", "GET"}, NEW i \in Int, Send(s, cmd, i)
        PROVE  \E d \in Requests : d.from = conn[s] /\ toServer' = Append(toServer, d)
    BY <2>3, <2>4, Sent
  <2>. QED
    BY <2>1, <2>2, <2>3, <2>4
<1>2. CASE LookUp(s) \/ Create(s) \/ Return(s) \/ Parse(s) \/ ReceiveNumber(s) \/ ReceiveRecord(s)
  BY <1>2 DEF LookUp, Create, Return, Parse, ReceiveNumber, ReceiveRecord, Receive
<1>. QED
  BY <1>1, <1>2 DEF Session

LEMMA HeldStep ==
  ASSUME MonitorTypes, ConnectorsGiven, OnlyForHeld, MonitorTypes', Next
  PROVE  OnlyForHeld'
<1>0. Sessions' = Sessions /\ \A i \in DOMAIN toServer : toServer[i].from \in Connectors
  BY SettingKept, Fields DEF Next, Requests
<1>1. ASSUME NEW s \in Sessions, Session(s) \/ AskNumber(s) \/ Command(s) PROVE OnlyForHeld'
  <2>1. \A c \in Connectors : c \in Given => c \in Given'
    <3>1. UNCHANGED conn \/ Return(s)
      BY <1>1 DEF Session, AskNumber, Command, LookUp, Create, AskRecords, Parse,
                  ReceiveNumber, ReceiveRecord, Receive
    <3>2. CASE Return(s)
      BY <1>0, <3>2, Consts DEF Return, Given, ConnectorsGiven, MonitorTypes, Opening
    <3>. QED
      BY <1>0, <3>1, <3>2 DEF Given
  <2>2. \A i \in DOMAIN toServer' : toServer'[i].from \in Given'
    <3>1. CASE UNCHANGED toServer
      BY <1>0, <2>1, <3>1 DEF OnlyForHeld
    <3>2. ASSUME conn[s] \in Connectors, UNCHANGED conn,
                 NEW d \in Requests, d.from = conn[s], toServer' = Append(toServer, d)
          PROVE  \A i \in DOMAIN toServer' : toServer'[i].from \in Given'
      <4>0. toServer \in Seq(Requests)
        BY DEF MonitorTypes
      <4>1. /\ DOMAIN toServer' = 1 .. Len(toServer) + 1 /\ DOMAIN toServer = 1 .. Len(toServer)
            /\ \A i \in DOMAIN toServer : toServer'[i] = toServer[i]
            /\ toServer'[Len(toServer) + 1] = d /\ Len(toServer) \in Nat
        BY <3>2, <4>0, AppendProperties
      <4>2. conn[s] \in Given
        BY DEF Given
      <4>. QED
        BY <1>0, <2>1, <3>2, <4>1, <4>2 DEF OnlyForHeld
    <3>. QED
      BY <1>1, <3>1, <3>2, SessionSends
  <2>3. task' = task /\ \A c \in Connectors : inbox'[c] # <<>> => inbox[c] # <<>>
    <3>1. CASE ReceiveNumber(s) \/ ReceiveRecord(s)
      BY <3>1 DEF ReceiveNumber, ReceiveRecord, Receive, serverVars, MonitorTypes
    <3>. QED
      BY <1>1, <3>1 DEF Session, AskNumber, Command, LookUp, Create, Return, AskRecords, Parse,
                        serverVars
  <2>. QED
    BY <2>1, <2>2, <2>3 DEF OnlyForHeld, MonitorTypes
<1>2. CASE Server \/ OtherDatagram \/ Lose \/ \E i \in Slots : Work(i)
  <2>1. \A c : c \in Given => c \in Given'
    BY <1>0, <1>2 DEF Server, Handle, SendRecord, OtherDatagram, Lose, Work, sessionVars, Given
  <2>2. \A i \in DOMAIN toServer' : toServer'[i].from \in Given'
    <3>1. \/ UNCHANGED toServer
          \/ toServer # <<>> /\ toServer' = Tail(toServer)
      BY <1>2 DEF Server, Handle, SendRecord, OtherDatagram, Lose, Work
    <3>. QED
      BY <2>1, <3>1, FirstRequest DEF OnlyForHeld
  <2>3. /\ task'.to # NoConnector => task'.to \in Given'
        /\ \A c \in Connectors : inbox'[c] # <<>> => c \in Given'
    <3>1. CASE Handle
      <4>. DEFINE d == Head(toServer)
      <4>1. d.from \in Connectors /\ d.from \in Given
        BY <3>1, FirstRequest DEF Handle, Requests, OnlyForHeld
      <4>2. /\ task'.to # NoConnector => task'.to = d.from
            /\ \/ UNCHANGED inbox
               \/ Deliver(d.from, TheNumber)
        BY <3>1 DEF Handle, TheNumber
      <4>3. \A c \in Connectors : inbox'[c] # inbox[c] => c = d.from
        BY <4>1, <4>2, Delivered, Consts
      <4>. QED
        BY <2>1, <4>1, <4>2, <4>3 DEF OnlyForHeld
    <3>2. CASE SendRecord
      <4>1. task.to \in Connectors /\ task.to \in Given
        BY <3>2, NextRecord DEF SendRecord, OnlyForHeld
      <4>2. task'.to # NoConnector => task'.to = task.to
        BY <3>2, Consts DEF SendRecord, MonitorTypes
      <4>3. \A c \in Connectors : inbox'[c] # inbox[c] => c = task.to
        BY <3>2, NextRecord, Delivered DEF SendRecord
      <4>. QED
        BY <2>1, <4>1, <4>2, <4>3 DEF OnlyForHeld
    <3>3. CASE OtherDatagram \/ Lose \/ \E i \in Slots : Work(i)
      <4>1. UNCHANGED task
        BY <3>3 DEF OtherDatagram, Lose, Work, serverVars
      <4>2. \A c \in Connectors : inbox'[c] # inbox[c] => inbox[c] # <<>>
        BY <3>3 DEF OtherDatagram, Lose, Work, MonitorTypes
      <4>. QED
        BY <2>1, <4>1, <4>2 DEF OnlyForHeld
    <3>. QED
      BY <1>2, <3>1, <3>2, <3>3 DEF Server
  <2>. QED
    BY <2>2, <2>3 DEF OnlyForHeld
<1>. QED
  BY <1>1, <1>2 DEF Next

LEMMA VersionsStep ==
  ASSUME MonitorTypes, Versions, Next
  PROVE  Versions'
<1>0. /\ Sessions' = Sessions /\ changes \in Nat
      /\ \A i \in Slots : table[i] \in Records
      /\ \A s \in Sessions, i \in Slots : since[s][i] \in Int
  BY SettingKept, Fields DEF Next, MonitorTypes
<1>1. ASSUME NEW s \in Sessions, Session(s) \/ AskNumber(s) \/ Command(s) PROVE Versions'
  <2>1. UNCHANGED <<table, changes>>
    BY <1>1 DEF Session, AskNumber, Command, LookUp, Create, Return, AskRecords, Parse,
                ReceiveNumber, ReceiveRecord, Receive, serverVars
  <2>2. \/ UNCHANGED since
        \/ since' = [since EXCEPT ![s] = [i \in Slots |-> table[i].ver]]
    BY <1>1 DEF Session, AskNumber, Command, LookUp, Create, Return, AskRecords, Parse,
                ReceiveNumber, ReceiveRecord, Receive
  <2>3. \A t \in Sessions, i \in Slots : since'[t][i] <= table[i].ver
    <3>1. CASE since' = [since EXCEPT ![s] = [i \in Slots |-> table[i].ver]]
      <4>1. /\ since'[s] = [i \in Slots |-> table[i].ver]
            /\ \A t \in Sessions \ {s} : since'[t] = since[t]
        BY <3>1 DEF MonitorTypes
      <4>2. \A i \in Slots : table[i].ver <= table[i].ver
        BY <1>0 DEF Records
      <4>. QED
        BY <4>1, <4>2 DEF Versions
    <3>. QED
      BY <2>2, <3>1 DEF Versions
  <2>. QED
    BY <1>0, <2>1, <2>3 DEF Versions
<1>2. CASE Server \/ OtherDatagram \/ Lose \/ \E i \in Slots : Work(i)
  <2>1. UNCHANGED since
    BY <1>2 DEF Server, Handle, SendRecord, OtherDatagram, Lose, Work, sessionVars
  <2>2. \/ UNCHANGED table /\ changes' \in {changes, changes + 1}
        \/ /\ \E i \in Slots : \E r : Renews(i, r) /\ table' = [table EXCEPT ![i] = r]
           /\ changes' = changes + 1
    BY <1>2, TableStep
  <2>3. ASSUME NEW i \in Slots
        PROVE  /\ table'[i].slot = i /\ table'[i].sock \in {Fd, Gone} /\ table'[i].ver \in Int
               /\ table'[i].ver <= changes' /\ table[i].ver <= table'[i].ver
    <3>1. \/ table'[i] = table[i] /\ changes' \in {changes, changes + 1}
          \/ Renews(i, table'[i]) /\ changes' = changes + 1
      BY <2>2 DEF MonitorTypes
    <3>2. table[i].ver \in Int /\ table[i].ver <= changes
      BY <1>0 DEF Records, Versions
    <3>3. CASE table'[i] = table[i] /\ changes' \in {changes, changes + 1}
      BY <1>0, <3>2, <3>3 DEF Versions
    <3>4. CASE Renews(i, table'[i]) /\ changes' = changes + 1
      BY <1>0, <3>2, <3>4 DEF Renews, Records
    <3>. QED
      BY <3>1, <3>3, <3>4
  <2>4. \A i \in Slots : table[i].ver \in Int
    BY <1>0 DEF Records
  <2>. QED
    BY <1>0, <2>1, <2>3, <2>4 DEF Versions
<1>. QED
  BY <1>1, <1>2 DEF Next
-----------------------------------------------------------------------------
(* The answers *)

(* A session's step does not touch another session.                        *)
LEMMA OtherUntouched ==
  ASSUME MonitorTypes, ConnectorsGiven, UNCHANGED setting, NEW s \in Sessions,
         NEW c \in Connectors, NEW t \in Sessions \ {s}, conn[t] # c,
         Session(t) \/ AskNumber(t) \/ Command(t)
  PROVE  SessionUntouched(s) /\ ConnectorUntouched(c)
<1>1. SessionUntouched(s)
  BY DEF Session, AskNumber, Command, LookUp, Create, Return, AskRecords, Parse,
         ReceiveNumber, ReceiveRecord, Receive, Goto, SessionUntouched, MonitorTypes
<1>2. inbox'[c] = inbox[c] /\ receiveData'[c] = receiveData[c] /\ task' = task
  BY DEF Session, AskNumber, Command, LookUp, Create, Return, AskRecords, Parse,
         ReceiveNumber, ReceiveRecord, Receive, serverVars, MonitorTypes
<1>3. RequestsUntouched(c)
  <2>1. CASE UNCHANGED toServer
    BY <2>1 DEF RequestsUntouched, Unasked, AskedOnce, Asks
  <2>2. toServer \in Seq(Requests)
    BY DEF MonitorTypes
  <2>. QED
    BY <2>1, <2>2, SessionSends, AppendOther
<1>. QED
  BY <1>1, <1>2, <1>3 DEF ConnectorUntouched

(* getInstance() gives a session a connector of its own only when nobody   *)
(* has had it, so nothing is under way for it.                             *)
LEMMA ReturnAnswered ==
  ASSUME MonitorInv, Next, NEW s \in Sessions, Return(s), NEW c \in Connectors, Private(s, c)'
  PROVE  Answered(s, c)'
<1>1. /\ Sessions' = Sessions /\ spc'[s] = "ready" /\ instance = c /\ spc[s] = "return"
      /\ conn[s] = NoConnector /\ rows'[s] = <<>> /\ \A t \in Sessions \ {s} : conn[t] # c
      /\ UNCHANGED <<toServer, inbox, task>>
  BY SettingKept
  DEF Next, Return, Goto, serverVars, Private, MonitorInv, MonitorTypes, ConnectorsGiven, Opening
<1>2. c \notin Given
  BY <1>1, Consts DEF Given
<1>3. Quiet(c)
  BY <1>2, Consts DEF MonitorInv, OnlyForHeld, Quiet, Unasked, Asks
<1>4. Quiet(c)'
  BY <1>1, <1>3 DEF Quiet, Unasked, Asks
<1>. QED
  BY <1>1, <1>3, <1>4 DEF Answered, Complete, RowsInPlace, Fresh, Quiet

(* How much is still to come *)
LEMMA Amounts ==
  ASSUME MonitorTypes, NEW s \in Sessions, NEW c \in Connectors
  PROVE  /\ Len(inbox[c]) \in Nat /\ Len(rows[s]) \in Nat
         /\ Unsent(c) \in Nat /\ (task.to = c => Unsent(c) > 0) /\ Taken(s) \in Nat
         /\ Len(inbox[c]) = 0 <=> inbox[c] = <<>>
<1>1. Len(inbox[c]) \in Nat /\ Len(rows[s]) \in Nat /\ (Len(inbox[c]) = 0 <=> inbox[c] = <<>>)
  BY EmptySeq DEF MonitorTypes
<1>2. Unsent(c) \in Nat /\ (task.to = c => Unsent(c) > 0)
  BY Consts DEF MonitorTypes, Unsent
<1>3. Taken(s) \in Nat
  <2>1. CASE spc[s] = "parse"
    BY <1>1, <2>1 DEF Taken
  <2>2. CASE spc[s] # "parse"
    BY <1>1, <2>2 DEF Taken
  <2>. QED
    BY <2>1, <2>2
<1>. QED
  BY <1>1, <1>2, <1>3

LEMMA AmountsKept ==
  ASSUME NEW s, NEW c
  PROVE  /\ SessionUntouched(s) => Taken(s)' = Taken(s)
         /\ task' = task => Unsent(c)' = Unsent(c)
  BY DEF SessionUntouched, Taken, Unsent

LEMMA AskNumberAnswered ==
  ASSUME MonitorTypes, Versions, UNCHANGED setting, NEW s \in Sessions, NEW c \in Connectors,
         conn[s] = c, Answered(s, c), AskNumber(s)
  PROVE  Answered(s, c)'
<1>1. /\ spc[s] = "ready" /\ spc'[s] = "number" /\ rows'[s] = <<>>
      /\ UNCHANGED <<inbox, task>>
  BY DEF AskNumber, Goto, serverVars, MonitorTypes
<1>2. Quiet(c)
  BY <1>1 DEF Answered, Complete, Elsewhere, Short
<1>3. AskedOnce(c, "NMR")'
  <2>. DEFINE d == [cmd |-> "NMR", id |-> 0, from |-> c]
  <2>1. d \in Requests /\ d.from = c /\ d.cmd = "NMR" /\ toServer' = Append(toServer, d)
    BY DEF AskNumber, Send, Requests
  <2>2. toServer \in Seq(Requests) /\ Unasked(c)
    BY <1>2 DEF MonitorTypes, Quiet
  <2>. HIDE DEF d
  <2>. QED
    BY <2>1, <2>2, AppendAsk
<1>. QED
  BY <1>1, <1>2, <1>3 DEF Answered, Complete, RowsInPlace, Fresh, Quiet

LEMMA AskRecordsAnswered ==
  ASSUME MonitorTypes, UNCHANGED setting, NEW s \in Sessions, NEW c \in Connectors,
         conn[s] = c, Answered(s, c), AskRecords(s)
  PROVE  Answered(s, c)'
<1>1. /\ spc[s] = "length" /\ UNCHANGED <<inbox, task, rows>>
      /\ rows[s] = <<>> /\ Quiet(c) /\ receiveData[c].int = Interval
  BY DEF AskRecords, serverVars, Answered, Complete, Elsewhere, Short
<1>2. /\ spc'[s] = "record" /\ len'[s] = Interval
      /\ IF DefaultPort THEN Send(s, "GET", 0) ELSE UNCHANGED toServer
  BY <1>1, Consts DEF AskRecords, Goto, MonitorTypes
<1>3. Fresh(s, c)'
  BY <1>1, <1>2 DEF Fresh, Quiet
<1>4. CASE DefaultPort
  <2>. DEFINE d == [cmd |-> "GET", id |-> 0, from |-> c]
  <2>1. d \in Requests /\ d.from = c /\ d.cmd = "GET" /\ toServer' = Append(toServer, d)
    BY <1>2, <1>4 DEF Send, Requests
  <2>2. toServer \in Seq(Requests) /\ Unasked(c)
    BY <1>1 DEF MonitorTypes, Quiet
  <2>. HIDE DEF d
  <2>3. AskedOnce(c, "GET")'
    BY <2>1, <2>2, AppendAsk
  <2>. QED
    BY <1>1, <1>2, <1>3, <2>3 DEF Answered, Complete, RowsInPlace, Quiet
<1>5. CASE ~DefaultPort
  <2>1. Quiet(c)'
    BY <1>1, <1>2, <1>5 DEF Quiet, Unasked, Asks
  <2>. QED
    BY <1>1, <1>2, <1>3, <1>5, <2>1, SettingKept DEF Answered, Elsewhere
<1>. QED
  BY <1>4, <1>5

LEMMA ReceiveAnswered ==
  ASSUME MonitorTypes, UNCHANGED setting, NEW s \in Sessions, NEW c \in Connectors,
         conn[s] = c, Answered(s, c), ReceiveNumber(s) \/ ReceiveRecord(s)
  PROVE  Answered(s, c)'
<1>. DEFINE d == Head(inbox[c])
<1>1. /\ inbox[c] # <<>> /\ inbox'[c] = Tail(inbox[c]) /\ receiveData'[c] = Fill(receiveData[c], d)
      /\ UNCHANGED <<len, rows, since, toServer, task>>
  BY DEF ReceiveNumber, ReceiveRecord, Receive, serverVars, MonitorTypes
<1>2. /\ Len(inbox[c]) \in Nat \ {0} /\ Len(inbox'[c]) = Len(inbox[c]) - 1
      /\ DOMAIN inbox[c] = 1 .. Len(inbox[c]) /\ DOMAIN inbox'[c] = 1 .. Len(inbox'[c])
      /\ \A j \in DOMAIN inbox'[c] : inbox'[c][j] = inbox[c][j + 1]
      /\ d = inbox[c][1] /\ inbox'[c] \in Seq(Datagrams) /\ d \in Datagrams
  <2>1. inbox[c] \in Seq(Datagrams)
    BY DEF MonitorTypes
  <2>. QED
    BY <1>1, <2>1, HeadTailProperties, EmptySeq
<1>3. /\ receiveData'[c].int = d.int
      /\ d.rest.slot # -1 => receiveData'[c].rest = d.rest
  BY <1>1, <1>2, Filled, Fields
<1>4. Unasked(c) => Unasked(c)'
  BY <1>1 DEF Unasked, Asks
<1>. HIDE DEF d
<1>5. CASE spc[s] = "number"
  <2>1. spc'[s] = "length"
    BY <1>5 DEF ReceiveNumber, ReceiveRecord, Receive, Goto, MonitorTypes
  <2>2. rows[s] = <<>> /\ task.to # c /\ Unasked(c) /\ inbox[c] = <<TheNumber>>
    BY <1>1, <1>5 DEF Answered, Complete, Elsewhere, Short, Quiet
  <2>3. d = TheNumber /\ inbox'[c] = <<>>
    BY <1>2, <2>2, EmptySeq
  <2>. QED
    BY <1>1, <1>3, <1>4, <2>1, <2>2, <2>3
    DEF Answered, Complete, RowsInPlace, Fresh, Quiet, TheNumber
<1>6. CASE spc[s] = "record"
  <2>1. spc'[s] = "parse"
    BY <1>6 DEF ReceiveNumber, ReceiveRecord, Receive, Goto, MonitorTypes
  <2>2. /\ Taken(s) = Len(rows[s]) /\ Taken(s)' = Taken(s) + 1 /\ Taken(s) \in Nat
        /\ Taken(s)' + Len(inbox'[c]) = Taken(s) + Len(inbox[c]) /\ Unsent(c)' = Unsent(c)
    <3>1. Taken(s) = Len(rows[s]) /\ Taken(s)' = Len(rows[s]) + 1 /\ Unsent(c)' = Unsent(c)
      BY <1>1, <1>6, <2>1, Amounts DEF Taken, Unsent
    <3>2. Len(inbox[c]) \in Nat /\ Len(inbox'[c]) = Len(inbox[c]) - 1 /\ Len(rows[s]) \in Nat
      BY <1>2, Amounts
    <3>3. Taken(s) \in Nat /\ Taken(s)' = Taken(s) + 1
      BY <3>1, <3>2
    <3>4. Taken(s)' + Len(inbox'[c]) = Taken(s) + Len(inbox[c])
      BY <3>2, <3>3
    <3>. QED
      BY <3>1, <3>3, <3>4
  <2>3. Fresh(s, c) /\ d.rest.slot \in Slots /\ receiveData'[c].rest = d.rest
    <3>1. Fresh(s, c) /\ d.rest.slot \in Slots
      BY <1>2, <1>6 DEF Answered, Fresh
    <3>. QED
      BY <1>3, <3>1, Consts
  <2>4. Fresh(s, c)'
    <3>1. \A k \in DOMAIN rows'[s] : FreshRecord(since[s], rows'[s][k])
      BY <1>1, <2>3 DEF Fresh
    <3>2. FreshRecord(since[s], receiveData'[c].rest)
      <4>1. FreshRecord(since[s], d.rest)
        BY <1>2, <2>3 DEF Fresh
      <4>. QED
        BY <1>1, <2>3, <4>1
    <3>3. \A j \in DOMAIN inbox'[c] :
              FreshRecord(since[s], inbox'[c][j].rest) /\ inbox'[c][j].rest.slot \in Slots
      <4>1. \A j \in DOMAIN inbox'[c] : j + 1 \in DOMAIN inbox[c]
        BY <1>2
      <4>. QED
        BY <1>1, <1>2, <1>6, <2>3, <4>1 DEF Fresh
    <3>. QED
      BY <1>1, <3>1, <3>2, <3>3 DEF Fresh
  <2>5. CASE Complete(s, c)
    <3>1. Unasked(c) /\ Arriving(s, c)
      BY <1>1, <1>6, <2>5 DEF Complete
    <3>2. RecordOf(receiveData'[c], Len(rows[s]))
      <4>1. RecordOf(inbox[c][1], Taken(s) + 1 - 1)
        BY <1>2, <3>1 DEF Arriving
      <4>2. RecordOf(d, Len(rows[s]))
        BY <1>2, <2>2, <4>1
      <4>. QED
        BY <1>3, <2>3, <4>2 DEF RecordOf
    <3>3. ASSUME NEW j \in DOMAIN inbox'[c] PROVE RecordOf(inbox'[c][j], Taken(s)' + j - 1)
      <4>1. j + 1 \in DOMAIN inbox[c] /\ inbox'[c][j] = inbox[c][j + 1]
        BY <1>2
      <4>2. RecordOf(inbox[c][j + 1], Taken(s) + (j + 1) - 1)
        BY <3>1, <4>1 DEF Arriving
      <4>3. Taken(s) + (j + 1) - 1 = Taken(s)' + j - 1
        BY <1>2, <2>2
      <4>. QED
        BY <4>1, <4>2, <4>3
    <3>4. Taken(s)' + Len(inbox'[c]) + Unsent(c)' = Interval
      BY <2>2, <3>1 DEF Arriving
    <3>5. Arriving(s, c)'
      BY <1>1, <3>2, <3>3, <3>4 DEF Arriving, RecordOf
    <3>6. Complete(s, c)'
      BY <1>1, <1>4, <1>6, <2>1, <2>5, <3>1, <3>5 DEF Complete, RowsInPlace
    <3>. QED
      BY <2>4, <3>6 DEF Answered
  <2>6. CASE Lossy /\ Short(s, c)
    <3>1. Short(s, c)'
      BY <1>1, <1>4, <1>6, <2>1, <2>2, <2>6 DEF Short
    <3>. QED
      BY <2>4, <2>6, <3>1, SettingKept DEF Answered
  <2>7. ~Elsewhere(s, c)
    BY <1>1 DEF Elsewhere, Quiet
  <2>. QED
    BY <2>5, <2>6, <2>7 DEF Answered
<1>. QED
  BY <1>5, <1>6 DEF ReceiveNumber, ReceiveRecord, Receive

LEMMA ParseAnswered ==
  ASSUME MonitorTypes, UNCHANGED setting, NEW s \in Sessions, NEW c \in Connectors,
         conn[s] = c, Answered(s, c), Parse(s)
  PROVE  Answered(s, c)'
<1>. DEFINE n == Len(rows[s])  row == Row(receiveData[c], n)
<1>1. /\ spc[s] = "parse" /\ rows'[s] = Append(rows[s], row)
      /\ spc'[s] = IF Len(rows'[s]) = len[s] THEN "ready" ELSE "record"
      /\ UNCHANGED <<len, since, inbox, receiveData, toServer, task>>
  BY DEF Parse, Goto, serverVars, MonitorTypes
<1>2. /\ n \in Nat /\ Len(rows'[s]) = n + 1 /\ DOMAIN rows[s] = 1 .. n
      /\ DOMAIN rows'[s] = 1 .. n + 1 /\ rows'[s][n + 1] = row
      /\ \A k \in 1 .. n : rows'[s][k] = rows[s][k]
  BY <1>1 DEF MonitorTypes
<1>3. /\ row.id = n /\ row.slot = receiveData[c].rest.slot /\ row.sock = receiveData[c].int
      /\ row.ver = receiveData[c].rest.ver
  BY DEF Row
<1>4. /\ Len(inbox[c]) \in Nat /\ (Len(inbox[c]) = 0 <=> inbox[c] = <<>>)
      /\ Unsent(c) \in Nat /\ (task.to = c => Unsent(c) > 0) /\ Unsent(c)' = Unsent(c)
  BY <1>1, Amounts DEF Unsent
<1>. HIDE DEF n, row
<1>5. Taken(s) = n + 1 /\ Taken(s)' = n + 1
  BY <1>1, <1>2 DEF Taken, n
<1>6. Unasked(c) => Unasked(c)'
  BY <1>1 DEF Unasked, Asks
<1>7. Fresh(s, c)'
  <2>1. FreshRecord(since[s], row)
    BY <1>1, <1>3 DEF Answered, Fresh, FreshRecord
  <2>2. \A k \in DOMAIN rows'[s] : FreshRecord(since[s], rows'[s][k])
    BY <1>2, <2>1 DEF Answered, Fresh
  <2>. QED
    BY <1>1, <2>2 DEF Answered, Fresh, FreshRecord
<1>8. CASE Complete(s, c)
  <2>1. /\ len[s] = Interval /\ Unasked(c) /\ RecordOf(receiveData[c], n)
        /\ \A j \in DOMAIN inbox[c] : RecordOf(inbox[c][j], n + 1 + j - 1)
        /\ n + 1 + Len(inbox[c]) + Unsent(c) = Interval
    BY <1>1, <1>5, <1>8 DEF Complete, Arriving, n
  <2>2. RowsInPlace(s)'
    <3>1. row.id = n /\ row.slot = n /\ row.sock \in {Fd, Gone}
      BY <1>3, <2>1 DEF RecordOf
    <3>2. RowsInPlace(s)
      BY <1>8 DEF Complete
    <3>3. ASSUME NEW k \in 1 .. n + 1
          PROVE  rows'[s][k].id = k - 1 /\ rows'[s][k].slot = k - 1 /\ rows'[s][k].sock \in {Fd, Gone}
      <4>1. k \in 1 .. n \/ k = n + 1
        BY <1>2
      <4>2. CASE k = n + 1
        <5>1. rows'[s][k] = row /\ k - 1 = n
          BY <1>2, <4>2
        <5>. QED
          BY <3>1, <5>1
      <4>3. CASE k \in 1 .. n
        BY <1>2, <3>2, <4>3 DEF RowsInPlace
      <4>. QED
        BY <4>1, <4>2, <4>3
    <3>. QED
      BY <1>2, <3>3 DEF RowsInPlace
  <2>3. spc'[s] = "ready" => Quiet(c)'
    <3>1. ASSUME spc'[s] = "ready" PROVE task.to # c /\ inbox[c] = <<>>
      <4>1. n + 1 = Interval
        BY <1>1, <1>2, <2>1, <3>1
      <4>2. n \in Nat /\ Len(inbox[c]) \in Nat /\ Unsent(c) \in Nat
        BY <1>2, <1>4
      <4>3. n + 1 + Len(inbox[c]) + Unsent(c) = Interval
        BY <2>1
      <4>4. Len(inbox[c]) = 0 /\ Unsent(c) = 0
        BY <4>1, <4>2, <4>3, Sums
      <4>. QED
        BY <1>4, <4>4
    <3>. QED
      BY <1>1, <1>6, <2>1, <3>1 DEF Quiet
  <2>4. spc'[s] = "record" => Arriving(s, c)'
    BY <1>1, <1>4, <1>5, <2>1 DEF Arriving, RecordOf
  <2>5. Complete(s, c)'
    BY <1>1, <1>6, <2>1, <2>2, <2>3, <2>4 DEF Complete
  <2>. QED
    BY <1>7, <2>5 DEF Answered
<1>9. CASE Lossy /\ Short(s, c)
  <2>1. /\ len[s] = Interval /\ Unasked(c)
        /\ n + 1 + Len(inbox[c]) + Unsent(c) < Interval
    BY <1>1, <1>5, <1>9 DEF Short
  <2>2. n + 1 < Interval
    <3>1. n \in Nat /\ Len(inbox[c]) \in Nat /\ Unsent(c) \in Nat
      BY <1>2, <1>4
    <3>2. n + 1 + Len(inbox[c]) + Unsent(c) < Interval
      BY <2>1
    <3>. QED
      BY <3>1, <3>2, Sums
  <2>3. spc'[s] = "record"
    BY <1>1, <1>2, <2>1, <2>2
  <2>4. Short(s, c)'
    BY <1>1, <1>4, <1>5, <1>6, <2>1, <2>3 DEF Short
  <2>. QED
    BY <1>7, <1>9, <2>4, SettingKept DEF Answered
<1>. QED
  BY <1>1, <1>8, <1>9 DEF Answered, Elsewhere

LEMMA HandleAnswered ==
  ASSUME MonitorTypes, ConnectorsGiven, UNCHANGED setting, NEW s \in Sessions,
         NEW c \in Connectors, conn[s] = c, Answered(s, c), Handle
  PROVE  Answered(s, c)'
<1>. DEFINE d == toServer[1]
<1>1. /\ toServer \in Seq(Requests) /\ toServer # <<>> /\ toServer' = Tail(toServer)
      /\ Head(toServer) = d /\ d \in Requests /\ d.from \in Connectors
      /\ task.to = NoConnector /\ UNCHANGED <<spc, len, rows, since, receiveData>>
  <2>1. Head(toServer) = d /\ d \in Requests
    BY FirstRequest DEF Handle
  <2>. QED
    BY <2>1 DEF Handle, MonitorTypes, sessionVars, Requests
<1>2. task.to # c /\ SessionUntouched(s)
  BY <1>1, Consts DEF SessionUntouched
<1>3. /\ d.cmd = "NMR" => Deliver(d.from, TheNumber) /\ UNCHANGED task
      /\ d.cmd = "GET" => task' = [to |-> d.from, next |-> 0] /\ UNCHANGED inbox
      /\ d.cmd \in Commands => UNCHANGED <<inbox, task>>
  BY <1>1 DEF Handle, TheNumber, Commands
<1>4. d.cmd \in Commands \cup {"NMR", "GET"}
  BY <1>1 DEF Requests
<1>. HIDE DEF d
<1>5. CASE Asks(1, c)
  <2>1. /\ d.from = c /\ ~Unasked(c)
        /\ \A cmd \in {"NMR", "GET"} : AskedOnce(c, cmd) => d.cmd = cmd /\ Unasked(c)'
    BY <1>1, <1>5, TailAsk DEF Asks, d
  <2>2. Complete(s, c) /\ Fresh(s, c)
    BY <2>1 DEF Answered, Elsewhere, Short, Quiet
  <2>3. spc[s] \in {"ready", "number", "length", "record", "parse"}
    BY Consts DEF ConnectorsGiven, MonitorTypes, Steps
  <2>4. /\ inbox[c] = <<>> /\ rows[s] = <<>>
        /\ \/ spc[s] = "number" /\ AskedOnce(c, "NMR")
           \/ spc[s] = "record" /\ AskedOnce(c, "GET") /\ len[s] = Interval
    BY <2>1, <2>2, <2>3 DEF Complete, Quiet
  <2>5. CASE spc[s] = "number"
    <3>1. d.cmd = "NMR" /\ Unasked(c)'
      BY <2>1, <2>4, <2>5
    <3>2. inbox'[c] = <<TheNumber>>
      BY <1>3, <2>1, <2>4, <3>1, Delivered, Consts
    <3>. QED
      BY <1>1, <1>2, <1>3, <2>4, <2>5, <3>1, <3>2, Consts
      DEF Answered, Complete, RowsInPlace, Fresh, FreshRecord, TheNumber, NoRecord
  <2>6. CASE spc[s] = "record"
    <3>1. d.cmd = "GET" /\ Unasked(c)' /\ len[s] = Interval
      BY <2>1, <2>4, <2>6
    <3>2. task'.to = c /\ task'.next = 0 /\ inbox' = inbox
      BY <1>3, <2>1, <3>1
    <3>3. Taken(s)' = 0 /\ Len(inbox'[c]) = 0 /\ Unsent(c)' = Interval
      BY <1>1, <2>4, <2>6, <3>2, IntervalPositive DEF Taken, Unsent
    <3>4. Arriving(s, c)'
      BY <1>1, <2>4, <2>6, <3>2, <3>3, IntervalPositive DEF Arriving
    <3>. QED
      BY <1>1, <2>4, <2>6, <3>1, <3>2, <3>4 DEF Answered, Complete, RowsInPlace, Fresh
  <2>. QED
    BY <2>4, <2>5, <2>6
<1>6. CASE ~Asks(1, c)
  <2>1. RequestsUntouched(c)
    BY <1>1, <1>6, TailOther
  <2>2. d.cmd \in {"NMR", "GET"} => d.from # c
    BY <1>6 DEF Asks, d
  <2>3. inbox'[c] = inbox[c] /\ (task'.to = c => task' = task)
    BY <1>1, <1>3, <1>4, <2>2, Delivered, Consts
  <2>4. ConnectorUntouched(c)
    BY <1>1, <1>2, <2>1, <2>3 DEF ConnectorUntouched
  <2>. QED
    BY <1>2, <2>4, AnswerKept
<1>. QED
  BY <1>5, <1>6

LEMMA SendRecordAnswered ==
  ASSUME MonitorTypes, ConnectorsGiven, Versions, UNCHANGED setting, NEW s \in Sessions,
         NEW c \in Connectors, conn[s] = c, Answered(s, c), SendRecord
  PROVE  Answered(s, c)'
<1>. DEFINE i == task.next  d == [int |-> table[i].sock, rest |-> table[i]]
<1>1. /\ task.to \in Connectors /\ i \in Slots /\ d \in Datagrams /\ Deliver(task.to, d)
      /\ task' = IF i + 1 < Interval THEN [task EXCEPT !.next = @ + 1] ELSE Idle
      /\ UNCHANGED <<spc, len, rows, since, receiveData, toServer>>
  BY NextRecord DEF SendRecord, sessionVars
<1>2. /\ RecordOf(d, i) /\ d.rest.slot \in Slots /\ FreshRecord(since[s], d.rest)
      /\ i \in Int /\ i < Interval
  <2>1. /\ table[i].slot = i /\ table[i].sock \in {Fd, Gone} /\ since[s][i] <= table[i].ver
        /\ table[i].ver \in Int /\ since[s][i] \in Int
    BY <1>1, Fields DEF Versions, Records, MonitorTypes
  <2>. QED
    BY <1>1, <2>1, Consts DEF RecordOf, FreshRecord
<1>3. RequestsUntouched(c) /\ SessionUntouched(s)
  BY <1>1 DEF RequestsUntouched, Unasked, AskedOnce, Asks, SessionUntouched
<1>. HIDE DEF d
<1>4. CASE task.to # c
  <2>1. inbox'[c] = inbox[c]
    BY <1>1, <1>4, Delivered
  <2>2. task'.to # c
    BY <1>1, <1>4, Consts DEF MonitorTypes
  <2>. QED
    BY <1>1, <1>3, <1>4, <2>1, <2>2, AnswerKept DEF ConnectorUntouched
<1>5. CASE task.to = c
  <2>1. inbox'[c] = Append(inbox[c], d)
    BY <1>1, <1>5, Delivered
  <2>2. /\ Len(inbox[c]) \in Nat /\ Len(inbox'[c]) = Len(inbox[c]) + 1
        /\ DOMAIN inbox'[c] = 1 .. Len(inbox[c]) + 1 /\ DOMAIN inbox[c] = 1 .. Len(inbox[c])
        /\ inbox'[c][Len(inbox[c]) + 1] = d
        /\ \A j \in DOMAIN inbox[c] : inbox'[c][j] = inbox[c][j]
    <3>1. inbox[c] \in Seq(Datagrams)
      BY DEF MonitorTypes
    <3>. QED
      BY <1>1, <2>1, <3>1, AppendProperties
  <2>3. Unsent(c) = Interval - i /\ Unsent(c)' = Unsent(c) - 1
    <3>1. CASE i + 1 < Interval
      <4>1. task'.to = c /\ task'.next = i + 1
        BY <1>1, <1>5, <3>1 DEF MonitorTypes
      <4>. QED
        BY <1>2, <1>5, <4>1, IntervalPositive DEF Unsent
    <3>2. CASE ~(i + 1 < Interval)
      <4>1. task'.to # c /\ i + 1 = Interval
        BY <1>1, <1>2, <3>2, Consts
      <4>. QED
        BY <1>2, <1>5, <4>1, IntervalPositive DEF Unsent
    <3>. QED
      BY <3>1, <3>2
  <2>4. spc[s] \in {"record", "parse"} /\ Unasked(c) /\ len[s] = Interval
    <3>1. spc[s] \in {"ready", "number", "length", "record", "parse"}
      BY Consts DEF ConnectorsGiven, MonitorTypes, Steps
    <3>. QED
      BY <1>5, <3>1 DEF Answered, Complete, Elsewhere, Short, Quiet
  <2>5. Taken(s)' = Taken(s) /\ Taken(s) \in Nat
    BY <1>1, <1>3, Amounts, AmountsKept
  <2>6. Fresh(s, c)'
    BY <1>1, <1>2, <2>2 DEF Answered, Fresh
  <2>7. CASE Complete(s, c)
    <3>1. Arriving(s, c)
      BY <1>5, <2>4, <2>7 DEF Complete
    <3>2. Taken(s) + Len(inbox[c]) = i
      <4>1. Taken(s) + Len(inbox[c]) + Unsent(c) = Interval
        BY <3>1 DEF Arriving
      <4>2. Taken(s) \in Nat /\ Len(inbox[c]) \in Nat /\ i \in Int /\ Unsent(c) = Interval - i
        BY <1>2, <2>2, <2>3, <2>5
      <4>. QED
        BY <4>1, <4>2, Sums
    <3>3. ASSUME NEW j \in DOMAIN inbox'[c] PROVE RecordOf(inbox'[c][j], Taken(s) + j - 1)
      <4>1. CASE j \in DOMAIN inbox[c]
        BY <2>2, <3>1, <4>1 DEF Arriving
      <4>2. CASE j = Len(inbox[c]) + 1
        <5>1. Taken(s) + j - 1 = i
          BY <2>2, <2>5, <3>2, <4>2
        <5>. QED
          BY <1>2, <2>2, <4>2, <5>1
      <4>. QED
        BY <2>2, <4>1, <4>2
    <3>4. Taken(s) + Len(inbox'[c]) + Unsent(c)' = Interval
      <4>1. /\ Taken(s) \in Nat /\ Len(inbox[c]) \in Nat /\ i \in Int
            /\ Len(inbox'[c]) = Len(inbox[c]) + 1 /\ Unsent(c)' = Interval - i - 1
        BY <1>2, <2>2, <2>3, <2>5, IntervalPositive
      <4>2. Taken(s) + (Len(inbox[c]) + 1) + (Interval - i - 1) = Interval
        BY <3>2, <4>1, Sums
      <4>. QED
        BY <4>1, <4>2
    <3>5. Arriving(s, c)'
      BY <1>1, <2>5, <3>1, <3>3, <3>4 DEF Arriving, RecordOf
    <3>6. Complete(s, c)'
      BY <1>1, <1>3, <2>4, <2>7, <3>5 DEF Complete, RowsInPlace, RequestsUntouched
    <3>. QED
      BY <2>6, <3>6 DEF Answered
  <2>8. CASE Lossy /\ Short(s, c)
    <3>1. Taken(s) + Len(inbox[c]) + Unsent(c) < Interval
      BY <2>4, <2>8 DEF Short
    <3>2. Taken(s)' + Len(inbox'[c]) + Unsent(c)' < Interval
      BY <1>2, <2>2, <2>3, <2>5, <3>1, IntervalPositive
    <3>. QED
      BY <1>1, <1>3, <2>4, <2>6, <2>8, <3>2, SettingKept DEF Answered, Short, RequestsUntouched
  <2>. QED
    BY <1>5, <2>7, <2>8 DEF Answered, Elsewhere, Quiet
<1>. QED
  BY <1>4, <1>5

(* A lost datagram of an answer leaves it short.                           *)
LEMMA LoseAnswered ==
  ASSUME MonitorTypes, ConnectorsGiven, UNCHANGED setting, NEW s \in Sessions,
         NEW c \in Connectors, conn[s] = c, Answered(s, c), Lose
  PROVE  Answered(s, c)'
<1>1. /\ Lossy /\ Lossy' /\ UNCHANGED <<spc, len, rows, since, receiveData, task>>
      /\ SessionUntouched(s)
  BY SettingKept DEF Lose, sessionVars, serverVars, SessionUntouched
<1>2. spc[s] \in {"ready", "number", "length", "record", "parse"}
  BY Consts DEF ConnectorsGiven, MonitorTypes, Steps
<1>3. Taken(s)' = Taken(s) /\ Taken(s) \in Nat /\ Unsent(c)' = Unsent(c)
  BY <1>1, Amounts, AmountsKept
<1>4. CASE toServer # <<>> /\ toServer' = Tail(toServer) /\ UNCHANGED inbox
  <2>1. toServer \in Seq(Requests)
    BY DEF MonitorTypes
  <2>2. CASE Asks(1, c)
    <3>1. ~Unasked(c) /\ \A cmd \in {"NMR", "GET"} : AskedOnce(c, cmd) => Unasked(c)'
      BY <1>4, <2>1, <2>2, TailAsk
    <3>2. Complete(s, c) /\ Fresh(s, c)
      BY <3>1 DEF Answered, Elsewhere, Short, Quiet
    <3>3. /\ inbox[c] = <<>> /\ rows[s] = <<>> /\ task.to # c /\ Unasked(c)'
          /\ \/ spc[s] = "number"
             \/ spc[s] = "record" /\ len[s] = Interval
      BY <1>2, <3>1, <3>2 DEF Complete, Quiet
    <3>4. Fresh(s, c)'
      BY <1>1, <1>4, <3>2 DEF Fresh
    <3>5. spc[s] = "record" => Taken(s) = 0 /\ Len(inbox[c]) = 0 /\ Unsent(c) = 0
      BY <3>3, Amounts DEF Taken, Unsent
    <3>6. Short(s, c)'
      BY <1>1, <1>3, <1>4, <3>3, <3>5, IntervalPositive DEF Short, Quiet
    <3>. QED
      BY <1>1, <3>4, <3>6 DEF Answered
  <2>3. CASE ~Asks(1, c)
    <3>1. RequestsUntouched(c)
      BY <1>4, <2>1, <2>3, TailOther
    <3>. QED
      BY <1>1, <1>4, <3>1, AnswerKept DEF ConnectorUntouched
  <2>. QED
    BY <2>2, <2>3
<1>5. ASSUME NEW e \in Connectors, inbox[e] # <<>>, inbox' = [inbox EXCEPT ![e] = Front(@)],
             UNCHANGED toServer
      PROVE  Answered(s, c)'
  <2>1. RequestsUntouched(c)
    BY <1>5 DEF RequestsUntouched, Unasked, AskedOnce, Asks
  <2>2. CASE e # c
    <3>1. inbox'[c] = inbox[c]
      BY <1>5, <2>2 DEF MonitorTypes
    <3>. QED
      BY <1>1, <2>1, <3>1, AnswerKept DEF ConnectorUntouched
  <2>3. CASE e = c
    <3>1. inbox[c] \in Seq(Datagrams) /\ inbox'[c] = Front(inbox[c])
      BY <1>5, <2>3 DEF MonitorTypes
    <3>2. /\ Len(inbox[c]) \in Nat /\ Len(inbox'[c]) = Len(inbox[c]) - 1
          /\ inbox'[c] \in Seq(Datagrams)
          /\ \A j \in DOMAIN inbox'[c] : j \in DOMAIN inbox[c] /\ inbox'[c][j] = inbox[c][j]
      BY <1>5, <2>3, <3>1, FrontDef
    <3>3. Fresh(s, c)'
      BY <1>1, <3>2 DEF Answered, Fresh
    <3>4. CASE spc[s] = "number"
      <4>1. Unasked(c) /\ task.to # c /\ inbox[c] = <<TheNumber>>
        BY <1>5, <2>3, <3>4 DEF Answered, Complete, Elsewhere, Short, Quiet
      <4>2. inbox'[c] = <<>>
        BY <3>2, <4>1, EmptySeq
      <4>3. Quiet(c)'
        BY <1>1, <2>1, <4>1, <4>2 DEF Quiet, RequestsUntouched
      <4>. QED
        BY <1>1, <3>3, <3>4, <4>3 DEF Answered, Short
    <3>5. CASE spc[s] \in {"record", "parse"}
      <4>1. Unasked(c) /\ len[s] = Interval /\ Taken(s) + Len(inbox[c]) + Unsent(c) <= Interval
        <5>1. CASE Complete(s, c)
          BY <1>5, <2>3, <3>5, <5>1, IntervalPositive DEF Complete, Arriving
        <5>2. CASE Short(s, c)
          <6>1. Unasked(c) /\ len[s] = Interval /\ Taken(s) + Len(inbox[c]) + Unsent(c) < Interval
            BY <3>5, <5>2 DEF Short
          <6>. QED
            BY <1>3, <3>2, <6>1, Amounts, IntervalPositive
        <5>. QED
          BY <1>5, <2>3, <5>1, <5>2 DEF Answered, Elsewhere, Quiet
      <4>2. Taken(s)' + Len(inbox'[c]) + Unsent(c)' < Interval
        BY <1>3, <3>2, <4>1, Amounts, IntervalPositive
      <4>. QED
        BY <1>1, <2>1, <3>3, <3>5, <4>1, <4>2 DEF Answered, Short, RequestsUntouched
    <3>. QED
      BY <1>2, <1>5, <2>3, <3>4, <3>5 DEF Answered, Complete, Elsewhere, Short, Quiet
  <2>. QED
    BY <2>2, <2>3
<1>. QED
  BY <1>4, <1>5 DEF Lose
-----------------------------------------------------------------------------
(* The invariant and what follows from it *)

LEMMA MonitorBegin == Init => MonitorInv
<1>. SUFFICES ASSUME Init PROVE MonitorInv
  OBVIOUS
<1>1. MonitorTypes
  BY TypesBegin
<1>2. ConnectorsGiven /\ OnlyForHeld
  BY Consts DEF Init, ConnectorsGiven, OnlyForHeld, Opening
<1>3. Versions
  BY DEF Init, Versions
<1>4. \A s \in Sessions, c \in Connectors : ~Private(s, c)
  BY Consts DEF Init, Private
<1>. QED
  BY <1>1, <1>2, <1>3, <1>4 DEF Init, MonitorInv

LEMMA MonitorStep == MonitorInv /\ [Next]_vars => MonitorInv'
<1>. SUFFICES ASSUME MonitorInv, [Next]_vars PROVE MonitorInv'
  OBVIOUS
<1>0. MonitorTypes /\ ConnectorsGiven /\ OnlyForHeld /\ Versions
  BY DEF MonitorInv
<1>1. CASE UNCHANGED vars
  <2>1. UNCHANGED <<setting, instance, conn, spc, len, rows, since, inbox, receiveData, toServer,
                    task, table, changes>> /\ Sessions' = Sessions
    BY <1>1, SettingKept DEF vars, sessionVars, serverVars
  <2>2. MonitorTypes' /\ ConnectorsGiven' /\ OnlyForHeld' /\ Versions'
    <3>1. MonitorTypes'
      BY <1>0, <2>1 DEF MonitorTypes
    <3>2. ConnectorsGiven'
      BY <1>0, <2>1 DEF ConnectorsGiven
    <3>3. OnlyForHeld'
      BY <1>0, <2>1 DEF OnlyForHeld, Given
    <3>4. Versions'
      BY <1>0, <2>1 DEF Versions
    <3>. QED
      BY <3>1, <3>2, <3>3, <3>4
  <2>3. ASSUME NEW s \in Sessions, NEW c \in Connectors, Private(s, c)' PROVE Answered(s, c)'
    <3>1. Answered(s, c)
      BY <2>1, <2>3 DEF MonitorInv, Private
    <3>2. SessionUntouched(s) /\ ConnectorUntouched(c)
      BY <2>1
      DEF SessionUntouched, ConnectorUntouched, RequestsUntouched, Unasked, AskedOnce, Asks
    <3>. QED
      BY <2>1, <3>1, <3>2, AnswerKept
  <2>. QED
    BY <2>1, <2>2, <2>3 DEF MonitorInv
<1>2. CASE Next
  <2>1. UNCHANGED setting /\ Sessions' = Sessions
    BY <1>2, SettingKept DEF Next
  <2>2. MonitorTypes'
    BY <1>0, <1>2, SessionTypes, ServerTypes DEF Next
  <2>3. ConnectorsGiven' /\ OnlyForHeld' /\ Versions'
    BY <1>0, <1>2, <2>2, GivenStep, HeldStep, VersionsStep
  <2>4. ASSUME NEW s \in Sessions, NEW c \in Connectors, Private(s, c)' PROVE Answered(s, c)'
    <3>1. ASSUME NEW t \in Sessions, Return(t) PROVE Answered(s, c)'
      <4>1. CASE t = s
        BY <1>2, <2>4, <3>1, <4>1, ReturnAnswered
      <4>2. CASE t # s
        <5>1. Private(s, c) /\ conn[t] # c
          BY <1>0, <2>1, <2>4, <3>1, <4>2, Consts
          DEF Private, Return, MonitorTypes, ConnectorsGiven, Opening
        <5>2. SessionUntouched(s) /\ ConnectorUntouched(c)
          BY <1>0, <2>1, <3>1, <4>2, <5>1, OtherUntouched DEF Session
        <5>. QED
          BY <2>1, <5>1, <5>2, AnswerKept DEF MonitorInv
      <4>. QED
        BY <4>1, <4>2
    <3>2. ASSUME UNCHANGED conn PROVE conn[s] = c /\ Private(s, c) /\ Answered(s, c)
      BY <2>1, <2>4, <3>2 DEF Private, MonitorInv
    <3>3. ASSUME NEW t \in Sessions,
                 \/ LookUp(t) \/ Create(t) \/ AskNumber(t) \/ Command(t) \/ AskRecords(t)
                 \/ Parse(t) \/ ReceiveNumber(t) \/ ReceiveRecord(t)
          PROVE  Answered(s, c)'
      <4>1. UNCHANGED conn
        BY <3>3 DEF LookUp, Create, AskNumber, Command, AskRecords, Parse, ReceiveNumber,
                    ReceiveRecord, Receive
      <4>2. CASE t # s
        <5>1. conn[t] # c
          BY <3>2, <4>1, <4>2 DEF Private
        <5>2. SessionUntouched(s) /\ ConnectorUntouched(c)
          BY <1>0, <2>1, <3>3, <4>2, <5>1, OtherUntouched DEF Session
        <5>. QED
          BY <2>1, <3>2, <4>1, <5>2, AnswerKept
      <4>3. CASE t = s
        <5>1. CASE LookUp(s) \/ Create(s)
          BY <1>0, <3>2, <4>1, <5>1, Consts DEF LookUp, Create, ConnectorsGiven, Opening
        <5>2. CASE Command(s)
          <6>1. RequestsUntouched(c)
            <7>1. PICK cmd \in Commands, i \in Slots : Send(s, cmd, i)
              BY <5>2 DEF Command
            <7>2. /\ [cmd |-> cmd, id |-> i, from |-> c] \in Requests
                  /\ toServer' = Append(toServer, [cmd |-> cmd, id |-> i, from |-> c])
              BY <3>2, <4>1, <7>1, Consts DEF Send, Requests
            <7>3. toServer \in Seq(Requests)
              BY <1>0 DEF MonitorTypes
            <7>. QED
              BY <7>2, <7>3, AppendOther
          <6>2. SessionUntouched(s) /\ ConnectorUntouched(c)
            BY <5>2, <6>1 DEF Command, serverVars, SessionUntouched, ConnectorUntouched
          <6>. QED
            BY <2>1, <3>2, <4>1, <6>2, AnswerKept
        <5>. QED
          BY <1>0, <2>1, <3>2, <3>3, <4>1, <4>3, <5>1, <5>2, AskNumberAnswered,
             AskRecordsAnswered, ParseAnswered, ReceiveAnswered
      <4>. QED
        BY <4>2, <4>3
    <3>4. CASE Server \/ Lose
      <4>1. UNCHANGED conn
        BY <3>4 DEF Server, Handle, SendRecord, Lose, sessionVars
      <4>. QED
        BY <1>0, <2>1, <3>2, <3>4, <4>1, HandleAnswered, SendRecordAnswered, LoseAnswered DEF Server
    <3>5. CASE OtherDatagram \/ \E i \in Slots : Work(i)
      <4>1. UNCHANGED conn /\ SessionUntouched(s) /\ ConnectorUntouched(c)
        BY <3>5
        DEF OtherDatagram, Work, sessionVars, SessionUntouched, ConnectorUntouched,
            RequestsUntouched, Unasked, AskedOnce, Asks
      <4>. QED
        BY <2>1, <3>2, <4>1, AnswerKept
    <3>. QED
      BY <1>2, <3>1, <3>3, <3>4, <3>5 DEF Next, Session
  <2>. QED
    BY <2>1, <2>2, <2>3, <2>4 DEF MonitorInv
<1>. QED
  BY <1>1, <1>2

(* The only page has its connector to itself. *)
LEMMA OnlyPage ==
  ASSUME MonitorInv, Cardinality(Sessions) = 1, NEW s \in Sessions
  PROVE  conn[s] # NoConnector => Private(s, conn[s]) /\ conn[s] \in Connectors
<1>1. IsFiniteSet(Sessions)
  BY MonitorConstants DEF MonitorInv, Sessions
<1>2. Sessions = {s}
  BY <1>1, FS_Singleton
<1>. QED
  BY <1>2 DEF Private, MonitorInv, MonitorTypes

(* Without losses whatever a session with a connector of its own has read  *)
(* is in place.                                                            *)
LEMMA AnswerInPlace ==
  ASSUME MonitorInv, NEW s \in Sessions, NEW c \in Connectors, Private(s, c),
         ~Lossy \/ spc[s] = "ready"
  PROVE  InPlace(s)
<1>1. CASE Complete(s, c)
  BY <1>1 DEF Complete, RowsInPlace, InPlace
<1>2. CASE Elsewhere(s, c)
  BY <1>2 DEF Elsewhere, InPlace
<1>. QED
  BY <1>1, <1>2 DEF MonitorInv, Answered, Short

(* The answer the only page gets to its end is in place, however many      *)
(* datagrams get lost.                                                     *)
THEOREM WholeAnswersInPlace == Spec => []WholeInPlace
<1>1. MonitorInv => WholeInPlace
  <2>. SUFFICES ASSUME MonitorInv, Cardinality(Sessions) = 1,
                       NEW s \in Sessions, spc[s] = "ready"
                PROVE  InPlace(s)
    BY DEF WholeInPlace
  <2>1. conn[s] # NoConnector
    BY DEF MonitorInv, ConnectorsGiven, Opening
  <2>. QED
    BY <2>1, OnlyPage, AnswerInPlace
<1>. QED
  BY <1>1, MonitorBegin, MonitorStep, PTL DEF Spec

(* Without losses a session reads its rows in place whenever no other has  *)
(* its connector, also when getInstance() was raced through.               *)
THEOREM OwnAnswersInPlace == Spec => []OwnSocketInPlace
<1>1. MonitorInv => OwnSocketInPlace
  <2>. SUFFICES ASSUME MonitorInv, ~Lossy, NEW s \in Sessions,
                       \A t \in Sessions \ {s} : conn[t] # conn[s]
                PROVE  InPlace(s)
    BY DEF OwnSocketInPlace
  <2>1. CASE conn[s] = NoConnector
    BY <2>1 DEF MonitorInv, ConnectorsGiven, InPlace
  <2>2. CASE conn[s] # NoConnector
    <3>1. conn[s] \in Connectors /\ Private(s, conn[s])
      BY <2>2 DEF MonitorInv, MonitorTypes, Private
    <3>. QED
      BY <3>1, AnswerInPlace
  <2>. QED
    BY <2>1, <2>2
<1>. QED
  BY <1>1, MonitorBegin, MonitorStep, PTL DEF Spec

(* No row the only page shows is older than its question.                  *)
THEOREM RowsAlwaysFresh == Spec => []RowsAreFresh
<1>1. MonitorInv => RowsAreFresh
  <2>. SUFFICES ASSUME MonitorInv, Cardinality(Sessions) = 1,
                       NEW s \in Sessions, NEW k \in DOMAIN rows[s], rows[s][k].slot \in Slots
                PROVE  rows[s][k].ver >= since[s][rows[s][k].slot]
    BY DEF RowsAreFresh
  <2>1. conn[s] # NoConnector
    BY DEF MonitorInv, ConnectorsGiven
  <2>2. Fresh(s, conn[s])
    BY <2>1, OnlyPage DEF MonitorInv, Answered
  <2>. QED
    BY <2>2 DEF Fresh, FreshRecord
<1>. QED
  BY <1>1, MonitorBegin, MonitorStep, PTL DEF Spec

-----------------------------------------------------------------------------
(* Accounts, for any number of browsers, names and passwords, and for      *)
(* pools, logins and edits without a bound.                                *)

AccountSteps == {"idle", "check", "stamp", "open", "password", "set", "account", "exists", "insert"}
UserRows == [name : Names, password : Passwords, key : Nat]
Attributes == [name : Names, key : Nat]
AccountRequests == [pc : AccountSteps, name : Names, gave : Passwords, new : Passwords]

AccountsTypes ==
    /\ users \in Seq(UserRows)
    /\ http \in [Browsers -> Attributes] /\ page \in [Browsers -> Attributes]
    /\ request \in [Browsers -> AccountRequests]
    /\ nextKey \in Nat /\ overlap \in BOOLEAN

(* No two rows have one name, no row has a name that is about to be        *)
(* inserted, and no two browsers are about to insert the same one.         *)
NamesUnique == \A j, k \in DOMAIN users : users[j].name = users[k].name => j = k
InsertsNew ==
    \A b \in Browsers : request[b].pc = "insert" =>
        \A k \in DOMAIN users : users[k].name # request[b].name
InsertsApart ==
    \A b, c \in Browsers :
        request[b].pc = "insert" /\ request[c].pc = "insert" /\ request[b].name = request[c].name
            => b = c

AccountsInv ==
    /\ AccountsTypes
    /\ ~overlap => NamesUnique /\ InsertsNew /\ InsertsApart

(* Every name of the beginning has one row. *)
LEMMA FirstNames ==
  /\ Cardinality(First) \in Nat
  /\ SetToSeq(First) \in [1 .. Cardinality(First) -> First]
  /\ IsInjective(SetToSeq(First))
<1>1. Cardinality(First) \in Nat /\ ExistsBijection(1 .. Cardinality(First), First)
  BY AccountsConstants, FS_CardinalityType
<1>2. \E f \in [1 .. Cardinality(First) -> First] : IsInjective(f)
  BY <1>1 DEF ExistsBijection, Bijection, Injection, IsInjective
<1>. QED
  BY <1>1, <1>2 DEF SetToSeq

LEMMA RowsOfFunction ==
  ASSUME NEW S, NEW n \in Nat, NEW f \in [1 .. n -> S]
  PROVE  f \in Seq(S) /\ DOMAIN f = 1 .. n
  OBVIOUS

(* A request goes to another step, and to nothing else.                    *)
LEMMA StepTaken ==
  ASSUME AccountsTypes, NEW b \in Browsers, NEW pc \in AccountSteps, Step(b, pc)
  PROVE  /\ request' \in [Browsers -> AccountRequests]
         /\ request'[b].pc = pc /\ request'[b].name = request[b].name
         /\ \A c \in Browsers \ {b} : request'[c] = request[c]
<1>1. request[b] \in AccountRequests
  BY DEF AccountsTypes
<1>2. [request[b] EXCEPT !.pc = pc] \in AccountRequests
  BY <1>1 DEF AccountRequests
<1>. QED
  BY <1>1, <1>2 DEF AccountsTypes, Step, AccountRequests

LEMMA AccountsBegin == AccountsInit => AccountsInv
<1>. SUFFICES ASSUME AccountsInit PROVE AccountsInv
  OBVIOUS
<1>1. users \in Seq(UserRows)
  <2>1. users \in [1 .. Cardinality(First) -> UserRows]
    BY FirstNames, AccountsConstants DEF AccountsInit, UserRows, NoKey
  <2>. QED
    BY <2>1, FirstNames, RowsOfFunction
<1>2. AccountsTypes
  BY <1>1, AccountsConstants
  DEF AccountsInit, AccountsTypes, Attributes, AccountRequests, AccountSteps, Nobody, NoKey, NoRequest
<1>3. NamesUnique
  BY FirstNames DEF AccountsInit, NamesUnique, IsInjective
<1>4. \A b \in Browsers : request[b].pc # "insert"
  BY DEF AccountsInit, NoRequest
<1>. QED
  BY <1>2, <1>3, <1>4 DEF AccountsInv, InsertsNew, InsertsApart

(* What a step that writes no row and begins no insert leaves alone.       *)
LEMMA RowsKept ==
  ASSUME AccountsInv, AccountsTypes',
         DOMAIN users' = DOMAIN users,
         \A k \in DOMAIN users : users'[k].name = users[k].name,
         \A b \in Browsers : request'[b].pc = "insert" => request'[b] = request[b],
         overlap' = overlap
  PROVE  AccountsInv'
  BY DEF AccountsInv, NamesUnique, InsertsNew, InsertsApart

LEMMA AccountsStep == AccountsInv /\ [AccountsNext]_accountsVars => AccountsInv'
<1>. SUFFICES ASSUME AccountsInv, [AccountsNext]_accountsVars PROVE AccountsInv'
  OBVIOUS
<1>0. AccountsTypes
  BY DEF AccountsInv
<1>1. CASE UNCHANGED accountsVars
  BY <1>1 DEF accountsVars, AccountsInv, AccountsTypes, NamesUnique, InsertsNew, InsertsApart
<1>2. ASSUME NEW b \in Browsers,
             Login(b) \/ CheckUser(b) \/ Open(b) \/ Logout(b) \/ Message(b) \/ Edit(b)
                 \/ CheckPassword(b) \/ CheckAdmin(b)
      PROVE  AccountsInv'
  <2>1. UNCHANGED <<users, overlap>>
    BY <1>2 DEF Login, CheckUser, Open, Logout, Message, Edit, CheckPassword, CheckAdmin
  <2>2. /\ request' \in [Browsers -> AccountRequests]
        /\ \A c \in Browsers : request'[c].pc = "insert" => request'[c] = request[c]
    <3>1. CASE Login(b)
      BY <1>0, <3>1, AccountsConstants DEF Login, AccountsTypes, AccountSteps, AccountRequests
    <3>2. CASE Edit(b)
      BY <1>0, <3>2 DEF Edit, AccountsTypes, AccountSteps, AccountRequests
    <3>3. CASE Logout(b) \/ Message(b)
      BY <1>0, <3>3 DEF Logout, Message, AccountsTypes
    <3>4. CASE CheckUser(b) \/ Open(b) \/ CheckPassword(b) \/ CheckAdmin(b)
      <4>1. \/ Step(b, "stamp") \/ Step(b, "idle")
            \/ Step(b, "set") \/ Step(b, "exists")
        <5>1. CASE CheckUser(b) \/ Open(b)
          BY <5>1 DEF CheckUser, Open
        <5>2. CASE CheckPassword(b)
          BY <5>2 DEF CheckPassword
        <5>3. CASE CheckAdmin(b)
          BY <5>3 DEF CheckAdmin
        <5>. QED
          BY <3>4, <5>1, <5>2, <5>3
      <4>. QED
        BY <1>0, <4>1, StepTaken DEF AccountSteps
    <3>. QED
      BY <1>2, <3>1, <3>2, <3>3, <3>4
  <2>3. http' \in [Browsers -> Attributes] /\ nextKey' \in Nat
    <3>1. CASE CheckUser(b)
      <4>1. /\ request[b] \in AccountRequests
            /\ \/ http' = [http EXCEPT ![b] = [name |-> request[b].name, key |-> nextKey + 1]]
                  /\ nextKey' = nextKey + 1
               \/ UNCHANGED <<http, nextKey>>
        BY <1>0, <3>1 DEF CheckUser, AccountsTypes
      <4>. QED
        BY <1>0, <4>1 DEF AccountsTypes, Attributes, AccountRequests
    <3>2. CASE Logout(b)
      BY <1>0, <3>2, AccountsConstants DEF Logout, AccountsTypes, Attributes, Nobody, NoKey
    <3>. QED
      BY <1>0, <1>2, <3>1, <3>2
      DEF Login, Open, Message, Edit, CheckPassword, CheckAdmin, AccountsTypes
  <2>4. page' \in [Browsers -> Attributes]
    <3>1. page' = [page EXCEPT ![b] = http[b]] \/ UNCHANGED page
      BY <1>2 DEF Login, CheckUser, Open, Logout, Message, Edit, CheckPassword, CheckAdmin
    <3>. QED
      BY <1>0, <3>1 DEF AccountsTypes
  <2>. QED
    BY <1>0, <2>1, <2>2, <2>3, <2>4, RowsKept DEF AccountsTypes
<1>3. ASSUME NEW b \in Browsers, Stamp(b) \/ SetPassword(b) PROVE AccountsInv'
  <2>0. /\ users \in [1 .. Len(users) -> UserRows] /\ Len(users) \in Nat
        /\ request[b] \in AccountRequests /\ http[b] \in Attributes
    BY <1>0 DEF AccountsTypes
  <2>1. /\ users' \in [1 .. Len(users) -> UserRows]
        /\ \A k \in DOMAIN users : users'[k].name = users[k].name
    <3>1. CASE Stamp(b)
      <4>1. PICK here : users' = [k \in DOMAIN users |->
                IF k \in here THEN [users[k] EXCEPT !.key = http[b].key] ELSE users[k]]
        BY <3>1 DEF Stamp, StampWhere
      <4>2. \A k \in DOMAIN users : [users[k] EXCEPT !.key = http[b].key] =
              [name |-> users[k].name, password |-> users[k].password, key |-> http[b].key]
        BY <2>0 DEF UserRows
      <4>. QED
        BY <2>0, <4>1, <4>2 DEF UserRows, Attributes
    <3>2. CASE SetPassword(b)
      <4>1. \A k \in DOMAIN users : [users[k] EXCEPT !.password = request[b].new] =
              [name |-> users[k].name, password |-> request[b].new, key |-> users[k].key]
        BY <2>0 DEF UserRows
      <4>. QED
        BY <2>0, <3>2, <4>1 DEF SetPassword, UserRows, AccountRequests
    <3>. QED
      BY <1>3, <3>1, <3>2
  <2>2. /\ request' \in [Browsers -> AccountRequests]
        /\ \A c \in Browsers : request'[c].pc = "insert" => request'[c] = request[c]
    <3>1. PICK pc \in AccountSteps \ {"insert"} : Step(b, pc)
      BY <1>3 DEF Stamp, StampWhere, SetPassword, AccountSteps
    <3>. QED
      BY <1>0, <3>1, StepTaken
  <2>3. UNCHANGED <<http, page, nextKey, overlap>>
    BY <1>3 DEF Stamp, StampWhere, SetPassword
  <2>4. users' \in Seq(UserRows) /\ DOMAIN users' = DOMAIN users
    BY <2>0, <2>1, RowsOfFunction
  <2>. QED
    BY <1>0, <2>1, <2>2, <2>3, <2>4, RowsKept DEF AccountsTypes
<1>4. ASSUME NEW b \in Browsers, CheckName(b) PROVE AccountsInv'
  <2>1. UNCHANGED <<users, http, page, nextKey>>
    BY <1>4 DEF CheckName
  <2>a. PICK pc \in AccountSteps : Step(b, pc) /\ (pc = "insert" =>
                                ~\E k \in DOMAIN users : users[k].name = request[b].name)
    BY <1>4 DEF CheckName, AccountSteps
  <2>2. AccountsTypes'
    BY <1>0, <1>4, <2>1, <2>a, StepTaken DEF CheckName, AccountsTypes
  <2>3. CASE \E k \in DOMAIN users : users[k].name = request[b].name
    BY <1>0, <1>4, <2>1, <2>2, <2>3, <2>a, StepTaken, RowsKept DEF CheckName
  <2>4. CASE ~\E k \in DOMAIN users : users[k].name = request[b].name
    <3>1. Step(b, "insert")
      BY <1>4, <2>4 DEF CheckName
    <3>2. ~overlap' => /\ ~overlap
                       /\ \A c \in Browsers \ {b} :
                             request[c].pc = "insert" => request[c].name # request[b].name
      BY <1>4, <2>4 DEF CheckName
    <3>3. \A c \in Browsers : /\ request'[c].name = request[c].name
                              /\ c # b => request'[c] = request[c]
      BY <1>0, <3>1, StepTaken DEF AccountSteps
    <3>. QED
      BY <2>1, <2>2, <2>4, <3>2, <3>3 DEF AccountsInv, NamesUnique, InsertsNew, InsertsApart
  <2>. QED
    BY <2>3, <2>4
<1>5. ASSUME NEW b \in Browsers, Insert(b) PROVE AccountsInv'
  <2>. DEFINE row == [name |-> request[b].name, password |-> request[b].new, key |-> NoKey]
  <2>1. row \in UserRows /\ users' = Append(users, row) /\ UNCHANGED <<http, page, nextKey, overlap>>
    BY <1>0, <1>5 DEF Insert, AccountsTypes, NoKey, AccountRequests, UserRows
  <2>2. /\ users' \in Seq(UserRows) /\ DOMAIN users' = 1 .. Len(users) + 1
        /\ DOMAIN users = 1 .. Len(users) /\ Len(users) \in Nat
        /\ \A k \in DOMAIN users : users'[k] = users[k]
        /\ users'[Len(users) + 1].name = request[b].name
    BY <1>0, <2>1, AppendProperties DEF AccountsTypes
  <2>3. /\ request[b].pc = "insert" /\ request' \in [Browsers -> AccountRequests]
        /\ \A c \in Browsers : request'[c].pc = "insert" => c # b /\ request'[c] = request[c]
    BY <1>0, <1>5, StepTaken DEF Insert, AccountSteps
  <2>4. AccountsTypes'
    BY <1>0, <2>1, <2>2, <2>3 DEF AccountsTypes
  <2>5. ~overlap => NamesUnique'
    BY <2>2, <2>3 DEF AccountsInv, NamesUnique, InsertsNew
  <2>6. ~overlap => InsertsNew' /\ InsertsApart'
    BY <2>2, <2>3 DEF AccountsInv, InsertsNew, InsertsApart
  <2>. QED
    BY <2>1, <2>4, <2>5, <2>6 DEF AccountsInv
<1>. QED
  BY <1>1, <1>2, <1>3, <1>4, <1>5 DEF AccountsNext

(* Two pages of one user are accepted at one time only with the key of one *)
(* login, as long as no two requests for one new name overlapped.          *)
THEOREM LastLoginAlways == AccountsSpec => []LastLoginHolds
<1>1. AccountsInv => LastLoginHolds
  BY DEF AccountsInv, NamesUnique, LastLoginHolds, Accepts, HasRow
<1>. QED
  BY <1>1, AccountsBegin, AccountsStep, PTL DEF AccountsSpec

(* A key is written only where the password given is the row's password of *)
(* that moment, and no other step writes a key over another.               *)
THEOREM PasswordGuardsKey == AccountsSpec => OldPasswordOpensNothing
<1>1. AccountsInv /\ [AccountsNext]_accountsVars => [KeyForPassword]_accountsVars
  <2>. SUFFICES ASSUME AccountsInv, AccountsNext PROVE KeyForPassword
    OBVIOUS
  <2>1. users \in Seq(UserRows)
    BY DEF AccountsInv, AccountsTypes
  <2>2. PICK b \in Browsers :
          \/ UNCHANGED users
          \/ Stamp(b)
          \/ SetPassword(b) \/ Insert(b)
    BY DEF AccountsNext, Login, CheckUser, Open, Logout, Message, Edit, CheckPassword,
           CheckAdmin, CheckName
  <2>3. CASE Stamp(b)
    BY <2>1, <2>3 DEF Stamp, StampWhere, Matches, KeyForPassword, UserRows
  <2>4. CASE SetPassword(b) \/ Insert(b)
    <3>1. \A k \in DOMAIN users : users[k] \in UserRows
      BY <2>1
    <3>2. \A k \in DOMAIN users : users'[k].key = users[k].key
      <4>1. CASE SetPassword(b)
        BY <2>1, <3>1, <4>1 DEF SetPassword, UserRows
      <4>2. CASE Insert(b)
        BY <2>1, <4>2 DEF Insert
      <4>. QED
        BY <2>4, <4>1, <4>2
    <3>. QED
      BY <3>2 DEF KeyForPassword
  <2>. QED
    BY <2>2, <2>3, <2>4 DEF KeyForPassword
<1>. QED
  BY <1>1, AccountsBegin, AccountsStep, PTL DEF AccountsSpec, OldPasswordOpensNothing
==============================================================================
