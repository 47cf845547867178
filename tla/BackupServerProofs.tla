------------------------- MODULE BackupServerProofs -------------------------
(***************************************************************************)
(* Proofs about BackupServer for every number of slots, clients, workers   *)
(* and files.                                                              *)
(***************************************************************************)
EXTENDS BackupServer, FiniteSetTheorems, TLAPS

(* Types *)

LEMMA TypeInit == Init => TypeOK
  BY ConstantsOK DEF Init, TypeOK, Slots, Procs, Free, Reserved, NoSlot, Fd,
     BindFailed, MaxTries, DispatchPC, WorkerPC, DeadPC

LEMMA TypeDie ==
  ASSUME TypeOK, NEW V, NEW at, Die(V, at),
         \A p \in Procs : p \notin V =>
            \/ at[p] = slot[p]
            \/ pc[p] = "kill" /\ at[p] \in Slots \cup {Interval}
  PROVE  /\ pc' \in [Procs -> DispatchPC \cup WorkerPC \cup DeadPC]
         /\ holder' \in [Slots -> Procs \cup {NoPid}]
         /\ slot' \in [Procs -> Slots \cup {NoSlot, Interval}]
         /\ peer' \in [Procs -> Clients \cup {NoClient}]
         /\ atp' \in [Procs -> 0 .. MaxTries + 1]
         /\ tcps' \in [Procs -> {BindFailed, Reserved, Fd}]
         /\ conn' \in [Procs -> {"none", "up", "reset", "eof", "silent", "bad"}]
         /\ left' \in [Procs -> Nat]
         /\ dir' \in [Procs -> Clients \cup {NoClient}]
         /\ run' \in [Procs -> BOOLEAN]
         /\ pc'[Main] \notin WorkerPC
         /\ \A p \in Procs :
              /\ pc'[p] \in WorkerPC \cup {"reserve", "fork"} => slot'[p] \in Slots
              /\ pc'[p] \in {"file", "body"} => left'[p] > 0
<1>. USE DEF TypeOK, Die
<1>1. pc' \in [Procs -> DispatchPC \cup WorkerPC \cup DeadPC]
  BY DEF DeadPC
<1>2. holder' \in [Slots -> Procs \cup {NoPid}]
  OBVIOUS
<1>3. slot' \in [Procs -> Slots \cup {NoSlot, Interval}]
  OBVIOUS
<1>4. /\ peer' \in [Procs -> Clients \cup {NoClient}]
      /\ dir' \in [Procs -> Clients \cup {NoClient}]
      /\ run' \in [Procs -> BOOLEAN]
  OBVIOUS
<1>5. /\ atp' \in [Procs -> 0 .. MaxTries + 1]
      /\ left' \in [Procs -> Nat]
  BY DEF MaxTries
<1>6. /\ tcps' \in [Procs -> {BindFailed, Reserved, Fd}]
      /\ conn' \in [Procs -> {"none", "up", "reset", "eof", "silent", "bad"}]
  OBVIOUS
<1>7. pc'[Main] \notin WorkerPC
  BY DEF Procs, WorkerPC
<1>8. ASSUME NEW p \in Procs
      PROVE  /\ pc'[p] \in WorkerPC \cup {"reserve", "fork"} => slot'[p] \in Slots
             /\ pc'[p] \in {"file", "body"} => left'[p] > 0
  BY <1>8 DEF WorkerPC, DeadPC
<1>. QED
  BY <1>1, <1>2, <1>3, <1>4, <1>5, <1>6, <1>7, <1>8

LEMMA FirstSlot == 0 \in Slots \cup {Interval}
  BY ConstantsOK DEF Slots

LEMMA TypeReturn ==
  ASSUME TypeOK, NEW d \in Procs, ReturnToMain(d)
  PROVE  /\ pc' \in [Procs -> DispatchPC \cup WorkerPC \cup DeadPC]
         /\ slot' \in [Procs -> Slots \cup {NoSlot, Interval}]
         /\ peer' \in [Procs -> Clients \cup {NoClient}]
         /\ pc'[Main] \notin WorkerPC
         /\ \A p \in Procs :
              /\ pc'[p] \in WorkerPC \cup {"reserve", "fork"} => slot'[p] \in Slots
              /\ pc'[p] \in {"file", "body"} => left[p] > 0
<1>. USE DEF TypeOK, ReturnToMain
<1>1. slot' \in [Procs -> Slots \cup {NoSlot, Interval}]
  BY FirstSlot
<1>2. pc' \in [Procs -> DispatchPC \cup WorkerPC \cup DeadPC]
  BY DEF DispatchPC
<1>3. peer' \in [Procs -> Clients \cup {NoClient}]
  OBVIOUS
<1>4. Main \in Procs
  BY DEF Procs
<1>. QED
  BY <1>1, <1>2, <1>3, <1>4 DEF WorkerPC

LEMMA TypeDispatcher ==
  ASSUME TypeOK, NEW d \in Procs, Request(d) \/ Command(d) \/ Handle(d)
  PROVE  TypeOK'
<1>. USE DEF vars, table, kernel, local
<1>1. ASSUME NEW c \in Clients, RecvBackup(d, c) PROVE TypeOK'
  BY <1>1 DEF TypeOK, RecvBackup, Goto, DispatchPC, WorkerPC, DeadPC
<1>2. ASSUME NEW s \in Slots, Toggle(d, s) PROVE TypeOK'
  BY <1>2, TypeReturn DEF TypeOK, Toggle
<1>3. ASSUME NEW s \in Slots, Stop(d, s) PROVE TypeOK'
  BY <1>3, TypeReturn DEF TypeOK, Stop
<1>4. CASE Reserve(d)
  BY <1>4 DEF TypeOK, Reserve, Goto, DispatchPC, WorkerPC, DeadPC
<1>5. ASSUME NEW w \in Workers, Fork(d, w) PROVE TypeOK'
  <2>1. d \in Procs /\ w \in Procs /\ w # Main /\ d # w
    BY <1>5, ConstantsOK DEF Procs, Fork
  <2>2. slot' \in [Procs -> Slots \cup {NoSlot, Interval}]
    BY <1>5, <2>1, FirstSlot DEF TypeOK, Fork
  <2>3. pc' \in [Procs -> DispatchPC \cup WorkerPC \cup DeadPC]
    BY <1>5, <2>1 DEF TypeOK, Fork, DispatchPC, WorkerPC
  <2>4. pc'[Main] \notin WorkerPC
    BY <1>5, <2>1 DEF TypeOK, Fork, WorkerPC, Procs
  <2>5. ASSUME NEW p \in Procs
        PROVE  /\ pc'[p] \in WorkerPC \cup {"reserve", "fork"} => slot'[p] \in Slots
               /\ pc'[p] \in {"file", "body"} => left'[p] > 0
    BY <1>5, <2>1 DEF TypeOK, Fork, WorkerPC
  <2>. QED
    BY <1>5, <2>1, <2>2, <2>3, <2>4, <2>5 DEF TypeOK, Fork
<1>6. CASE ForkFails(d)
  BY <1>6, TypeReturn DEF TypeOK, ForkFails
<1>7. CASE WakeUp(d)
  BY <1>7, TypeReturn DEF TypeOK, WakeUp
<1>8. CASE Kill(d)
  <2>1. slot[d] \in Slots /\ pc[d] = "kill" /\ slot[d] + 1 \in Slots \cup {Interval}
    BY <1>8, ConstantsOK DEF Kill, Slots
  <2>2. CASE sock[slot[d]] = Free /\ slot' = [slot EXCEPT ![d] = @ + 1]
                 /\ UNCHANGED <<holder, pc, run, peer, atp, tcps, conn, left, dir>>
    BY <1>8, <2>1, <2>2 DEF TypeOK, Kill, WorkerPC
  <2>3. ASSUME NEW V, Die(V, [slot EXCEPT ![d] = @ + 1])
        PROVE  TypeOK'
    <3>1. \A p \in Procs : \/ [slot EXCEPT ![d] = @ + 1][p] = slot[p]
                           \/ /\ pc[p] = "kill"
                              /\ [slot EXCEPT ![d] = @ + 1][p] \in Slots \cup {Interval}
      BY <2>1 DEF TypeOK
    <3>. QED
      BY <1>8, <2>3, <3>1, TypeDie DEF TypeOK, Kill
  <2>. QED
    BY <1>8, <2>2, <2>3 DEF Kill
<1>9. CASE Exit(d)
  BY <1>9, TypeDie DEF Exit, TypeOK
<1>. QED
  BY <1>1, <1>2, <1>3, <1>4, <1>5, <1>6, <1>7, <1>8, <1>9
     DEF Request, Command, Handle

LEMMA TypeBind ==
  ASSUME TypeOK, NEW w \in Workers, Bind(w)
  PROVE  TypeOK'
<1>. USE DEF table, kernel, local
<1>0. w \in Procs /\ w # Main
  BY ConstantsOK DEF Procs
<1>1. CASE BindAgain(w)
  BY <1>0, <1>1 DEF TypeOK, BindAgain, MaxTries
<1>2. CASE BindOk(w)
  BY <1>0, <1>2 DEF TypeOK, BindOk, Goto, WorkerPC, Fd, Reserved, BindFailed
<1>3. CASE BindLate(w)
  BY <1>0, <1>3, TypeReturn DEF TypeOK, BindLate
<1>4. CASE BindNever(w)
  <2>1. PICK r \in BindResults(slot[w]) : tcps' = [tcps EXCEPT ![w] = r]
    BY <1>4 DEF BindNever
  <2>2. r \in {BindFailed, Reserved, Fd}
    BY DEF BindResults
  <2>3. atp' \in [Procs -> 0 .. MaxTries + 1]
    BY <1>0, <1>4 DEF TypeOK, BindNever, MaxTries
  <2>. QED
    BY <1>0, <1>4, <2>1, <2>2, <2>3 DEF TypeOK, BindNever, Goto, WorkerPC
<1>. QED
  BY <1>1, <1>2, <1>3, <1>4 DEF Bind

LEMMA TypeGoto ==
  ASSUME TypeOK, NEW w \in Workers, pc[w] \in WorkerPC,
         NEW label \in WorkerPC \ {"file", "body"}, Goto(w, label)
  PROVE  /\ pc' \in [Procs -> DispatchPC \cup WorkerPC \cup DeadPC]
         /\ pc'[Main] \notin WorkerPC
         /\ \A p \in Procs :
              /\ pc'[p] \in WorkerPC \cup {"reserve", "fork"} => slot[p] \in Slots
              /\ pc'[p] \in {"file", "body"} => p # w /\ left[p] > 0
<1>1. w \in Procs /\ w # Main
  BY ConstantsOK DEF Procs
<1>. QED
  BY <1>1 DEF TypeOK, Goto

LEMMA TypeReceive ==
  ASSUME TypeOK, NEW w \in Workers, Receive(w)
  PROVE  TypeOK'
<1>. USE DEF table, kernel, local
<1>0. w \in Procs /\ w # Main
  BY ConstantsOK DEF Procs
<1>. DEFINE Conns == {"none", "up", "reset", "eof", "silent", "bad"}
<1>a. AfterRecv(w) \in [Procs -> Conns]
  BY DEF TypeOK, AfterRecv
<1>1. CASE Spin(w)
  BY <1>0, <1>1 DEF TypeOK, Goto, WorkerPC, Spin
<1>2. CASE Header(w)
  <2>1. Goto(w, "count")
    BY <1>2 DEF Header
  <2>2. nof' \in [Slots -> Nat] /\ left' \in [Procs -> Nat]
    <3>1. PICK n \in 0 .. MaxFiles : /\ nof' = [nof EXCEPT ![slot[w]] = n]
                                     /\ left' = [left EXCEPT ![w] = n]
      BY <1>2 DEF Header
    <3>2. n \in Nat
      BY <3>1, ConstantsOK
    <3>. QED
      BY <3>1, <3>2 DEF TypeOK
  <2>3. \A p \in Procs : p # w => left'[p] = left[p]
    BY <1>2 DEF TypeOK, Header
  <2>. QED
    BY <1>0, <1>2, <1>a, <2>1, <2>2, <2>3, TypeGoto DEF TypeOK, Header, WorkerPC
<1>3. CASE FileHeader(w)
  <2>1. left[w] > 0
    BY <1>0, <1>3 DEF TypeOK, Goto, WorkerPC, FileHeader
  <2>. QED
    BY <1>0, <1>3, <2>1 DEF TypeOK, Goto, WorkerPC, FileHeader
<1>4. CASE FileHeaderFails(w)
  BY <1>0, <1>4, <1>a, TypeGoto DEF TypeOK, FileHeaderFails, WorkerPC
<1>5. CASE OpenFails(w)
  BY <1>0, <1>5 DEF TypeOK, Goto, WorkerPC, OpenFails
<1>6. CASE OpenZipFails(w)
  BY <1>0, <1>6, TypeReturn DEF TypeOK, OpenZipFails
<1>7. CASE Body(w)
  BY <1>0, <1>7 DEF TypeOK, Goto, WorkerPC, Body
<1>8. CASE BodyFails(w)
  <2>1. CASE Die({w}, slot)
    BY <1>0, <1>8, <2>1, TypeDie DEF TypeOK, BodyFails
  <2>2. CASE /\ conn' = AfterRecv(w)
             /\ UNCHANGED <<holder, pc, run, slot, peer, atp, tcps, left, dir>>
    BY <1>0, <1>8, <1>a, <2>2 DEF TypeOK, BodyFails
  <2>. QED
    BY <1>8, <2>1, <2>2 DEF BodyFails
<1>9. CASE ResetCount(w)
  BY <1>0, <1>9, TypeGoto DEF TypeOK, ResetCount, WorkerPC
<1>. QED
  BY <1>1, <1>2, <1>3, <1>4, <1>5, <1>6, <1>7, <1>8, <1>9 DEF Receive

LEMMA TypeServe ==
  ASSUME TypeOK, NEW w \in Workers, Serve(w)
  PROVE  TypeOK'
<1>. USE DEF table, kernel, local
<1>0. w \in Procs /\ w # Main
  BY ConstantsOK DEF Procs
<1>1. CASE Start(w)
  BY <1>0, <1>1 DEF TypeOK, Goto, WorkerPC, Start
<1>2. CASE Publish(w)
  BY <1>0, <1>2 DEF TypeOK, Goto, WorkerPC, Publish, Free
<1>3. CASE Accept(w)
  BY <1>0, <1>3 DEF TypeOK, Goto, WorkerPC, Accept
<1>4. CASE AcceptFails(w)
  BY <1>0, <1>4 DEF TypeOK, Goto, WorkerPC, AcceptFails
<1>5. CASE Store(w)
  <2>1. (Goto(w, "wait") \/ Goto(w, "close")) /\ dir' \in [Procs -> Clients \cup {NoClient}]
    BY <1>0, <1>5 DEF TypeOK, Store, WorkerPC
  <2>. QED
    BY <1>0, <1>5, <2>1, TypeGoto DEF TypeOK, Store, WorkerPC
<1>6. CASE NextFile(w)
  BY <1>0, <1>6 DEF TypeOK, Goto, WorkerPC, NextFile
<1>7. CASE LastFile(w)
  BY <1>0, <1>7 DEF TypeOK, Goto, WorkerPC, LastFile
<1>8. CASE Close(w)
  <2>1. timeWait' \in [Slots -> BOOLEAN] /\ holder' \in [Slots -> Procs \cup {NoPid}]
    BY <1>0, <1>8 DEF TypeOK, Close
  <2>. QED
    BY <1>0, <1>8, <2>1, TypeGoto DEF TypeOK, Close, WorkerPC
<1>9. CASE GiveBack(w)
  BY <1>0, <1>9, TypeDie DEF TypeOK, GiveBack
<1>. QED
  BY <1>1, <1>2, <1>3, <1>4, <1>5, <1>6, <1>7, <1>8, <1>9, TypeBind, TypeReceive
     DEF Serve

LEMMA TypeEnvironment ==
  ASSUME TypeOK, Environment
  PROVE  TypeOK'
<1>. USE DEF table, kernel, local
<1>1. CASE Signal
  BY <1>1 DEF TypeOK, Signal
<1>2. ASSUME NEW w \in Workers, PeerCloses(w) \/ PeerResets(w) \/ PeerVanishes(w)
      PROVE  TypeOK'
  BY <1>2 DEF TypeOK, PeerCloses, PeerResets, PeerVanishes
<1>3. ASSUME NEW c \in Clients, NEW s \in Slots, ClientGivesUp(c, s) PROVE TypeOK'
  BY <1>3 DEF TypeOK, ClientGivesUp
<1>4. ASSUME NEW s \in Slots, PortCoolsDown(s) PROVE TypeOK'
  BY <1>4 DEF TypeOK, PortCoolsDown
<1>. QED
  BY <1>1, <1>2, <1>3, <1>4 DEF Environment

LEMMA TypeNext == TypeOK /\ [Next]_vars => TypeOK'
<1>. SUFFICES ASSUME TypeOK, [Next]_vars PROVE TypeOK'
  OBVIOUS
<1>1. CASE UNCHANGED vars
  BY <1>1 DEF TypeOK, vars, table, kernel, local
<1>. QED
  BY <1>1, TypeDispatcher, TypeServe, TypeEnvironment DEF Next

(* Every variable keeps its type, whatever the environment does; a process *)
(* that works on a slot has one, and a worker in a file has a file left.   *)
THEOREM TypeCorrect == Spec => []TypeOK
  BY TypeInit, TypeNext, PTL DEF Spec

-----------------------------------------------------------------------------
(* One receiver per slot: the kernel's port is the second line of defence  *)

(* A live worker with a connection, or with a bound socket it has not yet  *)
(* accepted on, is the holder of its slot's port; before accept() it has   *)
(* no connection.                                                          *)
HoldsPort(w) ==
    /\ conn[w] \in {"up", "reset", "eof", "silent"} => holder[slot[w]] = w
    /\ pc[w] \in {"publish", "accept"} /\ tcps[w] = Fd => holder[slot[w]] = w
    /\ pc[w] \in {"start", "bind", "publish", "accept"} => conn[w] = "none"

PortInv ==
    /\ \A w \in Workers : pc[w] \in WorkerPC => HoldsPort(w)
    /\ \A w \in Workers : pc[w] = "none" => conn[w] = "none"

LEMMA PortInit == Init => PortInv
<1>. SUFFICES ASSUME Init PROVE PortInv
  OBVIOUS
<1>1. \A w \in Workers : w \in Procs /\ w # Main
  BY ConstantsOK DEF Procs
<1>. QED
  BY <1>1 DEF Init, PortInv, HoldsPort, WorkerPC

(* A step that keeps the ports of the live workers and what they hold.     *)
LEMMA PortDie ==
  ASSUME TypeOK, PortInv, NEW V, NEW at, Die(V, at),
         \A p \in Procs : p \notin V /\ pc[p] \in WorkerPC => at[p] = slot[p]
  PROVE  PortInv'
<1>0. \A w \in Workers : w \in Procs /\ w # Main
  BY ConstantsOK DEF Procs
<1>1. \A w \in Workers : w \in V => pc'[w] \notin WorkerPC /\ conn'[w] = "none"
  BY <1>0 DEF Die, TypeOK, WorkerPC, DeadPC
<1>2. ASSUME NEW w \in Workers, w \notin V
      PROVE  /\ pc'[w] = pc[w] /\ conn'[w] = conn[w] /\ tcps'[w] = tcps[w]
             /\ pc[w] \in WorkerPC => slot'[w] = slot[w] /\ slot[w] \in Slots
  BY <1>0, <1>2 DEF Die, TypeOK
<1>3. ASSUME NEW w \in Workers, w \notin V, NEW s \in Slots, holder[s] = w
      PROVE  holder'[s] = w
  BY <1>3 DEF Die, TypeOK
<1>. QED
  BY <1>0, <1>1, <1>2, <1>3 DEF PortInv, HoldsPort

(* A step in which one process stops being a worker, or was none, and all  *)
(* else stays where it is.                                                 *)
LEMMA PortReturn ==
  ASSUME TypeOK, PortInv, NEW d \in Procs, ReturnToMain(d),
         UNCHANGED <<conn, tcps>>,
         \A s \in Slots : holder[s] # NoPid => holder'[s] = holder[s]
  PROVE  PortInv'
<1>0. \A w \in Workers : w \in Procs /\ w # Main
  BY ConstantsOK DEF Procs
<1>1. pc'[d] \in {"recv", "kill"}
  BY DEF ReturnToMain, TypeOK
<1>2. ASSUME NEW w \in Workers, w # d
      PROVE  pc'[w] = pc[w] /\ slot'[w] = slot[w]
  BY <1>0, <1>2 DEF ReturnToMain, TypeOK
<1>3. \A w \in Workers : pc[w] \in WorkerPC => slot[w] \in Slots
  BY <1>0 DEF TypeOK
<1>4. \A w \in Workers : w # NoPid
  BY <1>0, ConstantsOK
<1>. QED
  BY <1>0, <1>1, <1>2, <1>3, <1>4 DEF PortInv, HoldsPort, WorkerPC

LEMMA PortDispatcher ==
  ASSUME TypeOK, PortInv, NEW d \in Procs, Request(d) \/ Command(d) \/ Handle(d)
  PROVE  PortInv'
<1>. USE DEF table, kernel, local
<1>0. \A w \in Workers : w \in Procs /\ w # Main
  BY ConstantsOK DEF Procs
<1>1. ASSUME NEW c \in Clients, RecvBackup(d, c) PROVE PortInv'
  BY <1>0, <1>1 DEF RecvBackup, Goto, TypeOK, PortInv, HoldsPort, WorkerPC
<1>2. ASSUME NEW s \in Slots, Toggle(d, s) \/ Stop(d, s) PROVE PortInv'
  BY <1>2, PortReturn DEF Toggle, Stop
<1>3. CASE Reserve(d)
  BY <1>0, <1>3 DEF Reserve, Goto, TypeOK, PortInv, HoldsPort, WorkerPC
<1>4. ASSUME NEW w \in Workers, Fork(d, w) PROVE PortInv'
  <2>1. d # w /\ pc'[w] = "start" /\ conn'[w] = "none" /\ pc'[d] \in {"recv", "kill"}
    BY <1>0, <1>4 DEF Fork, TypeOK, PortInv
  <2>2. ASSUME NEW v \in Workers, v # w, v # d
        PROVE  pc'[v] = pc[v] /\ slot'[v] = slot[v]
    BY <1>0, <1>4, <2>2 DEF Fork, TypeOK
  <2>3. UNCHANGED <<holder, conn, tcps>>
    BY <1>4 DEF Fork
  <2>4. HoldsPort(w)' /\ pc'[w] # "none"
    BY <2>1 DEF HoldsPort
  <2>5. d \in Workers => pc'[d] \notin WorkerPC /\ pc'[d] # "none"
    BY <2>1 DEF WorkerPC
  <2>6. ASSUME NEW v \in Workers, v # w, v # d
        PROVE  /\ pc'[v] \in WorkerPC => HoldsPort(v)'
               /\ pc'[v] = "none" => conn'[v] = "none"
    BY <2>2, <2>3, <2>6 DEF PortInv, HoldsPort
  <2>. HIDE DEF table, kernel, local
  <2>. QED
    BY <2>4, <2>5, <2>6 DEF PortInv
<1>5. CASE ForkFails(d) \/ WakeUp(d)
  BY <1>5, PortReturn DEF ForkFails, WakeUp
<1>6. CASE Kill(d)
  <2>1. pc[d] = "kill"
    BY <1>6 DEF Kill
  <2>2. \A p \in Procs : pc[p] \in WorkerPC => [slot EXCEPT ![d] = @ + 1][p] = slot[p]
    BY <2>1 DEF TypeOK, WorkerPC
  <2>3. CASE sock[slot[d]] = Free /\ slot' = [slot EXCEPT ![d] = @ + 1]
                 /\ UNCHANGED <<holder, pc, run, peer, atp, tcps, conn, left, dir>>
    BY <1>0, <2>2, <2>3 DEF PortInv, HoldsPort
  <2>4. ASSUME NEW V, Die(V, [slot EXCEPT ![d] = @ + 1]) PROVE PortInv'
    BY <2>2, <2>4, PortDie
  <2>. QED
    BY <1>6, <2>3, <2>4 DEF Kill
<1>7. CASE Exit(d)
  BY <1>7, PortDie DEF Exit
<1>. QED
  BY <1>1, <1>2, <1>3, <1>4, <1>5, <1>6, <1>7 DEF Request, Command, Handle

LEMMA PortServe ==
  ASSUME TypeOK, PortInv, NEW w \in Workers, Serve(w)
  PROVE  PortInv'
<1>. USE DEF table, kernel, local
<1>0. w # NoPid /\ \A v \in Workers : v \in Procs /\ v # Main
  BY ConstantsOK DEF Procs
<1>a. \A v \in Workers : pc[v] \in WorkerPC => slot[v] \in Slots
  BY <1>0 DEF TypeOK
<1>1. CASE BindOk(w)
  BY <1>0, <1>a, <1>1, ConstantsOK
     DEF BindOk, BindResults, Goto, TypeOK, PortInv, HoldsPort, WorkerPC, Fd, BindFailed, Reserved
<1>2. CASE BindNever(w)
  BY <1>0, <1>2 DEF BindNever, Goto, TypeOK, PortInv, HoldsPort, WorkerPC, Fd
<1>3. CASE BindLate(w)
  <2>1. holder[slot[w]] = NoPid
    BY <1>3 DEF BindLate, BindResults, Fd, BindFailed, Reserved
  <2>2. slot[w] \in Slots
    BY <1>a, <1>3 DEF BindLate, WorkerPC
  <2>3. \A s \in Slots : holder[s] # NoPid => holder'[s] = holder[s]
    BY <1>3, <2>1, <2>2 DEF BindLate, TypeOK
  <2>. QED
    BY <1>0, <1>3, <2>3, PortReturn DEF BindLate
<1>4. CASE Accept(w)
  BY <1>0, <1>4 DEF Accept, Goto, TypeOK, PortInv, HoldsPort, WorkerPC
<1>5. CASE AcceptFails(w)
  BY <1>0, <1>5 DEF AcceptFails, Goto, TypeOK, PortInv, HoldsPort, WorkerPC
<1>6. CASE Close(w)
  <2>1. \A v \in Workers : v # w => pc'[v] = pc[v] /\ conn'[v] = conn[v]
    BY <1>0, <1>6 DEF Close, Goto, TypeOK
  <2>2. pc'[w] = "free" /\ conn'[w] = "none"
    BY <1>0, <1>6 DEF Close, Goto, TypeOK
  <2>3. \A v \in Workers, s \in Slots : v # w /\ holder[s] = v => holder'[s] = v
    BY <1>6 DEF Close, TypeOK
  <2>. QED
    BY <1>0, <1>a, <1>6, <2>1, <2>2, <2>3 DEF Close, PortInv, HoldsPort
<1>7. CASE GiveBack(w)
  BY <1>7, PortDie DEF GiveBack
<1>8. CASE Header(w) \/ FileHeaderFails(w)
  BY <1>0, <1>8 DEF Header, FileHeaderFails, AfterRecv, Arrives, RecvFails,
     Goto, TypeOK, PortInv, HoldsPort, WorkerPC
<1>9. CASE OpenZipFails(w)
  BY <1>0, <1>9, PortReturn DEF OpenZipFails
<1>10. CASE BodyFails(w)
  <2>1. CASE Die({w}, slot)
    BY <2>1, PortDie
  <2>2. CASE /\ conn' = AfterRecv(w)
             /\ UNCHANGED <<holder, pc, run, slot, peer, atp, tcps, left, dir>>
    BY <1>0, <1>10, <2>2 DEF BodyFails, AfterRecv, RecvFails, TypeOK, PortInv, HoldsPort
  <2>. QED
    BY <1>10, <2>1, <2>2 DEF BodyFails
<1>11. CASE Start(w) \/ BindAgain(w) \/ Publish(w) \/ Store(w)
  BY <1>0, <1>11 DEF Start, BindAgain, Publish, Store,
     Goto, TypeOK, PortInv, HoldsPort, WorkerPC
<1>12. CASE NextFile(w) \/ LastFile(w)
  BY <1>0, <1>12 DEF NextFile, LastFile, Goto, TypeOK, PortInv, HoldsPort, WorkerPC
<1>13. CASE Spin(w) \/ ResetCount(w) \/ FileHeader(w) \/ OpenFails(w) \/ Body(w)
  BY <1>0, <1>13 DEF Spin, ResetCount, FileHeader, OpenFails, Body,
     Goto, TypeOK, PortInv, HoldsPort, WorkerPC
<1>. QED
  BY <1>1, <1>2, <1>3, <1>4, <1>5, <1>6, <1>7, <1>8, <1>9, <1>10, <1>11, <1>12, <1>13
     DEF Serve, Bind, Receive

LEMMA PortNext == TypeOK /\ PortInv /\ [Next]_vars => PortInv'
<1>. SUFFICES ASSUME TypeOK, PortInv, [Next]_vars PROVE PortInv'
  OBVIOUS
<1>0. \A v \in Workers : v \in Procs
  BY DEF Procs
<1>1. CASE Environment
  <2>1. CASE \/ Signal \/ (\E c \in Clients, s \in Slots : ClientGivesUp(c, s))
             \/ (\E s \in Slots : PortCoolsDown(s))
    BY <2>1 DEF Signal, ClientGivesUp, PortCoolsDown, table, kernel, local,
       PortInv, HoldsPort
  <2>2. ASSUME NEW w \in Workers, PeerCloses(w) \/ PeerResets(w) \/ PeerVanishes(w)
        PROVE  PortInv'
    BY <1>0, <2>2 DEF PeerCloses, PeerResets, PeerVanishes, table, kernel,
       TypeOK, PortInv, HoldsPort
  <2>. QED
    BY <1>1, <2>1, <2>2 DEF Environment
<1>2. CASE UNCHANGED vars
  BY <1>2 DEF vars, table, kernel, local, PortInv, HoldsPort
<1>. QED
  BY <1>1, <1>2, PortDispatcher, PortServe DEF Next

(* Whatever fails, two processes never receive on connections of one slot. *)
THEOREM OneReceiverAlways == Spec => []OneReceiver
<1>1. PortInv => OneReceiver
  BY DEF PortInv, HoldsPort, OneReceiver, LiveWorkers
<1>. QED
  BY <1>1, TypeInit, TypeNext, PortInit, PortNext, PTL DEF Spec

-----------------------------------------------------------------------------
(* One worker per slot, when no bind can fail and no worker returns        *)

(* The faults under which newBackup() may go on without its port or come   *)
(* back to main() do not happen.                                           *)
NoStray == Faults \cap StraySources = {}

Bound == {"publish", "accept", "header", "count", "store", "wait", "file", "body",
          "close", "spin"}

(* A worker never returns, so only Main dispatches, and its first bind is  *)
(* good because the port of its slot is neither held nor cooling down.     *)
WorkersStay ==
    /\ \A w \in Workers : pc[w] \in WorkerPC \cup {"none"} /\ atp[w] = 0
    /\ \A w \in Workers : pc[w] \in Bound => tcps[w] = Fd

PortsTidy ==
    \A s \in Slots :
        /\ ~timeWait[s]
        /\ holder[s] # NoPid => /\ holder[s] \in Workers
                                /\ pc[holder[s]] \in Bound
                                /\ slot[holder[s]] = s

(* The marks in the table tell the truth about who works on a slot.        *)
MarksTrue ==
    /\ \A w \in Workers : pc[w] \in WorkerPC => sock[slot[w]] \in {Reserved, Fd}
    /\ pc[Main] = "reserve" => sock[slot[Main]] < Reserved
    /\ pc[Main] = "fork" =>
         /\ sock[slot[Main]] = Reserved
         /\ \A w \in Workers : pc[w] \in WorkerPC => slot[w] # slot[Main]

SlotInv == WorkersStay /\ PortsTidy /\ MarksTrue /\ SlotExclusive

LEMMA SlotInit == Init => SlotInv
<1>1. \A w \in Workers : w \in Procs /\ w # Main
  BY ConstantsOK DEF Procs
<1>2. Main \in Procs
  BY DEF Procs
<1>. QED
  BY <1>1, <1>2 DEF Init, SlotInv, WorkersStay, PortsTidy, MarksTrue, SlotExclusive,
     LiveWorkers, WorkerPC, Bound

(* Processes of V end, one of them having given back its slot if sock      *)
(* changed.                                                                *)
LEMMA SlotDie ==
  ASSUME TypeOK, SlotInv, NEW V, NEW at, Die(V, at),
         \A p \in Procs : p \notin V /\ pc[p] # "kill" => at[p] = slot[p],
         timeWait' = timeWait,
         \/ sock' = sock
         \/ \E w \in V \cap LiveWorkers : sock' = [sock EXCEPT ![slot[w]] = Free]
  PROVE  SlotInv'
<1>0. /\ Main \in Procs
      /\ \A w \in Workers : w \in Procs /\ w # Main /\ w # NoPid
  BY ConstantsOK DEF Procs
<1>1. ASSUME NEW w \in Workers
      PROVE  /\ w \in V => pc'[w] = "none" /\ atp'[w] = 0
             /\ w \notin V => /\ pc'[w] = pc[w] /\ tcps'[w] = tcps[w]
                              /\ slot'[w] = slot[w] /\ atp'[w] = atp[w]
  BY <1>0 DEF Die, TypeOK, SlotInv, WorkersStay, WorkerPC, DeadPC
<1>2. /\ Main \in V => pc'[Main] \notin {"reserve", "fork"}
      /\ Main \notin V => /\ pc'[Main] = pc[Main]
                          /\ pc[Main] # "kill" => slot'[Main] = slot[Main]
  BY <1>0 DEF Die, TypeOK, DeadPC
<1>3. WorkersStay'
  BY <1>1 DEF SlotInv, WorkersStay, WorkerPC, Bound
<1>4. PortsTidy'
  <2>1. ASSUME NEW s \in Slots, holder'[s] # NoPid
        PROVE  holder'[s] = holder[s] /\ holder[s] \notin V
    BY <2>1 DEF Die, TypeOK
  <2>. QED
    BY <1>1, <2>1 DEF SlotInv, PortsTidy
<1>5. SlotExclusive'
  BY <1>1 DEF SlotInv, SlotExclusive, LiveWorkers, WorkerPC
<1>6. ASSUME NEW w \in Workers, w \notin V, pc[w] \in WorkerPC
      PROVE  sock'[slot[w]] = sock[slot[w]]
  BY <1>0, <1>6 DEF TypeOK, SlotInv, SlotExclusive, LiveWorkers
<1>7. pc[Main] \in {"reserve", "fork"} => slot[Main] \in Slots
  BY <1>0 DEF TypeOK
<1>8. pc[Main] = "fork" => sock'[slot[Main]] = sock[slot[Main]]
  BY <1>0, <1>7 DEF TypeOK, SlotInv, MarksTrue, LiveWorkers
<1>9. pc[Main] = "reserve" => sock'[slot[Main]] < Reserved
  BY <1>0, <1>7 DEF TypeOK, SlotInv, MarksTrue, Free, Reserved
<1>10. MarksTrue'
  BY <1>1, <1>2, <1>6, <1>8, <1>9 DEF SlotInv, MarksTrue, WorkerPC
<1>. QED
  BY <1>3, <1>4, <1>5, <1>10 DEF SlotInv

(* A process that is no worker goes back to the head of main()'s loop.     *)
LEMMA SlotReturn ==
  ASSUME TypeOK, SlotInv, ReturnToMain(Main),
         UNCHANGED <<sock, holder, timeWait, atp, tcps>>
  PROVE  SlotInv'
<1>0. /\ Main \in Procs
      /\ \A w \in Workers : w \in Procs /\ w # Main
  BY ConstantsOK DEF Procs
<1>1. pc'[Main] \in {"recv", "kill"}
  BY <1>0 DEF ReturnToMain, TypeOK
<1>2. \A w \in Workers : pc'[w] = pc[w] /\ slot'[w] = slot[w]
  BY <1>0 DEF ReturnToMain, TypeOK
<1>. QED
  BY <1>1, <1>2 DEF SlotInv, WorkersStay, PortsTidy, MarksTrue, SlotExclusive, LiveWorkers

LEMMA SlotDispatcher ==
  ASSUME TypeOK, SlotInv, NEW d \in Procs, Request(d) \/ Command(d) \/ Handle(d)
  PROVE  SlotInv'
<1>. USE DEF table, kernel, local
<1>0. /\ Main \in Procs
      /\ \A w \in Workers : w \in Procs /\ w # Main
  BY ConstantsOK DEF Procs
<1>a. pc[d] \in DispatchPC
  BY DEF Request, Command, Handle, RecvBackup, Toggle, Stop, Reserve, Fork,
     ForkFails, WakeUp, Kill, Exit, DispatchPC
<1>b. d = Main
  BY <1>a DEF Procs, SlotInv, WorkersStay, DispatchPC, WorkerPC
<1>1. ASSUME NEW c \in Clients, RecvBackup(Main, c) PROVE SlotInv'
  <2>1. PICK s \in Slots : IsSlotFor(s) /\ slot' = [slot EXCEPT ![Main] = s]
    BY <1>1 DEF RecvBackup
  <2>2. pc'[Main] = "reserve" /\ slot'[Main] = s /\ sock[s] < Reserved
    BY <1>0, <1>1, <2>1 DEF RecvBackup, Goto, TypeOK, IsSlotFor
  <2>3. \A w \in Workers : pc'[w] = pc[w] /\ slot'[w] = slot[w]
    BY <1>0, <1>1, <2>1 DEF RecvBackup, Goto, TypeOK
  <2>. QED
    BY <1>1, <2>2, <2>3
       DEF RecvBackup, SlotInv, WorkersStay, PortsTidy, MarksTrue, SlotExclusive, LiveWorkers
<1>2. ASSUME NEW s \in Slots, Toggle(Main, s) \/ Stop(Main, s) PROVE SlotInv'
  BY <1>2, SlotReturn DEF Toggle, Stop
<1>3. CASE Reserve(Main)
  <2>1. /\ pc'[Main] = "fork" /\ slot'[Main] = slot[Main]
        /\ sock'[slot[Main]] = Reserved /\ sock[slot[Main]] < Reserved
    BY <1>0, <1>3 DEF Reserve, Goto, TypeOK, SlotInv, MarksTrue
  <2>2. \A w \in Workers : pc'[w] = pc[w] /\ slot'[w] = slot[w]
    BY <1>0, <1>3 DEF Reserve, Goto, TypeOK
  <2>3. \A w \in Workers : pc[w] \in WorkerPC => slot[w] # slot[Main]
    BY <2>1 DEF SlotInv, MarksTrue, Reserved, Fd
  <2>4. \A w \in Workers : pc[w] \in WorkerPC => sock'[slot[w]] = sock[slot[w]]
    BY <1>0, <1>3, <2>3 DEF Reserve, TypeOK
  <2>. QED
    BY <1>3, <2>1, <2>2, <2>3, <2>4
       DEF Reserve, SlotInv, WorkersStay, PortsTidy, MarksTrue, SlotExclusive, LiveWorkers
<1>4. ASSUME NEW w \in Workers, Fork(Main, w) PROVE SlotInv'
  <2>1. pc'[Main] \in {"recv", "kill"} /\ pc'[w] = "start" /\ slot'[w] = slot[Main]
    BY <1>0, <1>4 DEF Fork, TypeOK
  <2>2. \A v \in Workers : v # w => pc'[v] = pc[v] /\ slot'[v] = slot[v]
    BY <1>0, <1>4 DEF Fork, TypeOK
  <2>3. /\ pc[w] = "none" /\ pc[Main] = "fork"
        /\ UNCHANGED <<sock, holder, timeWait, atp, tcps>>
    BY <1>4 DEF Fork
  <2>4. WorkersStay'
    BY <2>1, <2>2, <2>3 DEF SlotInv, WorkersStay, WorkerPC, Bound
  <2>5. PortsTidy'
    BY <2>2, <2>3 DEF SlotInv, PortsTidy, Bound
  <2>6. MarksTrue' /\ SlotExclusive'
    BY <2>1, <2>2, <2>3 DEF SlotInv, MarksTrue, SlotExclusive, LiveWorkers
  <2>. QED
    BY <2>4, <2>5, <2>6 DEF SlotInv
<1>5. CASE ForkFails(Main) \/ WakeUp(Main)
  BY <1>5, SlotReturn DEF ForkFails, WakeUp
<1>6. CASE Kill(Main)
  <2>1. pc[Main] = "kill" /\ UNCHANGED <<sock, timeWait>>
    BY <1>6 DEF Kill
  <2>2. \A p \in Procs : pc[p] # "kill" => [slot EXCEPT ![Main] = @ + 1][p] = slot[p]
    BY <2>1 DEF TypeOK
  <2>3. CASE slot' = [slot EXCEPT ![Main] = @ + 1]
                 /\ UNCHANGED <<holder, pc, run, peer, atp, tcps, conn, left, dir>>
    <3>1. \A w \in Workers : slot'[w] = slot[w]
      BY <1>0, <2>3 DEF TypeOK
    <3>. QED
      BY <2>1, <2>3, <3>1
         DEF SlotInv, WorkersStay, PortsTidy, MarksTrue, SlotExclusive, LiveWorkers
  <2>4. ASSUME NEW V, Die(V, [slot EXCEPT ![Main] = @ + 1]) PROVE SlotInv'
    BY <2>1, <2>2, <2>4, SlotDie
  <2>. QED
    BY <1>6, <2>3, <2>4 DEF Kill
<1>7. CASE Exit(Main)
  BY <1>7, SlotDie DEF Exit
<1>. QED
  BY <1>b, <1>1, <1>2, <1>3, <1>4, <1>5, <1>6, <1>7 DEF Request, Command, Handle

(* The worker's steps that write no mark, bind nothing and end nothing.    *)
LEMMA SlotStep ==
  ASSUME TypeOK, SlotInv, NEW w \in Workers, NEW label \in Bound,
         Goto(w, label) \/ pc' = pc, pc[w] \in Bound,
         UNCHANGED <<sock, holder, timeWait, slot, atp, tcps>>
  PROVE  SlotInv'
<1>1. \A v \in Workers : v \in Procs /\ v # Main
  BY ConstantsOK DEF Procs
<1>2. \A v \in Workers : v # w => pc'[v] = pc[v]
  BY <1>1 DEF Goto, TypeOK
<1>3. pc'[w] \in Bound /\ pc'[Main] = pc[Main]
  BY <1>1 DEF Goto, TypeOK, Procs
<1>4. Bound \subseteq WorkerPC
  BY DEF Bound, WorkerPC
<1>. QED
  BY <1>2, <1>3, <1>4
     DEF SlotInv, WorkersStay, PortsTidy, MarksTrue, SlotExclusive, LiveWorkers

LEMMA SlotServe ==
  ASSUME NoStray, TypeOK, SlotInv, NEW w \in Workers, Serve(w)
  PROVE  SlotInv'
<1>. USE DEF table, kernel, local
<1>0. /\ Main \in Procs
      /\ \A v \in Workers : v \in Procs /\ v # Main /\ v # NoPid
  BY ConstantsOK DEF Procs
<1>a. \A v \in Workers : pc[v] \in WorkerPC => slot[v] \in Slots
  BY <1>0 DEF TypeOK
<1>b. "socket" \notin Faults /\ "timewait" \notin Faults /\ "disk" \notin Faults
  BY DEF NoStray, StraySources
<1>1. CASE Start(w)
  <2>1. pc[w] = "start" /\ pc'[w] = "bind"
    BY <1>0, <1>1 DEF Start, Goto, TypeOK
  <2>2. \A p \in Procs : p # w => pc'[p] = pc[p]
    BY <1>0, <1>1 DEF Start, Goto, TypeOK
  <2>. QED
    BY <1>0, <1>1, <2>1, <2>2
       DEF Start, SlotInv, WorkersStay, PortsTidy, MarksTrue, SlotExclusive,
           LiveWorkers, WorkerPC, Bound
<1>2. ASSUME pc[w] = "bind"
      PROVE  BindResults(slot[w]) = {Fd} /\ atp[w] = 0
  <2>1. slot[w] \in Slots
    BY <1>a, <1>2 DEF WorkerPC
  <2>2. holder[slot[w]] = NoPid
    <3>1. SUFFICES ASSUME holder[slot[w]] # NoPid PROVE FALSE
      OBVIOUS
    <3>2. PICK v \in Workers : v = holder[slot[w]] /\ pc[v] \in Bound /\ slot[v] = slot[w]
      BY <2>1, <3>1 DEF SlotInv, PortsTidy
    <3>3. v # w /\ v \in LiveWorkers /\ w \in LiveWorkers
      BY <1>2, <3>2 DEF Bound, LiveWorkers, WorkerPC
    <3>. QED
      BY <3>2, <3>3 DEF SlotInv, SlotExclusive
  <2>. QED
    BY <1>b, <2>1, <2>2 DEF BindResults, SlotInv, PortsTidy, WorkersStay, Fd
<1>3. CASE Bind(w)
  <2>1. pc[w] = "bind"
    BY <1>3 DEF Bind, BindAgain, BindOk, BindLate, BindNever
  <2>2. BindOk(w)
    BY <1>2, <1>3, <2>1 DEF Bind, BindAgain, BindLate, BindNever, Fd, MaxTries
  <2>3. pc'[w] = "publish" /\ \A p \in Procs : p # w => pc'[p] = pc[p]
    BY <1>0, <2>2 DEF BindOk, Goto, TypeOK
  <2>4. WorkersStay'
    BY <1>0, <2>1, <2>2, <2>3 DEF BindOk, TypeOK, SlotInv, WorkersStay, WorkerPC, Bound
  <2>5. PortsTidy'
    BY <1>0, <2>1, <2>2, <2>3 DEF BindOk, TypeOK, SlotInv, PortsTidy, Bound
  <2>6. MarksTrue' /\ SlotExclusive'
    BY <1>0, <2>1, <2>2, <2>3
       DEF BindOk, SlotInv, MarksTrue, SlotExclusive, LiveWorkers, WorkerPC
  <2>. QED
    BY <2>4, <2>5, <2>6 DEF SlotInv
<1>4. CASE Publish(w)
  <2>1. /\ pc[w] = "publish" /\ pc'[w] = "accept" /\ tcps[w] = Fd /\ w \in LiveWorkers
        /\ slot[w] \in Slots
    BY <1>0, <1>a, <1>4
       DEF Publish, Goto, TypeOK, SlotInv, WorkersStay, Bound, LiveWorkers, WorkerPC
  <2>2. \A p \in Procs : p # w => pc'[p] = pc[p]
    BY <1>0, <1>4 DEF Publish, Goto, TypeOK
  <2>3. sock' = [sock EXCEPT ![slot[w]] = Fd]
    BY <1>4, <2>1 DEF Publish
  <2>4. \A v \in Workers : v # w /\ pc[v] \in WorkerPC => slot[v] # slot[w]
    BY <2>1 DEF SlotInv, SlotExclusive, LiveWorkers
  <2>5. pc[Main] \in {"reserve", "fork"} => slot[Main] # slot[w] /\ slot[Main] \in Slots
    BY <1>0, <2>1 DEF SlotInv, MarksTrue, LiveWorkers, Reserved, Fd, TypeOK
  <2>6. MarksTrue'
    BY <1>0, <1>a, <1>4, <2>1, <2>2, <2>3, <2>4, <2>5
       DEF Publish, SlotInv, MarksTrue, LiveWorkers, TypeOK, WorkerPC
  <2>7. WorkersStay' /\ PortsTidy' /\ SlotExclusive'
    BY <1>0, <1>4, <2>1, <2>2
       DEF Publish, SlotInv, WorkersStay, PortsTidy, SlotExclusive, LiveWorkers, WorkerPC, Bound
  <2>. QED
    BY <2>6, <2>7 DEF SlotInv
<1>5. CASE Close(w)
  <2>1. pc[w] = "close" /\ pc'[w] = "free" /\ \A p \in Procs : p # w => pc'[p] = pc[p]
    BY <1>0, <1>5 DEF Close, Goto, TypeOK
  <2>2. timeWait' = timeWait
    BY <1>b, <1>5 DEF Close
  <2>3. \A s \in Slots : holder'[s] # NoPid => holder'[s] = holder[s] /\ holder[s] # w
    BY <1>5 DEF Close, TypeOK
  <2>4. PortsTidy'
    BY <1>0, <1>5, <2>1, <2>2, <2>3 DEF Close, SlotInv, PortsTidy
  <2>5. WorkersStay' /\ MarksTrue' /\ SlotExclusive'
    BY <1>0, <1>5, <2>1
       DEF Close, SlotInv, WorkersStay, MarksTrue, SlotExclusive, LiveWorkers, WorkerPC, Bound
  <2>. QED
    BY <2>4, <2>5 DEF SlotInv
<1>6. CASE GiveBack(w)
  BY <1>6, SlotDie DEF GiveBack, LiveWorkers, WorkerPC
<1>7. CASE BodyFails(w)
  <2>1. CASE Die({w}, slot)
    BY <1>7, <2>1, SlotDie DEF BodyFails
  <2>2. CASE UNCHANGED <<holder, pc, run, slot, peer, atp, tcps, left, dir>>
    BY <1>7, <2>2, SlotStep DEF BodyFails, Bound
  <2>. QED
    BY <1>7, <2>1, <2>2 DEF BodyFails
<1>8. CASE Accept(w) \/ AcceptFails(w) \/ Header(w) \/ FileHeaderFails(w) \/ Store(w)
  BY <1>8, SlotStep DEF Accept, AcceptFails, Header, FileHeaderFails, Store, Bound
<1>9. CASE NextFile(w) \/ LastFile(w) \/ Spin(w) \/ ResetCount(w) \/ FileHeader(w) \/ Body(w)
  BY <1>9, SlotStep DEF NextFile, LastFile, Spin, ResetCount, FileHeader, Body, Bound
<1>10. CASE OpenFails(w) \/ OpenZipFails(w)
  BY <1>b, <1>10 DEF OpenFails, OpenZipFails
<1>. QED
  BY <1>1, <1>3, <1>4, <1>5, <1>6, <1>7, <1>8, <1>9, <1>10 DEF Serve, Receive

LEMMA SlotNext == NoStray /\ TypeOK /\ SlotInv /\ [Next]_vars => SlotInv'
<1>. SUFFICES ASSUME NoStray, TypeOK, SlotInv, [Next]_vars PROVE SlotInv'
  OBVIOUS
<1>1. CASE Environment
  <2>1. UNCHANGED <<sock, holder, pc, slot, atp, tcps>>
    BY <1>1 DEF Environment, Signal, PeerCloses, PeerResets, PeerVanishes,
       ClientGivesUp, PortCoolsDown, table, kernel, local
  <2>2. timeWait' = timeWait
    BY <1>1 DEF Environment, Signal, PeerCloses, PeerResets, PeerVanishes,
       ClientGivesUp, PortCoolsDown, kernel, SlotInv, PortsTidy
  <2>. QED
    BY <2>1, <2>2 DEF SlotInv, WorkersStay, PortsTidy, MarksTrue, SlotExclusive, LiveWorkers
<1>2. CASE UNCHANGED vars
  BY <1>2 DEF vars, table, kernel, local, SlotInv, WorkersStay, PortsTidy, MarksTrue,
     SlotExclusive, LiveWorkers
<1>. QED
  BY <1>1, <1>2, SlotDispatcher, SlotServe DEF Next

LEMMA SlotInvariant == NoStray => (Spec => [](TypeOK /\ SlotInv))
<1>. SUFFICES ASSUME NoStray PROVE Spec => [](TypeOK /\ SlotInv)
  OBVIOUS
<1>1. TypeOK /\ SlotInv /\ [Next]_vars => (TypeOK /\ SlotInv)'
  BY TypeNext, SlotNext
<1>. QED
  BY <1>1, TypeInit, SlotInit, PTL DEF Spec

(* While no bind fails and no file fails to open, no two workers share a   *)
(* slot, whatever else happens: lost replies, dead clients, failed forks,  *)
(* signals in the middle of anything.                                      *)
THEOREM SlotsExclusive == NoStray => (Spec => []SlotExclusive)
<1>1. SlotInv => SlotExclusive
  BY DEF SlotInv
<1>. QED
  BY <1>1, SlotInvariant, PTL

(* Under the same condition only the first process runs main()'s loop.     *)
THEOREM MainDispatches == NoStray => (Spec => []OnlyMainDispatches)
<1>1. SlotInv => OnlyMainDispatches
  BY DEF SlotInv, WorkersStay, OnlyMainDispatches, Dispatchers, DispatchPC, WorkerPC, Procs
<1>. QED
  BY <1>1, SlotInvariant, PTL

(* So the configured interval is the greatest number of workers at once.   *)
THEOREM IntervalBounds == NoStray => (Spec => []WithinInterval)
<1>1. TypeOK /\ SlotExclusive => WithinInterval
  <2>1. SUFFICES ASSUME TypeOK, SlotExclusive PROVE WithinInterval
    OBVIOUS
  <2>2. \A w \in LiveWorkers : slot[w] \in Slots
    BY <2>1 DEF TypeOK, LiveWorkers, Procs
  <2>. DEFINE f == [w \in LiveWorkers |-> slot[w]]
  <2>3. f \in Injection(LiveWorkers, Slots)
    BY <2>1, <2>2 DEF SlotExclusive, Injection, IsInjective
  <2>4. IsFiniteSet(Slots) /\ Cardinality(Slots) = Interval
    BY ConstantsOK, FS_Interval DEF Slots
  <2>. HIDE DEF f
  <2>5. Cardinality(LiveWorkers) <= Cardinality(Slots)
    BY <2>3, <2>4, FS_Injection
  <2>. QED
    BY <2>4, <2>5 DEF WithinInterval
<1>. QED
  BY <1>1, TypeCorrect, SlotsExclusive, PTL

-----------------------------------------------------------------------------
(* The server implements SlotPool *)

LEMMA PoolSame ==
  ASSUME \A w \in Workers : /\ pc'[w] \in WorkerPC <=> pc[w] \in WorkerPC
                            /\ pc[w] \in WorkerPC => slot'[w] = slot[w]
  PROVE  Owners' = Owners
  BY DEF Owners, LiveWorkers

LEMMA PoolDie ==
  ASSUME TypeOK, SlotInv, NEW V, NEW at, Die(V, at),
         \A p \in Procs : p \notin V /\ pc[p] # "kill" => at[p] = slot[p]
  PROVE  [Pool!Next]_Owners
<1>0. \A w \in Workers : w \in Procs /\ w # Main
  BY ConstantsOK DEF Procs
<1>1. ASSUME NEW w \in Workers
      PROVE  /\ w \in V => pc'[w] \notin WorkerPC
             /\ w \notin V => pc'[w] = pc[w]
             /\ w \notin V /\ pc[w] \in WorkerPC => slot'[w] = slot[w]
  BY <1>0 DEF Die, TypeOK, WorkerPC, DeadPC
<1>. DEFINE S == {s \in Slots : \E w \in LiveWorkers : w \in V /\ slot[w] = s}
<1>2. \A s \in S : Owners[s] # {}
  BY DEF Owners
<1>3. Owners' = [s \in Slots |-> IF s \in S THEN {} ELSE Owners[s]]
  <2>1. ASSUME NEW s \in Slots
        PROVE  Owners'[s] = IF s \in S THEN {} ELSE Owners[s]
    <3>1. CASE s \in S
      BY <1>1, <3>1 DEF Owners, LiveWorkers, SlotInv, SlotExclusive
    <3>2. CASE s \notin S
      BY <1>1, <3>2 DEF Owners, LiveWorkers
    <3>. QED
      BY <3>1, <3>2
  <2>. QED
    BY <2>1 DEF Owners
<1>4. S \in SUBSET Slots
  OBVIOUS
<1>. QED
  BY <1>2, <1>3, <1>4 DEF Pool!Next, Pool!Release

LEMMA PoolDispatcher ==
  ASSUME TypeOK, SlotInv, NEW d \in Procs, Request(d) \/ Command(d) \/ Handle(d)
  PROVE  [Pool!Next]_Owners
<1>0. /\ Main \in Procs
      /\ \A w \in Workers : w \in Procs /\ w # Main
  BY ConstantsOK DEF Procs
<1>a. pc[d] \in DispatchPC
  BY DEF Request, Command, Handle, RecvBackup, Toggle, Stop, Reserve, Fork,
     ForkFails, WakeUp, Kill, Exit, DispatchPC
<1>b. d = Main
  BY <1>a DEF Procs, SlotInv, WorkersStay, DispatchPC, WorkerPC
<1>1. ASSUME NEW w \in Workers, Fork(Main, w) PROVE Pool!Next
  <2>1. /\ pc[w] = "none" /\ pc[Main] = "fork" /\ slot[Main] \in Slots
        /\ pc'[w] = "start" /\ slot'[w] = slot[Main]
    BY <1>0, <1>1 DEF Fork, TypeOK
  <2>2. \A v \in Workers : v # w => pc'[v] = pc[v] /\ slot'[v] = slot[v]
    BY <1>0, <1>1 DEF Fork, TypeOK
  <2>3. Owners[slot[Main]] = {}
    BY <2>1 DEF Owners, LiveWorkers, SlotInv, MarksTrue
  <2>4. \A s \in Slots : w \notin Owners[s]
    BY <2>1 DEF Owners, LiveWorkers, WorkerPC
  <2>5. Owners' = [Owners EXCEPT ![slot[Main]] = {w}]
    <3>1. ASSUME NEW s \in Slots
          PROVE  Owners'[s] = IF s = slot[Main] THEN {w} ELSE Owners[s]
      <4>1. \A v \in Workers : v \in LiveWorkers' <=> v = w \/ v \in LiveWorkers
        BY <2>1, <2>2 DEF LiveWorkers, WorkerPC
      <4>2. Owners'[s] = {v \in LiveWorkers' : slot'[v] = s}
        BY DEF Owners
      <4>3. Owners[s] = {v \in LiveWorkers : slot[v] = s}
        BY DEF Owners
      <4>4. w \notin LiveWorkers /\ LiveWorkers \subseteq Workers
        BY <2>1 DEF LiveWorkers, WorkerPC
      <4>5. CASE s = slot[Main]
        BY <2>1, <2>2, <2>3, <4>1, <4>2, <4>3, <4>4, <4>5 DEF LiveWorkers
      <4>6. CASE s # slot[Main]
        BY <2>1, <2>2, <4>1, <4>2, <4>3, <4>4, <4>6 DEF LiveWorkers
      <4>. QED
        BY <4>5, <4>6
    <3>. QED
      BY <2>1, <3>1 DEF Owners
  <2>. QED
    BY <2>1, <2>3, <2>4, <2>5 DEF Pool!Next, Pool!Acquire
<1>2. CASE Kill(Main)
  <2>1. pc[Main] = "kill"
    BY <1>2 DEF Kill
  <2>2. \A p \in Procs : pc[p] # "kill" => [slot EXCEPT ![Main] = @ + 1][p] = slot[p]
    BY <2>1 DEF TypeOK
  <2>3. CASE slot' = [slot EXCEPT ![Main] = @ + 1]
                 /\ UNCHANGED <<holder, pc, run, peer, atp, tcps, conn, left, dir>>
    BY <1>0, <2>3, PoolSame DEF TypeOK
  <2>4. ASSUME NEW V, Die(V, [slot EXCEPT ![Main] = @ + 1])
        PROVE  [Pool!Next]_Owners
    BY <2>2, <2>4, PoolDie
  <2>. QED
    BY <1>2, <2>3, <2>4 DEF Kill
<1>3. CASE Exit(Main)
  BY <1>3, PoolDie DEF Exit
<1>4. ASSUME NEW c \in Clients, RecvBackup(Main, c) PROVE [Pool!Next]_Owners
  <2>1. \A w \in Workers : pc'[w] = pc[w] /\ slot'[w] = slot[w]
    BY <1>0, <1>4 DEF RecvBackup, Goto, TypeOK
  <2>. QED
    BY <2>1, PoolSame
<1>5. ASSUME \/ Reserve(Main) \/ ForkFails(Main) \/ WakeUp(Main)
             \/ \E s \in Slots : Toggle(Main, s) \/ Stop(Main, s)
      PROVE  [Pool!Next]_Owners
  <2>1. \A w \in Workers : pc'[w] = pc[w] /\ slot'[w] = slot[w]
    BY <1>0, <1>5 DEF Reserve, ForkFails, WakeUp, Toggle, Stop, ReturnToMain, Goto,
       TypeOK, local
  <2>. QED
    BY <2>1, PoolSame
<1>. QED
  BY <1>b, <1>1, <1>2, <1>3, <1>4, <1>5 DEF Request, Command, Handle

LEMMA PoolServe ==
  ASSUME NoStray, TypeOK, SlotInv, NEW w \in Workers, Serve(w)
  PROVE  [Pool!Next]_Owners
<1>0. \A v \in Workers : v \in Procs /\ v # Main
  BY ConstantsOK DEF Procs
<1>1. CASE GiveBack(w)
  BY <1>1, PoolDie DEF GiveBack
<1>2. CASE BodyFails(w)
  <2>1. CASE Die({w}, slot)
    BY <2>1, PoolDie
  <2>2. CASE UNCHANGED <<holder, pc, run, slot, peer, atp, tcps, left, dir>>
    BY <2>2, PoolSame
  <2>. QED
    BY <1>2, <2>1, <2>2 DEF BodyFails
<1>3. ASSUME NEW label \in WorkerPC, Goto(w, label) \/ pc' = pc,
             pc[w] \in WorkerPC, slot' = slot
      PROVE  [Pool!Next]_Owners
  <2>1. \A v \in Workers : v # w => pc'[v] = pc[v]
    BY <1>0, <1>3 DEF Goto, TypeOK
  <2>2. pc'[w] \in WorkerPC
    BY <1>0, <1>3 DEF Goto, TypeOK
  <2>. QED
    BY <1>3, <2>1, <2>2, PoolSame
<1>4. "disk" \notin Faults /\ atp[w] = 0
  BY DEF NoStray, StraySources, SlotInv, WorkersStay
<1>. QED
  BY <1>1, <1>2, <1>3, <1>4
     DEF Serve, Bind, Receive, Start, BindAgain, BindOk, BindLate, BindNever, Publish,
         Accept, AcceptFails, Spin, Header, ResetCount, Store, NextFile, LastFile, FileHeader,
         FileHeaderFails, OpenFails, OpenZipFails, Body, Close, local, WorkerPC, MaxTries

(* Every behaviour of the server is one of SlotPool, the owners of a slot  *)
(* being the live workers that serve on it.                                *)
THEOREM PoolImplemented == NoStray => (Spec => PoolSpec)
<1>. SUFFICES ASSUME NoStray PROVE Spec => PoolSpec
  OBVIOUS
<1>1. Init => Pool!Init
  <2>1. ASSUME Init PROVE LiveWorkers = {}
    BY <2>1, ConstantsOK DEF Init, LiveWorkers, Procs, WorkerPC
  <2>. QED
    BY <2>1 DEF Pool!Init, Owners
<1>2. TypeOK /\ SlotInv /\ [Next]_vars => [Pool!Next]_Owners
  <2>1. SUFFICES ASSUME TypeOK, SlotInv, [Next]_vars PROVE [Pool!Next]_Owners
    OBVIOUS
  <2>2. CASE Environment \/ UNCHANGED vars
    <3>1. UNCHANGED <<pc, slot>>
      BY <2>2 DEF Environment, Signal, PeerCloses, PeerResets, PeerVanishes,
         ClientGivesUp, PortCoolsDown, vars, local
    <3>. QED
      BY <3>1, PoolSame
  <2>. QED
    BY <2>1, <2>2, PoolDispatcher, PoolServe DEF Next
<1>. QED
  BY <1>1, <1>2, SlotInvariant, PTL DEF Spec, PoolSpec, Pool!Spec

-----------------------------------------------------------------------------
(* What the marks mean for what the backups themselves show: the counters *)
(* a monitor reads, the directory a backup is kept in, and the slots       *)
(* nobody gives back.                                                      *)

(* The counters of a slot *)

(* While its worker has the counters in hand, what is counted and what is  *)
(* left to receive stay within what was announced.                         *)
Counted(w) ==
    /\ pc[w] = "count" => left[w] <= nof[slot[w]]
    /\ pc[w] \in {"store", "wait", "file", "body"} =>
           ft[slot[w]] + left[w] <= nof[slot[w]]

CountInv ==
    /\ NeverPastTheEnd
    /\ \A w \in Workers : Counted(w)

Loop == {"count", "store", "wait", "file", "body"}
Ending == {"kill", "exit"}

LEMMA CountInit == Init => CountInv
<1>1. \A w \in Workers : w \in Procs /\ w # Main
  BY ConstantsOK DEF Procs
<1>. QED
  BY <1>1 DEF Init, CountInv, Counted, NeverPastTheEnd

(* A step that leaves the counters alone, brings no worker into the files' *)
(* loop and, while the server answers, takes none away from its count      *)
(* keeps the invariant.                                                    *)
LEMMA CountKept ==
  ASSUME CountInv, UNCHANGED <<nof, ft>>,
         \A w \in Workers : pc'[w] \in Loop =>
             /\ pc[w] \in Loop
             /\ pc'[w] = "count" <=> pc[w] = "count"
             /\ slot'[w] = slot[w]
             /\ left'[w] = left[w],
         \/ pc'[Main] \in Ending
         \/ /\ pc[Main] \notin Ending
            /\ \A w \in Workers : pc[w] = "count" => pc'[w] = "count"
  PROVE  CountInv'
<1>1. ASSUME NEW w \in Workers PROVE Counted(w)'
  BY <1>1 DEF CountInv, Counted, Loop
<1>2. ASSUME pc[Main] \notin Ending,
             \A w \in Workers : pc[w] = "count" => pc'[w] = "count"
      PROVE  NeverPastTheEnd'
  BY <1>2 DEF CountInv, NeverPastTheEnd, LiveWorkers, Loop, WorkerPC, Ending
<1>. QED
  BY <1>1, <1>2 DEF CountInv, NeverPastTheEnd, Ending

LEMMA CountDie ==
  ASSUME TypeOK, CountInv, NEW V, NEW at, Die(V, at), UNCHANGED <<nof, ft>>,
         \A p \in Procs : p \notin V /\ pc[p] # "kill" => at[p] = slot[p],
         \/ pc'[Main] \in Ending
         \/ /\ pc'[Main] = pc[Main]
            /\ \A w \in Workers : w \in V => pc[w] # "count"
  PROVE  CountInv'
<1>0. \A w \in Workers : w \in Procs /\ w # Main
  BY ConstantsOK DEF Procs
<1>1. ASSUME NEW w \in Workers, pc'[w] \in Loop
      PROVE  /\ pc'[w] = pc[w]
             /\ slot'[w] = slot[w]
             /\ left'[w] = left[w]
  BY <1>0, <1>1 DEF Die, TypeOK, DeadPC, Loop
<1>2. \A w \in Workers : w \notin V => pc'[w] = pc[w]
  BY <1>0 DEF Die
<1>. QED
  BY <1>1, <1>2, CountKept

LEMMA CountReturn ==
  ASSUME TypeOK, CountInv, NEW d \in Procs, ReturnToMain(d),
         pc[d] \notin Ending \cup {"count"}, UNCHANGED <<nof, ft, left>>
  PROVE  CountInv'
<1>0. Main \in Procs /\ \A w \in Workers : w \in Procs
  BY DEF Procs
<1>1. /\ \A p \in Procs : p # d => pc'[p] = pc[p] /\ slot'[p] = slot[p]
      /\ pc'[d] \in {"recv", "kill"}
  BY DEF ReturnToMain, TypeOK
<1>2. ASSUME NEW w \in Workers, pc'[w] \in Loop
      PROVE  pc[w] = pc'[w] /\ slot'[w] = slot[w]
  BY <1>0, <1>1, <1>2 DEF Loop
<1>3. \A w \in Workers : pc[w] = "count" => pc'[w] = "count"
  BY <1>0, <1>1
<1>4. pc'[Main] \in Ending \/ pc[Main] \notin Ending
  BY <1>0, <1>1
<1>. QED
  BY <1>2, <1>3, <1>4, CountKept

LEMMA CountDispatcher ==
  ASSUME "STP" \notin Commands, TypeOK, OnlyMainDispatches, CountInv, NEW d \in Procs,
         Request(d) \/ Command(d) \/ Handle(d)
  PROVE  CountInv'
<1>. USE DEF table, kernel, local
<1>0. Main \in Procs /\ \A w \in Workers : w \in Procs /\ w # Main
  BY ConstantsOK DEF Procs
<1>a. ASSUME NEW label, Goto(d, label), UNCHANGED <<nof, ft, left>>,
             pc[d] \notin Loop \cup Ending, label \notin Loop,
             \A p \in Procs : p # d => slot'[p] = slot[p]
      PROVE  CountInv'
  <2>1. pc'[d] = label /\ \A p \in Procs : p # d => pc'[p] = pc[p]
    BY <1>a DEF Goto, TypeOK
  <2>2. ASSUME NEW w \in Workers, pc'[w] \in Loop
        PROVE  pc'[w] = pc[w] /\ slot'[w] = slot[w]
    BY <1>0, <1>a, <2>1, <2>2
  <2>3. \A w \in Workers : pc[w] = "count" => pc'[w] = "count"
    BY <1>0, <1>a, <2>1 DEF Loop
  <2>4. pc'[Main] \in Ending \/ pc[Main] \notin Ending
    BY <1>0, <1>a, <2>1
  <2>. QED
    BY <1>a, <2>2, <2>3, <2>4, CountKept
<1>1. ASSUME NEW c \in Clients, RecvBackup(d, c) PROVE CountInv'
  <2>1. \A p \in Procs : p # d => slot'[p] = slot[p]
    BY <1>1 DEF RecvBackup, TypeOK
  <2>. QED
    BY <1>a, <1>1, <2>1 DEF RecvBackup, Loop, Ending
<1>2. ASSUME NEW s \in Slots, Toggle(d, s) PROVE CountInv'
  BY <1>2, CountReturn DEF Toggle, Ending
<1>3. CASE Reserve(d)
  BY <1>3, <1>a DEF Reserve, Loop, Ending
<1>4. ASSUME NEW w \in Workers, Fork(d, w) PROVE CountInv'
  <2>0. pc[d] = "fork" /\ pc[w] = "none" /\ UNCHANGED <<nof, ft, left>>
    BY <1>4 DEF Fork
  <2>1. pc'[w] = "start" /\ \A p \in Procs : p # d /\ p # w => pc'[p] = pc[p]
    BY <1>0, <1>4 DEF Fork, TypeOK
  <2>2. \A p \in Procs : p # d /\ p # w => slot'[p] = slot[p]
    BY <1>0, <1>4 DEF Fork, TypeOK
  <2>3. pc'[d] \in {"recv", "kill"}
    BY <1>0, <1>4, <2>0 DEF Fork, TypeOK
  <2>4. ASSUME NEW v \in Workers, pc'[v] \in Loop
        PROVE  pc'[v] = pc[v] /\ slot'[v] = slot[v]
    BY <1>0, <2>1, <2>2, <2>3, <2>4 DEF Loop
  <2>5. \A v \in Workers : pc[v] = "count" => pc'[v] = "count"
    BY <1>0, <2>0, <2>1
  <2>6. pc'[Main] \in Ending \/ pc[Main] \notin Ending
    BY <1>0, <2>0, <2>1 DEF Ending
  <2>. QED
    BY <2>0, <2>4, <2>5, <2>6, CountKept
<1>5. CASE ForkFails(d) \/ WakeUp(d)
  BY <1>5, CountReturn DEF ForkFails, WakeUp, Ending
<1>6. CASE Kill(d)
  <2>1. pc[d] = "kill" /\ UNCHANGED <<nof, ft>> /\ d = Main
    BY <1>6 DEF Kill, OnlyMainDispatches, Dispatchers, DispatchPC
  <2>2. \A p \in Procs : pc[p] # "kill" => [slot EXCEPT ![d] = @ + 1][p] = slot[p]
    BY <2>1 DEF TypeOK
  <2>3. CASE slot' = [slot EXCEPT ![d] = @ + 1]
                 /\ UNCHANGED <<holder, pc, run, peer, atp, tcps, conn, left, dir>>
    BY <1>0, <2>1, <2>2, <2>3, CountKept DEF Ending
  <2>4. ASSUME NEW V, Die(V, [slot EXCEPT ![d] = @ + 1]) PROVE CountInv'
    <3>1. pc'[Main] \in Ending
      BY <1>0, <2>1, <2>4 DEF Die, DeadPC, Ending
    <3>. QED
      BY <2>1, <2>2, <2>4, <3>1, CountDie
  <2>. QED
    BY <1>6, <2>3, <2>4 DEF Kill
<1>7. CASE Exit(d)
  <2>1. pc[d] = "kill" /\ d = Main
    BY <1>7 DEF Exit, OnlyMainDispatches, Dispatchers, DispatchPC
  <2>2. pc'[Main] \in Ending
    BY <1>0, <1>7, <2>1 DEF Exit, Die, DeadPC, Ending
  <2>. QED
    BY <1>7, <2>2, CountDie DEF Exit
<1>. QED
  BY <1>1, <1>2, <1>3, <1>4, <1>5, <1>6, <1>7 DEF Request, Command, Handle, Stop

(* Here SlotExclusive is needed: the counters a worker writes are nobody   *)
(* else's.                                                                 *)
LEMMA CountServe ==
  ASSUME TypeOK, SlotExclusive, CountInv, NEW w \in Workers, Serve(w)
  PROVE  CountInv'
<1>. USE DEF table, kernel, local
<1>0. Main \in Procs /\ \A v \in Workers : v \in Procs /\ v # Main
  BY ConstantsOK DEF Procs
<1>a. \A v \in Workers : pc[v] \in WorkerPC => slot[v] \in Slots
  BY <1>0 DEF TypeOK
<1>b. \A v \in Workers : v # w /\ pc[v] \in WorkerPC /\ pc[w] \in WorkerPC
                             => slot[v] # slot[w]
  BY DEF SlotExclusive, LiveWorkers
<1>c. Loop \subseteq WorkerPC
  BY DEF Loop, WorkerPC
<1>d. ASSUME pc[w] \in WorkerPC, pc'[w] \in WorkerPC, UNCHANGED slot,
             \A v \in Procs : v # w => pc'[v] = pc[v] /\ left'[v] = left[v],
             \A s \in Slots : s # slot[w] => nof'[s] = nof[s] /\ ft'[s] = ft[s],
             Counted(w)',
             ft'[slot[w]] > nof'[slot[w]] => pc'[w] = "count"
      PROVE  CountInv'
  <2>1. ASSUME NEW v \in Workers, v # w PROVE Counted(v)'
    <3>1. CASE pc[v] \in Loop
      BY <1>0, <1>a, <1>b, <1>c, <1>d, <2>1, <3>1 DEF CountInv, Counted
    <3>2. CASE pc[v] \notin Loop
      BY <1>0, <1>d, <2>1, <3>2 DEF Counted, Loop
    <3>. QED
      BY <3>1, <3>2
  <2>2. ASSUME pc'[Main] \notin Ending, NEW s \in Slots, ft'[s] > nof'[s]
        PROVE  \E v \in Workers : pc'[v] \in WorkerPC /\ slot'[v] = s /\ pc'[v] = "count"
    <3>1. CASE s = slot[w]
      BY <1>d, <2>2, <3>1
    <3>2. CASE s # slot[w]
      <4>1. ft[s] > nof[s] /\ pc[Main] \notin Ending
        BY <1>0, <1>d, <2>2, <3>2
      <4>2. PICK v \in Workers : pc[v] \in WorkerPC /\ slot[v] = s /\ pc[v] = "count"
        BY <4>1 DEF CountInv, NeverPastTheEnd, Ending, LiveWorkers
      <4>. QED
        BY <1>0, <1>d, <3>2, <4>2
    <3>. QED
      BY <3>1, <3>2
  <2>. QED
    BY <1>d, <2>1, <2>2 DEF CountInv, NeverPastTheEnd, Ending, LiveWorkers
<1>1. CASE Header(w)
  <2>1. PICK n \in 0 .. MaxFiles : /\ nof' = [nof EXCEPT ![slot[w]] = n]
                                   /\ left' = [left EXCEPT ![w] = n]
    BY <1>1 DEF Header
  <2>2. n \in Nat /\ slot[w] \in Slots /\ pc[w] \in WorkerPC
    BY <1>1, <1>a, ConstantsOK DEF Header, WorkerPC
  <2>3. /\ ft' = ft /\ slot' = slot /\ pc'[w] = "count"
        /\ \A v \in Procs : v # w => pc'[v] = pc[v]
    BY <1>0, <1>1 DEF Header, Goto, TypeOK
  <2>4. Counted(w)'
    BY <1>0, <2>1, <2>2, <2>3 DEF Counted, TypeOK
  <2>5. /\ \A v \in Procs : v # w => left'[v] = left[v]
        /\ \A s \in Slots : s # slot[w] => nof'[s] = nof[s] /\ ft'[s] = ft[s]
    BY <2>1, <2>3 DEF TypeOK
  <2>. QED
    BY <1>d, <2>2, <2>3, <2>4, <2>5 DEF WorkerPC
<1>2. CASE Body(w)
  <2>1. /\ pc[w] = "body" /\ slot[w] \in Slots /\ left[w] > 0 /\ slot' = slot /\ nof' = nof
        /\ ft' = [ft EXCEPT ![slot[w]] = @ + 1]
        /\ left' = [left EXCEPT ![w] = @ - 1]
        /\ pc'[w] = "wait" /\ \A v \in Procs : v # w => pc'[v] = pc[v]
    BY <1>0, <1>a, <1>2 DEF Body, Goto, TypeOK, WorkerPC
  <2>2. /\ ft'[slot[w]] = ft[slot[w]] + 1 /\ left'[w] = left[w] - 1
        /\ ft[slot[w]] \in Nat /\ left[w] \in Nat /\ nof[slot[w]] \in Nat
        /\ ft[slot[w]] + left[w] <= nof[slot[w]]
    BY <1>0, <2>1 DEF CountInv, Counted, TypeOK
  <2>3. ft'[slot[w]] + left'[w] <= nof'[slot[w]] /\ ~(ft'[slot[w]] > nof'[slot[w]])
    BY <2>1, <2>2
  <2>4. Counted(w)'
    BY <2>1, <2>3 DEF Counted
  <2>5. /\ \A v \in Procs : v # w => left'[v] = left[v]
        /\ \A s \in Slots : s # slot[w] => nof'[s] = nof[s] /\ ft'[s] = ft[s]
    BY <2>1 DEF TypeOK
  <2>. QED
    BY <1>d, <2>1, <2>3, <2>4, <2>5 DEF WorkerPC
<1>3. CASE OpenFails(w)
  <2>1. /\ pc[w] = "file" /\ slot[w] \in Slots /\ left[w] > 0
        /\ UNCHANGED <<slot, nof, ft>>
        /\ left' = [left EXCEPT ![w] = @ - 1]
        /\ pc'[w] = "wait" /\ \A v \in Procs : v # w => pc'[v] = pc[v]
    BY <1>0, <1>a, <1>3 DEF OpenFails, Goto, TypeOK, WorkerPC
  <2>2. /\ left'[w] = left[w] - 1 /\ ft[slot[w]] + left[w] <= nof[slot[w]]
        /\ ft[slot[w]] \in Nat /\ left[w] \in Nat /\ nof[slot[w]] \in Nat
    BY <1>0, <2>1 DEF CountInv, Counted, TypeOK
  <2>3. ft'[slot[w]] + left'[w] <= nof'[slot[w]] /\ ~(ft'[slot[w]] > nof'[slot[w]])
    BY <2>1, <2>2
  <2>4. Counted(w)'
    BY <2>1, <2>3 DEF Counted
  <2>5. \A v \in Procs : v # w => left'[v] = left[v]
    BY <2>1 DEF TypeOK
  <2>. QED
    BY <1>d, <2>1, <2>3, <2>4, <2>5 DEF WorkerPC
<1>11. CASE ResetCount(w)
  <2>1. /\ pc[w] = "count" /\ slot[w] \in Slots /\ UNCHANGED <<slot, nof, left>>
        /\ ft' = [ft EXCEPT ![slot[w]] = 0]
        /\ pc'[w] = "store" /\ \A v \in Procs : v # w => pc'[v] = pc[v]
    BY <1>0, <1>a, <1>11 DEF ResetCount, Goto, TypeOK, WorkerPC
  <2>2. /\ ft'[slot[w]] = 0 /\ left[w] <= nof[slot[w]]
        /\ left[w] \in Nat /\ nof[slot[w]] \in Nat
    BY <1>0, <2>1 DEF CountInv, Counted, TypeOK
  <2>3. ft'[slot[w]] + left'[w] <= nof'[slot[w]] /\ ~(ft'[slot[w]] > nof'[slot[w]])
    BY <2>1, <2>2
  <2>4. Counted(w)'
    BY <2>1, <2>3 DEF Counted
  <2>5. \A s \in Slots : s # slot[w] => ft'[s] = ft[s]
    BY <2>1 DEF TypeOK
  <2>. QED
    BY <1>d, <2>1, <2>3, <2>4, <2>5 DEF WorkerPC
<1>4. CASE BindLate(w) \/ OpenZipFails(w)
  BY <1>0, <1>4, CountReturn DEF BindLate, OpenZipFails, Ending
<1>5. CASE GiveBack(w)
  <2>1. pc'[Main] = pc[Main] /\ pc[w] = "free" /\ Die({w}, slot) /\ UNCHANGED <<nof, ft>>
    BY <1>0, <1>5 DEF GiveBack, Die, TypeOK
  <2>. QED
    BY <2>1, CountDie
<1>6. CASE BodyFails(w)
  <2>1. CASE Die({w}, slot)
    <3>1. pc'[Main] = pc[Main] /\ pc[w] = "body"
      BY <1>0, <1>6, <2>1 DEF BodyFails, Die, TypeOK
    <3>. QED
      BY <1>6, <2>1, <3>1, CountDie DEF BodyFails
  <2>2. CASE UNCHANGED <<holder, pc, run, slot, peer, atp, tcps, left, dir>>
    BY <1>6, <2>2, CountKept DEF BodyFails
  <2>. QED
    BY <1>6, <2>1, <2>2 DEF BodyFails
<1>7. ASSUME UNCHANGED <<slot, nof, ft, left>>, pc[w] # "count",
             NEW label \in WorkerPC \ {"count"}, Goto(w, label),
             label \in Loop => pc[w] \in Loop
      PROVE  CountInv'
  <2>1. pc'[w] = label /\ \A v \in Procs : v # w => pc'[v] = pc[v]
    BY <1>0, <1>7 DEF Goto, TypeOK
  <2>2. ASSUME NEW v \in Workers, pc'[v] \in Loop
        PROVE  pc[v] \in Loop /\ (pc'[v] = "count" <=> pc[v] = "count")
    BY <1>0, <1>7, <2>1, <2>2
  <2>3. \A v \in Workers : pc[v] = "count" => pc'[v] = "count"
    BY <1>0, <1>7, <2>1
  <2>4. pc'[Main] = pc[Main]
    BY <1>0, <2>1
  <2>. QED
    BY <1>7, <2>2, <2>3, <2>4, CountKept
<1>8. CASE BindAgain(w)
  BY <1>8, CountKept DEF BindAgain
<1>9. CASE \/ Start(w) \/ BindOk(w) \/ BindNever(w) \/ Publish(w) \/ Accept(w)
           \/ AcceptFails(w) \/ FileHeader(w) \/ FileHeaderFails(w)
  BY <1>7, <1>9 DEF Start, BindOk, BindNever, Publish, Accept, AcceptFails,
     FileHeader, FileHeaderFails, WorkerPC, Loop
<1>10. CASE Spin(w) \/ Store(w) \/ NextFile(w) \/ LastFile(w) \/ Close(w)
  BY <1>7, <1>10 DEF Spin, Store, NextFile, LastFile, Close, WorkerPC, Loop
<1>. QED
  BY <1>1, <1>2, <1>3, <1>4, <1>5, <1>6, <1>8, <1>9, <1>10, <1>11 DEF Serve, Bind, Receive

LEMMA CountNext ==
  "STP" \notin Commands /\ TypeOK /\ SlotExclusive /\ OnlyMainDispatches
      /\ CountInv /\ [Next]_vars
    => CountInv'
<1>. SUFFICES ASSUME "STP" \notin Commands, TypeOK, SlotExclusive, OnlyMainDispatches,
                     CountInv, [Next]_vars
              PROVE  CountInv'
  OBVIOUS
<1>1. CASE Environment \/ UNCHANGED vars
  <2>1. UNCHANGED <<nof, ft, pc, slot, left>>
    BY <1>1 DEF Environment, Signal, PeerCloses, PeerResets, PeerVanishes,
       ClientGivesUp, PortCoolsDown, vars, table, kernel, local
  <2>. QED
    BY <2>1, CountKept
<1>. QED
  BY <1>1, CountDispatcher, CountServe DEF Next

(* Without the manager's stop, which writes the two counters itself, no    *)
(* progress of a slot is past its end, however the workers' writes and the *)
(* answers interleave, but between the two writes that begin a count.      *)
THEOREM ProgressEnds ==
  NoStray /\ "STP" \notin Commands => (Spec => []NeverPastTheEnd)
<1>. SUFFICES ASSUME NoStray, "STP" \notin Commands PROVE Spec => []NeverPastTheEnd
  OBVIOUS
<1>1. CountInv => NeverPastTheEnd
  BY DEF CountInv
<1>2. TypeOK /\ SlotExclusive /\ OnlyMainDispatches /\ CountInv /\ [Next]_vars => CountInv'
  BY CountNext
<1>. QED
  BY <1>1, <1>2, CountInit, TypeCorrect, SlotsExclusive, MainDispatches, PTL DEF Spec

-----------------------------------------------------------------------------
(* A backup and the host it came from *)

Served == {"header", "count", "store", "wait", "file", "body", "close", "free", "spin"}
Named == {"wait", "file", "body", "close"}

(* The port a client was told is that of a slot kept for this client, or   *)
(* of the slot the dispatcher is about to mark for it.                     *)
OfferKept(c, s) ==
    \/ sock[s] >= Reserved /\ client[s] = c
    \/ pc[Main] = "reserve" /\ slot[Main] = s /\ peer[Main] = c

(* So at most one client tries the port of a slot, none does once the      *)
(* worker has accepted, and the name in the table is still its own when    *)
(* the worker makes the directory.                                         *)
PeerInv ==
    /\ \A o \in offers : OfferKept(o[1], o[2])
    /\ \A w \in Workers : pc[w] \in Served =>
         /\ peer[w] = client[slot[w]]
         /\ \A o \in offers : o[2] # slot[w]
    /\ \A w \in Workers : pc[w] \in Named => dir[w] = client[slot[w]]

LEMMA PeerInit == Init => PeerInv
<1>1. \A w \in Workers : w \in Procs /\ w # Main
  BY ConstantsOK DEF Procs
<1>. QED
  BY <1>1 DEF Init, PeerInv, Served, Named

(* A step that makes no offer, marks nothing and takes no worker past      *)
(* accept() keeps the invariant.                                           *)
LEMMA PeerKept ==
  ASSUME PeerInv, UNCHANGED <<sock, client>>, offers' \subseteq offers,
         \A w \in Workers : pc'[w] \in Served =>
             /\ pc[w] \in Served
             /\ slot'[w] = slot[w] /\ peer'[w] = peer[w],
         \A w \in Workers : pc'[w] \in Named =>
             pc[w] \in Named /\ dir'[w] = dir[w],
         pc[Main] = "reserve" => /\ pc'[Main] = "reserve"
                                 /\ slot'[Main] = slot[Main]
                                 /\ peer'[Main] = peer[Main]
  PROVE  PeerInv'
<1>1. \A o \in offers' : OfferKept(o[1], o[2])'
  BY DEF PeerInv, OfferKept
<1>. QED
  BY <1>1 DEF PeerInv, Named, Served

(* The end of processes other than a dispatcher that has just answered.    *)
LEMMA PeerDie ==
  ASSUME TypeOK, PeerInv, NEW V, NEW at, Die(V, at),
         UNCHANGED <<sock, client, offers>>,
         Main \in V => pc[Main] # "reserve",
         \A p \in Procs : p \notin V /\ pc[p] # "kill" => at[p] = slot[p]
  PROVE  PeerInv'
<1>0. Main \in Procs /\ \A w \in Workers : w \in Procs /\ w # Main
  BY ConstantsOK DEF Procs
<1>1. ASSUME NEW w \in Workers, pc'[w] \in Served
      PROVE  /\ pc[w] \in Served /\ pc'[w] = pc[w]
             /\ slot'[w] = slot[w] /\ peer'[w] = peer[w] /\ dir'[w] = dir[w]
  BY <1>0, <1>1 DEF Die, TypeOK, DeadPC, Served
<1>2. pc[Main] = "reserve" => /\ pc'[Main] = "reserve"
                              /\ slot'[Main] = slot[Main]
                              /\ peer'[Main] = peer[Main]
  BY <1>0 DEF Die, TypeOK
<1>3. Named \subseteq Served
  BY DEF Named, Served
<1>. QED
  BY <1>1, <1>2, <1>3, PeerKept

LEMMA PeerDispatcher ==
  ASSUME TypeOK, SlotInv, PeerInv, NEW d \in Procs, Request(d) \/ Command(d) \/ Handle(d)
  PROVE  PeerInv'
<1>. USE DEF table, kernel, local
<1>0. Main \in Procs /\ \A w \in Workers : w \in Procs /\ w # Main
  BY ConstantsOK DEF Procs
<1>a. pc[d] \in DispatchPC
  BY DEF Request, Command, Handle, RecvBackup, Toggle, Stop, Reserve, Fork,
     ForkFails, WakeUp, Kill, Exit, DispatchPC
<1>b. d = Main
  BY <1>a DEF Procs, SlotInv, WorkersStay, DispatchPC, WorkerPC
<1>c. Served \subseteq WorkerPC /\ Named \subseteq Served
  BY DEF Served, Named, WorkerPC
<1>d. \A s \in Slots : sock[s] \in Int
  BY DEF TypeOK, Free, BindFailed, Reserved, Fd
<1>1. ASSUME NEW c \in Clients, RecvBackup(Main, c) PROVE PeerInv'
  <2>1. PICK s \in Slots : /\ sock[s] < Reserved
                           /\ slot' = [slot EXCEPT ![Main] = s]
                           /\ offers' \subseteq offers \cup {<<c, s>>}
    BY <1>1 DEF RecvBackup, IsSlotFor
  <2>2. /\ pc[Main] = "recv" /\ pc'[Main] = "reserve" /\ slot'[Main] = s /\ peer'[Main] = c
        /\ UNCHANGED <<sock, client, dir>>
    BY <1>0, <1>1, <2>1 DEF RecvBackup, Goto, TypeOK
  <2>3. \A w \in Workers : pc'[w] = pc[w] /\ slot'[w] = slot[w] /\ peer'[w] = peer[w]
    BY <1>0, <1>1, <2>1 DEF RecvBackup, Goto, TypeOK
  <2>4. ASSUME NEW w \in Workers, pc[w] \in Served PROVE slot[w] # s
    BY <1>c, <2>1, <2>4 DEF SlotInv, MarksTrue, Reserved, Fd
  <2>5. \A o \in offers' : OfferKept(o[1], o[2])'
    BY <2>1, <2>2 DEF PeerInv, OfferKept
  <2>. QED
    BY <2>1, <2>2, <2>3, <2>4, <2>5 DEF PeerInv, Named, Served
<1>2. ASSUME ReturnToMain(Main), pc[Main] # "reserve",
             UNCHANGED <<sock, client, offers, dir>>
      PROVE  PeerInv'
  <2>1. \A w \in Workers : pc'[w] = pc[w] /\ slot'[w] = slot[w] /\ peer'[w] = peer[w]
    BY <1>0, <1>2 DEF ReturnToMain, TypeOK
  <2>. QED
    BY <1>2, <2>1, PeerKept
<1>3. ASSUME NEW s \in Slots, Toggle(Main, s) \/ Stop(Main, s) PROVE PeerInv'
  BY <1>2, <1>3 DEF Toggle, Stop
<1>4. CASE Reserve(Main)
  <2>1. /\ pc[Main] = "reserve" /\ slot[Main] \in Slots
        /\ sock' = [sock EXCEPT ![slot[Main]] = Reserved]
        /\ client' = [client EXCEPT ![slot[Main]] = peer[Main]]
        /\ sock[slot[Main]] < Reserved
        /\ UNCHANGED <<offers, slot, peer, dir>>
    BY <1>0, <1>4 DEF Reserve, TypeOK, SlotInv, MarksTrue
  <2>2. \A w \in Workers : pc'[w] = pc[w]
    BY <1>0, <1>4 DEF Reserve, Goto, TypeOK
  <2>3. ASSUME NEW w \in Workers, pc[w] \in Served PROVE slot[w] # slot[Main]
    BY <1>c, <2>1, <2>3 DEF SlotInv, MarksTrue, Reserved, Fd
  <2>4. ASSUME NEW o \in offers PROVE sock'[o[2]] >= Reserved /\ client'[o[2]] = o[1]
    <3>1. o[2] \in Slots /\ OfferKept(o[1], o[2])
      BY DEF TypeOK, PeerInv
    <3>2. CASE o[2] = slot[Main]
      BY <1>d, <2>1, <3>1, <3>2 DEF OfferKept, TypeOK, Reserved
    <3>3. CASE o[2] # slot[Main]
      BY <2>1, <3>1, <3>3 DEF OfferKept, TypeOK
    <3>. QED
      BY <3>2, <3>3
  <2>5. \A w \in Workers : pc[w] \in Served => client'[slot[w]] = client[slot[w]]
    BY <1>0, <1>c, <2>1, <2>3 DEF TypeOK
  <2>. QED
    BY <1>c, <2>1, <2>2, <2>4, <2>5 DEF PeerInv, OfferKept
<1>5. ASSUME NEW w \in Workers, Fork(Main, w) PROVE PeerInv'
  <2>1. \A v \in Workers : v # w => /\ pc'[v] = pc[v] /\ slot'[v] = slot[v]
                                    /\ peer'[v] = peer[v]
    BY <1>0, <1>5 DEF Fork, TypeOK
  <2>2. pc'[w] = "start" /\ pc[Main] = "fork" /\ UNCHANGED <<sock, client, offers, dir>>
    BY <1>0, <1>5 DEF Fork, TypeOK
  <2>. QED
    BY <2>1, <2>2, PeerKept DEF Served, Named
<1>6. CASE ForkFails(Main) \/ WakeUp(Main)
  BY <1>2, <1>6 DEF ForkFails, WakeUp
<1>7. CASE Kill(Main)
  <2>1. pc[Main] = "kill" /\ UNCHANGED <<sock, client, offers>>
    BY <1>7 DEF Kill
  <2>2. \A p \in Procs : pc[p] # "kill" => [slot EXCEPT ![Main] = @ + 1][p] = slot[p]
    BY <2>1 DEF TypeOK
  <2>3. CASE slot' = [slot EXCEPT ![Main] = @ + 1]
                 /\ UNCHANGED <<holder, pc, run, peer, atp, tcps, conn, left, dir>>
    <3>1. \A w \in Workers : slot'[w] = slot[w]
      BY <1>0, <2>3 DEF TypeOK
    <3>. QED
      BY <2>1, <2>3, <3>1, PeerKept
  <2>4. ASSUME NEW V, Die(V, [slot EXCEPT ![Main] = @ + 1]) PROVE PeerInv'
    BY <2>1, <2>2, <2>4, PeerDie
  <2>. QED
    BY <1>7, <2>3, <2>4 DEF Kill
<1>8. CASE Exit(Main)
  BY <1>8, PeerDie DEF Exit
<1>. QED
  BY <1>b, <1>1, <1>3, <1>4, <1>5, <1>6, <1>7, <1>8 DEF Request, Command, Handle

LEMMA PeerServe ==
  ASSUME NoStray, TypeOK, SlotInv, PeerInv, NEW w \in Workers, Serve(w)
  PROVE  PeerInv'
<1>. USE DEF table, kernel, local
<1>0. Main \in Procs /\ \A v \in Workers : v \in Procs /\ v # Main
  BY ConstantsOK DEF Procs
<1>a. \A v \in Workers : pc[v] \in WorkerPC => slot[v] \in Slots
  BY <1>0 DEF TypeOK
<1>b. Served \subseteq WorkerPC /\ Named \subseteq Served
  BY DEF Served, Named, WorkerPC
<1>c. \A s \in Slots : sock[s] \in Int
  BY DEF TypeOK, Free, BindFailed, Reserved, Fd
<1>d. "disk" \notin Faults /\ atp[w] = 0 /\ (pc[w] \in Bound => tcps[w] = Fd)
  BY DEF NoStray, StraySources, SlotInv, WorkersStay
<1>1. ASSUME pc[w] \in Bound
      PROVE  \A o \in offers : o[2] = slot[w] => o[1] = client[slot[w]]
  <2>1. sock[slot[w]] \in {Reserved, Fd} /\ slot[w] \in Slots
    BY <1>1, <1>a DEF SlotInv, MarksTrue, Bound, WorkerPC
  <2>2. pc[Main] = "reserve" => slot[Main] # slot[w]
    BY <2>1 DEF SlotInv, MarksTrue, Reserved, Fd
  <2>. QED
    BY <2>2 DEF PeerInv, OfferKept
<1>2. CASE Accept(w)
  <2>1. PICK c \in Clients : /\ <<c, slot[w]>> \in offers
                             /\ offers' = offers \ {<<c, slot[w]>>}
                             /\ peer' = [peer EXCEPT ![w] = c]
    BY <1>2 DEF Accept
  <2>2. /\ pc[w] = "accept" /\ pc'[w] = "header"
        /\ UNCHANGED <<sock, client, slot, dir>>
        /\ \A p \in Procs : p # w => pc'[p] = pc[p] /\ peer'[p] = peer[p]
    BY <1>0, <1>2, <2>1 DEF Accept, Goto, TypeOK
  <2>3. c = client[slot[w]] /\ peer'[w] = c
    BY <1>0, <1>1, <2>1, <2>2 DEF Bound, TypeOK
  <2>4. ASSUME NEW o \in offers' PROVE o[2] # slot[w]
    <3>1. o \in offers /\ o = <<o[1], o[2]>>
      BY <2>1 DEF TypeOK
    <3>. QED
      BY <1>1, <2>1, <2>2, <2>3, <3>1 DEF Bound
  <2>5. \A o \in offers' : OfferKept(o[1], o[2])'
    BY <1>0, <2>1, <2>2 DEF PeerInv, OfferKept
  <2>. QED
    BY <1>0, <2>1, <2>2, <2>3, <2>4, <2>5 DEF PeerInv, Named
<1>3. CASE Store(w)
  <2>1. /\ pc[w] = "store" /\ pc'[w] \in {"wait", "close"}
        /\ UNCHANGED <<sock, client, slot, peer, offers>>
        /\ \A p \in Procs : p # w => pc'[p] = pc[p] /\ dir'[p] = dir[p]
        /\ dir'[w] = client[slot[w]]
    BY <1>0, <1>3 DEF Store, Goto, TypeOK
  <2>2. \A o \in offers' : OfferKept(o[1], o[2])'
    BY <1>0, <2>1 DEF PeerInv, OfferKept
  <2>. QED
    BY <1>0, <2>1, <2>2 DEF PeerInv, Served
<1>4. CASE Publish(w)
  <2>1. /\ pc[w] = "publish" /\ pc'[w] = "accept" /\ slot[w] \in Slots
        /\ sock' = [sock EXCEPT ![slot[w]] = Fd]
        /\ UNCHANGED <<client, slot, peer, dir, offers>>
        /\ \A p \in Procs : p # w => pc'[p] = pc[p]
    BY <1>0, <1>a, <1>d, <1>4 DEF Publish, Goto, TypeOK, WorkerPC, Bound
  <2>2. ASSUME NEW o \in offers PROVE OfferKept(o[1], o[2])'
    <3>1. o[2] \in Slots /\ OfferKept(o[1], o[2])
      BY DEF TypeOK, PeerInv
    <3>2. CASE o[2] = slot[w]
      BY <1>1, <2>1, <3>2 DEF OfferKept, TypeOK, Bound, Fd, Reserved
    <3>3. CASE o[2] # slot[w]
      BY <1>0, <2>1, <3>1, <3>3 DEF OfferKept, TypeOK
    <3>. QED
      BY <3>2, <3>3
  <2>. QED
    BY <1>0, <2>1, <2>2 DEF PeerInv, Served, Named
<1>5. CASE GiveBack(w)
  <2>1. /\ pc[w] = "free" /\ slot[w] \in Slots
        /\ sock' = [sock EXCEPT ![slot[w]] = Free] /\ Die({w}, slot)
        /\ UNCHANGED <<client, offers>>
    BY <1>a, <1>5 DEF GiveBack, WorkerPC
  <2>2. /\ pc'[w] = "none"
        /\ \A p \in Procs : p # w => /\ pc'[p] = pc[p] /\ slot'[p] = slot[p]
                                     /\ peer'[p] = peer[p] /\ dir'[p] = dir[p]
    BY <1>0, <2>1 DEF Die, TypeOK, DeadPC
  <2>3. ASSUME NEW o \in offers PROVE OfferKept(o[1], o[2])'
    <3>1. o[2] \in Slots /\ o[2] # slot[w] /\ OfferKept(o[1], o[2])
      BY <2>1 DEF TypeOK, PeerInv, Served
    <3>. QED
      BY <1>0, <2>1, <2>2, <3>1 DEF OfferKept, TypeOK
  <2>. QED
    BY <1>0, <2>1, <2>2, <2>3 DEF PeerInv, Served, Named
<1>6. CASE BodyFails(w)
  <2>1. CASE Die({w}, slot)
    BY <1>0, <1>6, <2>1, PeerDie DEF BodyFails
  <2>2. CASE UNCHANGED <<holder, pc, run, slot, peer, atp, tcps, left, dir>>
    BY <1>6, <2>2, PeerKept DEF BodyFails
  <2>. QED
    BY <1>6, <2>1, <2>2 DEF BodyFails
<1>7. ASSUME UNCHANGED <<sock, client, offers, slot, peer, dir>>,
             NEW label \in WorkerPC, Goto(w, label),
             label \in Served => pc[w] \in Served,
             label \in Named => pc[w] \in Named
      PROVE  PeerInv'
  <2>1. /\ pc'[w] = label
        /\ \A p \in Procs : p # w => pc'[p] = pc[p]
    BY <1>0, <1>7 DEF Goto, TypeOK
  <2>. QED
    BY <1>0, <1>7, <2>1, PeerKept
<1>8. CASE Start(w) \/ BindOk(w) \/ Header(w) \/ Spin(w) \/ Close(w)
  BY <1>7, <1>8 DEF Start, BindOk, Header, Spin, Close, WorkerPC, Served, Named
<1>9. CASE NextFile(w) \/ LastFile(w) \/ FileHeader(w) \/ FileHeaderFails(w) \/ Body(w)
  BY <1>7, <1>9 DEF NextFile, LastFile, FileHeader, FileHeaderFails, Body, WorkerPC,
     Served, Named
<1>12. CASE ResetCount(w)
  BY <1>7, <1>12 DEF ResetCount, WorkerPC, Served, Named
<1>10. CASE BindAgain(w)
  BY <1>10, PeerKept DEF BindAgain
<1>11. ~(AcceptFails(w) \/ BindLate(w) \/ BindNever(w) \/ OpenFails(w) \/ OpenZipFails(w))
  BY <1>d DEF AcceptFails, BindLate, BindNever, OpenFails, OpenZipFails, Bound, MaxTries
<1>. QED
  BY <1>2, <1>3, <1>4, <1>5, <1>6, <1>8, <1>9, <1>10, <1>11, <1>12
     DEF Serve, Bind, Receive

LEMMA PeerNext ==
  NoStray /\ TypeOK /\ SlotInv /\ PeerInv /\ [Next]_vars => PeerInv'
<1>. SUFFICES ASSUME NoStray, TypeOK, SlotInv, PeerInv, [Next]_vars PROVE PeerInv'
  OBVIOUS
<1>1. CASE Environment \/ UNCHANGED vars
  <2>1. UNCHANGED <<sock, client, pc, slot, peer, dir>> /\ offers' \subseteq offers
    BY <1>1 DEF Environment, Signal, PeerCloses, PeerResets, PeerVanishes,
       ClientGivesUp, PortCoolsDown, vars, table, kernel, local
  <2>. QED
    BY <2>1, PeerKept
<1>. QED
  BY <1>1, PeerDispatcher, PeerServe DEF Next

(* While no bind fails, a backup is kept in a directory of the host that   *)
(* sends it, though offer, mark, fork and directory are steps of their own *)
(* and the name is read from the table only at the last of them.           *)
THEOREM RightDirectory == NoStray => (Spec => []StoredForPeer)
<1>. SUFFICES ASSUME NoStray PROVE Spec => []StoredForPeer
  OBVIOUS
<1>1. PeerInv => StoredForPeer
  BY DEF PeerInv, StoredForPeer, LiveWorkers, Served, Named
<1>2. TypeOK /\ SlotInv /\ PeerInv /\ [Next]_vars => PeerInv'
  BY PeerNext
<1>. QED
  BY <1>1, <1>2, PeerInit, SlotInvariant, PTL DEF Spec

-----------------------------------------------------------------------------
(* No slot is left marked when nothing fails                               *)

(* There is a process for every slot. *)
EnoughProcesses == IsFiniteSet(Workers) /\ Cardinality(Workers) >= Interval

(* A marked slot has its worker, or its fork is next; no connection fails, *)
(* and main()'s loop goes on.                                              *)
LeakInv ==
    /\ run[Main]
    /\ pc[Main] \in {"recv", "reserve", "fork"}
    /\ \A w \in Workers : conn[w] \in {"none", "up"}
    /\ \A s \in Slots : sock[s] # Free =>
         \/ \E w \in Workers : pc[w] \in WorkerPC /\ slot[w] = s
         \/ pc[Main] = "fork" /\ slot[Main] = s

LEMMA LeakInit == Init => LeakInv
<1>1. Main \in Procs /\ \A w \in Workers : w \in Procs
  BY DEF Procs
<1>2. Init => run[Main]
  BY <1>1, Zenon DEF Init
<1>3. Init => /\ pc[Main] = "recv" /\ \A s \in Slots : sock[s] = Free
              /\ \A w \in Workers : conn[w] = "none"
  BY <1>1 DEF Init
<1>. QED
  BY <1>2, <1>3 DEF LeakInv

(* Workers on different slots, none of them on the one being given: with   *)
(* a process for every slot there is one to fork.                          *)
LEMMA ForkSucceeds ==
  ASSUME EnoughProcesses, TypeOK, SlotInv, pc[Main] = "fork"
  PROVE  \E w \in Workers : pc[w] = "none"
<1>0. Main \in Procs /\ \A w \in Workers : w \in Procs
  BY DEF Procs
<1>1. SUFFICES ASSUME \A w \in Workers : pc[w] # "none" PROVE FALSE
  OBVIOUS
<1>2. \A w \in Workers : pc[w] \in WorkerPC /\ w \in LiveWorkers
  BY <1>1 DEF SlotInv, WorkersStay, LiveWorkers
<1>3. slot[Main] \in Slots
  BY <1>0 DEF TypeOK
<1>. DEFINE Others == Slots \ {slot[Main]}
            f == [w \in Workers |-> slot[w]]
<1>4. \A w \in Workers : slot[w] \in Others
  BY <1>0, <1>2 DEF TypeOK, SlotInv, MarksTrue
<1>5. f \in Injection(Workers, Others)
  BY <1>2, <1>4 DEF SlotInv, SlotExclusive, Injection, IsInjective
<1>6. IsFiniteSet(Slots) /\ Cardinality(Slots) = Interval
  BY ConstantsOK, FS_Interval DEF Slots
<1>7. IsFiniteSet(Others) /\ Cardinality(Others) = Interval - 1
  BY <1>3, <1>6, FS_RemoveElement
<1>. HIDE DEF f, Others
<1>8. Cardinality(Workers) <= Cardinality(Others)
  BY <1>5, <1>7, FS_Injection
<1>9. Interval \in Int /\ Cardinality(Workers) \in Int
  BY ConstantsOK, FS_CardinalityType DEF EnoughProcesses
<1>. QED
  BY <1>7, <1>8, <1>9 DEF EnoughProcesses

(* A step that marks no slot and loses no worker of a marked one.          *)
LEMMA LeakKept ==
  ASSUME LeakInv, run'[Main] = run[Main], sock' = sock,
         pc'[Main] \in {"recv", "reserve", "fork"},
         \A w \in Workers : conn'[w] \in {"none", "up"},
         \A w \in Workers : pc[w] \in WorkerPC =>
             pc'[w] \in WorkerPC /\ slot'[w] = slot[w],
         pc[Main] # "fork"
  PROVE  LeakInv'
  BY DEF LeakInv

LEMMA LeakDispatcher ==
  ASSUME EnoughProcesses, Faults = {}, TypeOK, SlotInv, LeakInv,
         NEW d \in Procs, Request(d) \/ Command(d) \/ Handle(d)
  PROVE  LeakInv'
<1>. USE DEF table, kernel, local
<1>0. Main \in Procs /\ \A w \in Workers : w \in Procs /\ w # Main
  BY ConstantsOK DEF Procs
<1>a. pc[d] \in DispatchPC
  BY DEF Request, Command, Handle, RecvBackup, Toggle, Stop, Reserve, Fork,
     ForkFails, WakeUp, Kill, Exit, DispatchPC
<1>b. d = Main
  BY <1>a DEF Procs, SlotInv, WorkersStay, DispatchPC, WorkerPC
<1>c. run[Main] /\ pc[Main] # "kill"
  BY DEF LeakInv
<1>1. ASSUME NEW c \in Clients, RecvBackup(Main, c) PROVE LeakInv'
  <2>1. PICK s \in Slots : slot' = [slot EXCEPT ![Main] = s]
    BY <1>1 DEF RecvBackup
  <2>2. /\ pc'[Main] = "reserve" /\ pc[Main] = "recv"
        /\ \A w \in Workers : pc'[w] = pc[w] /\ slot'[w] = slot[w]
        /\ UNCHANGED <<sock, run, conn>>
    BY <1>0, <1>1, <2>1 DEF RecvBackup, Goto, TypeOK
  <2>. QED
    BY <2>2, LeakKept DEF LeakInv
<1>2. ASSUME NEW s \in Slots, Toggle(Main, s) \/ Stop(Main, s) PROVE LeakInv'
  <2>1. /\ pc'[Main] = "recv" /\ pc[Main] = "recv"
        /\ \A w \in Workers : pc'[w] = pc[w] /\ slot'[w] = slot[w]
        /\ UNCHANGED <<sock, run, conn>>
    BY <1>0, <1>c, <1>2 DEF Toggle, Stop, ReturnToMain, TypeOK
  <2>. QED
    BY <2>1, LeakKept DEF LeakInv
<1>3. CASE Reserve(Main)
  <2>1. /\ pc'[Main] = "fork" /\ pc[Main] = "reserve"
        /\ \A w \in Workers : pc'[w] = pc[w]
        /\ sock' = [sock EXCEPT ![slot[Main]] = Reserved]
        /\ UNCHANGED <<slot, run, conn>>
    BY <1>0, <1>3 DEF Reserve, Goto, TypeOK
  <2>2. \A s \in Slots : s # slot[Main] => sock'[s] = sock[s]
    BY <2>1 DEF TypeOK
  <2>. QED
    BY <2>1, <2>2 DEF LeakInv
<1>4. ASSUME NEW w \in Workers, Fork(Main, w) PROVE LeakInv'
  <2>1. /\ pc[w] = "none" /\ pc'[w] = "start" /\ slot'[w] = slot[Main] /\ pc'[Main] = "recv"
        /\ \A v \in Workers : v # w => pc'[v] = pc[v] /\ slot'[v] = slot[v]
        /\ UNCHANGED <<sock, conn>>
    BY <1>0, <1>c, <1>4 DEF Fork, TypeOK
  <2>2. run'[Main]
    BY <1>0, <1>c, <1>4 DEF Fork, TypeOK
  <2>. QED
    BY <2>1, <2>2 DEF LeakInv, WorkerPC
<1>5. ~ForkFails(Main)
  BY ForkSucceeds DEF ForkFails
<1>6. ~(WakeUp(Main) \/ Kill(Main) \/ Exit(Main))
  BY <1>c DEF WakeUp, Kill, Exit
<1>. QED
  BY <1>b, <1>1, <1>2, <1>3, <1>4, <1>5, <1>6 DEF Request, Command, Handle

LEMMA LeakServe ==
  ASSUME Faults = {}, TypeOK, SlotInv, LeakInv, NEW w \in Workers, Serve(w)
  PROVE  LeakInv'
<1>. USE DEF table, kernel, local
<1>0. Main \in Procs /\ \A v \in Workers : v \in Procs /\ v # Main
  BY ConstantsOK DEF Procs
<1>a. conn[w] \in {"none", "up"} /\ atp[w] = 0 /\ (pc[w] \in Bound => tcps[w] = Fd)
  BY DEF LeakInv, SlotInv, WorkersStay
<1>1. ASSUME UNCHANGED <<sock, run, slot>>, pc[w] \in WorkerPC,
             NEW label \in WorkerPC, Goto(w, label) \/ pc' = pc,
             \A v \in Workers : conn'[v] \in {"none", "up"}
      PROVE  LeakInv'
  <2>1. /\ pc'[w] \in WorkerPC
        /\ \A p \in Procs : p # w => pc'[p] = pc[p]
    BY <1>0, <1>1 DEF Goto, TypeOK
  <2>. QED
    BY <1>0, <1>1, <2>1 DEF LeakInv
<1>2. CASE Publish(w)
  <2>1. /\ pc[w] \in WorkerPC /\ pc'[w] \in WorkerPC
        /\ sock' = [sock EXCEPT ![slot[w]] = tcps[w]]
        /\ UNCHANGED <<run, slot, conn>>
        /\ \A p \in Procs : p # w => pc'[p] = pc[p]
    BY <1>0, <1>2 DEF Publish, Goto, TypeOK, WorkerPC
  <2>2. \A s \in Slots : s # slot[w] => sock'[s] = sock[s]
    BY <2>1 DEF TypeOK
  <2>. QED
    BY <1>0, <2>1, <2>2 DEF LeakInv
<1>3. CASE GiveBack(w)
  <2>1. /\ pc[w] \in WorkerPC /\ slot[w] \in Slots
        /\ sock' = [sock EXCEPT ![slot[w]] = Free]
        /\ Die({w}, slot)
    BY <1>0, <1>3 DEF GiveBack, TypeOK, WorkerPC
  <2>2. /\ \A p \in Procs : p # w => /\ pc'[p] = pc[p] /\ slot'[p] = slot[p]
                                     /\ conn'[p] = conn[p] /\ run'[p] = run[p]
        /\ conn'[w] = "none"
    BY <1>0, <2>1 DEF Die, TypeOK
  <2>3. ASSUME NEW s \in Slots, sock'[s] # Free
        PROVE  \/ \E v \in Workers : pc'[v] \in WorkerPC /\ slot'[v] = s
               \/ pc'[Main] = "fork" /\ slot'[Main] = s
    <3>1. s # slot[w] /\ sock[s] # Free
      BY <2>1, <2>3 DEF TypeOK
    <3>. QED
      BY <1>0, <2>2, <3>1 DEF LeakInv
  <2>. QED
    BY <1>0, <2>2, <2>3 DEF LeakInv
<1>4. CASE Accept(w) \/ Close(w)
  <2>1. \A v \in Workers : conn'[v] \in {"none", "up"}
    BY <1>0, <1>4 DEF Accept, Close, LeakInv, TypeOK
  <2>. QED
    BY <1>1, <1>4, <2>1 DEF Accept, Close, WorkerPC
<1>5. CASE Header(w)
  <2>1. conn' = AfterRecv(w) /\ AfterRecv(w) = conn
    BY <1>0, <1>5, <1>a DEF Header, AfterRecv, TypeOK
  <2>. QED
    BY <1>1, <1>5, <2>1 DEF Header, LeakInv, WorkerPC
<1>6. CASE Start(w) \/ BindOk(w) \/ Store(w) \/ NextFile(w) \/ LastFile(w)
  BY <1>1, <1>6 DEF Start, BindOk, Store, NextFile, LastFile, LeakInv, WorkerPC
<1>7. CASE BindAgain(w) \/ ResetCount(w) \/ FileHeader(w) \/ Body(w)
  BY <1>1, <1>7 DEF BindAgain, ResetCount, FileHeader, Body, LeakInv, WorkerPC
<1>8. /\ ~(AcceptFails(w) \/ BindLate(w) \/ BindNever(w))
      /\ ~(Spin(w) \/ FileHeaderFails(w) \/ OpenFails(w) \/ OpenZipFails(w) \/ BodyFails(w))
  BY <1>a DEF AcceptFails, BindLate, BindNever, Spin, FileHeaderFails, OpenFails,
     OpenZipFails, BodyFails, RecvFails, Bound, MaxTries
<1>. QED
  BY <1>2, <1>3, <1>4, <1>5, <1>6, <1>7, <1>8 DEF Serve, Bind, Receive

LEMMA LeakNext ==
  EnoughProcesses /\ Faults = {} /\ TypeOK /\ SlotInv /\ LeakInv /\ [Next]_vars
    => LeakInv'
<1>. SUFFICES ASSUME EnoughProcesses, Faults = {}, TypeOK, SlotInv, LeakInv, [Next]_vars
              PROVE  LeakInv'
  OBVIOUS
<1>1. CASE Environment \/ UNCHANGED vars
  <2>1. UNCHANGED <<sock, pc, slot, run, conn>>
    BY <1>1 DEF Environment, Signal, PeerCloses, PeerResets, PeerVanishes,
       ClientGivesUp, PortCoolsDown, vars, table, kernel, local
  <2>. QED
    BY <2>1 DEF LeakInv
<1>. QED
  BY <1>1, LeakDispatcher, LeakServe DEF Next

(* While nothing fails and there is a process for every slot, no slot is   *)
(* left marked without a process that will give it back: each is taken by  *)
(* exactly the steps that lead to one.                                     *)
THEOREM SlotsGivenBack ==
  EnoughProcesses /\ Faults = {} => (Spec => []NoLeak)
<1>. SUFFICES ASSUME EnoughProcesses, Faults = {} PROVE Spec => []NoLeak
  OBVIOUS
<1>1. NoStray
  BY DEF NoStray
<1>2. LeakInv => NoLeak
  BY DEF LeakInv, NoLeak, LiveWorkers, Dispatchers, DispatchPC, Procs
<1>3. TypeOK /\ SlotInv /\ LeakInv /\ [Next]_vars => LeakInv'
  BY LeakNext
<1>. QED
  BY <1>1, <1>2, <1>3, LeakInit, SlotInvariant, PTL DEF Spec
=============================================================================
