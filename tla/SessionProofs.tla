---------------------------- MODULE SessionProofs ----------------------------
(***************************************************************************)
(* Proofs about Session for any number of runs, slots, files and losses:   *)
(* what the client may take for the answer it waits for.                   *)
(***************************************************************************)
EXTENDS Session, TLAPS

RequestSet == [kind: {"id", "pk", "ba"}, run: Nat]
ReplySet == [kind: {"answ", "sig", "lengths", "n", "e", "port"}, port: Int]

ChannelTypes ==
    /\ toServer \in Seq(RequestSet) /\ toClient \in Seq(ReplySet)
    /\ run \in Nat
    /\ \A i \in DOMAIN toServer : toServer[i].run <= run

(* The requests of the run that is under way.                              *)
Own == {i \in DOMAIN toServer : toServer[i].run = run}
Silent == Own = {} /\ toClient = <<>>
Waiting(kind) == toClient = <<>> /\ \E i \in Own : Own = {i} /\ toServer[i].kind = kind

(* The parts of a key in the order sendPkey() sends them.                  *)
KeyKinds == {"lengths", "n", "e"}
Rank(kind) == IF kind = "lengths" THEN 1 ELSE IF kind = "n" THEN 2 ELSE 3

(* Parts that arrived and parts under way rise in rank; after one that     *)
(* timed out there is none under way and no other arrives.                 *)
RepliesRise ==
    /\ \A i \in DOMAIN toClient : toClient[i].kind \in KeyKinds
    /\ \A i, j \in DOMAIN toClient : i < j => Rank(toClient[i].kind) < Rank(toClient[j].kind)
PartsRise ==
    /\ \A i \in DOMAIN parts : parts[i] \in KeyKinds \cup {Nothing}
    /\ \A i, j \in DOMAIN parts : i < j /\ parts[j] # Nothing =>
          parts[i] # Nothing /\ Rank(parts[i]) < Rank(parts[j])
PartsFirst ==
    \A i \in DOMAIN parts, j \in DOMAIN toClient :
        parts[i] # Nothing /\ Rank(parts[i]) < Rank(toClient[j].kind)

KeyOnItsWay ==
    /\ parts \in Seq(KeyKinds \cup {Nothing}) /\ Len(parts) + Len(toClient) <= 3
    /\ RepliesRise /\ PartsRise /\ PartsFirst

(* A slot given to this run's request and not used yet.                    *)
Kept(s) == s \in Slots /\ worker[s] \in {"start", "listen"} /\ askedBy[s] = run

PortOnItsWay == toClient = <<>> \/ \E s \in Slots : Kept(s) /\ toClient = <<PortIs(s)>>

(* Each wait begins with nothing under way but its own request, and every  *)
(* request is answered with as many datagrams as the client waits for.     *)
Awaited ==
    /\ pc = "idle" => toClient = <<>>
    /\ pc \in {"prompt", "ask"} => Silent
    /\ pc \in {"answ", "sig", "prompt"} => parts = <<>>
    /\ pc = "answ" => Waiting("id") \/ (Own = {} /\ Len(toClient) <= 2)
    /\ pc = "sig" => Own = {} /\ Len(toClient) <= 1
    /\ pc = "key" => (Waiting("pk") /\ parts = <<>>) \/ (Own = {} /\ KeyOnItsWay)
    /\ pc = "port" => Waiting("ba") \/ (Own = {} /\ PortOnItsWay)
    /\ pc = "connect" => Kept(port)

WorkerSteps == {"free", "start", "listen", "header", "wait", "file", "spin"}

SessionInv ==
    InOrder => /\ ChannelTypes
               /\ worker \in [Slots -> WorkerSteps] /\ askedBy \in [Slots -> Nat]
               /\ keyFile \in {"none", "half", "good"}
               /\ Awaited

-----------------------------------------------------------------------------
(* The network *)

LEMMA Removed ==
  ASSUME NEW S, NEW s \in Seq(S), NEW i \in DOMAIN s
  PROVE  /\ RemoveAt(s, i) \in Seq(S) /\ Len(RemoveAt(s, i)) = Len(s) - 1
         /\ \A j \in 1 .. Len(s) - 1 :
               RemoveAt(s, i)[j] = IF j < i THEN s[j] ELSE s[j + 1]
<1>. DEFINE a == SubSeq(s, 1, i - 1)
            b == SubSeq(s, i + 1, Len(s))
<1>1. i \in 1 .. Len(s) /\ Len(s) \in Nat
  OBVIOUS
<1>2. a \in Seq(S) /\ Len(a) = i - 1 /\ \A j \in 1 .. i - 1 : a[j] = s[j]
  BY <1>1
<1>3. b \in Seq(S) /\ Len(b) = Len(s) - i /\ \A j \in 1 .. Len(s) - i : b[j] = s[j + i]
  BY <1>1
<1>4. RemoveAt(s, i) = a \o b
  BY DEF RemoveAt
<1>. HIDE DEF a, b
<1>5. a \o b \in Seq(S) /\ Len(a \o b) = Len(s) - 1
  BY <1>1, <1>2, <1>3
<1>6. ASSUME NEW j \in 1 .. Len(s) - 1
      PROVE  (a \o b)[j] = IF j < i THEN s[j] ELSE s[j + 1]
  <2>1. CASE j < i
    BY <1>1, <1>2, <1>3, <2>1
  <2>2. CASE j >= i
    <3>1. j - (i - 1) \in 1 .. Len(s) - i
      BY <1>1, <2>2
    <3>2. (a \o b)[j] = b[j - (i - 1)]
      BY <1>1, <1>2, <1>3, <2>2
    <3>3. b[j - (i - 1)] = s[(j - (i - 1)) + i] /\ (j - (i - 1)) + i = j + 1
      BY <1>1, <1>3, <3>1
    <3>. QED
      BY <1>1, <2>2, <3>2, <3>3
  <2>3. j < i \/ j >= i
    BY <1>1
  <2>. QED
    BY <2>1, <2>2, <2>3
<1>. QED
  BY <1>4, <1>5, <1>6

(* A request leaves the queue: if it is the only one of the run none is    *)
(* left, if it is another one the run's own stays what it is.              *)
LEMMA RequestGone ==
  ASSUME ChannelTypes, NEW i \in DOMAIN toServer, toServer' = RemoveAt(toServer, i),
         run' = run
  PROVE  /\ toServer' \in Seq(RequestSet)
         /\ \A j \in DOMAIN toServer' : toServer'[j].run <= run
         /\ Own \subseteq {i} => Own' = {}
         /\ \A j \in Own : Own = {j} /\ j # i =>
               \E k \in Own' : Own' = {k} /\ toServer'[k].kind = toServer[j].kind
<1>1. /\ toServer' \in Seq(RequestSet) /\ Len(toServer') = Len(toServer) - 1
      /\ \A j \in 1 .. Len(toServer) - 1 :
            toServer'[j] = IF j < i THEN toServer[j] ELSE toServer[j + 1]
  BY Removed DEF ChannelTypes
<1>2. DOMAIN toServer = 1 .. Len(toServer) /\ DOMAIN toServer' = 1 .. Len(toServer) - 1
      /\ Len(toServer) \in Nat
  BY <1>1 DEF ChannelTypes
<1>3. ASSUME NEW j \in DOMAIN toServer' PROVE toServer'[j].run <= run
  <2>1. \E k \in DOMAIN toServer : toServer'[j] = toServer[k]
    <3>1. j \in DOMAIN toServer /\ j + 1 \in DOMAIN toServer
      BY <1>2
    <3>. QED
      BY <1>1, <1>2, <3>1
  <2>. QED
    BY <2>1 DEF ChannelTypes
<1>4. ASSUME Own \subseteq {i} PROVE Own' = {}
  <2>1. ASSUME NEW j \in DOMAIN toServer' PROVE toServer'[j].run # run
    <3>1. CASE j < i
      BY <1>1, <1>2, <1>4, <3>1 DEF Own
    <3>2. CASE ~(j < i)
      BY <1>1, <1>2, <1>4, <3>2 DEF Own
    <3>. QED
      BY <3>1, <3>2
  <2>. QED
    BY <2>1 DEF Own
<1>5. ASSUME NEW j \in Own, Own = {j}, j # i
      PROVE  \E k \in Own' : Own' = {k} /\ toServer'[k].kind = toServer[j].kind
  <2>. DEFINE k == IF j < i THEN j ELSE j - 1
  <2>1. k \in DOMAIN toServer' /\ toServer'[k] = toServer[j]
    BY <1>1, <1>2, <1>5 DEF Own
  <2>2. ASSUME NEW l \in DOMAIN toServer', toServer'[l].run = run PROVE l = k
    <3>1. CASE l < i
      BY <1>1, <1>2, <1>5, <2>2, <3>1 DEF Own
    <3>2. CASE ~(l < i)
      BY <1>1, <1>2, <1>5, <2>2, <3>2 DEF Own
    <3>. QED
      BY <3>1, <3>2
  <2>. QED
    BY <2>1, <2>2, <1>5 DEF Own
<1>. QED
  BY <1>1, <1>3, <1>4, <1>5

(* A request is sent when nothing of the run is under way.                 *)
LEMMA RequestSent ==
  ASSUME ChannelTypes, NEW kind \in {"id", "pk", "ba"}, NEW r \in Nat,
         toServer' = Append(toServer, [kind |-> kind, run |-> r]), run' = r,
         toClient = <<>>, toClient' = toClient,
         \/ r = run /\ Own = {}
         \/ r = run + 1
  PROVE  ChannelTypes' /\ Waiting(kind)'
<1>. DEFINE q == [kind |-> kind, run |-> r]
<1>1. /\ q \in RequestSet /\ toServer \in Seq(RequestSet) /\ run \in Nat
      /\ DOMAIN toServer = 1 .. Len(toServer) /\ Len(toServer) \in Nat
  BY DEF RequestSet, ChannelTypes
<1>2. /\ toServer' \in Seq(RequestSet) /\ Len(toServer') = Len(toServer) + 1
      /\ DOMAIN toServer' = 1 .. Len(toServer) + 1
      /\ \A i \in 1 .. Len(toServer) : toServer'[i] = toServer[i]
      /\ toServer'[Len(toServer) + 1] = q
  BY <1>1
<1>3. ASSUME NEW i \in DOMAIN toServer
      PROVE  toServer[i].run \in Nat /\ toServer[i].run <= run
  <2>1. toServer[i] \in RequestSet
    BY <1>1
  <2>. QED
    BY <2>1 DEF ChannelTypes, RequestSet
<1>4. \A i \in DOMAIN toServer' : toServer'[i].run <= r
  BY <1>1, <1>2, <1>3
<1>5. \A i \in 1 .. Len(toServer) : toServer'[i].run # r
  BY <1>1, <1>2, <1>3 DEF Own
<1>6. Own' = {Len(toServer) + 1}
  BY <1>1, <1>2, <1>5 DEF Own
<1>. QED
  BY <1>1, <1>2, <1>4, <1>6 DEF ChannelTypes, Waiting

(* What one recvfrom() gets when answers come in time, in order and once.  *)
LEMMA Received ==
  ASSUME InOrder, ChannelTypes, NEW d, Receives(d)
  PROVE  \/ d = Part(Nothing) /\ toClient = <<>> /\ toClient' = toClient /\ Own = {}
         \/ /\ 1 \in DOMAIN toClient
            /\ d = toClient[1] /\ toClient' = RemoveAt(toClient, 1)
<1>1. "delay" \notin Faults /\ "reorder" \notin Faults
  BY DEF InOrder
<1>2. Arrivals(toClient) = DOMAIN toClient \cap {1}
  BY <1>1 DEF Arrivals
<1>3. TimesOut => toClient = <<>> /\ Own = {}
  BY <1>1 DEF TimesOut, Own
<1>. QED
  BY <1>2, <1>3 DEF Receives

(* A datagram to the client goes missing: order and bounds stay.           *)
LEMMA ReplyGone ==
  ASSUME ChannelTypes, NEW i \in DOMAIN toClient, toClient' = RemoveAt(toClient, i),
         UNCHANGED <<toServer, run>>
  PROVE  /\ ChannelTypes' /\ Own' = Own
         /\ Len(toClient') = Len(toClient) - 1 /\ Len(toClient) \in Nat /\ toClient # <<>>
         /\ RepliesRise => RepliesRise'
         /\ PartsFirst /\ parts' = parts => PartsFirst'
<1>1. /\ toClient' \in Seq(ReplySet) /\ Len(toClient') = Len(toClient) - 1
      /\ \A j \in 1 .. Len(toClient) - 1 :
            toClient'[j] = IF j < i THEN toClient[j] ELSE toClient[j + 1]
  BY Removed DEF ChannelTypes
<1>2. DOMAIN toClient = 1 .. Len(toClient) /\ DOMAIN toClient' = 1 .. Len(toClient) - 1
      /\ Len(toClient) \in Nat /\ toClient # <<>>
  BY <1>1 DEF ChannelTypes
<1>3. ChannelTypes' /\ Own' = Own
  BY <1>1 DEF ChannelTypes, Own
<1>. DEFINE was(j) == IF j < i THEN j ELSE j + 1
<1>4. /\ \A j \in DOMAIN toClient' : was(j) \in DOMAIN toClient /\ toClient'[j] = toClient[was(j)]
      /\ \A j, k \in DOMAIN toClient' : j < k => was(j) < was(k)
  BY <1>1, <1>2
<1>. HIDE DEF was
<1>5. RepliesRise => RepliesRise'
  BY <1>4 DEF RepliesRise
<1>6. PartsFirst /\ parts' = parts => PartsFirst'
  BY <1>4 DEF PartsFirst
<1>. QED
  BY <1>1, <1>2, <1>3, <1>5, <1>6

-----------------------------------------------------------------------------
(* The steps of the client *)

(* A part of the key that arrives is later in sendPkey() than those before *)
(* it; one that times out is the last, with nothing under way behind it.   *)
LEMMA KeyPartArrives ==
  ASSUME InOrder, ChannelTypes, Own = {}, KeyOnItsWay, Len(parts) < 3,
         NEW d, Receives(d), parts' = Append(parts, d.kind), UNCHANGED <<toServer, run>>
  PROVE  ChannelTypes' /\ Own' = {} /\ KeyOnItsWay'
<1>. DEFINE Kinds == KeyKinds \cup {Nothing}
<1>1. /\ parts \in Seq(Kinds) /\ Len(parts) \in Nat /\ DOMAIN parts = 1 .. Len(parts)
      /\ toClient \in Seq(ReplySet) /\ Len(toClient) \in Nat
      /\ DOMAIN toClient = 1 .. Len(toClient)
  BY DEF KeyOnItsWay, ChannelTypes
<1>2. CASE d = Part(Nothing) /\ toClient = <<>> /\ toClient' = toClient
  <2>1. d.kind = Nothing
    BY <1>2 DEF Part
  <2>2. /\ parts' \in Seq(Kinds) /\ Len(parts') = Len(parts) + 1
        /\ DOMAIN parts' = 1 .. Len(parts) + 1
        /\ \A i \in 1 .. Len(parts) : parts'[i] = parts[i]
        /\ parts'[Len(parts) + 1] = Nothing
    BY <1>1, <2>1
  <2>3. PartsRise'
    BY <1>1, <2>2 DEF KeyOnItsWay, PartsRise
  <2>4. RepliesRise' /\ PartsFirst'
    BY <1>2 DEF RepliesRise, PartsFirst
  <2>5. Len(parts') + Len(toClient') <= 3
    BY <1>1, <1>2, <2>2
  <2>6. ChannelTypes' /\ Own' = {}
    BY <1>2 DEF ChannelTypes, Own
  <2>. QED
    BY <2>2, <2>3, <2>4, <2>5, <2>6 DEF KeyOnItsWay
<1>3. CASE 1 \in DOMAIN toClient /\ d = toClient[1] /\ toClient' = RemoveAt(toClient, 1)
  <2>1. d.kind \in KeyKinds
    BY <1>3 DEF KeyOnItsWay, RepliesRise
  <2>2. /\ parts' \in Seq(Kinds) /\ Len(parts') = Len(parts) + 1
        /\ DOMAIN parts' = 1 .. Len(parts) + 1
        /\ \A i \in 1 .. Len(parts) : parts'[i] = parts[i]
        /\ parts'[Len(parts) + 1] = d.kind
    BY <1>1, <2>1
  <2>3. /\ toClient' \in Seq(ReplySet) /\ Len(toClient') = Len(toClient) - 1
        /\ \A j \in 1 .. Len(toClient) - 1 : toClient'[j] = toClient[j + 1]
    <3>1. /\ RemoveAt(toClient, 1) \in Seq(ReplySet)
          /\ Len(RemoveAt(toClient, 1)) = Len(toClient) - 1
          /\ \A j \in 1 .. Len(toClient) - 1 : RemoveAt(toClient, 1)[j] =
                IF j < 1 THEN toClient[j] ELSE toClient[j + 1]
      BY <1>1, <1>3, Removed
    <3>2. \A j \in 1 .. Len(toClient) - 1 : ~(j < 1)
      BY <1>1
    <3>. QED
      BY <1>3, <3>1, <3>2
  <2>4. ChannelTypes' /\ Own' = {} /\ RepliesRise'
    BY <1>3, ReplyGone DEF KeyOnItsWay
  <2>5. \A i \in 1 .. Len(parts) : parts[i] # Nothing /\ Rank(parts[i]) < Rank(d.kind)
    BY <1>1, <1>3 DEF KeyOnItsWay, PartsFirst
  <2>6. PartsRise'
    <3>1. \A i \in DOMAIN parts' : parts'[i] \in Kinds
      BY <2>2
    <3>2. ASSUME NEW i \in DOMAIN parts', NEW j \in DOMAIN parts', i < j, parts'[j] # Nothing
          PROVE  parts'[i] # Nothing /\ Rank(parts'[i]) < Rank(parts'[j])
      <4>1. i \in 1 .. Len(parts)
        BY <1>1, <2>2, <3>2
      <4>2. CASE j = Len(parts) + 1
        BY <2>2, <2>5, <4>1, <4>2
      <4>3. CASE j # Len(parts) + 1
        <5>1. j \in 1 .. Len(parts)
          BY <1>1, <2>2, <4>3
        <5>. QED
          BY <1>1, <2>2, <3>2, <4>1, <5>1 DEF KeyOnItsWay, PartsRise
      <4>. QED
        BY <4>2, <4>3
    <3>. QED
      BY <3>1, <3>2 DEF PartsRise
  <2>7. PartsFirst'
    <3>1. ASSUME NEW i \in DOMAIN parts', NEW j \in DOMAIN toClient'
          PROVE  parts'[i] # Nothing /\ Rank(parts'[i]) < Rank(toClient'[j].kind)
      <4>1. /\ toClient'[j] = toClient[j + 1] /\ j + 1 \in DOMAIN toClient
            /\ 1 \in DOMAIN toClient /\ 1 < j + 1
        BY <1>1, <1>3, <2>3
      <4>2. Rank(d.kind) < Rank(toClient'[j].kind)
        BY <1>3, <4>1 DEF KeyOnItsWay, RepliesRise
      <4>3. CASE i = Len(parts) + 1
        BY <2>1, <2>2, <4>2, <4>3 DEF KeyKinds, Nothing
      <4>4. CASE i # Len(parts) + 1
        <5>1. i \in DOMAIN parts /\ parts'[i] = parts[i]
          BY <1>1, <2>2, <4>4
        <5>. QED
          BY <4>1, <5>1 DEF KeyOnItsWay, PartsFirst
      <4>. QED
        BY <4>3, <4>4
    <3>. QED
      BY <3>1 DEF PartsFirst
  <2>8. Len(parts') + Len(toClient') <= 3
    BY <1>1, <2>2, <2>3 DEF KeyOnItsWay
  <2>. QED
    BY <2>2, <2>4, <2>6, <2>7, <2>8 DEF KeyOnItsWay
<1>. QED
  BY <1>2, <1>3, Received

(* Three parts that rise are the key; otherwise the last one timed out.    *)
LEMMA KeyComplete ==
  ASSUME KeyOnItsWay, Len(parts) = 3, NEW k \in SavedKey(parts), toClient \in Seq(ReplySet)
  PROVE  k \in {"half", "good"} /\ toClient = <<>>
<1>1. DOMAIN parts = 1 .. 3 /\ Len(toClient) \in Nat
  BY DEF KeyOnItsWay
<1>2. toClient = <<>>
  BY <1>1 DEF KeyOnItsWay
<1>3. CASE parts[3] = Nothing
  BY <1>2, <1>3 DEF SavedKey
<1>4. CASE parts[3] # Nothing
  <2>1. /\ \A i \in 1 .. 3 : parts[i] \in KeyKinds \cup {Nothing}
        /\ parts[1] # Nothing /\ parts[2] # Nothing
        /\ Rank(parts[1]) < Rank(parts[2]) /\ Rank(parts[2]) < Rank(parts[3])
    BY <1>1, <1>4 DEF KeyOnItsWay, PartsRise
  <2>2. parts[1] = "lengths" /\ parts[2] = "n" /\ parts[3] = "e"
    BY <1>4, <2>1 DEF KeyKinds, Rank
  <2>. QED
    BY <1>2, <1>4, <2>2 DEF SavedKey
<1>. QED
  BY <1>3, <1>4

(* What all the steps below keep.                                          *)
Always ==
    /\ ChannelTypes
    /\ worker \in [Slots -> WorkerSteps] /\ askedBy \in [Slots -> Nat]
    /\ keyFile \in {"none", "half", "good"}

LEMMA EndKeeps ==
  ASSUME Always, NEW c, End(c), setting' = setting
  PROVE  Always' /\ Awaited'
<1>1. /\ pc' = "idle" /\ toClient' = <<>>
      /\ UNCHANGED <<toServer, run, worker, askedBy, keyFile>>
  BY DEF End, slots
<1>2. ChannelTypes'
  BY <1>1 DEF Always, ChannelTypes
<1>3. Always'
  BY <1>1, <1>2 DEF Always, Slots, Interval
<1>. QED
  BY <1>1, <1>3 DEF Awaited

LEMMA ClientKeeps ==
  ASSUME InOrder, Always, Awaited, ClientStep, setting' = setting
  PROVE  Always' /\ Awaited'
<1>. USE DEF udp, client, server, slots
<1>0. /\ toClient \in Seq(ReplySet) /\ Len(toClient) \in Nat /\ run \in Nat
      /\ Slots' = Slots
  BY DEF Always, ChannelTypes, Slots, Interval
<1>1. CASE RecvAnsw
  <2>1. PICK d \in Datagrams : Receives(d)
    BY <1>1 DEF RecvAnsw
  <2>2. /\ pc = "answ" /\ pc' = "sig"
        /\ UNCHANGED <<toServer, run, parts, worker, askedBy, keyFile>>
    BY <1>1 DEF RecvAnsw
  <2>3. ChannelTypes' /\ Own' = {} /\ Len(toClient') <= 1
    <3>1. CASE toClient = <<>> /\ toClient' = toClient /\ Own = {}
      BY <2>2, <3>1 DEF Always, ChannelTypes, Own
    <3>2. CASE 1 \in DOMAIN toClient /\ toClient' = RemoveAt(toClient, 1)
      <4>1. Own = {} /\ Len(toClient) <= 2
        BY <2>2, <3>2 DEF Awaited, Waiting
      <4>. QED
        BY <1>0, <2>2, <3>2, <4>1, ReplyGone DEF Always
    <3>. QED
      BY <2>1, <3>1, <3>2, Received DEF Always
  <2>. QED
    BY <1>0, <2>2, <2>3 DEF Always, Awaited
<1>2. CASE RecvSig
  <2>1. PICK d \in Datagrams : Receives(d)
    BY <1>2 DEF RecvSig
  <2>2. /\ pc = "sig" /\ pc' \in {"ask", "prompt"} /\ Own = {} /\ Len(toClient) <= 1
        /\ UNCHANGED <<toServer, run, parts, worker, askedBy, keyFile>>
    BY <1>2 DEF RecvSig, Awaited
  <2>3. ChannelTypes' /\ Own' = {} /\ toClient' = <<>>
    <3>1. CASE toClient = <<>> /\ toClient' = toClient /\ Own = {}
      BY <2>2, <3>1 DEF Always, ChannelTypes, Own
    <3>2. CASE 1 \in DOMAIN toClient /\ toClient' = RemoveAt(toClient, 1)
      <4>1. ChannelTypes' /\ Own' = {} /\ Len(toClient') = 0
        BY <1>0, <2>2, <3>2, ReplyGone DEF Always
      <4>. QED
        BY <4>1 DEF ChannelTypes
    <3>. QED
      BY <2>1, <3>1, <3>2, Received DEF Always
  <2>. QED
    BY <1>0, <2>2, <2>3 DEF Always, Awaited, Silent
<1>3. CASE GoOn
  <2>1. /\ pc = "prompt" /\ Own = {} /\ toClient = <<>> /\ parts = <<>>
        /\ UNCHANGED <<toClient, run, parts, worker, askedBy, keyFile>>
    BY <1>3 DEF GoOn, Awaited, Silent
  <2>2. CASE Ask("pk") /\ pc' = "key"
    <3>1. ChannelTypes' /\ Waiting("pk")'
      BY <1>0, <2>1, <2>2, RequestSent DEF Always, Ask
    <3>. QED
      BY <1>0, <2>1, <2>2, <3>1 DEF Always, Awaited
  <2>3. CASE pc' = "ask" /\ UNCHANGED toServer
    BY <1>0, <2>1, <2>3 DEF Always, ChannelTypes, Awaited, Silent, Own
  <2>. QED
    BY <1>3, <2>2, <2>3 DEF GoOn
<1>4. CASE RecvKeyPart
  <2>1. PICK d \in Datagrams : Receives(d) /\ parts' = Append(parts, d.kind)
    BY <1>4 DEF RecvKeyPart
  <2>2. /\ pc = "key" /\ pc' = pc /\ Len(parts) < 3
        /\ UNCHANGED <<toServer, run, worker, askedBy, keyFile>>
    BY <1>4 DEF RecvKeyPart
  <2>3. Own = {} /\ KeyOnItsWay
    <3>1. ~Waiting("pk")
      BY <2>1, Received DEF Waiting, Always
    <3>. QED
      BY <2>2, <3>1 DEF Awaited
  <2>4. ChannelTypes' /\ Own' = {} /\ KeyOnItsWay'
    BY <2>1, <2>2, <2>3, KeyPartArrives DEF Always
  <2>. QED
    BY <1>0, <2>2, <2>4 DEF Always, Awaited
<1>5. CASE SaveKey
  <2>1. /\ pc = "key" /\ Len(parts) = 3 /\ pc' = "ask"
        /\ UNCHANGED <<toServer, toClient, run, worker, askedBy>>
        /\ keyFile' \in SavedKey(parts) \/ keyFile' = keyFile
    BY <1>5 DEF SaveKey
  <2>2. Own = {} /\ KeyOnItsWay
    BY <2>1 DEF Awaited
  <2>3. toClient = <<>> /\ keyFile' \in {"none", "half", "good"}
    <3>1. Len(toClient) = 0
      BY <1>0, <2>1, <2>2 DEF KeyOnItsWay
    <3>2. toClient = <<>>
      BY <1>0, <3>1
    <3>. QED
      BY <1>0, <2>1, <2>2, <3>2, KeyComplete DEF Always
  <2>. QED
    BY <1>0, <2>1, <2>2, <2>3 DEF Always, ChannelTypes, Awaited, Silent, Own
<1>6. CASE AskBackup
  <2>1. /\ pc = "ask" /\ pc' = "port" /\ Own = {} /\ toClient = <<>>
        /\ UNCHANGED <<toClient, run, worker, askedBy, keyFile>>
        /\ Ask("ba")
    BY <1>6 DEF AskBackup, Awaited, Silent
  <2>2. ChannelTypes' /\ Waiting("ba")'
    BY <1>0, <2>1, RequestSent DEF Always, Ask
  <2>. QED
    BY <1>0, <2>1, <2>2 DEF Always, Awaited
<1>7. CASE RecvPort
  <2>1. PICK d \in Datagrams \ {Part(Nothing)} : Receives(d) /\ port' = PortOf(d)
    BY <1>7 DEF RecvPort
  <2>2. /\ pc = "port" /\ pc' = "connect"
        /\ UNCHANGED <<toServer, run, worker, askedBy, keyFile>>
    BY <1>7 DEF RecvPort
  <2>3. 1 \in DOMAIN toClient /\ d = toClient[1] /\ toClient' = RemoveAt(toClient, 1)
    BY <2>1, Received DEF Always
  <2>4. PICK s \in Slots : Kept(s) /\ toClient = <<PortIs(s)>>
    BY <2>2, <2>3 DEF Awaited, Waiting, PortOnItsWay
  <2>5. port' = s
    BY <2>1, <2>3, <2>4 DEF PortOf, PortIs
  <2>6. ChannelTypes'
    BY <2>2, <2>3, ReplyGone DEF Always
  <2>7. Kept(port)'
    <3>1. s \in Slots /\ worker[s] \in {"start", "listen"} /\ askedBy[s] = run
      BY <2>4 DEF Kept
    <3>2. port' \in Slots' /\ worker'[port'] \in {"start", "listen"} /\ askedBy'[port'] = run'
      BY <1>0, <2>2, <2>5, <3>1
    <3>. QED
      BY <3>2 DEF Kept
  <2>8. Always'
    BY <1>0, <2>2, <2>6 DEF Always
  <2>. QED
    BY <2>2, <2>7, <2>8 DEF Awaited, Kept
<1>8. CASE Connect
  <2>1. /\ pc' = "header" /\ worker' = [worker EXCEPT ![port] = "header"]
        /\ UNCHANGED <<toServer, toClient, run, askedBy, keyFile>>
    BY <1>8 DEF Connect
  <2>2. Always'
    BY <1>0, <2>1 DEF Always, ChannelTypes, WorkerSteps
  <2>. QED
    BY <2>1, <2>2 DEF Awaited
<1>9. CASE Refused
  <2>1. /\ pc = "connect" /\ pc' \in {"header", "connect"}
        /\ UNCHANGED <<toServer, toClient, run, port, worker, askedBy, keyFile>>
    BY <1>9 DEF Refused
  <2>2. Kept(port)'
    BY <1>0, <2>1 DEF Awaited, Kept
  <2>3. Always'
    BY <1>0, <2>1 DEF Always, ChannelTypes
  <2>. QED
    BY <2>1, <2>2, <2>3 DEF Awaited, Kept
<1>10. CASE SendHeader \/ OpenFile \/ SendFile \/ SkipFile
  <2>1. /\ pc' \in {"files", "send"}
        /\ UNCHANGED <<toServer, toClient, run, worker, askedBy, keyFile>>
    BY <1>10 DEF SendHeader, OpenFile, SendFile, SkipFile
  <2>. QED
    BY <1>0, <2>1 DEF Always, ChannelTypes, Awaited
<1>11. CASE WildLength \/ WildKey \/ GiveUp \/ WildKeyLength \/ NoPortComes \/ Finish
  BY <1>11, EndKeeps DEF WildLength, WildKey, GiveUp, WildKeyLength, NoPortComes, Finish
<1>. QED
  BY <1>1, <1>2, <1>3, <1>4, <1>5, <1>6, <1>7, <1>8, <1>9, <1>10, <1>11 DEF ClientStep

LEMMA StartKeeps ==
  ASSUME Always, Awaited, Start, setting' = setting
  PROVE  Always' /\ Awaited'
<1>. USE DEF server, slots
<1>1. /\ toClient = <<>> /\ run \in Nat /\ run' = run + 1 /\ run' \in Nat
      /\ parts' = <<>>
      /\ UNCHANGED <<toClient, keyFile, worker, askedBy>> /\ Slots' = Slots
  BY DEF Start, Always, ChannelTypes, Awaited, Slots, Interval
<1>2. CASE pc' = "prompt" /\ UNCHANGED toServer
  <2>1. ASSUME NEW i \in DOMAIN toServer PROVE toServer[i].run < run'
    <3>1. toServer[i] \in RequestSet /\ toServer[i].run <= run
      BY DEF Always, ChannelTypes
    <3>. QED
      BY <1>1, <3>1 DEF RequestSet
  <2>2. ASSUME NEW i \in DOMAIN toServer PROVE toServer[i].run <= run' /\ toServer[i].run # run'
    <3>1. toServer[i] \in RequestSet
      BY DEF Always, ChannelTypes
    <3>. QED
      BY <1>1, <2>1, <3>1 DEF RequestSet
  <2>3. ChannelTypes' /\ Own' = {}
    BY <1>1, <1>2, <2>2 DEF Always, ChannelTypes, Own
  <2>. QED
    BY <1>1, <1>2, <2>3 DEF Always, Awaited, Silent
<1>3. CASE pc' = "answ" /\ toServer' = Append(toServer, [kind |-> "id", run |-> run + 1])
  <2>1. ChannelTypes' /\ Waiting("id")'
    BY <1>1, <1>3, RequestSent DEF Always
  <2>. QED
    BY <1>1, <1>3, <2>1 DEF Always, Awaited
<1>. QED
  BY <1>2, <1>3 DEF Start

-----------------------------------------------------------------------------
(* The steps of the server and of the network *)

(* A slot's worker moves on; one a client was told of is not yet past      *)
(* listening.                                                              *)
LEMMA WorkKeeps ==
  ASSUME Always, Awaited, NEW s \in Slots, Work(s), setting' = setting
  PROVE  Always' /\ Awaited'
<1>. USE DEF udp, client, slots
<1>1. /\ UNCHANGED <<toServer, toClient, keyFile, pc, run, parts, port, askedBy>>
      /\ Slots' = Slots
  BY DEF Work, Listen, RecvHead, NextFile, RecvFile, Leave, Spin, Slots, Interval
<1>2. /\ worker' \in [Slots -> WorkerSteps]
      /\ \A t \in Slots : worker[t] \in {"start", "listen"} => worker'[t] \in {"start", "listen"}
  BY DEF Work, Listen, RecvHead, NextFile, RecvFile, Leave, Spin, Always, WorkerSteps
<1>3. Always'
  BY <1>1, <1>2 DEF Always, ChannelTypes
<1>4. Own' = Own /\ \A kind : Waiting(kind) => Waiting(kind)'
  BY <1>1 DEF Own, Waiting
<1>5. KeyOnItsWay => KeyOnItsWay'
  BY <1>1 DEF KeyOnItsWay, RepliesRise, PartsRise, PartsFirst
<1>6. \A t \in Slots : Kept(t) => Kept(t)'
  BY <1>1, <1>2 DEF Kept
<1>7. PortOnItsWay => PortOnItsWay'
  BY <1>1, <1>6 DEF PortOnItsWay, PortIs
<1>8. Kept(port) => Kept(port)'
  BY <1>1, <1>2 DEF Kept
<1>. QED
  BY <1>1, <1>3, <1>4, <1>5, <1>7, <1>8 DEF Awaited, Silent

(* A slot that waits for its client goes on waiting for the same one.      *)
StaysGiven(t) ==
    worker[t] \in {"start", "listen"} =>
        worker'[t] \in {"start", "listen"} /\ askedBy'[t] = askedBy[t]

(* A request of another run is handled, or nobody waits for the answer.    *)
LEMMA StrangerHandled ==
  ASSUME Always, Awaited, NEW i \in DOMAIN toServer, toServer' = RemoveAt(toServer, i),
         i \notin Own \/ pc \notin {"answ", "key", "port"},
         UNCHANGED <<toClient, keyFile, pc, run, parts, port, setting>>,
         worker' \in [Slots -> WorkerSteps], askedBy' \in [Slots -> Nat],
         \A t \in Slots : StaysGiven(t)
  PROVE  Always' /\ Awaited'
<1>1. /\ toServer' \in Seq(RequestSet)
      /\ \A j \in DOMAIN toServer' : toServer'[j].run <= run
      /\ Own = {} => Own' = {}
      /\ \A j \in Own : Own = {j} /\ j # i =>
            \E k \in Own' : Own' = {k} /\ toServer'[k].kind = toServer[j].kind
  BY RequestGone DEF Always
<1>2. Slots' = Slots
  BY DEF Slots, Interval
<1>3. Always'
  BY <1>1, <1>2 DEF Always, ChannelTypes
<1>4. ASSUME NEW kind, Waiting(kind), i \notin Own PROVE Waiting(kind)'
  BY <1>1, <1>4 DEF Waiting
<1>5. KeyOnItsWay => KeyOnItsWay'
  BY DEF KeyOnItsWay, RepliesRise, PartsRise, PartsFirst
<1>6. PortOnItsWay => PortOnItsWay'
  BY <1>2 DEF PortOnItsWay, PortIs, Kept, StaysGiven
<1>7. Kept(port) => Kept(port)'
  BY <1>2 DEF Kept, StaysGiven
<1>8. Silent => Silent'
  BY <1>1 DEF Silent
<1>. QED
  BY <1>1, <1>3, <1>4, <1>5, <1>6, <1>7, <1>8 DEF Awaited

LEMMA HandleKeeps ==
  ASSUME Always, Awaited, NEW i \in DOMAIN toServer, Handle(i), setting' = setting
  PROVE  Always' /\ Awaited'
<1>. USE DEF client
<1>. DEFINE q == toServer[i]
<1>0. /\ q \in RequestSet /\ toClient \in Seq(ReplySet) /\ run \in Nat /\ Slots' = Slots
      /\ Slots \subseteq Int
  BY DEF Always, ChannelTypes, Slots, Interval
<1>1. /\ toServer' = RemoveAt(toServer, i)
      /\ UNCHANGED <<keyFile, pc, run, parts, port>>
  BY DEF Handle
<1>2. /\ worker' \in [Slots -> WorkerSteps] /\ askedBy' \in [Slots -> Nat]
      /\ \A t \in Slots : StaysGiven(t)
  BY <1>0 DEF Handle, IsFree, Always, WorkerSteps, StaysGiven, RequestSet
<1>3. CASE \/ q.run # run
           \/ pc \notin {"answ", "key", "port"} /\ toClient' = toClient
  <2>1. toClient' = toClient
    BY <1>3 DEF Handle, Answer
  <2>2. i \notin Own \/ pc \notin {"answ", "key", "port"}
    BY <1>3 DEF Own
  <2>. QED
    BY <1>1, <1>2, <2>1, <2>2, StrangerHandled
<1>4. CASE q.run = run /\ pc \in {"answ", "key", "port"}
  <2>1. i \in Own
    BY <1>4 DEF Own
  <2>2. /\ Own = {i} /\ toClient = <<>>
        /\ pc = "answ" => q.kind = "id"
        /\ pc = "key" => q.kind = "pk" /\ parts = <<>>
        /\ pc = "port" => q.kind = "ba"
    BY <1>4, <2>1 DEF Awaited, Waiting
  <2>3. /\ toServer' \in Seq(RequestSet) /\ Own' = {}
        /\ \A j \in DOMAIN toServer' : toServer'[j].run <= run
    BY <1>1, <2>2, RequestGone DEF Always
  <2>4. ASSUME toClient' \in Seq(ReplySet) PROVE Always'
    BY <1>0, <1>1, <1>2, <2>3, <2>4 DEF Always, ChannelTypes
  <2>5. CASE pc = "answ"
    <3>1. toClient' = IdAnswer
      BY <1>4, <2>2, <2>5 DEF Handle, Answer, IdAnswer
    <3>2. toClient' \in Seq(ReplySet) /\ Len(toClient') = 2
      BY <3>1 DEF IdAnswer, Part, ReplySet, NoPort
    <3>. QED
      BY <1>1, <2>3, <2>4, <2>5, <3>2 DEF Awaited
  <2>6. CASE pc = "key"
    <3>1. toClient' = KeyAnswer /\ parts' = <<>>
      BY <1>1, <1>4, <2>2, <2>6 DEF Handle, Answer, KeyAnswer
    <3>2. toClient' \in Seq(ReplySet) /\ Len(toClient') = 3
      BY <3>1 DEF KeyAnswer, Part, ReplySet, NoPort
    <3>3. RepliesRise'
      BY <3>1 DEF KeyAnswer, Part, RepliesRise, KeyKinds, Rank
    <3>4. parts' \in Seq(KeyKinds \cup {Nothing}) /\ Len(parts') = 0
          /\ PartsRise' /\ PartsFirst'
      BY <3>1 DEF PartsRise, PartsFirst
    <3>. QED
      BY <1>1, <2>3, <2>4, <2>6, <3>2, <3>3, <3>4 DEF Awaited, KeyOnItsWay
  <2>7. CASE pc = "port"
    <3>1. CASE UNCHANGED <<toClient, worker, askedBy>>
      <4>1. toClient' = <<>> /\ toClient' \in Seq(ReplySet)
        BY <1>0, <2>2, <3>1
      <4>. QED
        BY <1>1, <2>3, <2>4, <2>7, <4>1 DEF Awaited, PortOnItsWay
    <3>2. ASSUME NEW s \in Slots, Answer(q.run, <<PortIs(s)>>),
                 worker' = [worker EXCEPT ![s] = "start"],
                 askedBy' = [askedBy EXCEPT ![s] = q.run]
          PROVE  Always' /\ Awaited'
      <4>1. toClient' = <<PortIs(s)>>
        BY <1>4, <2>2, <2>7, <3>2 DEF Answer
      <4>2. PortIs(s) \in ReplySet
        BY <1>0 DEF PortIs, ReplySet
      <4>3. Kept(s)'
        BY <1>0, <1>1, <1>4, <3>2 DEF Kept, Always
      <4>4. PortOnItsWay'
        BY <1>0, <4>1, <4>3 DEF PortOnItsWay, PortIs
      <4>. QED
        BY <1>1, <2>3, <2>4, <2>7, <4>1, <4>2, <4>4 DEF Awaited
    <3>. QED
      BY <2>2, <2>7, <3>1, <3>2 DEF Handle
  <2>. QED
    BY <1>4, <2>5, <2>6, <2>7
<1>5. CASE q.run = run /\ pc \notin {"answ", "key", "port"} /\ toClient' # toClient
  <2>1. i \in Own /\ pc \notin {"idle", "prompt", "ask", "sig"}
    BY <1>5 DEF Own, Awaited, Silent, Handle, Answer
  <2>2. toClient' \in Seq(ReplySet)
    <3>1. PICK ds : /\ ds \in Seq(ReplySet)
                    /\ toClient' = toClient \o ds
      <4>1. IdAnswer \in Seq(ReplySet) /\ KeyAnswer \in Seq(ReplySet)
        BY DEF IdAnswer, KeyAnswer, Part, ReplySet, NoPort
      <4>2. \A s \in Slots : PortIs(s) \in ReplySet
        BY <1>0 DEF PortIs, ReplySet
      <4>3. \A s \in Slots : <<PortIs(s)>> \in Seq(ReplySet)
        BY <4>2
      <4>. QED
        BY <1>5, <4>1, <4>3 DEF Handle, Answer
    <3>. QED
      BY <1>0, <3>1
  <2>3. /\ toServer' \in Seq(RequestSet)
        /\ \A j \in DOMAIN toServer' : toServer'[j].run <= run
    BY <1>1, RequestGone DEF Always
  <2>4. Always'
    BY <1>0, <1>1, <1>2, <2>2, <2>3 DEF Always, ChannelTypes
  <2>5. Kept(port) => Kept(port)'
    BY <1>0, <1>1, <1>2 DEF Kept, StaysGiven
  <2>. QED
    BY <1>1, <1>5, <2>1, <2>4, <2>5 DEF Awaited
<1>. QED
  BY <1>3, <1>4, <1>5

LEMMA LoseKeeps ==
  ASSUME Always, Awaited, Lose, setting' = setting
  PROVE  Always' /\ Awaited'
<1>. USE DEF client, server, slots
<1>0. Slots' = Slots /\ UNCHANGED <<keyFile, pc, run, parts, port, worker, askedBy>>
  BY DEF Lose, Slots, Interval
<1>1. ASSUME NEW i \in DOMAIN toServer, toServer' = RemoveAt(toServer, i), toClient' = toClient
      PROVE  Always' /\ Awaited'
  <2>1. /\ worker' \in [Slots -> WorkerSteps] /\ askedBy' \in [Slots -> Nat]
        /\ \A t \in Slots : StaysGiven(t)
    BY <1>0 DEF Always, StaysGiven
  <2>2. CASE i \notin Own \/ pc \notin {"answ", "key", "port"}
    BY <1>0, <1>1, <2>1, <2>2, StrangerHandled
  <2>3. CASE i \in Own /\ pc \in {"answ", "key", "port"}
    <3>1. /\ Own = {i} /\ toClient = <<>>
          /\ pc = "key" => parts = <<>>
      BY <2>3 DEF Awaited, Waiting
    <3>2. /\ toServer' \in Seq(RequestSet) /\ Own' = {}
          /\ \A j \in DOMAIN toServer' : toServer'[j].run <= run
      BY <1>0, <1>1, <3>1, RequestGone DEF Always
    <3>3. Always'
      BY <1>0, <1>1, <3>2 DEF Always, ChannelTypes
    <3>4. toClient' = <<>> /\ Len(toClient') = 0
      BY <1>1, <3>1
    <3>5. pc = "key" => KeyOnItsWay'
      BY <1>0, <3>1, <3>4 DEF KeyOnItsWay, RepliesRise, PartsRise, PartsFirst
    <3>. QED
      BY <1>0, <2>3, <3>2, <3>3, <3>4, <3>5 DEF Awaited, PortOnItsWay
  <2>. QED
    BY <2>2, <2>3
<1>2. ASSUME NEW i \in DOMAIN toClient, toClient' = RemoveAt(toClient, i), toServer' = toServer
      PROVE  Always' /\ Awaited'
  <2>1. /\ ChannelTypes' /\ Own' = Own /\ toClient # <<>>
        /\ Len(toClient') = Len(toClient) - 1 /\ Len(toClient) \in Nat
        /\ RepliesRise => RepliesRise'
        /\ PartsFirst => PartsFirst'
    BY <1>0, <1>2, ReplyGone DEF Always
  <2>2. Always'
    BY <1>0, <2>1 DEF Always
  <2>3. KeyOnItsWay => KeyOnItsWay'
    BY <1>0, <2>1 DEF KeyOnItsWay, PartsRise
  <2>4. PortOnItsWay => PortOnItsWay'
    <3>1. ASSUME NEW s \in Slots, toClient = <<PortIs(s)>> PROVE toClient' = <<>>
      BY <2>1, <3>1 DEF ChannelTypes
    <3>. QED
      BY <2>1, <3>1 DEF PortOnItsWay
  <2>5. Kept(port) => Kept(port)'
    BY <1>0 DEF Kept
  <2>. QED
    BY <1>0, <2>1, <2>2, <2>3, <2>4, <2>5 DEF Awaited, Waiting, Silent
<1>. QED
  BY <1>1, <1>2 DEF Lose

-----------------------------------------------------------------------------
LEMMA SessionInit == Init => SessionInv
<1>1. Init => ChannelTypes
  BY DEF Init, ChannelTypes
<1>2. Init => worker \in [Slots -> WorkerSteps] /\ askedBy \in [Slots -> Nat]
  BY DEF Init, WorkerSteps
<1>. QED
  BY <1>1, <1>2 DEF Init, SessionInv, Awaited

LEMMA NothingKeeps ==
  ASSUME Always, Awaited, setting' = setting,
         UNCHANGED <<toServer, toClient, keyFile, pc, run, parts, port, worker, askedBy>>
  PROVE  Always' /\ Awaited'
<1>1. Slots' = Slots
  BY DEF Slots, Interval
<1>2. Always'
  BY <1>1 DEF Always, ChannelTypes
<1>3. Awaited'
  BY <1>1 DEF Awaited, Silent, Own, Waiting, KeyOnItsWay, RepliesRise, PartsRise,
     PartsFirst, PortOnItsWay, PortIs, Kept
<1>. QED
  BY <1>2, <1>3

LEMMA SessionNext == SessionInv /\ [Next]_vars => SessionInv'
<1>. SUFFICES ASSUME SessionInv, [Next]_vars, InOrder' PROVE SessionInv'
  BY DEF SessionInv
<1>1. setting' = setting /\ InOrder
  BY DEF Next, vars, InOrder, Faults
<1>2. Always /\ Awaited
  BY <1>1 DEF SessionInv, Always
<1>3. ASSUME Always', Awaited' PROVE SessionInv'
  BY <1>3 DEF SessionInv, Always
<1>4. CASE UNCHANGED vars
  BY <1>1, <1>2, <1>3, <1>4, NothingKeeps DEF vars, udp, client, server, slots
<1>5. ASSUME NEW i \in Arrivals(toServer), Handle(i) PROVE SessionInv'
  <2>1. i \in DOMAIN toServer
    BY DEF Arrivals
  <2>. QED
    BY <1>1, <1>2, <1>3, <1>5, <2>1, HandleKeeps
<1>6. ~Duplicate
  BY <1>1 DEF Duplicate, InOrder
<1>7. CASE Start
  BY <1>1, <1>2, <1>3, <1>7, StartKeeps
<1>8. CASE ClientStep
  BY <1>1, <1>2, <1>3, <1>8, ClientKeeps
<1>9. ASSUME NEW s \in Slots, Work(s) PROVE SessionInv'
  BY <1>1, <1>2, <1>3, <1>9, WorkKeeps
<1>10. CASE Lose
  BY <1>1, <1>2, <1>3, <1>10, LoseKeeps
<1>11. ASSUME NEW s \in Slots, Toggle(s) PROVE SessionInv'
  BY <1>1, <1>2, <1>3, <1>11, NothingKeeps DEF Toggle, udp, client
<1>. QED
  BY <1>4, <1>5, <1>6, <1>7, <1>8, <1>9, <1>10, <1>11 DEF Next, Dispatch

(* However many datagrams get lost, the client never keeps a key that is   *)
(* not the server's, as long as what arrives comes in time, in order and   *)
(* once.                                                                   *)
THEOREM KeyIsServers == Spec => []KeyNeverWrong
<1>1. SessionInv => KeyNeverWrong
  BY DEF SessionInv, KeyNeverWrong
<1>. QED
  BY <1>1, SessionInit, SessionNext, PTL DEF Spec

(* And the port it connects to, try after try, is the answer to its own    *)
(* request: the slot was given to this run, and its worker has served      *)
(* nobody since.                                                           *)
THEOREM PortIsAnswer == Spec => []PortAnswered
<1>1. SessionInv => PortAnswered
  BY DEF SessionInv, Awaited, Kept, PortAnswered
<1>. QED
  BY <1>1, SessionInit, SessionNext, PTL DEF Spec
=============================================================================
