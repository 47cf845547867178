--------------------------- MODULE TransferProofs ---------------------------
(***************************************************************************)
(* Proofs about Transfer for every number and length of files.             *)
(***************************************************************************)
EXTENDS Transfer, CommonLemmas, TLAPS

-----------------------------------------------------------------------------
(* Types *)

LEMMA AnnouncedType ==
  ASSUME NEW d \in 0 .. MaxDim
  PROVE  /\ Announced(d) \in Nat /\ Announced(d) >= d
         /\ Announced(d) <= MaxDim + Block /\ Announced(d) < Width
         /\ Encrypted => Announced(d) % Block = 0
<1>1. d % Block \in 0 .. Block - 1
  BY TransferConstants
<1>2. /\ Announced(d) \in Nat /\ Announced(d) >= d
      /\ Announced(d) <= MaxDim + Block /\ Announced(d) < Width
  BY <1>1, TransferConstants DEF Announced
<1>3. ASSUME Encrypted PROVE Announced(d) % Block = 0
  <2>. DEFINE p == d - (d % Block)
  <2>1. p \in Nat /\ Announced(d) = p + Block
    <3>1. d % Block <= d
      BY DivMod, ModSmall, TransferConstants
    <3>. QED
      BY <1>1, <1>3, <3>1, TransferConstants DEF Announced
  <2>2. PICK k \in Int : p = Block * k
    <3>. DEFINE q == d \div Block
                r == d % Block
    <3>1. q \in Int /\ r \in Int /\ d = Block * q + r
      BY DivMod, TransferConstants
    <3>. HIDE DEF q, r
    <3>2. d - r = Block * q
      BY <3>1, TransferConstants
    <3>3. p = d - r
      BY DEF r
    <3>. QED
      BY <3>1, <3>2, <3>3
  <2>3. p % Block = 0
    BY <2>1, <2>2, Multiple, TransferConstants
  <2>. HIDE DEF p
  <2>4. (p + Block) % Block = 0
    BY <2>1, <2>3, ModStep, TransferConstants
  <2>. QED
    BY <2>1, <2>4
<1>. QED
  BY <1>2, <1>3

(* The type invariant's part about the client.                             *)
TypeClient ==
    /\ dims \in [Files -> 0 .. MaxDim]
    /\ cpc \in {"open", "send", "eof"}
    /\ cf \in 1 .. NFiles + 1
    /\ fpos \in 0 .. MaxDim
    /\ sent \in [Files -> Nat]

-----------------------------------------------------------------------------
(* The client *)

(* Between two reads the bytes sent are the bytes read, a multiple of the  *)
(* block; after the short read they are what the header announced.         *)
ClientInv ==
    /\ TypeClient
    /\ cpc # "open" => cf \in Files /\ fpos <= dims[cf]
    /\ cpc = "send" => sent[cf] = fpos /\ fpos % Block = 0
    /\ cpc = "eof" => sent[cf] = Announced(dims[cf])
    /\ \A f \in Files : f < cf => sent[f] = Announced(dims[f])
    /\ \A f \in Files : f > cf \/ (f = cf /\ cpc = "open") => sent[f] = 0

LEMMA ClientInit == Init => ClientInv
  BY TransferConstants DEF Init, ClientInv, TypeClient, Files

LEMMA ClientNext == ClientInv /\ [Next]_vars => ClientInv'
<1>. SUFFICES ASSUME ClientInv, [Next]_vars PROVE ClientInv'
  OBVIOUS
<1>1. CASE SendHeader
  <2>1. 0 % Block = 0
    BY ModSmall, TransferConstants
  <2>2. cf \in Files
    BY <1>1 DEF SendHeader, ClientInv, TypeClient, Files
  <2>. QED
    BY <1>1, <2>1, <2>2, TransferConstants DEF SendHeader, ClientInv, TypeClient
<1>2. CASE SendBlock
  <2>. DEFINE d == dims[cf]
              readed == IF d - fpos < Block THEN d - fpos ELSE Block
              more == IF Encrypted THEN Block ELSE readed
  <2>1. /\ cpc = "send" /\ cf \in Files /\ d \in 0 .. MaxDim
        /\ fpos \in Nat /\ fpos <= d /\ fpos % Block = 0 /\ sent[cf] = fpos
    BY <1>2 DEF SendBlock, ClientInv, TypeClient
  <2>2. /\ fpos' = fpos + readed /\ cpc' = IF readed < Block THEN "eof" ELSE "send"
        /\ sent' = [sent EXCEPT ![cf] = @ + more]
        /\ UNCHANGED <<dims, cf>>
    BY <1>2 DEF SendBlock
  <2>3. readed \in Nat /\ readed <= Block /\ fpos + readed <= d /\ more \in Nat
    BY <2>1, TransferConstants
  <2>4. /\ sent'[cf] = fpos + more /\ sent' \in [Files -> Nat]
        /\ \A f \in Files : f # cf => sent'[f] = sent[f]
    BY <2>1, <2>2, <2>3 DEF ClientInv, TypeClient
  <2>5. readed = Block => fpos' % Block = 0 /\ more = Block
    <3>1. (fpos + Block) % Block = 0
      BY <2>1, ModStep, TransferConstants
    <3>. QED
      BY <2>2, <3>1
  <2>6. readed # Block => fpos + more = Announced(d)
    <3>. SUFFICES ASSUME readed # Block PROVE fpos + more = Announced(d)
      OBVIOUS
    <3>. DEFINE r == d % Block
    <3>1. readed = d - fpos /\ d - fpos < Block
      BY <2>1, TransferConstants
    <3>2. r = d - fpos
      BY <2>1, <3>1, ModTail, TransferConstants
    <3>3. Announced(d) = IF Encrypted THEN d + (Block - r) ELSE d
      BY DEF Announced
    <3>. HIDE DEF r, readed, d
    <3>4. CASE Encrypted
      BY <2>1, <3>2, <3>3, <3>4, TransferConstants
    <3>5. CASE ~Encrypted
      BY <2>1, <3>1, <3>3, <3>5, TransferConstants
    <3>. QED
      BY <3>4, <3>5
  <2>7. readed # Block => readed < Block
    BY <2>3, TransferConstants
  <2>8. d = dims[cf] /\ d' = d
    BY <2>2
  <2>. HIDE DEF readed, more, d
  <2>9. TypeClient'
    <3>1. fpos + readed \in 0 .. MaxDim
      BY <2>1, <2>3, TransferConstants
    <3>. QED
      BY <2>2, <2>4, <3>1 DEF ClientInv, TypeClient
  <2>10. cf' \in Files /\ fpos' <= dims'[cf']
    BY <2>1, <2>2, <2>3, <2>8
  <2>11. cpc' = "send" => sent'[cf'] = fpos' /\ fpos' % Block = 0
    <3>1. cpc' = "send" => readed = Block
      BY <2>2, <2>7
    <3>. QED
      BY <2>2, <2>4, <2>5, <3>1
  <2>12. cpc' = "eof" => sent'[cf'] = Announced(dims'[cf'])
    <3>1. cpc' = "eof" => readed # Block
      BY <2>2, TransferConstants
    <3>. QED
      BY <2>2, <2>4, <2>6, <2>8, <3>1
  <2>13. cpc' # "open"
    BY <2>2
  <2>14. \A f \in Files : f < cf' => sent'[f] = Announced(dims'[f])
    BY <2>1, <2>2, <2>4 DEF ClientInv, Files
  <2>15. \A f \in Files : f > cf' => sent'[f] = 0
    BY <2>1, <2>2, <2>4 DEF ClientInv, Files
  <2>. QED
    BY <2>9, <2>10, <2>11, <2>12, <2>13, <2>14, <2>15 DEF ClientInv
<1>3. CASE EndFile
  <2>1. cf \in Files /\ cpc = "eof"
    BY <1>3 DEF EndFile, ClientInv
  <2>. QED
    BY <1>3, <2>1, TransferConstants DEF EndFile, ClientInv, TypeClient, Files
<1>4. CASE Worker \/ Finished \/ UNCHANGED vars
  BY <1>4 DEF Worker, RecvHeader, NextBlock, RecvByte, FileDone, Finished, vars,
     clientVars, ClientInv, TypeClient
<1>. QED
  BY <1>1, <1>2, <1>3, <1>4 DEF Next, Client

(* Every file is sent as long as it was announced, padding included.       *)
THEOREM SentIsAnnounced == Spec => []SentAsAnnounced
<1>1. ClientInv => SentAsAnnounced
  BY DEF ClientInv, SentAsAnnounced
<1>. QED
  BY <1>1, ClientInit, ClientNext, PTL DEF Spec
-----------------------------------------------------------------------------
(* The worker's types, whatever the block and the threshold are *)

TypeWorker ==
    /\ rpc \in {"head", "block", "recv", "end"}
    /\ rf \in 1 .. NFiles + 1
    /\ rpc # "end" => rf \in Files
    /\ td \in Nat /\ want \in Nat /\ got \in Nat
    /\ transferred \in Nat /\ ft = rf - 1
    /\ at \in Nat \X Nat

LEMMA NextItemType ==
  ASSUME TypeWorker
  PROVE  NextItem \in Nat \X Nat
<1>1. at = <<at[1], at[2]>> /\ at[1] \in Nat /\ at[2] \in Nat
  BY DEF TypeWorker
<1>2. <<at[1] + 1, 0>> \in Nat \X Nat /\ at \in Nat \X Nat
  BY <1>1
<1>. QED
  BY <1>2 DEF NextItem

LEMMA TakeType ==
  ASSUME TypeWorker, Take
  PROVE  at' \in Nat \X Nat
<1>1. NextItem[1] \in Nat /\ NextItem[2] + 1 \in Nat
  BY NextItemType
<1>. QED
  BY <1>1 DEF Take

LEMMA WorkerInit == Init => TypeWorker
  BY TransferConstants DEF Init, TypeWorker, Files

LEMMA WorkerNext == ClientInv /\ TypeWorker /\ [Next]_vars => TypeWorker'
<1>. SUFFICES ASSUME ClientInv, TypeWorker, [Next]_vars PROVE TypeWorker'
  OBVIOUS
<1>1. CASE RecvHeader
  <2>1. td' \in Nat
    <3>1. NextItem[1] \in Files /\ dims[NextItem[1]] \in 0 .. MaxDim
      BY <1>1 DEF RecvHeader, InStream, ClientInv, TypeClient
    <3>2. Announced(dims[NextItem[1]]) \in Nat
      BY <3>1, AnnouncedType
    <3>3. LengthsIn(NextItem) \subseteq Nat
      BY <3>2, TransferConstants DEF LengthsIn
    <3>. QED
      BY <1>1, <3>3 DEF RecvHeader
  <2>2. at' \in Nat \X Nat
    BY <1>1, TakeType DEF RecvHeader
  <2>. QED
    BY <1>1, <2>1, <2>2, TransferConstants DEF RecvHeader, TypeWorker, Files
<1>2. CASE NextBlock
  BY <1>2 DEF NextBlock, TypeWorker, Files
<1>3. CASE RecvByte
  <2>1. at' \in Nat \X Nat
    BY <1>3, TakeType DEF RecvByte
  <2>2. (td - want) % Width \in Nat /\ (transferred + want) % Width \in Nat
    <3>1. td - want \in Int /\ transferred + want \in Int /\ Width \in Nat \ {0}
      BY TransferConstants DEF TypeWorker
    <3>. HIDE DEF TypeWorker
    <3>2. \A n \in Int : n % Width \in Nat
      BY <3>1
    <3>. QED
      BY <3>1, <3>2
  <2>3. td' \in Nat /\ transferred' \in Nat
    BY <1>3, <2>2 DEF RecvByte, TypeWorker
  <2>. QED
    BY <1>3, <2>1, <2>3 DEF RecvByte, TypeWorker, Files
<1>4. CASE FileDone
  BY <1>4, TransferConstants DEF FileDone, TypeWorker, Files
<1>5. CASE Client \/ Finished \/ UNCHANGED vars
  BY <1>5 DEF Client, SendHeader, SendBlock, EndFile, Finished, vars, workerVars,
     TypeWorker, Files
<1>. QED
  BY <1>1, <1>2, <1>3, <1>4, <1>5 DEF Next, Worker

(* The variables of both loops keep their types for every block length and *)
(* threshold, also where the loops go out of step.                         *)
THEOREM TransferTypes == Spec => []TypeOK
<1>1. ClientInv /\ TypeWorker => TypeOK
  BY TransferConstants DEF ClientInv, TypeClient, TypeWorker, TypeOK
<1>2. Init => ClientInv /\ TypeWorker
  BY ClientInit, WorkerInit
<1>3. (ClientInv /\ TypeWorker) /\ [Next]_vars => (ClientInv /\ TypeWorker)'
  BY ClientNext, WorkerNext
<1>. QED
  BY <1>1, <1>2, <1>3, PTL DEF Spec

-----------------------------------------------------------------------------
(* The worker in step with the client *)

(* The blocks with which the worker's loop cuts files where they end.      *)
SafeBlocks == Block = Threshold \/ (Encrypted /\ Block >= Threshold)

(* In every state of its loop the worker knows its place in the stream and *)
(* how much of the file is to come; while more than the last block is, the *)
(* next block is a whole one that lies inside the file.                    *)
Place == Announced(dims[rf])

AtHead ==
    \/ rf = 1 /\ at = <<1, 0>>
    \/ rf > 1 /\ at = <<rf - 1, Announced(dims[rf - 1]) + 1>>

AtBlock ==
    /\ at = <<rf, transferred + 1>>
    /\ transferred + td = Place
    /\ td > 0 => want = Block
    /\ Encrypted => td % Block = 0

AtByte ==
    /\ at = <<rf, transferred + got + 1>>
    /\ got < want /\ want <= Block
    /\ td > 0 => want = Block /\ td >= Block /\ transferred + td = Place
    /\ td = 0 => transferred + want = Place
    /\ Encrypted => td % Block = 0

InStep ==
    /\ rpc = "head" => AtHead
    /\ rpc = "block" => AtBlock
    /\ rpc = "recv" => AtByte

LEMMA SentBounded ==
  ASSUME ClientInv
  PROVE  /\ cpc # "open" => cf \in Files /\ sent[cf] <= Announced(dims[cf])
         /\ \A f \in Files : f < cf => sent[f] = Announced(dims[f])
<1>1. cpc # "open" => cf \in Files /\ dims[cf] \in 0 .. MaxDim
  BY DEF ClientInv, TypeClient
<1>2. cpc = "send" => sent[cf] <= Announced(dims[cf])
  <2>. SUFFICES ASSUME cpc = "send" PROVE sent[cf] <= Announced(dims[cf])
    OBVIOUS
  <2>1. sent[cf] = fpos /\ fpos <= dims[cf] /\ fpos \in Nat
    BY DEF ClientInv, TypeClient
  <2>2. Announced(dims[cf]) >= dims[cf] /\ Announced(dims[cf]) \in Nat
    BY <1>1, AnnouncedType
  <2>. QED
    BY <1>1, <2>1, <2>2
<1>3. cpc = "eof" => sent[cf] <= Announced(dims[cf])
  <2>. SUFFICES ASSUME cpc = "eof" PROVE sent[cf] <= Announced(dims[cf])
    OBVIOUS
  <2>1. sent[cf] = Announced(dims[cf]) /\ Announced(dims[cf]) \in Nat
    BY <1>1, AnnouncedType DEF ClientInv
  <2>. QED
    BY <2>1
<1>. QED
  BY <1>1, <1>2, <1>3 DEF ClientInv, TypeClient

(* A header is taken where one is. *)
LEMMA HeadItem ==
  ASSUME ClientInv, TypeWorker, rpc = "head", AtHead, InStream(NextItem)
  PROVE  NextItem = <<rf, 0>>
<1>1. rf \in Files /\ rf \in Nat
  BY DEF TypeWorker, Files
<1>2. CASE rf = 1 /\ at = <<1, 0>>
  <2>1. 1 < cf => ~(0 > sent[1])
    BY <1>1, <1>2 DEF ClientInv, TypeClient
  <2>. QED
    BY <1>2, <2>1 DEF NextItem
<1>3. CASE rf > 1 /\ at = <<rf - 1, Announced(dims[rf - 1]) + 1>>
  <2>. DEFINE f == rf - 1
              A == Announced(dims[f])
  <2>1. f \in Files /\ f \in Nat /\ A \in Nat
    <3>1. f \in Files /\ f \in Nat
      BY <1>1, <1>3, TransferConstants DEF Files
    <3>2. dims[f] \in 0 .. MaxDim
      BY <3>1 DEF ClientInv, TypeClient
    <3>. QED
      BY <3>1, <3>2, AnnouncedType
  <2>2. at = <<f, A + 1>> /\ f + 1 = rf
    BY <1>1, <1>3
  <2>3. f < cf => sent[f] = A
    BY <2>1, SentBounded
  <2>4. f = cf /\ cpc # "open" => sent[f] <= A
    BY SentBounded
  <2>5. sent[f] \in Nat /\ cf \in Nat
    BY <2>1 DEF ClientInv, TypeClient
  <2>. HIDE DEF f, A
  <2>6. CASE f < cf
    BY <2>1, <2>2, <2>3, <2>6 DEF NextItem
  <2>7. CASE ~(f < cf)
    <3>1. NextItem = <<f, A + 1>>
      BY <2>2, <2>7 DEF NextItem
    <3>2. f = cf /\ cpc # "open" /\ A + 1 <= sent[f]
      BY <2>7, <3>1 DEF InStream
    <3>. QED
      BY <2>1, <2>4, <2>5, <3>2
  <2>. QED
    BY <2>6, <2>7
<1>. QED
  BY <1>2, <1>3 DEF AtHead

(* A byte is taken from the file it belongs to. *)
LEMMA ByteItem ==
  ASSUME ClientInv, TypeWorker, rpc = "recv", AtByte
  PROVE  NextItem = at
<1>1. rf \in Files /\ dims[rf] \in 0 .. MaxDim
  BY DEF TypeWorker, ClientInv, TypeClient
<1>2. Place \in Nat
  BY <1>1, AnnouncedType DEF Place
<1>3. at[1] = rf /\ at[2] = transferred + got + 1
  BY DEF AtByte
<1>4. transferred + got + 1 <= Place
  BY <1>2, TransferConstants DEF AtByte, TypeWorker
<1>5. rf < cf => sent[rf] = Place
  BY <1>1, SentBounded DEF Place
<1>6. rf < cf => ~(at[2] > sent[rf])
  BY <1>2, <1>3, <1>4, <1>5 DEF TypeWorker
<1>. QED
  BY <1>3, <1>6 DEF NextItem

LEMMA StepInit == Init => InStep
  BY DEF Init, InStep, AtHead

LEMMA StepHeader ==
  ASSUME ClientInv, TypeWorker, InStep, RecvHeader
  PROVE  InStep'
<1>1. rpc = "head" /\ AtHead /\ InStream(NextItem)
  BY DEF RecvHeader, InStep
<1>2. NextItem = <<rf, 0>>
  BY <1>1, HeadItem
<1>3. rf \in Files /\ dims[rf] \in 0 .. MaxDim
  BY <1>1 DEF TypeWorker, ClientInv, TypeClient
<1>4. Place \in Nat /\ (Encrypted => Place % Block = 0)
  BY <1>3, AnnouncedType DEF Place
<1>5. td' = Place /\ at' = <<rf, 1>> /\ transferred' = 0 /\ want' = Block
      /\ rpc' = "block" /\ rf' = rf /\ dims' = dims
  BY <1>2 DEF RecvHeader, LengthsIn, Take, Place
<1>6. Place' = Place
  BY <1>5 DEF Place
<1>7. AtBlock'
  BY <1>4, <1>5, <1>6 DEF AtBlock
<1>. QED
  BY <1>5, <1>7 DEF InStep

LEMMA StepBlock ==
  ASSUME SafeBlocks, ClientInv, TypeWorker, InStep, NextBlock
  PROVE  InStep'
<1>1. /\ rpc = "block" /\ AtBlock /\ td > 0 /\ got' = 0 /\ rpc' = "recv"
      /\ UNCHANGED <<dims, rf, transferred, at>>
  BY DEF NextBlock, InStep, clientVars
<1>2. Place' = Place
  BY <1>1 DEF Place
<1>3. td \in Nat /\ transferred \in Nat
  BY DEF TypeWorker
<1>4. CASE td < Threshold /\ want' = td /\ td' = 0
  <2>1. want' <= Block
    BY <1>3, <1>4, TransferConstants DEF SafeBlocks
  <2>2. 0 % Block = 0
    BY ModSmall, TransferConstants
  <2>3. AtByte'
    BY <1>1, <1>2, <1>3, <1>4, <2>1, <2>2, TransferConstants DEF AtByte, AtBlock
  <2>. QED
    BY <1>1, <2>3 DEF InStep
<1>5. CASE td >= Threshold /\ UNCHANGED <<want, td>>
  <2>1. td >= Block
    <3>1. Encrypted => td >= Block
      BY <1>1, <1>3, ModStep, TransferConstants DEF AtBlock
    <3>. QED
      BY <1>5, <3>1 DEF SafeBlocks
  <2>2. AtByte'
    BY <1>1, <1>2, <1>3, <1>5, <2>1, TransferConstants DEF AtByte, AtBlock
  <2>. QED
    BY <1>1, <2>2 DEF InStep
<1>. QED
  BY <1>4, <1>5 DEF NextBlock

LEMMA StepByte ==
  ASSUME ClientInv, TypeWorker, InStep, RecvByte
  PROVE  InStep'
<1>1. /\ rpc = "recv" /\ AtByte /\ got' = got + 1
      /\ UNCHANGED <<dims, rf, want>>
  BY DEF RecvByte, InStep, clientVars
<1>2. at' = <<rf, transferred + got + 2>>
  <2>1. NextItem = at
    BY <1>1, ByteItem
  <2>. QED
    BY <1>1, <2>1 DEF RecvByte, Take, AtByte, TypeWorker
<1>3. /\ td \in Nat /\ want \in Nat /\ got \in Nat /\ transferred \in Nat
      /\ rf \in Files /\ dims[rf] \in 0 .. MaxDim
  BY <1>1 DEF TypeWorker, ClientInv, TypeClient
<1>4. Place \in Nat /\ Place < Width /\ Place' = Place
  BY <1>1, <1>3, AnnouncedType DEF Place
<1>5. CASE got' < want /\ UNCHANGED <<rpc, td, transferred>>
  <2>1. AtByte'
    BY <1>1, <1>2, <1>3, <1>4, <1>5 DEF AtByte
  <2>. QED
    BY <1>1, <1>5, <2>1 DEF InStep
<1>6. CASE /\ got' = want
           /\ td' = IF td > 0 THEN (td - want) % Width ELSE td
           /\ transferred' = (transferred + want) % Width
           /\ rpc' = "block"
  <2>1. transferred + want \in Nat /\ transferred + want < Width
    BY <1>1, <1>3, <1>4, TransferConstants DEF AtByte
  <2>2. transferred' = transferred + want
    BY <1>6, <2>1, ModSmall, TransferConstants
  <2>3. td > 0 => td' = td - Block /\ td - Block \in Nat
    <3>. SUFFICES ASSUME td > 0 PROVE td' = td - Block /\ td - Block \in Nat
      OBVIOUS
    <3>1. td - Block \in Nat /\ td - Block < Width /\ want = Block
      BY <1>1, <1>3, <1>4, TransferConstants DEF AtByte
    <3>2. (td - Block) % Width = td - Block
      BY <3>1, ModSmall, TransferConstants
    <3>. QED
      BY <1>6, <3>1, <3>2
  <2>4. td = 0 => td' = 0
    BY <1>6
  <2>5. Encrypted => td' % Block = 0
    <3>. SUFFICES ASSUME Encrypted PROVE td' % Block = 0
      OBVIOUS
    <3>1. CASE td > 0
      <4>1. td % Block = 0 /\ td >= Block
        BY <1>1, <3>1 DEF AtByte
      <4>2. (td - Block) % Block = 0
        BY <1>3, <4>1, ModStep, TransferConstants
      <4>. QED
        BY <2>3, <3>1, <4>2
    <3>2. CASE td = 0
      BY <2>4, <3>2, ModSmall, TransferConstants
    <3>. QED
      BY <1>3, <3>1, <3>2
  <2>6. transferred' + td' = Place'
    BY <1>1, <1>3, <1>4, <2>2, <2>3, <2>4, TransferConstants DEF AtByte
  <2>7. at' = <<rf', transferred' + 1>>
    BY <1>1, <1>2, <1>3, <1>6, <2>2
  <2>8. td' > 0 => want' = Block
    BY <1>1, <1>3, <2>4 DEF AtByte
  <2>9. AtBlock'
    BY <2>5, <2>6, <2>7, <2>8 DEF AtBlock
  <2>. QED
    BY <1>6, <2>9 DEF InStep
<1>. QED
  BY <1>5, <1>6 DEF RecvByte

LEMMA StepDone ==
  ASSUME ClientInv, TypeWorker, InStep, FileDone
  PROVE  InStep'
<1>1. /\ rpc = "block" /\ AtBlock /\ td = 0 /\ rf' = rf + 1
      /\ rpc' \in {"head", "end"} /\ UNCHANGED <<dims, at>>
  BY DEF FileDone, InStep, clientVars
<1>2. rf \in Nat /\ rf >= 1 /\ transferred \in Nat /\ rf' - 1 = rf
  BY <1>1 DEF TypeWorker
<1>3. at' = <<rf' - 1, Announced(dims'[rf' - 1]) + 1>>
  BY <1>1, <1>2 DEF AtBlock, Place
<1>4. AtHead'
  BY <1>1, <1>2, <1>3 DEF AtHead
<1>. QED
  BY <1>1, <1>4 DEF InStep

LEMMA StepNext ==
  SafeBlocks => (ClientInv /\ TypeWorker /\ InStep /\ [Next]_vars => InStep')
<1>1. CASE Client \/ Finished \/ UNCHANGED vars
  BY <1>1 DEF Client, SendHeader, SendBlock, EndFile, Finished, vars, workerVars,
     InStep, AtHead, AtBlock, AtByte, Place
<1>. QED
  BY <1>1, StepHeader, StepBlock, StepByte, StepDone DEF Next, Worker

LEMMA StepInvariant ==
  SafeBlocks => (Spec => [](ClientInv /\ TypeWorker /\ InStep))
<1>. SUFFICES ASSUME SafeBlocks
              PROVE  Spec => [](ClientInv /\ TypeWorker /\ InStep)
  OBVIOUS
<1>1. Init => ClientInv /\ TypeWorker /\ InStep
  BY ClientInit, WorkerInit, StepInit
<1>2. ClientInv /\ TypeWorker /\ InStep /\ [Next]_vars
        => (ClientInv /\ TypeWorker /\ InStep)'
  BY ClientNext, WorkerNext, StepNext
<1>. QED
  BY <1>1, <1>2, PTL DEF Spec

(* With blocks as long as the threshold, or longer and encrypted, the      *)
(* worker's loop stays in step with the client's for every set of files.   *)
THEOREM StaysAligned == SafeBlocks => (Spec => []Aligned)
<1>1. InStep => Aligned
  BY DEF InStep, AtHead, AtBlock, AtByte, Place, Aligned
<1>. QED
  BY <1>1, StepInvariant, PTL

(* With the same blocks the receive buffer is never overrun.               *)
THEOREM BlocksFit == SafeBlocks => (Spec => []BlockFits)
<1>1. InStep => BlockFits
  BY DEF InStep, AtByte, BlockFits
<1>. QED
  BY <1>1, StepInvariant, PTL

(* And the progress of a file stays below its announced length.            *)
THEOREM ProgressStaysBounded == SafeBlocks => (Spec => []ProgressBounded)
<1>1. ClientInv /\ TypeWorker /\ InStep => ProgressBounded
  <2>. SUFFICES ASSUME ClientInv, TypeWorker, InStep, rpc \in {"block", "recv"}
                PROVE  transferred <= Place
    BY DEF ProgressBounded, Place
  <2>1. dims[rf] \in 0 .. MaxDim
    BY DEF TypeWorker, ClientInv, TypeClient
  <2>2. Place \in Nat
    BY <2>1, AnnouncedType DEF Place
  <2>. QED
    BY <2>2 DEF TypeWorker, InStep, AtBlock, AtByte
<1>. QED
  BY <1>1, StepInvariant, PTL
=============================================================================
