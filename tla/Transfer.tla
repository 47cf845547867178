------------------------------ MODULE Transfer ------------------------------
(***************************************************************************)
(* The files of one backup on their way from the client's loop (newBak()   *)
(* in src/src/client.cpp) through the TCP stream to the worker's loop      *)
(* (newBackup() in src/src/server.cpp).                                    *)
(*                                                                         *)
(* The stream is a sequence of items <<f, k>>: k = 0 is the header of file *)
(* f, which stands for the whole file_h, and k > 0 the k-th byte sent for  *)
(* it.  Only its two ends are kept: what the client has put in (cf, sent)  *)
(* and what the worker takes next (at).  TCP cuts the stream as it likes;  *)
(* recv_tcp() goes on until its size is reached, so one byte for each      *)
(* recv() is the cut that shows every other.                               *)
(***************************************************************************)
EXTENDS Integers

CONSTANTS
    NFiles,      \* fileNumbers, the files the client announces
    MaxDim,      \* bound: the longest file, in bytes
    Block,       \* transfer_block_size, in the header as packetSize
    Threshold,   \* the 512 of the worker's loop, scaled
    Width,       \* the range of uint64_t, scaled
    Encrypted    \* isEncrypted

ASSUME TransferConstants ==
    /\ NFiles \in Nat /\ MaxDim \in Nat
    /\ Block \in Nat \ {0} /\ Threshold \in Nat \ {0}
    /\ Width \in Nat /\ Width > MaxDim + Block
    /\ Encrypted \in BOOLEAN

Files == 1 .. NFiles

VARIABLES
    dims,    \* the length of every file
    \* the client: step ("eof" once feof() holds), current file, bytes read
    \* of it, and the bytes sent for every file
    cpc, cf, fpos, sent,
    \* the worker: step, i, transfer_dimension still to come, nextBlock,
    \* recv_tcp()'s recived, and the table's transferred and filesTransferred
    rpc, rf, td, want, got, transferred, ft,
    at       \* the item of the stream the worker takes next

clientVars == <<cpc, cf, fpos, sent>>
workerVars == <<rpc, rf, td, want, got, transferred, ft, at>>
vars == <<dims, clientVars, workerVars>>

Init ==
    /\ dims \in [Files -> 0 .. MaxDim]
    /\ cpc = "open" /\ cf = 1 /\ fpos = 0
    /\ sent = [f \in Files |-> 0]
    /\ rpc = (IF NFiles = 0 THEN "end" ELSE "head") /\ rf = 1 /\ td = 0 /\ want = Block /\ got = 0
    /\ transferred = 0 /\ ft = 0
    /\ at = <<1, 0>>

-----------------------------------------------------------------------------
(* The client *)

(* Mutant of Announced: no padding for a whole number of blocks.           *)
AnnouncedTight(dim) ==
    IF Encrypted THEN dim + ((Block - (dim % Block)) % Block) ELSE dim

(* transfer_dimension: an encrypted file is padded, by a whole block when  *)
(* its length is a multiple of the block.                                  *)
Announced(dim) == IF Encrypted THEN dim + (Block - (dim % Block)) ELSE dim

SendHeader ==
    /\ cpc = "open"
    /\ cf <= NFiles
    /\ cpc' = "send"
    /\ fpos' = 0
    /\ UNCHANGED <<dims, cf, sent, workerVars>>

(* Mutant of SendBlock: the result of fread() is not used for the length.  *)
SendWholeBlock ==
    /\ cpc = "send"
    /\ fpos' = fpos + Block
    /\ cpc' = IF dims[cf] - fpos < Block THEN "eof" ELSE "send"
    /\ sent' = [sent EXCEPT ![cf] = @ + Block]
    /\ UNCHANGED <<dims, cf, workerVars>>

(* fread() sets feof() only when it could not fill the block; the whole    *)
(* block is sent when encrypted.                                           *)
SendBlock ==
    /\ cpc = "send"
    /\ LET remaining == dims[cf] - fpos
           readed == IF remaining < Block THEN remaining ELSE Block
       IN /\ fpos' = fpos + readed
          /\ cpc' = IF readed < Block THEN "eof" ELSE "send"
          /\ sent' = [sent EXCEPT ![cf] = @ + (IF Encrypted THEN Block ELSE readed)]
    /\ UNCHANGED <<dims, cf, workerVars>>

EndFile ==
    /\ cpc = "eof"
    /\ cf' = cf + 1
    /\ cpc' = "open"
    /\ UNCHANGED <<dims, fpos, sent, workerVars>>

-----------------------------------------------------------------------------
(* The stream *)

(* The item at the worker's end: past the last byte of a file that is      *)
(* wholly sent comes the next file's header.                               *)
NextItem == IF at[1] < cf /\ at[2] > sent[at[1]] THEN <<at[1] + 1, 0>> ELSE at

InStream(item) ==
    /\ item[1] \in Files
    /\ \/ item[1] < cf
       \/ /\ item[1] = cf /\ cpc # "open"
          /\ item[2] <= sent[cf]

Take == at' = <<NextItem[1], NextItem[2] + 1>>

-----------------------------------------------------------------------------
(* The worker *)

(* The transfer_dimension of a header taken at item: where bytes of a file *)
(* lie it is made of those bytes.                                          *)
LengthsIn(item) == IF item[2] = 0 THEN {Announced(dims[item[1]])} ELSE 0 .. MaxDim

(* Mutant of RecvHeader: transferred is not reset.                         *)
HeaderKeepsProgress ==
    /\ rpc = "head"
    /\ InStream(NextItem)
    /\ td' \in LengthsIn(NextItem)
    /\ Take
    /\ want' = Block
    /\ rpc' = "block"
    /\ UNCHANGED <<dims, clientVars, rf, got, transferred, ft>>

RecvHeader ==
    /\ rpc = "head"
    /\ InStream(NextItem)
    /\ td' \in LengthsIn(NextItem)
    /\ Take
    /\ want' = Block
    /\ transferred' = 0
    /\ rpc' = "block"
    /\ UNCHANGED <<dims, clientVars, rf, got, ft>>

(* Mutants of NextBlock: the last block is as long as the others; what is  *)
(* left is taken in one block.                                             *)
NextBlockFull ==
    /\ rpc = "block"
    /\ td > 0
    /\ got' = 0
    /\ rpc' = "recv"
    /\ UNCHANGED <<dims, clientVars, rf, td, want, transferred, ft, at>>

NextBlockRest ==
    /\ rpc = "block"
    /\ td > 0
    /\ want' = td
    /\ td' = 0
    /\ got' = 0
    /\ rpc' = "recv"
    /\ UNCHANGED <<dims, clientVars, rf, transferred, ft, at>>

(* The head of the loop over blocks: the last one is shorter. *)
NextBlock ==
    /\ rpc = "block"
    /\ td > 0
    /\ \/ /\ td < Threshold
          /\ want' = td
          /\ td' = 0
       \/ /\ td >= Threshold
          /\ UNCHANGED <<want, td>>
    /\ got' = 0
    /\ rpc' = "recv"
    /\ UNCHANGED <<dims, clientVars, rf, transferred, ft, at>>

(* One byte of recv_tcp(); with the last one the block is written and      *)
(* counted.                                                                *)
RecvByte ==
    /\ rpc = "recv"
    /\ InStream(NextItem)
    /\ Take
    /\ got' = got + 1
    /\ \/ /\ got' < want
          /\ UNCHANGED <<rpc, td, transferred>>
       \/ /\ got' = want
          /\ td' = IF td > 0 THEN (td - want) % Width ELSE td
          /\ transferred' = (transferred + want) % Width
          /\ rpc' = "block"
    /\ UNCHANGED <<dims, clientVars, rf, want, ft>>

(* Mutant of FileDone: an empty file is not counted.                       *)
FileDoneIfAny ==
    /\ rpc = "block"
    /\ td = 0
    /\ ft' = IF transferred > 0 THEN ft + 1 ELSE ft
    /\ rf' = rf + 1
    /\ rpc' = IF rf = NFiles THEN "end" ELSE "head"
    /\ UNCHANGED <<dims, clientVars, td, want, got, transferred, at>>

FileDone ==
    /\ rpc = "block"
    /\ td = 0
    /\ ft' = ft + 1
    /\ rf' = rf + 1
    /\ rpc' = IF rf = NFiles THEN "end" ELSE "head"
    /\ UNCHANGED <<dims, clientVars, td, want, got, transferred, at>>

-----------------------------------------------------------------------------
Client == SendHeader \/ SendBlock \/ EndFile
Worker == RecvHeader \/ NextBlock \/ RecvByte \/ FileDone

(* Both are through: the client has closed and the worker ended. *)
Finished == cf > NFiles /\ rpc = "end" /\ UNCHANGED vars

Next == Client \/ Worker \/ Finished

Spec == Init /\ [][Next]_vars

(* Both processes are scheduled and TCP delivers what was sent.            *)
FairSpec == Spec /\ WF_vars(Client) /\ WF_vars(Worker)

-----------------------------------------------------------------------------
TypeOK ==
    /\ dims \in [Files -> 0 .. MaxDim]
    /\ cpc \in {"open", "send", "eof"}
    /\ cf \in 1 .. NFiles + 1
    /\ fpos \in 0 .. MaxDim
    /\ sent \in [Files -> Nat]
    /\ rpc \in {"head", "block", "recv", "end"}
    /\ rf \in 1 .. NFiles + 1
    /\ td \in Nat /\ want \in Nat /\ got \in Nat
    /\ transferred \in Nat /\ ft \in 0 .. NFiles
    /\ at \in Nat \X Nat

(* The client sends as many bytes for a file as its header announced,      *)
(* padding included.                                                       *)
SentAsAnnounced == \A f \in Files : f < cf => sent[f] = Announced(dims[f])

(* The worker never takes the bytes of one file for another's: it looks    *)
(* for a header where one is, writes byte k of file i as byte k of file i, *)
(* and goes on to the next file at the announced end of this one.          *)
Aligned ==
    /\ rpc = "head" => \/ at = <<rf, 0>>
                       \/ rf > 1 /\ at = <<rf - 1, Announced(dims[rf - 1]) + 1>>
    /\ rpc = "recv" => at = <<rf, transferred + got + 1>>
    /\ rpc = "block" => /\ at = <<rf, transferred + 1>>
                        /\ transferred + td = Announced(dims[rf])

(* A block never passes the end of r_data, which has packetSize bytes.     *)
BlockFits == rpc = "recv" => want <= Block

(* The progress of a file never passes what its header announced.          *)
ProgressBounded ==
    rpc \in {"block", "recv"} => transferred <= Announced(dims[rf])

(* Every announced file is stored and the worker comes to its end. *)
BackupEnds == <>(rpc = "end" /\ ft = NFiles)
=============================================================================
