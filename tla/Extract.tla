------------------------------ MODULE Extract -------------------------------
(***************************************************************************)
(* Getting files back: the loop of src/src/extract.cpp (and its copy in    *)
(* extract_all.cpp) over one stored file, in which the server has put      *)
(* every file of that name one after the other, each behind its header.    *)
(*                                                                         *)
(* The stored file is a sequence of bytes: <<f, k>> is byte k of file f,   *)
(* beyond its length a byte of the padding, and <<f, -k>> a byte of its    *)
(* header.                                                                 *)
(***************************************************************************)
EXTENDS Integers, Sequences

CONSTANTS
    Header,     \* sizeof(file_h), scaled
    Packet,     \* packetSize, the argument given to the program
    Bar,        \* the 30 characters of the progress bar, scaled
    IntMax,     \* the largest int, scaled
    Settings    \* what may have been stored

ASSUME ExtractConstants ==
    /\ Header \in Nat \ {0} /\ Packet \in Nat \ {0} /\ Bar \in Nat /\ IntMax \in Nat
    /\ \A s \in Settings : /\ s.files \in Nat /\ s.dim \in Nat /\ s.block \in Nat \ {0}
                           /\ s.encrypted \in BOOLEAN

VARIABLE setting   \* one of Settings, the same all the time

NFiles == setting.files         \* the files that were stored under the name
MaxDim == setting.dim           \* bound: the longest of them
Block == setting.block          \* the block length the client sent them with
Encrypted == setting.encrypted  \* isEncoded

Files == 1 .. NFiles

VARIABLES
    dims,     \* the length of every file
    xpc,      \* "head", "bar", "block", "end", "astray" or "hung"
    pos,      \* bytes of the stored file read so far
    eof,      \* feof(in)
    current,  \* the number of the file that is being written
    counted,  \* `i' of the loop: bytes of it counted
    data,     \* the buffer
    rimanenteDaScrivere,
    out       \* the bytes written for every file

extractVars == <<setting, dims, xpc, pos, eof, current, counted, data, rimanenteDaScrivere, out>>

-----------------------------------------------------------------------------
(* The stored file *)

transfer_dimension(f) ==
    IF Encrypted THEN dims[f] + (Block - (dims[f] % Block)) ELSE dims[f]

Stored(f) ==
    [k \in 1 .. Header + transfer_dimension(f) |->
        IF k <= Header THEN <<f, -k>> ELSE <<f, k - Header>>]

Start[f \in 1 .. NFiles + 1] ==
    IF f = 1 THEN 0 ELSE Start[f - 1] + Header + transfer_dimension(f - 1)

Length == Start[NFiles + 1]

ByteAt(p) ==
    LET f == CHOOSE g \in Files : Start[g] < p /\ p <= Start[g + 1]
    IN  Stored(f)[p - Start[f]]

Rest == Length - pos

-----------------------------------------------------------------------------
(* The program *)

ExtractInit ==
    /\ setting \in Settings
    /\ dims \in [Files -> 0 .. MaxDim]
    /\ xpc = "head" /\ pos = 0 /\ eof = FALSE
    /\ current = 0 /\ counted = 0
    /\ data = [k \in 1 .. Packet |-> <<0, 0>>]
    /\ rimanenteDaScrivere = 0
    /\ out = [f \in Files |-> <<>>]

End ==
    /\ xpc = "head" /\ eof
    /\ xpc' = "end"
    /\ UNCHANGED <<dims, pos, eof, current, counted, data, rimanenteDaScrivere, out>>

(* Less than a header: the loop goes on and finds the end of the file.     *)
ShortHeader ==
    /\ xpc = "head" /\ ~eof /\ Rest < Header
    /\ pos' = Length /\ eof' = TRUE
    /\ UNCHANGED <<dims, xpc, current, counted, data, rimanenteDaScrivere, out>>

(* Where a header is read from the middle of something else the name is    *)
(* too short, or it and the lengths are anything.                          *)
ReadHeader ==
    /\ xpc = "head" /\ ~eof /\ Rest >= Header
    /\ pos' = pos + Header
    /\ LET f == current + 1
       IN  IF f \in Files /\ pos = Start[f]
           THEN /\ current' = f
                /\ counted' = 0
                /\ rimanenteDaScrivere' = dims[f]
                /\ xpc' = IF transfer_dimension(f) = 0 THEN "head" ELSE "bar"
           ELSE xpc' = "astray" /\ UNCHANGED <<current, counted, rimanenteDaScrivere>>
    /\ UNCHANGED <<dims, eof, data, out>>

(* The bar's length is i*30, an int, over the length, which is not one: a  *)
(* product that overflows is negative and makes it endless.                *)
DrawBar ==
    /\ xpc = "bar"
    /\ \/ xpc' = "block"
       \/ counted * Bar > IntMax /\ xpc' = "hung"
    /\ UNCHANGED <<dims, pos, eof, current, counted, data, rimanenteDaScrivere, out>>

(* fread() overwrites as many bytes of the buffer as the file still has.   *)
Filled(n) == [k \in 1 .. Packet |-> IF k <= n THEN ByteAt(pos + k) ELSE data[k]]

Smaller(m, n) == IF m < n THEN m ELSE n

ToWrite == Smaller(Packet, rimanenteDaScrivere)

(* Mutant of Advanced: the loop runs once too often at the end. *)
AdvancedLate(written) == counted + Packet - 1

Advanced(written) == counted + Packet

(* An i beyond the largest int is, compared with the length, beyond it, or *)
(* the compiler has made a wider number of it.                             *)
ReadBlock ==
    /\ xpc = "block"
    /\ LET n == Smaller(Packet, Rest)
           tow == ToWrite
           next == Advanced(tow)
       IN  /\ data' = Filled(n)
           /\ pos' = pos + n
           /\ eof' = (n < Packet)
           /\ out' = [out EXCEPT ![current] = @ \o SubSeq(data', 1, tow)]
           /\ rimanenteDaScrivere' = rimanenteDaScrivere - tow
           /\ counted' = next
           /\ \/ xpc' = IF next < transfer_dimension(current) THEN "bar" ELSE "head"
              \/ next > IntMax /\ xpc' = "head"
    /\ UNCHANGED <<dims, current>>

ExtractNext ==
    /\ \/ End \/ ShortHeader \/ ReadHeader
       \/ DrawBar \/ ReadBlock
    /\ UNCHANGED setting

ExtractSpec == ExtractInit /\ [][ExtractNext]_extractVars

-----------------------------------------------------------------------------
(* Properties *)

(* The bytes of file f. *)
Original(f) == [k \in 1 .. dims[f] |-> <<f, k>>]

(* At the end every file that was stored has been written, byte for byte.  *)
(* A name under which several files are stored unencrypted breaks it: the  *)
(* last block of a file is read into the header of the next.               *)
Restored == xpc \in {"end", "astray"} => \A f \in Files : out[f] = Original(f)
=============================================================================
