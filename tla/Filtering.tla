------------------------------ MODULE Filtering ------------------------------
(***************************************************************************)
(* What is left of a sequence when some elements are left out: SelectSeq,  *)
(* as a recursive function that can be reasoned about.                     *)
(***************************************************************************)
EXTENDS Integers, Sequences

(* s without the elements of S, in their order. *)
Without(s, S) ==
    LET left[n \in 0 .. Len(s)] ==
            IF n = 0 THEN <<>>
            ELSE IF s[n] \in S THEN left[n - 1] ELSE Append(left[n - 1], s[n])
    IN  left[Len(s)]
=============================================================================
