------------------------------ MODULE MCExtract ------------------------------
(***************************************************************************)
(* The instance of Extract with two files stored as they are.              *)
(***************************************************************************)
EXTENDS Extract

PlainSettings == {[files |-> 2, dim |-> 5, block |-> 2, encrypted |-> FALSE]}
=============================================================================
