------------------------------- MODULE MCHost --------------------------------
(***************************************************************************)
(* The programs of the host that do not talk to each other while they run, *)
(* side by side: which of them runs is chosen at the beginning.  The       *)
(* variables of the others stay as they began.                             *)
(***************************************************************************)
EXTENDS Terminal, AccessControl, Config, FileList, Extract

VARIABLE part
hostVars == <<part, accessVars, configVars, listVars, extractVars, vars>>
-----------------------------------------------------------------------------
(* Addresses of two octets of two bits: the hosts differ in the high and   *)
(* the low bit of the first octet and in the second one; the networks are  *)
(* 0.0/2, 2.0/2 and everything.                                            *)
SomeHosts == {{}, {0}, {1}, {0, 2}}
SomeNetworks == {<<{}, 2>>, <<{1, 2}, 2>>, <<{}, 0>>}
SomeLengths == {<<1, 1>>, <<2, 2>>}

(* A list `i', a property `ib', an element, one with a drive letter, the   *)
(* end of a list, a comment and the line that stops.                       *)
SomeLines == {<<"i", " ", "=", ":">>, <<"i", "b", "=", "~">>, <<"x", "1">>, <<"x", ":">>,
              <<":", ":">>, <<"#", "i">>, <<>>, <<"_">>}
SomeProperties == {<<"i">>, <<"i", "b">>}

(* Three encrypted files under one name, or one stored as it is. *)
SomeSettings == {[files |-> 3, dim |-> 5, block |-> 4, encrypted |-> TRUE],
                 [files |-> 1, dim |-> 7, block |-> 2, encrypted |-> FALSE]}
-----------------------------------------------------------------------------
(* One host, with the shortest lists, and no file to read, to send or to   *)
(* get back                                                                *)
AccessRests ==
    /\ configs = [ips |-> <<{}>>, managers |-> <<{}>>, networks |-> <<>>,
                  allowEqualsDeny_ips |-> 0, allowEqualsDeny_nets |-> 0]
    /\ hip = {} /\ answered = FALSE /\ res = 0
ConfigRests ==
    /\ text = <<>> /\ cpc = "count" /\ nextLine = 1 /\ lines = 0
    /\ destination = <<>> /\ property = <<>> /\ answer = None
ListRests == list = <<>> /\ pc = "loop" /\ i = 1 /\ files = <<>>
ExtractRests ==
    /\ setting = [files |-> 0, dim |-> 0, block |-> 1, encrypted |-> FALSE] /\ dims = <<>>
    /\ xpc = "head" /\ pos = 0 /\ eof = FALSE /\ current = 0 /\ counted = 0
    /\ data = <<>> /\ rimanenteDaScrivere = 0 /\ out = <<>>

HostInit ==
    /\ Init
    /\ \/ part = "access" /\ AccessInit /\ ConfigRests /\ ListRests /\ ExtractRests
       \/ part = "config" /\ ConfigInit /\ AccessRests /\ ListRests /\ ExtractRests
       \/ part = "list" /\ ListInit /\ AccessRests /\ ConfigRests /\ ExtractRests
       \/ part = "extract" /\ ExtractInit /\ AccessRests /\ ConfigRests /\ ListRests
       \/ part = "terminal" /\ AccessRests /\ ConfigRests /\ ListRests /\ ExtractRests

HostNext ==
    \/ /\ part = "access" /\ AccessNext
       /\ UNCHANGED <<part, configVars, listVars, extractVars, vars>>
    \/ /\ part = "config" /\ ConfigNext
       /\ UNCHANGED <<part, accessVars, listVars, extractVars, vars>>
    \/ /\ part = "list" /\ ListNext
       /\ UNCHANGED <<part, accessVars, configVars, extractVars, vars>>
    \/ /\ part = "extract" /\ ExtractNext
       /\ UNCHANGED <<part, accessVars, configVars, listVars, vars>>
    \/ /\ part = "terminal" /\ Next
       /\ UNCHANGED <<part, accessVars, configVars, listVars, extractVars>>

(* The server's and the terminals' processes are scheduled; nobody has to  *)
(* type, to connect or to send a datagram.                                 *)
FairSpec ==
    /\ HostInit /\ [][HostNext]_hostVars
    /\ WF_vars(part = "terminal" /\ (ForkTerminal \/ ForkListener \/ OpenSocket \/ Woken))
    /\ \A p \in Terminals : WF_vars(part = "terminal" /\ Terminal(p))
==============================================================================
