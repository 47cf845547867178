-------------------------------- MODULE MCWeb --------------------------------
(***************************************************************************)
(* The two sides of the web monitor that share no state: its pages with    *)
(* the server behind them, and its accounts.  Which one runs is chosen at  *)
(* the beginning, the other one stays as it began.                         *)
(***************************************************************************)
EXTENDS Monitor, Accounts

VARIABLE part

webVars == <<part, vars, accountsVars>>

(* One page with losses and backup clients, or two pages without. *)
OnePage == [sessions |-> {"s1"}, defaultPort |-> TRUE, lossy |-> TRUE, backups |-> TRUE,
            messages |-> 2, changes |-> 2]
TwoPages == [sessions |-> {"s1", "s2"}, defaultPort |-> TRUE, lossy |-> FALSE,
             backups |-> FALSE, messages |-> 1, changes |-> 1]
OtherPort == [OnePage EXCEPT !.defaultPort = FALSE]
SomeSettings == {OnePage, TwoPages, OtherPort}

WebInit ==
    /\ Init /\ AccountsInit
    /\ \/ part = "monitor"
       \/ part = "accounts" /\ setting = OnePage

WebNext ==
    \/ part = "monitor" /\ Next /\ UNCHANGED <<part, accountsVars>>
    \/ part = "accounts" /\ AccountsNext /\ UNCHANGED <<part, vars>>

WebSpec == WebInit /\ [][WebNext]_webVars
=============================================================================
