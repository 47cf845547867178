------------------------------ MODULE SlotPool ------------------------------
(***************************************************************************)
(* What the slot table of the backup server promises: a slot (a TCP port   *)
(* of the configured interval) is given to one worker process, kept by it  *)
(* until the worker ends, and only then given to another one.              *)
(***************************************************************************)
EXTENDS FiniteSets

CONSTANTS Slots,    \* the ports of the interval
          Workers   \* the processes that may serve a backup

VARIABLE owners     \* owners[s]: the workers serving on slot s

Init == owners = [s \in Slots |-> {}]

(* A worker that owns nothing takes a slot nobody owns. *)
Acquire(s, w) ==
    /\ owners[s] = {}
    /\ \A t \in Slots : w \notin owners[t]
    /\ owners' = [owners EXCEPT ![s] = {w}]

(* Workers end, each giving back its slot: one by one, or several at once  *)
(* when a signal is sent to the whole process group.                       *)
Release(S) ==
    /\ \A s \in S : owners[s] # {}
    /\ owners' = [s \in Slots |-> IF s \in S THEN {} ELSE owners[s]]

Next == \/ \E s \in Slots, w \in Workers : Acquire(s, w)
        \/ \E S \in SUBSET Slots : Release(S)

Spec == Init /\ [][Next]_owners
=============================================================================
