----------------------------- MODULE Animations -----------------------------
(***************************************************************************)
(* The animations and timers of the page's widgets                         *)
(* (src/monitor/web/js/materialize.js).  `calls' is the sequence of the    *)
(* pending ones, the oldest first: Velocity's State.calls, the timers of   *)
(* jQuery's effects and the browser's time-outs.  A widget's module has    *)
(* its own calls; the operators here say in which order they may end.      *)
(***************************************************************************)
EXTENDS Integers, Sequences, Filtering

(* An animation of an element, or a time-out: who counts its time, how     *)
(* long it takes in milliseconds and what its end does.                    *)
Call(clock, el, dur, then) == [clock |-> clock, el |-> el, dur |-> dur, then |-> then]

(* Call k may end: no call that the same clock began earlier has to end    *)
(* before it.  How far one clock is ahead of another is left open.         *)
MayEnd(calls, k) ==
    \A j \in 1 .. k - 1 : calls[j].clock = calls[k].clock => calls[j].dur > calls[k].dur

(* Call k has ended.  An error of its `complete' is thrown later on, from  *)
(* a time-out of its own, and changes nothing here.                        *)
Ended(calls, k) == SubSeq(calls, 1, k - 1) \o SubSeq(calls, k + 1, Len(calls))

(* stop: the element's calls end where they are, without `complete'.       *)
Stopped(calls, clock, el) ==
    Without(calls, {calls[k] : k \in {j \in DOMAIN calls : calls[j].clock = clock /\ calls[j].el = el}})

(* clearTimeout() and its like *)
Cleared(calls, then) == Without(calls, {calls[k] : k \in {j \in DOMAIN calls : calls[j].then = then}})

Pending(calls, el, then) == \E k \in DOMAIN calls : calls[k].el = el /\ calls[k].then = then
=============================================================================
