-------------------------------- MODULE Tabs ---------------------------------
(***************************************************************************)
(* $.fn.tabs of src/monitor/web/js/materialize.js: links of which one is   *)
(* active and shows its content, or, when swipeable, turns a carousel to   *)
(* it.  dom, calls and events are as in Collapsible.                       *)
(*                                                                         *)
(* The indicator's place and the window's resizing are left out; what the  *)
(* carousel (module Carousel) does between a click and its rest is a       *)
(* sequence of onCycleTo calls that ends with some item.                   *)
(***************************************************************************)
EXTENDS Integers, Sequences, FiniteSets, Animations

CONSTANTS Links, MaxEvents   \* the links are numbered from 0

VARIABLES dom, calls, events
vars == <<dom, calls, events>>

First(S) == CHOOSE l \in S : \A m \in S : l <= m

(* init: the link of the page's location.hash, else the first one marked,  *)
(* else the first one; the marks of others stay.                           *)
Chosen(hash, marked) ==
    IF hash \in Links THEN hash ELSE IF marked # {} THEN First(marked) ELSE First(Links)

Fresh(swipeable, hash, marked, disabled) ==
    LET l == Chosen(hash, marked)
    IN  [swipeable |-> swipeable, disabled |-> disabled,
         others |-> marked \ {l},          \* marked by the page from the beginning
         marked |-> marked \cup {l},       \* class active
         active |-> l, index |-> l,
         content |-> l,                    \* $content, which a swipe does not change
         shown |-> IF swipeable THEN {} ELSE {l},
         clicked |-> FALSE]

Init ==
    /\ \E swipeable \in BOOLEAN, hash \in Links \cup {-1}, marked \in SUBSET Links,
          disabled \in SUBSET Links :
          dom = Fresh(swipeable, hash, marked, disabled)
    /\ calls = <<>> /\ events = MaxEvents

(* A click moves the mark, and without a carousel shows the new content    *)
(* and hides the old one when it is another.                               *)
Swap(l) ==
    [dom EXCEPT !.marked = (@ \ {dom.active}) \cup {l}, !.active = l, !.index = l,
                !.content = l, !.clicked = TRUE,
                !.shown = IF dom.swipeable THEN @ ELSE (@ \cup {l}) \ ({dom.content} \ {l})]

(* The click.tabs handler, also through select_tab *)
Click(l) ==
    /\ l \notin dom.disabled
    /\ dom' = Swap(l)
    /\ calls' = Append(calls, Call("timeout", "tabs", 300, "unclick"))

(* onCycleTo() of the carousel, by a swipe or on its way to a clicked tab. *)
CycleTo(l) ==
    /\ dom.swipeable
    /\ dom' = IF dom.clicked THEN dom
              ELSE [dom EXCEPT !.marked = (@ \ {dom.active}) \cup {l}, !.active = l, !.index = l]
    /\ UNCHANGED calls

(* The time-out of any click, be it the last one or not. *)
End(k) ==
    /\ MayEnd(calls, k)
    /\ dom' = [dom EXCEPT !.clicked = FALSE]
    /\ calls' = Ended(calls, k)
    /\ UNCHANGED events

Next ==
    \/ /\ events > 0 /\ events' = events - 1
       /\ \E l \in Links : Click(l) \/ CycleTo(l)
    \/ \E k \in DOMAIN calls : End(k)

Spec == Init /\ [][Next]_vars
-----------------------------------------------------------------------------
(* Properties *)

(* One link is marked, however clicks and swipes alternate, but for those  *)
(* that the page had marked besides: their marks go when they are left.    *)
OneSelected == dom.active \in dom.marked /\ dom.marked \ dom.others \subseteq {dom.active}

(* Without a carousel the content shown is the active link's, alone.       *)
ShownAsMarked == ~dom.swipeable => dom.shown = {dom.active}
=============================================================================
