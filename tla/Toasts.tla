------------------------------- MODULE Toasts --------------------------------
(***************************************************************************)
(* class Toast of src/monitor/web/js/materialize.js: notices that go by    *)
(* themselves, are swiped away or removed all at once, in a container that *)
(* exists while there are any.  dom, calls and events are as in            *)
(* Collapsible.  Toasts are numbered in the order they are made.           *)
(***************************************************************************)
EXTENDS Integers, Sequences, SequencesExt, Animations

CONSTANTS Lengths, MaxToasts, MaxEvents   \* display lengths in ticks of 20 ms; 0: for ever

VARIABLES dom, calls, events
vars == <<dom, calls, events>>

None == 0

Init ==
    /\ dom = [made |-> <<>>,          \* every toast: its time, timer and whether it is panned
              toasts |-> <<>>,        \* Toast._toasts
              shown |-> {},           \* elements in the container
              container |-> FALSE,    \* Toast._container with the document's listeners
              dragged |-> None]       \* Toast._draggedToast
    /\ calls = <<>> /\ events = MaxEvents

(* new Toast() *)
New ==
    /\ Len(dom.made) < MaxToasts
    /\ \E length \in Lengths :
          LET t == Len(dom.made) + 1
          IN  dom' = [dom EXCEPT !.made = Append(@, [timeRemaining |-> length,
                                                     timer |-> length > 0, panning |-> FALSE]),
                                 !.toasts = Append(@, t),
                                 !.shown = @ \cup {t},
                                 !.container = TRUE]
    /\ UNCHANGED calls

(* remove(): every call of it starts an animation with an end of its own.  *)
Removing(t) == Call("velocity", t, 375, "removed")
WithoutTimer(d, ts) ==
    [d EXCEPT !.made = [t \in DOMAIN @ |-> IF t \in ts THEN [@[t] EXCEPT !.timer = FALSE] ELSE @[t]]]

(* The interval of setTimer(); a toast that is dragged stays.              *)
Tick(t) ==
    /\ dom.made[t].timer
    /\ LET left == dom.made[t].timeRemaining - (IF dom.made[t].panning THEN 0 ELSE 1)
           d == [dom EXCEPT !.made[t].timeRemaining = left]
       IN  IF left <= 0
           THEN dom' = WithoutTimer(d, {t}) /\ calls' = Append(calls, Removing(t))
           ELSE dom' = d /\ UNCHANGED calls
    /\ UNCHANGED events

(* removeAll(), also over those that are on their way *)
RemoveAll ==
    /\ dom' = WithoutTimer(dom, ToSet(dom.toasts))
    /\ calls' = calls \o [k \in DOMAIN dom.toasts |-> Removing(dom.toasts[k])]

DragStart(t) ==
    /\ t \in dom.shown
    /\ dom' = [dom EXCEPT !.made[t].panning = TRUE, !.dragged = t]
    /\ UNCHANGED calls

(* _onDragEnd(), heard while there is a container: far or fast enough, the *)
(* toast is removed, whatever has become of it since the drag began.       *)
DragEnd ==
    /\ dom.container /\ dom.dragged # None
    /\ \E shouldBeDismissed \in BOOLEAN :
          LET d == [dom EXCEPT !.made[dom.dragged].panning = FALSE, !.dragged = None]
          IN  IF shouldBeDismissed
              THEN dom' = WithoutTimer(d, {dom.dragged})
                   /\ calls' = Append(calls, Removing(dom.dragged))
              ELSE dom' = d /\ UNCHANGED calls

(* Mutant of Gone: an element that is no longer in the container does not  *)
(* throw, and splice(-1, 1) takes the last toast of the list.              *)
GoneWithTheLast(t) ==
    LET left == IF t \in ToSet(dom.toasts) THEN Without(dom.toasts, {t})
                ELSE IF dom.toasts = <<>> THEN <<>> ELSE Front(dom.toasts)
    IN  [dom EXCEPT !.shown = @ \ {t}, !.toasts = left, !.container = left # <<>>]

(* The end of remove(): the second one of a toast throws at the element's  *)
(* missing parent, before it touches the list.                             *)
Gone(t) ==
    LET left == Without(dom.toasts, {t})
    IN  IF t \notin dom.shown THEN dom
        ELSE [dom EXCEPT !.shown = @ \ {t}, !.toasts = left, !.container = left # <<>>]

End(k) ==
    /\ MayEnd(calls, k)
    /\ dom' = Gone(calls[k].el)
    /\ calls' = Ended(calls, k)
    /\ UNCHANGED events

Next ==
    \/ /\ events > 0 /\ events' = events - 1
       /\ New \/ RemoveAll \/ DragEnd \/ \E t \in DOMAIN dom.made : DragStart(t)
    \/ \E t \in DOMAIN dom.made : Tick(t)
    \/ \E k \in DOMAIN calls : End(k)

Spec == Init /\ [][Next]_vars
-----------------------------------------------------------------------------
(* Properties *)

(* Toasts removed twice, by the timer and a swipe or by removeAll(), take  *)
(* nothing else with them: what is in the container is what is in the      *)
(* list, once, and the container is there as long as anything is.          *)
NothingLeftBehind ==
    /\ dom.shown = ToSet(dom.toasts) /\ IsInjective(dom.toasts)
    /\ dom.container <=> dom.shown # {}
    /\ (calls = <<>> /\ dom.dragged = None) =>
          \A t \in dom.shown : dom.made[t].timeRemaining = 0 \/ dom.made[t].timer
=============================================================================
