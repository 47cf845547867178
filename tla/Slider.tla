------------------------------- MODULE Slider --------------------------------
(***************************************************************************)
(* $.fn.slider of src/monitor/web/js/materialize.js: slides of which one   *)
(* is active and seen, changed by an interval, its indicators, methods and *)
(* pans.  dom, calls and events are as in Collapsible.  Captions and       *)
(* heights are left out.                                                   *)
(***************************************************************************)
EXTENDS Integers, Sequences, FiniteSets, Animations

CONSTANTS Count, MaxEvents, MaxTicks   \* MaxTicks bounds the interval

VARIABLES dom, calls, events
vars == <<dom, calls, events>>

Slides == 0 .. Count - 1
None == -1

Vel(slide, dur, then) == Call("velocity", slide, dur, then)

(* A slide that the page has marked gets neither its indicator nor its     *)
(* opacity until another one has been active.                              *)
Init ==
    /\ \E first \in Slides, premarked \in BOOLEAN :
          /\ premarked \/ first = 0
          /\ dom = [active |-> {first},           \* slides of class active
                    indicators |-> IF premarked THEN {} ELSE {first},
                    opaque |-> {}, premarked |-> premarked,
                    swipeLeft |-> FALSE, swipeRight |-> FALSE,
                    curr |-> None,                \* $curr_slide, a global variable
                    interval |-> TRUE, ticks |-> MaxTicks,
                    panning |-> FALSE,
                    hurried |-> FALSE]            \* panned while a pan's end moved
          /\ calls = IF premarked THEN <<>> ELSE <<Vel(first, 500, "show")>>
    /\ events = MaxEvents

(* $slider.find('.active').index(), the first of them *)
ActiveIndex(d) == CHOOSE i \in d.active : \A j \in d.active : i <= j

(* Mutant of WrapIndex: one too far. *)
WrapIndexLate(i) == IF i > Count THEN 0 ELSE IF i < 0 THEN Count - 1 ELSE i

WrapIndex(i) == IF i >= Count THEN 0 ELSE IF i < 0 THEN Count - 1 ELSE i

(* moveToSlide(): the old slide fades, and at the end all that are not     *)
(* active; the new one appears.                                            *)
Moved(d, index) ==
    LET i == WrapIndex(index)
        a == ActiveIndex(d)
    IN  IF i = a THEN d
        ELSE [d EXCEPT !.active = (@ \ {a}) \cup {i}, !.indicators = (@ \ {a}) \cup {i},
                       !.premarked = FALSE]
Moving(d, index) ==
    LET i == WrapIndex(index)
        a == ActiveIndex(d)
    IN  IF i = a THEN <<>> ELSE <<Vel(a, 500, "fade"), Vel(i, 500, "show")>>

Move(d, index) == dom' = Moved(d, index) /\ calls' = calls \o Moving(d, index)

(* A click on an indicator starts the interval again, paused or not.       *)
Indicator(i) == Move([dom EXCEPT !.interval = TRUE], i)

(* The interval, and the methods next and prev *)
Tick ==
    /\ dom.interval /\ dom.ticks > 0
    /\ Move([dom EXCEPT !.ticks = @ - 1], ActiveIndex(dom) + 1)
    /\ UNCHANGED events
Step == \E by \in {-1, 1} : Move(dom, ActiveIndex(dom) + by)

PauseOrStart ==
    /\ \E run \in BOOLEAN : dom' = [dom EXCEPT !.interval = run]
    /\ UNCHANGED calls

(* pan: far or fast enough to one side, the slide behind is made visible;  *)
(* a pan to the other side in the same gesture does not take that back.    *)
Pan ==
    LET a == ActiveIndex(dom)
        peek(left, right) ==
            (IF left THEN <<Vel(IF a + 1 = Count THEN 0 ELSE a + 1, 300, "show")>> ELSE <<>>)
            \o (IF right THEN <<Vel(IF a = 0 THEN Count - 1 ELSE a - 1, 300, "show")>> ELSE <<>>)
    IN  \E side \in {"left", "right", "none"} :
          LET d == [dom EXCEPT !.interval = FALSE, !.curr = a, !.panning = TRUE,
                               !.swipeLeft = @ \/ side = "left",
                               !.swipeRight = @ \/ side = "right",
                               !.hurried = @ \/ \E k \in DOMAIN calls : calls[k].then = "back"]
          IN  dom' = d /\ calls' = calls \o peek(d.swipeLeft, d.swipeRight)

(* panend: the end of the old slide's way out empties $curr_slide, whatever*)
(* slide that is by then.                                                  *)
PanEnd ==
    /\ dom.panning
    /\ LET a == ActiveIndex(dom)
           moves == (dom.swipeLeft \/ dom.swipeRight) /\ Count > 1
           to == IF ~moves THEN a ELSE IF dom.swipeLeft THEN a + 1 ELSE a - 1
       IN  /\ dom' = [Moved(dom, to) EXCEPT !.curr = a, !.panning = FALSE, !.interval = TRUE,
                                            !.swipeLeft = FALSE, !.swipeRight = FALSE]
           /\ calls' = calls \o Moving(dom, to)
                       \o (IF moves THEN <<Vel(a, 300, "back")>> ELSE <<>>)

End(k) ==
    /\ MayEnd(calls, k)
    /\ LET c == calls[k]
       IN  dom' = CASE c.then = "show" -> [dom EXCEPT !.opaque = @ \cup {c.el}]
                    [] c.then = "fade" -> [dom EXCEPT !.opaque = (@ \cap dom.active) \ {c.el}]
                    [] c.then = "back" -> [dom EXCEPT !.opaque = @ \ {dom.curr}]
    /\ calls' = Ended(calls, k)
    /\ UNCHANGED events

Next ==
    \/ /\ events > 0 /\ events' = events - 1
       /\ (\E i \in Slides : Indicator(i)) \/ Step \/ PauseOrStart \/ Pan \/ PanEnd
    \/ Tick
    \/ \E k \in DOMAIN calls : End(k)

Spec == Init /\ [][Next]_vars
-----------------------------------------------------------------------------
(* Properties *)

(* One slide is active, of those there are, whatever turns it; so is its   *)
(* indicator once the slide that the page had marked has been left.        *)
OneSelected ==
    /\ Cardinality(dom.active) = 1 /\ dom.active \subseteq Slides
    /\ ~dom.premarked => dom.indicators = dom.active

Settled == calls = <<>> /\ ~dom.panning

(* At rest the active slide is seen and no other, unless a pan has begun   *)
(* while the end of another one was moving.                                *)
ShownAsMarked == Settled /\ ~dom.premarked /\ ~dom.hurried => dom.opaque = dom.active
=============================================================================
