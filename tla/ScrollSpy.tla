------------------------------ MODULE ScrollSpy ------------------------------
(***************************************************************************)
(* $.scrollSpy and Materialize.throttle of                                 *)
(* src/monitor/web/js/materialize.js: the links of the sections in view    *)
(* are followed while the window scrolls, and one of them is active.  dom, *)
(* calls and events are as in Collapsible.  Sections are numbered as they  *)
(* were given; which of them are in view is any set of them.               *)
(***************************************************************************)
EXTENDS Integers, Sequences, SequencesExt, Animations

CONSTANTS Count, MaxEvents

VARIABLES dom, calls, events
vars == <<dom, calls, events>>

Sections == 1 .. Count

Init ==
    /\ dom = [view |-> {},              \* sections that lie in the window
              flat |-> {},              \* sections of no height
              elementsInView |-> {},
              ticked |-> {},            \* sections with a number as scrollSpy:ticks
              visible |-> <<>>,
              marked |-> {},            \* sections whose link has the class active
              later |-> FALSE,          \* throttle: `timeout' is set
              collapsed |-> FALSE]      \* a section has lost its height
    /\ calls = <<Call("timeout", "page", 0, "scan")>>
    /\ events = MaxEvents

(* $.grep of those that have a height *)
High(d) == Without(d.visible, d.flat)
FirstOf(visible) == IF visible = <<>> THEN <<>> ELSE <<Head(visible)>>

(* The scrollSpy:enter handler: the section comes first if it stands       *)
(* before the first, and last otherwise.                                   *)
Enter(d, e) ==
    LET visible == High(d)
        with == IF visible = <<>> THEN <<e>>
                ELSE IF e < Head(visible) THEN <<e>> \o visible ELSE Append(visible, e)
    IN  [d EXCEPT !.visible = with,
                  !.marked = (@ \ ToSet(FirstOf(visible))) \cup {Head(with)}]

(* The scrollSpy:exit handler *)
Exit(d, e) ==
    LET visible == High(d)
        without == Without(visible, {e})
    IN  IF visible = <<>> THEN [d EXCEPT !.visible = <<>>]
        ELSE [d EXCEPT !.visible = without,
                       !.marked = (@ \ {Head(visible)}) \cup ToSet(FirstOf(without))]

(* onScroll(): who came into view is told first, then who went.            *)
OnScroll(d) ==
    LET hits == d.view \ d.flat           \* findElements()
        came == hits \ d.ticked
        gone == (d.elementsInView \cap d.ticked) \ hits
        entered[n \in 0 .. Count] ==
            IF n = 0 THEN d ELSE IF n \in came THEN Enter(entered[n - 1], n) ELSE entered[n - 1]
        exited[n \in 0 .. Count] ==
            IF n = 0 THEN entered[Count]
            ELSE IF n \in gone THEN Exit(exited[n - 1], n) ELSE exited[n - 1]
    IN  [exited[Count] EXCEPT !.ticked = (@ \cup hits) \ gone, !.elementsInView = hits]

Wait == Call("timeout", "throttle", 100, "wait")
Waiting(cs) == Pending(cs, "throttle", "wait")

(* The throttled function runs at once, or once more when the wait is over.*)
Throttled(d, cs) ==
    IF Waiting(cs) THEN [dom |-> [d EXCEPT !.later = TRUE], calls |-> cs]
    ELSE [dom |-> OnScroll(d), calls |-> Append(cs, Wait)]

Become(s) == dom' = s.dom /\ calls' = s.calls

(* The window scrolls or is resized. *)
ScrollTo(view) == Become(Throttled([dom EXCEPT !.view = view], calls))

(* A section loses its height, which nobody is told of. *)
Collapse(s) ==
    /\ dom' = [dom EXCEPT !.flat = @ \cup {s}, !.collapsed = TRUE]
    /\ UNCHANGED calls

(* The scan of the beginning; the end of the wait, with later() or not.    *)
Scan(k) == calls[k].then = "scan" /\ Become(Throttled(dom, Ended(calls, k)))

WaitEnds(k) ==
    /\ calls[k].then = "wait"
    /\ IF dom.later
       THEN dom' = OnScroll([dom EXCEPT !.later = FALSE]) /\ calls' = Append(Ended(calls, k), Wait)
       ELSE dom' = dom /\ calls' = Ended(calls, k)

End(k) == MayEnd(calls, k) /\ (Scan(k) \/ WaitEnds(k)) /\ UNCHANGED events

Next ==
    \/ /\ events > 0 /\ events' = events - 1
       /\ (\E view \in SUBSET Sections : ScrollTo(view)) \/ \E s \in Sections : Collapse(s)
    \/ \E k \in DOMAIN calls : End(k)

Spec == Init /\ [][Next]_vars
-----------------------------------------------------------------------------
(* Properties *)

Settled == calls = <<>>

(* However scrolling and the throttle fall together, in the end the list   *)
(* of visible sections is what is in the window, and exactly the first of  *)
(* the list has its link active.  (A section that has lost its height is   *)
(* taken off the list while its link stays active.)                        *)
ShownAsMarked ==
    Settled /\ ~dom.collapsed =>
        /\ ToSet(dom.visible) = dom.view /\ IsInjective(dom.visible)
        /\ dom.marked = ToSet(FirstOf(dom.visible))

(* Sections are told alternately that they come and that they go: those on *)
(* the list are the ones told last that they came.                         *)
Told == ~dom.collapsed => ToSet(dom.visible) = dom.ticked
=============================================================================
