------------------------------ MODULE Dropdown -------------------------------
(***************************************************************************)
(* $.fn.dropdown of src/monitor/web/js/materialize.js: a button, its menu  *)
(* and the handler on the document that hides the menu again.  dom, calls  *)
(* and events are as in Collapsible.                                       *)
(*                                                                         *)
(* Where the menu stands is left out, but for the alignment to the right,  *)
(* which ends the animations in progress.                                  *)
(***************************************************************************)
EXTENDS Integers, Sequences, Animations

CONSTANT MaxEvents

VARIABLES dom, calls, events
vars == <<dom, calls, events>>

Fresh(hover, right, scripts) ==
    [hover |-> hover,       \* curr_options.hover
     right |-> right,       \* whether placeDropdown() aligns it to the right
     scripts |-> scripts,   \* whether 'open' and 'close' are triggered by programs
     isFocused |-> FALSE, active |-> FALSE, menu |-> "hidden",
     docClick |-> 0,        \* handlers of click.<id> on the document
     early |-> FALSE,       \* for the properties: hidden last when one was yet to be added
     open |-> FALSE]        \* the hover handlers' variable

Init ==
    /\ \E hover, right, scripts \in BOOLEAN : dom = Fresh(hover, right, scripts)
    /\ calls = <<>> /\ events = MaxEvents

Menu(dur, then) == Call("jquery", "menu", dur, then)

(* stop(true, true): the animations jump to their ends. *)
Finish(s) ==
    [dom |-> [s.dom EXCEPT !.menu = CASE @ = "opening" -> "shown"
                                      [] @ = "closing" -> "hidden"
                                      [] OTHER -> @],
     calls |-> Stopped(s.calls, "jquery", "menu")]

(* slideDown() has nothing to do when the menu can be seen, be it on its   *)
(* way out; that animation goes on.                                        *)
SlideDown(s) ==
    IF s.dom.menu = "hidden"
    THEN [dom |-> [s.dom EXCEPT !.menu = "opening"], calls |-> Append(s.calls, Menu(300, "shown"))]
    ELSE s

FadeOut(s) ==
    IF s.dom.menu \in {"opening", "shown"}
    THEN [dom |-> [s.dom EXCEPT !.menu = "closing"], calls |-> Append(s.calls, Menu(225, "hidden"))]
    ELSE s

Activated(d, eventType) ==
    [d EXCEPT !.active = TRUE, !.isFocused = @ \/ eventType = "focus"]

(* placeDropdown(): the document's handler is added by a time-out of 0, so *)
(* that the click that opens the menu does not close it.                   *)
PlaceDropdown(s, eventType) ==
    LET marked == [s EXCEPT !.dom = Activated(@, eventType)]
        shown == SlideDown(IF s.dom.right THEN Finish(marked) ELSE marked)
    IN  [shown EXCEPT !.calls = Append(@, Call("timeout", "document", 0, "listen"))]

Listening(cs) == \E k \in DOMAIN cs : cs[k].then = "listen"

(* A handler that its time-out has not added yet is not taken off.         *)
HideDropdown(s) ==
    FadeOut([s EXCEPT !.dom = [@ EXCEPT !.isFocused = FALSE, !.active = FALSE, !.docClick = 0,
                                        !.early = Listening(s.calls)]])

Now == [dom |-> dom, calls |-> calls]
Become(s) == dom' = s.dom /\ calls' = s.calls

(* The document's handlers: the first one takes all of them off.           *)
Bubble(s) == IF s.dom.docClick > 0 THEN HideDropdown(s) ELSE s

(* A click on the button: its handler, then, unless that is stopped, the   *)
(* document's ones.                                                        *)
ClickOrigin ==
    \/ (dom.hover \/ dom.isFocused) /\ Become(Bubble(Now))
    \/ ~(dom.hover \/ dom.isFocused) /\ dom.active /\ Become(Bubble(HideDropdown(Now)))
    \/ /\ ~(dom.hover \/ dom.isFocused \/ dom.active)
       /\ \/ Become(Bubble(PlaceDropdown(Now, "click")))
          \/ Become(PlaceDropdown(Now, "click"))   \* stopPropagation

ClickElsewhere == Become(Bubble(Now))

(* mouseenter and mouseleave of a menu that opens on hover *)
MouseEnter ==
    /\ dom.hover /\ ~dom.open
    /\ LET s == PlaceDropdown(Now, "hover") IN Become([s EXCEPT !.dom.open = TRUE])

MouseLeave ==
    /\ dom.hover
    /\ LET s == HideDropdown(Finish(Now)) IN Become([s EXCEPT !.dom.open = FALSE])

(* trigger('open') and trigger('close'), from any task *)
Trigger ==
    /\ dom.scripts
    /\ \/ \E eventType \in {"focus", "none"} : Become(PlaceDropdown(Now, eventType))
       \/ Become(HideDropdown(Now))

End(k) ==
    /\ MayEnd(calls, k)
    /\ calls' = Ended(calls, k)
    /\ dom' = CASE calls[k].then = "listen" -> [dom EXCEPT !.docClick = @ + 1]
                [] calls[k].then = "shown" /\ dom.menu = "opening" -> [dom EXCEPT !.menu = "shown"]
                [] calls[k].then = "hidden" -> [dom EXCEPT !.menu = "hidden"]
                [] OTHER -> dom
    /\ UNCHANGED events

Next ==
    \/ /\ events > 0 /\ events' = events - 1
       /\ ClickOrigin \/ ClickElsewhere \/ MouseEnter \/ MouseLeave \/ Trigger
    \/ \E k \in DOMAIN calls : End(k)

Spec == Init /\ [][Next]_vars
-----------------------------------------------------------------------------
(* Properties *)

Settled == calls = <<>>

(* A menu that is aligned to the right, and so ends the animations before  *)
(* its own, comes to rest shown exactly when its button is active.  Others *)
(* may be opened while they fade out and stay active and hidden.           *)
ShownAsMarked == dom.right /\ Settled => (dom.menu # "hidden" <=> dom.active)

(* An open menu can be closed by a click anywhere; a closed one has a      *)
(* handler on the document only if it was closed before the time-out that  *)
(* adds it.                                                                *)
NothingLeftBehind ==
    Settled => IF dom.active THEN dom.docClick > 0 ELSE dom.docClick > 0 => dom.early
=============================================================================
