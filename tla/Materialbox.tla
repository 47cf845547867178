----------------------------- MODULE Materialbox -----------------------------
(***************************************************************************)
(* $.fn.materialbox of src/monitor/web/js/materialize.js: an image that    *)
(* grows over the page and back, with its overlay, caption and exit        *)
(* handlers.  dom, calls and events are as in Collapsible.  Sizes and      *)
(* places are left out.                                                    *)
(***************************************************************************)
EXTENDS Integers, Sequences, Animations

CONSTANT MaxEvents

VARIABLES dom, calls, events
vars == <<dom, calls, events>>

Init ==
    /\ \E responsive, caption \in BOOLEAN :
          dom = [responsive |-> responsive,    \* class responsive-img
                 captioned |-> caption,        \* data-caption is not empty
                 overlayActive |-> FALSE, doneAnimating |-> TRUE,
                 active |-> FALSE,             \* class and styles of the image
                 ancestorsChanged |-> FALSE,   \* their overflow is overridden
                 overlay |-> FALSE, caption |-> FALSE,
                 handlers |-> FALSE]           \* scroll, resize and keyup of .materialbox
    /\ calls = <<>> /\ events = MaxEvents

Vel(el, dur, then) == Call("velocity", el, dur, then)

(* The image of class responsive-img gets its width in an animation of no  *)
(* length, whose end starts the one that the others start at once.         *)
Grow == Vel("image", 275, "grown")
GrowFirst == IF dom.responsive THEN Vel("image", 0, "grow") ELSE Grow

(* The click handler of an image that is where it belongs *)
Open ==
    /\ dom.doneAnimating /\ ~dom.overlayActive
    /\ dom' = [dom EXCEPT !.doneAnimating = FALSE, !.overlayActive = TRUE, !.active = TRUE,
                          !.ancestorsChanged = TRUE, !.overlay = TRUE,
                          !.caption = dom.captioned, !.handlers = TRUE]
    /\ calls' = Append(calls, GrowFirst)

(* returnToOriginal(): what moves is stopped, and the image, the overlay   *)
(* and the caption go back together, all ends in one tick of Velocity.     *)
ReturnToOriginal ==
    /\ dom' = [dom EXCEPT !.doneAnimating = FALSE, !.handlers = FALSE]
    /\ calls' = Append(Stopped(calls, "velocity", "image"), Vel("image", 200, "back"))

(* The click handler of an image that moves or is open *)
ClickAgain == (~dom.doneAnimating \/ dom.overlayActive) /\ ReturnToOriginal

ClickOverlay == dom.overlay /\ dom.doneAnimating /\ ReturnToOriginal

ScrollOrResize == dom.handlers /\ dom.overlayActive /\ ReturnToOriginal

Escape == dom.handlers /\ dom.doneAnimating /\ dom.overlayActive /\ ReturnToOriginal

End(k) ==
    /\ MayEnd(calls, k)
    /\ dom' = CASE calls[k].then = "grow" -> dom
                [] calls[k].then = "grown" -> [dom EXCEPT !.doneAnimating = TRUE]
                [] calls[k].then = "back" ->
                      [dom EXCEPT !.overlayActive = FALSE, !.overlay = FALSE, !.caption = FALSE,
                                  !.active = FALSE, !.ancestorsChanged = FALSE,
                                  !.doneAnimating = TRUE]
    /\ calls' = IF calls[k].then = "grow" THEN Append(Ended(calls, k), Grow) ELSE Ended(calls, k)
    /\ UNCHANGED events

Next ==
    \/ /\ events > 0 /\ events' = events - 1
       /\ Open \/ ClickAgain \/ ClickOverlay \/ ScrollOrResize \/ Escape
    \/ \E k \in DOMAIN calls : End(k)

Spec == Init /\ [][Next]_vars
-----------------------------------------------------------------------------
(* Properties *)

Settled == calls = <<>>

(* However often it is told to go back while it moves, at rest the image   *)
(* is either open with its overlay and exit handlers, or back with nothing *)
(* left of them, and answers clicks again.                                 *)
NothingLeftBehind ==
    Settled =>
        /\ dom.doneAnimating
        /\ dom.overlay = dom.active /\ dom.overlayActive = dom.active
        /\ dom.handlers = dom.active /\ dom.ancestorsChanged = dom.active
        /\ dom.caption = (dom.active /\ dom.captioned)
=============================================================================
