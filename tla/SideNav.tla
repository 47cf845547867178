------------------------------- MODULE SideNav -------------------------------
(***************************************************************************)
(* $.fn.sideNav of src/monitor/web/js/materialize.js: a menu that comes in *)
(* over the page, from its button or by a pan, with overlays that close    *)
(* it.  dom, calls and events are as in Collapsible.                       *)
(*                                                                         *)
(* Both edges behave alike.  A menu that is fixed on wide windows and the  *)
(* closing by its items are left out.                                      *)
(***************************************************************************)
EXTENDS Integers, Sequences, SequencesExt, Animations

CONSTANTS MaxOverlays, MaxEvents

VARIABLES dom, calls, events
vars == <<dom, calls, events>>

Init ==
    /\ \E draggable \in BOOLEAN :
          dom = [draggable |-> draggable,
                 menuOut |-> FALSE,
                 menu |-> "in",          \* where the last animation has left it
                 overlays |-> <<>>,      \* #sidenav-overlay elements in the body
                 made |-> <<>>,          \* how each of the overlays made came to be
                 locked |-> FALSE,       \* the body's overflow
                 panning |-> FALSE,      \* between pan and panend
                 bound |-> TRUE,         \* not destroyed
                 hurried |-> FALSE]      \* touched while something moves
    /\ calls = <<>> /\ events = MaxEvents

Moving == calls # <<>> \/ dom.panning

Vel(el, dur, then) == Call("velocity", el, dur, then)

(* $('#sidenav-overlay') finds the first of them. *)
FirstOverlay == IF dom.overlays = <<>> THEN <<>> ELSE <<Head(dom.overlays)>>
Fade(os, dur, then) == [k \in DOMAIN os |-> Vel(os[k], dur, then)]

(* removeMenu(); `more' is what its caller animates besides. *)
RemoveMenu(more) ==
    /\ dom' = [dom EXCEPT !.menuOut = FALSE, !.locked = FALSE,
                          !.hurried = @ \/ Moving]
    /\ calls' = calls \o Fade(FirstOverlay, 200, "removed") \o <<Vel("menu", 200, "in")>> \o more

NewOverlay == Len(dom.made) + 1

(* The click.sidenav handler, and show: menuOut comes with the end of the  *)
(* fading in, so another click before that opens once more.                *)
Click ==
    /\ dom.bound
    /\ \/ dom.menuOut /\ RemoveMenu(<<>>)
       \/ /\ ~dom.menuOut /\ Len(dom.made) < MaxOverlays
          /\ dom' = [dom EXCEPT !.overlays = Append(@, NewOverlay),
                                !.made = Append(@, "click"),
                                !.locked = TRUE, !.hurried = @ \/ Moving]
          /\ calls' = calls \o <<Vel("menu", 300, "out"), Vel(NewOverlay, 300, "opened")>>

(* A click on an overlay, the last one lying on top; hide clicks the first *)
(* one.  An overlay that the button made fades by itself as well.          *)
ClickOverlay(o) ==
    /\ dom.overlays # <<>> /\ o \in {Head(dom.overlays), Last(dom.overlays)}
    /\ RemoveMenu(IF dom.made[o] = "click" THEN <<Vel(o, 300, "removed")>> ELSE <<>>)

ClickDragTarget == dom.draggable /\ dom.bound /\ dom.menuOut /\ RemoveMenu(<<>>)

(* pan: it takes the overlay there is, if only for a moment more.          *)
Pan ==
    /\ dom.draggable /\ dom.bound
    /\ dom.overlays = <<>> => Len(dom.made) < MaxOverlays
    /\ \E menuOut \in BOOLEAN :
          dom' = [dom EXCEPT !.overlays = IF @ = <<>> THEN <<NewOverlay>> ELSE @,
                             !.made = IF dom.overlays = <<>> THEN Append(@, "pan") ELSE @,
                             !.locked = TRUE, !.menuOut = menuOut, !.panning = TRUE,
                             !.hurried = @ \/ calls # <<>>]
    /\ UNCHANGED calls

(* panend: a menu that is flung back closes whatever menuOut says, and     *)
(* menuOut stays as it is.                                                 *)
PanEnd ==
    /\ dom.panning
    /\ \E fling \in {"none", "open", "close"} :
          LET opens == (dom.menuOut /\ fling # "close") \/ fling = "open"
          IN  IF opens
              THEN /\ dom' = [dom EXCEPT !.panning = FALSE, !.menuOut = TRUE,
                                         !.hurried = @ \/ calls # <<>>]
                   /\ calls' = Append(calls, Vel("menu", 300, "out"))
              ELSE /\ dom' = [dom EXCEPT !.panning = FALSE, !.locked = FALSE,
                                         !.hurried = @ \/ calls # <<>>]
                   /\ calls' = calls \o <<Vel("menu", 200, "in")>>
                                     \o Fade(FirstOverlay, 200, "removed")

(* destroy: the first overlay is clicked and removed at once. *)
Destroy ==
    /\ dom.bound
    /\ IF dom.overlays = <<>> THEN dom' = [dom EXCEPT !.bound = FALSE, !.hurried = @ \/ Moving]
                                  /\ UNCHANGED calls
       ELSE /\ dom' = [dom EXCEPT !.bound = FALSE, !.panning = FALSE, !.menuOut = FALSE,
                                  !.locked = FALSE, !.overlays = Tail(@),
                                  !.hurried = @ \/ Moving]
            /\ calls' = calls \o Fade(FirstOverlay, 200, "removed") \o <<Vel("menu", 200, "in")>>

End(k) ==
    /\ MayEnd(calls, k)
    /\ LET c == calls[k]
       IN  dom' = CASE c.then = "opened" -> [dom EXCEPT !.menuOut = TRUE]
                    [] c.then = "removed" -> [dom EXCEPT !.overlays = Without(@, {c.el})]
                    [] OTHER -> [dom EXCEPT !.menu = c.then]
    /\ calls' = Ended(calls, k)
    /\ UNCHANGED events

Next ==
    \/ /\ events > 0 /\ events' = events - 1
       /\ \/ Click \/ ClickDragTarget \/ Pan \/ PanEnd \/ Destroy
          \/ \E o \in DOMAIN dom.made : ClickOverlay(o)
    \/ \E k \in DOMAIN calls : End(k)

Spec == Init /\ [][Next]_vars
-----------------------------------------------------------------------------
(* Properties *)

Settled == calls = <<>> /\ ~dom.panning

(* Touched only at rest, the menu, the overlay and the locked page come    *)
(* and go together, also when menuOut has been left wrong by a fling.      *)
(* Touched at any time, but without pans, a page that cannot be scrolled   *)
(* has an overlay to click.                                                *)
NothingLeftBehind ==
    /\ Settled /\ ~dom.hurried =>
          /\ dom.locked <=> dom.menu = "out"
          /\ dom.locked <=> dom.overlays # <<>>
    /\ ~dom.draggable /\ dom.locked => dom.overlays # <<>>
=============================================================================
