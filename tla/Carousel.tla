------------------------------ MODULE Carousel -------------------------------
(***************************************************************************)
(* $.fn.carousel of src/monitor/web/js/materialize.js: Count items Dim     *)
(* units apart on a line that may wrap around, turned by the mouse, by     *)
(* indicators and by the methods next, prev and set.  dom, calls and       *)
(* events are as in Collapsible.                                           *)
(*                                                                         *)
(* A frame of autoScroll() leaves any part of the amplitude to the target: *)
(* how the exponential decays is left out, as are the sizes of the items,  *)
(* but for the padding between them, the class `scrolling', and the second *)
(* initialisation, which turns by a millionth of an item to draw it again. *)
(***************************************************************************)
EXTENDS Integers, Sequences, FiniteSets, Animations

CONSTANTS
    Count, Dim, MaxEvents,
    Paddings,     \* parts of Dim that are not the item's
    MaxPull       \* bounds a move of the mouse

VARIABLES dom, calls, events
vars == <<dom, calls, events>>

Items == 0 .. Count - 1
Undefined == -1000

(* The remainder of JavaScript has the sign of the dividend. *)
Rem(x, n) == IF x >= 0 THEN x % n ELSE -((-x) % n)

(* wrap() *)
Wrap(x) == IF x >= Count THEN Rem(x, Count)
           ELSE IF x < 0 THEN (Count + Rem(x, Count)) % Count ELSE x

(* Math.floor((x + dim / 2) / dim), and Math.round(x / dim) *)
Round(x) == (2 * x + Dim) \div (2 * Dim)

(* .eq(): a negative index counts from the end. *)
Eq(x) == IF x < 0 THEN Count + x ELSE x

(* scroll(): the indicator and the item of the new centre become active.   *)
(* The callbacks are left out.                                             *)
Scroll(d, x) ==
    LET centre == Round(x)
        seen == ~d.noWrap \/ centre \in Items
    IN  [d EXCEPT !.offset = x, !.center = centre,
                  !.indicator = Eq(Rem(centre, Count)),
                  !.active = IF seen THEN Wrap(centre) ELSE @]

Init ==
    /\ \E noWrap, fullWidth \in BOOLEAN, padding \in Paddings :
          dom = Scroll([noWrap |-> noWrap, fullWidth |-> fullWidth, padding |-> padding,
                        offset |-> 0, target |-> 0, center |-> Undefined,
                        amplitude |-> 0,
                        pressed |-> FALSE, dragged |-> FALSE,
                        indicator |-> 0, active |-> 0,
                        \* for the properties: the item asked for since the last gesture,
                        \* whether it was sent out of a line without wrap last, and
                        \* whether a resize has forgotten a padding
                        wanted |-> Undefined, beyond |-> FALSE, shifted |-> FALSE], 0)
    /\ calls = <<>> /\ events = MaxEvents

Frame == Call("frame", "carousel", 0, "autoScroll")

(* carouselNext and carouselPrev by n items: the target is counted from    *)
(* the item that is nearest now.                                           *)
Turn(d, n) ==
    LET target == Dim * (Round(d.offset) + n)
    IN  [d EXCEPT !.target = target, !.amplitude = IF d.offset # target THEN target - d.offset ELSE @,
                  !.beyond = d.noWrap /\ Round(d.offset) + n \notin Items]

Start(from, d) == IF from.offset # d.target THEN Append(calls, Frame) ELSE calls

Method(n) ==
    LET d == Turn([dom EXCEPT !.wanted = Undefined], n)
    IN  dom' = d /\ calls' = Start(dom, d)

(* Mutant of Way: the remainder is taken to be positive. *)
WayFromWrapped(n) ==
    LET diff == Rem(dom.center, Count) - n
    IN  IF dom.noWrap THEN -diff
        ELSE IF diff < 0 /\ Count + diff < -diff THEN -(diff + Count + 1)
        ELSE IF diff > 0 /\ Count - diff < diff THEN Count - diff
        ELSE -diff

(* How far item n is, the shorter way around: Math.abs(diff + count) and   *)
(* Math.abs(diff - count) are compared with the direct way.                *)
Abs(x) == IF x < 0 THEN -x ELSE x
Way(n) ==
    LET diff == Rem(dom.center, Count) - n
    IN  IF ~dom.noWrap /\ diff < 0 /\ Abs(diff + Count) < Abs(diff) THEN -(diff + Count)
        ELSE IF ~dom.noWrap /\ diff > 0 /\ Abs(diff - Count) < diff THEN -(diff - Count)
        ELSE -diff

(* cycleTo(), from an indicator, a click or the method set.  Asked for the *)
(* item at the centre it does nothing, even on the way to another one.     *)
CycleTo(n) ==
    /\ LET d == Turn([dom EXCEPT !.wanted = IF n \in Items THEN n ELSE Undefined], Way(n))
       IN  IF Way(n) = 0 THEN UNCHANGED <<dom, calls>> ELSE dom' = d /\ calls' = Start(dom, d)

(* A click on an item, or in the view outside all of them (-1), unless the *)
(* mouse was dragged                                                       *)
Click(n) == ~dom.dragged /\ ~dom.fullWidth /\ CycleTo(n)

(* tap() stops the movement. *)
Tap ==
    /\ dom' = [dom EXCEPT !.pressed = TRUE, !.dragged = FALSE, !.amplitude = 0,
                          !.wanted = Undefined]
    /\ UNCHANGED calls

(* drag(), not vertical and by more than two pixels *)
Drag ==
    /\ dom.pressed
    /\ \E pull \in (-MaxPull .. MaxPull) \ {0} :
          LET x == dom.offset + pull
          IN  dom' = Scroll([dom EXCEPT !.dragged = TRUE], x)
    /\ UNCHANGED calls

(* Without wrap release() stays in the line. *)
Clamp(x) ==
    IF ~dom.noWrap THEN x
    ELSE IF x >= Dim * (Count - 1) THEN Dim * (Count - 1) ELSE IF x < 0 THEN 0 ELSE x

(* release(): the speed carries it further. *)
Release ==
    /\ dom.pressed
    /\ \E speed \in {-MaxPull, 0, MaxPull} :
          LET target == Clamp(Dim * Round(dom.offset + speed))
          IN  dom' = [dom EXCEPT !.pressed = FALSE, !.target = target,
                                 !.wanted = Undefined, !.beyond = FALSE,
                                 !.amplitude = target - dom.offset]
    /\ calls' = Append(calls, Frame)

(* The throttled handler of resize; with full width the offset is set to   *)
(* the centre's, as if nothing lay between the items.                      *)
Resize ==
    /\ LET x == (Dim - dom.padding) * dom.center
       IN  dom' = IF dom.fullWidth
                  THEN [dom EXCEPT !.offset = x, !.target = x, !.wanted = Undefined,
                                   !.beyond = dom.noWrap /\ dom.center \notin Items,
                                   !.shifted = @ \/ dom.padding > 0]
                  ELSE Scroll(dom, dom.offset)
    /\ UNCHANGED calls

(* autoScroll(): nothing when amplitude is 0. *)
AutoScroll(k) ==
    /\ MayEnd(calls, k)
    /\ IF dom.amplitude = 0 THEN dom' = dom /\ calls' = Ended(calls, k)
       ELSE \/ dom' = Scroll(dom, dom.target) /\ calls' = Ended(calls, k)
            \/ /\ \E delta \in (1 .. dom.amplitude - 1) \cup (dom.amplitude + 1 .. -1) :
                     dom' = Scroll(dom, dom.target - delta)
               /\ calls' = Append(Ended(calls, k), Frame)
    /\ UNCHANGED events

Next ==
    \/ /\ events > 0 /\ events' = events - 1
       /\ \/ \E n \in Items : CycleTo(n)
          \/ \E n \in Items \cup {-1} : Click(n)
          \/ \E n \in {-1, 1} : Method(n)
          \/ Tap \/ Drag \/ Release \/ Resize
    \/ \E k \in DOMAIN calls : AutoScroll(k)

Spec == Init /\ [][Next]_vars
-----------------------------------------------------------------------------
(* Properties *)

Settled == calls = <<>> /\ ~dom.pressed

(* Nobody has sent a line without wrap past its end last (the methods next *)
(* and prev do, and a click outside every item, which asks for the one     *)
(* before the first), and no resize has forgotten a padding.               *)
OnTrack == ~dom.beyond /\ ~dom.shifted

(* The carousel comes to rest on an item, not between two, and on the one  *)
(* that was asked for last, whichever way around and from however far it   *)
(* had been turned.  Without wrap it is one of the line, also after the    *)
(* mouse has pulled it past the end.                                       *)
InRange ==
    Settled /\ OnTrack =>
        /\ dom.offset = Dim * dom.center
        /\ dom.wanted # Undefined => Wrap(dom.center) = dom.wanted
        /\ dom.noWrap => dom.center \in Items

(* At rest the marked indicator is the active item's, though one comes     *)
(* from the remainder, which may be negative, and the other from wrap(); a *)
(* line without wrap must be on its track.                                 *)
ShownAsMarked == Settled /\ (dom.noWrap => OnTrack) => dom.indicator = dom.active
=============================================================================
