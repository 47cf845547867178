------------------------------- MODULE Tooltip -------------------------------
(***************************************************************************)
(* $.fn.tooltip of src/monitor/web/js/materialize.js: a text that appears  *)
(* some time after the mouse has come over its element and disappears some *)
(* time after it has left.  dom, calls and events are as in Collapsible.   *)
(* Where it appears is left out.                                           *)
(***************************************************************************)
EXTENDS Integers, Sequences, Animations

CONSTANTS Delays, MaxEvents   \* values of data-delay

VARIABLES dom, calls, events
vars == <<dom, calls, events>>

Init ==
    /\ \E delay \in Delays :
          dom = [delay |-> delay, attached |-> TRUE,
                 over |-> FALSE,        \* the mouse
                 started |-> FALSE, visible |-> FALSE]
    /\ calls = <<>> /\ events = MaxEvents

(* mouseenter: timeoutRef is the time-out of showTooltip. *)
MouseEnter ==
    /\ dom.attached /\ ~dom.over
    /\ dom' = [dom EXCEPT !.over = TRUE]
    /\ calls' = Append(calls, Call("timeout", "tooltip", dom.delay, "show"))

(* Mutant of MouseLeave: the text that is to appear is not called off. *)
MouseLeaveOnly ==
    /\ dom.attached /\ dom.over
    /\ dom' = [dom EXCEPT !.over = FALSE, !.started = FALSE]
    /\ calls' = Append(calls, Call("timeout", "tooltip", 225, "hide"))

(* mouseleave: timeoutRef is cleared, and the text goes later on unless it *)
(* has been asked for again.                                               *)
MouseLeave ==
    /\ dom.attached /\ dom.over
    /\ dom' = [dom EXCEPT !.over = FALSE, !.started = FALSE]
    /\ calls' = Append(Cleared(calls, "show"), Call("timeout", "tooltip", 225, "hide"))

(* tooltip('remove') *)
RemoveTooltip ==
    /\ dom.attached /\ dom' = [dom EXCEPT !.attached = FALSE]
    /\ UNCHANGED calls

(* showTooltip() stops the animations that hide it. *)
Show(k) ==
    /\ dom' = [dom EXCEPT !.started = TRUE, !.visible = TRUE]
    /\ calls' = Stopped(Ended(calls, k), "velocity", "tooltip")

(* The time-out of mouseleave *)
Hide(k) ==
    /\ UNCHANGED dom
    /\ calls' = IF dom.started THEN Ended(calls, k)
                ELSE Append(Ended(calls, k), Call("velocity", "tooltip", 225, "hidden"))

Hidden(k) ==
    /\ dom' = [dom EXCEPT !.visible = FALSE, !.started = FALSE]
    /\ calls' = Ended(calls, k)

End(k) ==
    /\ MayEnd(calls, k)
    /\ \/ calls[k].then = "show" /\ Show(k)
       \/ calls[k].then = "hide" /\ Hide(k)
       \/ calls[k].then = "hidden" /\ Hidden(k)
    /\ UNCHANGED events

Next ==
    \/ /\ events > 0 /\ events' = events - 1
       /\ MouseEnter \/ MouseLeave \/ RemoveTooltip
    \/ \E k \in DOMAIN calls : End(k)

Spec == Init /\ [][Next]_vars
-----------------------------------------------------------------------------
(* Properties *)

Settled == calls = <<>>

(* However fast the mouse comes and goes, be the delay shorter or longer   *)
(* than the 225 ms of hiding, in the end the text is seen if the mouse is  *)
(* over the element and not otherwise.                                     *)
ShownAsMarked == Settled /\ dom.attached => (dom.visible <=> dom.over)
=============================================================================
