----------------------------- MODULE Autocomplete -----------------------------
(***************************************************************************)
(* $.fn.autocomplete of src/monitor/web/js/materialize.js: the entries of  *)
(* `Data' in which what is typed occurs, shown under an input.  dom, calls *)
(* and events are as in Collapsible; nothing is animated.  Images and the  *)
(* highlighted part of an entry are left out.                              *)
(***************************************************************************)
EXTENDS Integers, Sequences, FiniteSets, SequencesExt, Filtering

CONSTANTS Data, Values, Limit, MaxEvents   \* entries and values are sequences of letters

VARIABLES dom, calls, events
vars == <<dom, calls, events>>

Undefined == <<"undefined">>   \* nothing that can be typed
NoElement == -1

Init ==
    /\ dom = [value |-> <<>>, oldVal |-> Undefined,
              items |-> <<>>,                \* the li elements
              activeIndex |-> NoElement, active |-> {}]
    /\ calls = <<>> /\ events = MaxEvents

(* The first entries in which val occurs, the empty one being too short    *)
Occurs(val, key) ==
    \E i \in 0 .. Len(key) - Len(val) : SubSeq(key, i + 1, i + Len(val)) = val

Found(val) ==
    LET all == Without(Data, {key \in ToSet(Data) : val = <<>> \/ ~Occurs(val, key)})
    IN  IF Len(all) > Limit THEN SubSeq(all, 1, Limit) ELSE all

(* removeAutocomplete() *)
Removed == [dom EXCEPT !.items = <<>>, !.oldVal = Undefined,
                       !.activeIndex = NoElement, !.active = {}]

(* A key changes the input before it is let go. *)
Type(val) == dom' = [dom EXCEPT !.value = val]

(* keyup.autocomplete of another key than Enter and the arrows; focus      *)
Search ==
    dom' = IF dom.oldVal = dom.value THEN dom
           ELSE [Removed EXCEPT !.oldVal = dom.value, !.items = Found(dom.value)]

Blur == dom' = Removed

(* keydown.autocomplete of an arrow *)
MoveTo(index) ==
    dom' = [dom EXCEPT !.activeIndex = index,
                       !.active = IF index >= 0 THEN {index} ELSE {}]

Up == MoveTo(IF dom.activeIndex > 0 THEN dom.activeIndex - 1 ELSE dom.activeIndex)
Down == MoveTo(IF dom.activeIndex < Len(dom.items) - 1 THEN dom.activeIndex + 1
               ELSE dom.activeIndex)

(* mousedown.autocomplete of an entry, which Enter triggers as well        *)
Select(index) == dom' = [Removed EXCEPT !.value = dom.items[index + 1]]

Enter == dom.activeIndex >= 0 /\ dom.activeIndex < Len(dom.items) /\ Select(dom.activeIndex)

Next ==
    /\ events > 0 /\ events' = events - 1 /\ UNCHANGED calls
    /\ \/ Search \/ Blur \/ Up \/ Down \/ Enter
       \/ \E val \in Values : Type(val)
       \/ \E index \in 0 .. Len(dom.items) - 1 : Select(index)

Spec == Init /\ [][Next]_vars
-----------------------------------------------------------------------------
(* Properties *)

(* The index of the chosen entry is that of an entry that is shown, also   *)
(* after the list has become shorter, and the same entry is marked.        *)
InRange ==
    /\ dom.activeIndex \in NoElement .. Len(dom.items) - 1
    /\ dom.active = {dom.activeIndex} \ {NoElement}

(* The entries shown are those of the value that was last searched for.    *)
DataMatchesView ==
    dom.items = IF dom.oldVal = Undefined THEN <<>> ELSE Found(dom.oldVal)
=============================================================================
