-------------------------------- MODULE Chips --------------------------------
(***************************************************************************)
(* $.fn.material_chip of src/monitor/web/js/materialize.js: a line of      *)
(* chips with an input, and the data they stand for.  dom, calls and       *)
(* events are as in Collapsible; nothing is animated.  Images and the      *)
(* placeholders are left out.                                              *)
(***************************************************************************)
EXTENDS Integers, Sequences, FiniteSets, SequencesExt, Filtering

CONSTANTS Tags, MaxChips, MaxEvents

VARIABLES dom, calls, events
vars == <<dom, calls, events>>

Empty == "empty tag"

(* renderChip() makes nothing of an empty tag. *)
Rendered(data) == Without(data, {Empty})

Init ==
    /\ \E data \in BoundedSeq(Tags \cup {Empty}, 2) :
          dom = [data |-> data, chips |-> Rendered(data),
                 gaps |-> Empty \in ToSet(data),
                 selected |-> {},      \* indexes of chips, from 0 as in the page
                 focus |-> FALSE]      \* of the input
    /\ calls = <<>> /\ events = MaxEvents

Length == Len(dom.chips)
Chips == 0 .. Length - 1

(* Mutant of DataWithout: by the index counted from one. *)
DataWithoutNext(i) == IF i + 1 < Len(dom.data) THEN RemoveAt(dom.data, i + 2) ELSE dom.data

DataWithout(i) == IF i < Len(dom.data) THEN RemoveAt(dom.data, i + 1) ELSE dom.data

(* deleteChip(): the data at the index of the chip. *)
Deleted(i) ==
    [dom EXCEPT !.data = DataWithout(i), !.chips = RemoveAt(@, i + 1),
                !.selected = {IF j > i THEN j - 1 ELSE j : j \in @ \ {i}}]

(* addChip() of a tag that is valid: not empty and not there already       *)
Add(tag) ==
    /\ dom.focus /\ Length < MaxChips
    /\ dom' = IF tag = Empty \/ tag \in ToSet(dom.data) THEN dom
              ELSE [dom EXCEPT !.data = Append(@, tag), !.chips = Append(@, tag)]

(* focusin of the input; a click on a chip takes the focus away.           *)
Focus == dom' = [dom EXCEPT !.focus = TRUE, !.selected = {}]

(* click.chips-select *)
Click(i) ==
    dom' = [dom EXCEPT !.focus = FALSE, !.selected = IF i \in @ THEN {} ELSE {i}]

(* click.chips-delete, after which the input is focused *)
ClickDelete(i) == dom' = [Deleted(i) EXCEPT !.focus = TRUE, !.selected = {}]

(* Delete in the page: `length' counts the other chips. *)
DeleteKey(i) ==
    LET length == Length - 1
        selectIndex == IF i + 1 < length THEN {i}
                       ELSE IF i \in {length, length - 1} /\ length > 0 THEN {length - 1} ELSE {}
        d == Deleted(i)
    IN  dom' = [d EXCEPT !.selected = @ \cup selectIndex, !.focus = length = 0]

LeftKey(i) == i > 0 /\ dom' = [dom EXCEPT !.selected = {i - 1}]
RightKey(i) ==
    dom' = IF i + 1 > Length - 1 THEN [dom EXCEPT !.selected = {}, !.focus = TRUE]
           ELSE [dom EXCEPT !.selected = {i + 1}]

(* Delete or left in an empty input: the last chip is selected.            *)
BackIntoChips ==
    /\ dom.focus /\ Length > 0
    /\ dom' = [dom EXCEPT !.selected = @ \cup {Length - 1}, !.focus = FALSE]

(* keydown.chips works on the chip that is selected. *)
Key == ~dom.focus /\ \E i \in dom.selected : DeleteKey(i) \/ LeftKey(i) \/ RightKey(i)

Next ==
    /\ events > 0 /\ events' = events - 1 /\ UNCHANGED calls
    /\ \/ Focus \/ Key \/ BackIntoChips
       \/ \E tag \in Tags \cup {Empty} : Add(tag)
       \/ \E i \in Chips : Click(i) \/ ClickDelete(i)

Spec == Init /\ [][Next]_vars
-----------------------------------------------------------------------------
(* Properties *)

(* The data that is read back are the chips that are seen, in their order, *)
(* unless there were empty tags from the beginning.                        *)
DataMatchesView == ~dom.gaps => dom.data = dom.chips

(* At most one chip is selected, it is there, and none is while the input  *)
(* has the focus: the arrow keys and deletions need not look for more.     *)
OneSelected ==
    /\ Cardinality(dom.selected) <= 1 /\ dom.selected \subseteq Chips
    /\ dom.focus => dom.selected = {}
=============================================================================
