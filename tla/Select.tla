-------------------------------- MODULE Select --------------------------------
(***************************************************************************)
(* $.fn.material_select of src/monitor/web/js/materialize.js: a list of    *)
(* choices in place of a select element, with one choice or several.  dom, *)
(* calls and events are as in Collapsible; `calls' holds the time-outs     *)
(* that clear the letters typed.  That the list opens and closes is the    *)
(* work of Dropdown; here it takes no time.  Icons and groups are left out.*)
(***************************************************************************)
EXTENDS Integers, Sequences, FiniteSets, SequencesExt, Filtering, Animations

CONSTANTS Options, Disabled,   \* 0 .. n - 1 and those that cannot be chosen
          StartsWith(_, _),    \* option, letters typed
          Letters, MaxEvents

VARIABLES dom, calls, events
vars == <<dom, calls, events>>

NoOption == -1

(* setValueToInput(): the chosen ones, or the first that is disabled       *)
Shown(entries) ==
    IF entries # <<>> \/ Disabled = {} THEN entries
    ELSE <<CHOOSE i \in Disabled : \A j \in Disabled : i <= j>>

(* The page's choices: of several choices those that are not disabled are  *)
(* entered one by one; the browser has chosen one where there is only one. *)
Init ==
    /\ \E multiple \in BOOLEAN,
          entries \in BoundedSeq(Options \ Disabled, Cardinality(Options \ Disabled)) :
          LET chosen == ToSet(entries)
          IN  /\ \A j, k \in DOMAIN entries : j < k => entries[j] < entries[k]
              /\ multiple \/ Len(entries) = 1
              /\ dom = [multiple |-> multiple,
                        chosen |-> chosen,                   \* of the select element
                        valuesSelected |-> IF multiple THEN entries ELSE <<>>,
                        ticked |-> IF multiple THEN chosen ELSE {},
                        value |-> IF multiple /\ entries = <<>> THEN <<0>> ELSE entries,
                        selected |-> NoOption,               \* li.selected
                        open |-> FALSE, optionsHover |-> FALSE, focus |-> FALSE,
                        waiting |-> FALSE,                   \* click.select
                        filterQuery |-> <<>>]
    /\ calls = <<>> /\ events = MaxEvents

(* toggleEntryFromArray() *)
Toggled(d, i) ==
    LET notAdded == i \notin ToSet(d.valuesSelected)
        entries == IF notAdded THEN Append(d.valuesSelected, i)
                   ELSE Without(d.valuesSelected, {i})
    IN  [d EXCEPT !.valuesSelected = entries, !.value = Shown(entries),
                  !.ticked = IF notAdded THEN @ \cup {i} ELSE @ \ {i},
                  !.chosen = IF notAdded THEN @ \cup {i} ELSE @ \ {i}]

(* focus: the list opens at the option that the input shows.               *)
Focused(d) ==
    IF d.open THEN [d EXCEPT !.focus = TRUE]
    ELSE [d EXCEPT !.focus = TRUE, !.open = TRUE, !.waiting = TRUE,
                   !.selected = IF d.value = <<>> THEN @ ELSE Head(d.value)]

Blurred(d) ==
    [d EXCEPT !.focus = FALSE, !.selected = NoOption,
              !.open = @ /\ d.multiple, !.waiting = @ /\ d.multiple]

(* The click of an option; what is disabled does nothing.                  *)
Clicked(d, i) ==
    IF i \in Disabled THEN d
    ELSE IF d.multiple THEN [Focused(Toggled(d, i)) EXCEPT !.selected = i]
    ELSE [d EXCEPT !.value = <<i>>, !.ticked = {i}, !.chosen = {i}, !.selected = i]

Focus == ~dom.focus /\ dom' = Focused(dom) /\ UNCHANGED calls
Blur == dom.focus /\ dom' = Blurred(dom) /\ UNCHANGED calls
Hover == dom.open /\ dom' = [dom EXCEPT !.optionsHover = ~@] /\ UNCHANGED calls

(* The mouse takes the focus from the input before it clicks: an option of *)
(* a list that is still there.                                             *)
ClickOption(i) ==
    /\ dom.open /\ UNCHANGED calls
    /\ dom' = Clicked(IF dom.focus THEN Blurred(dom) ELSE dom, i)

(* click.select: a click anywhere else in the page, once                   *)
ClickWindow ==
    /\ dom.waiting /\ UNCHANGED calls
    /\ LET d == IF dom.focus THEN Blurred(dom) ELSE dom
       IN  dom' = [d EXCEPT !.waiting = FALSE,
                            !.open = @ /\ (~d.multiple \/ d.optionsHover)]

(* Keys that onKeyDown() leaves before the time-out: Tab, down and Enter   *)
TabKey == dom.focus /\ dom' = [dom EXCEPT !.open = FALSE] /\ UNCHANGED calls
OpenKey ==
    dom.focus /\ ~dom.open /\ dom' = [dom EXCEPT !.open = TRUE] /\ UNCHANGED calls

(* All others end in a time-out that clears the letters, also those of     *)
(* keys that come after them.                                              *)
Typed(d) ==
    /\ dom.focus
    /\ dom' = d /\ calls' = Append(calls, Call("timeout", "select", 1000, "clear"))

Activated(d, S) ==
    IF S = {} THEN d
    ELSE [d EXCEPT !.selected = CHOOSE i \in S : \A j \in S : i <= j]

LetterKey(letter) ==
    LET query == Append(dom.filterQuery, letter)
    IN  /\ Typed(Activated([dom EXCEPT !.filterQuery = query],
                           {i \in Options : StartsWith(i, query)}))

EnterKey ==
    /\ dom.open
    /\ Typed(IF dom.selected \in {NoOption} \cup Disabled THEN dom
             ELSE [Clicked(dom, dom.selected) EXCEPT !.open = dom.multiple])

(* The next one only, and only when it is not disabled                     *)
DownKey ==
    /\ dom.open
    /\ Typed(IF dom.selected = NoOption THEN Activated(dom, Options \ Disabled)
             ELSE Activated(dom, {dom.selected + 1} \cap (Options \ Disabled)))

UpKey == Typed(Activated(dom, IF dom.selected = NoOption THEN {}
                              ELSE {dom.selected - 1} \cap (Options \ Disabled)))
EscapeKey == Typed([dom EXCEPT !.open = FALSE])

ClearQuery(k) ==
    /\ MayEnd(calls, k) /\ calls[k].then = "clear"
    /\ dom' = [dom EXCEPT !.filterQuery = <<>>] /\ calls' = Ended(calls, k)
    /\ UNCHANGED events

Next ==
    \/ /\ events > 0 /\ events' = events - 1
       /\ \/ Focus \/ Blur \/ Hover \/ ClickWindow
          \/ TabKey \/ OpenKey \/ EnterKey \/ DownKey \/ UpKey \/ EscapeKey
          \/ \E i \in Options : ClickOption(i)
          \/ \E letter \in Letters : LetterKey(letter)
    \/ \E k \in DOMAIN calls : ClearQuery(k)

Spec == Init /\ [][Next]_vars
-----------------------------------------------------------------------------
(* Properties *)

(* The select element, from which the form takes the value, the list and   *)
(* the input show the same choices, in whichever way they were made.       *)
DataMatchesView ==
    /\ dom.chosen \cap Disabled = {}
    /\ dom.multiple =>
          /\ dom.chosen = ToSet(dom.valuesSelected) /\ dom.ticked = dom.chosen
          /\ dom.value = Shown(dom.valuesSelected)
    /\ ~dom.multiple => dom.chosen = ToSet(dom.value)
=============================================================================
