----------------------------- MODULE Collapsible -----------------------------
(***************************************************************************)
(* $.fn.collapsible of src/monitor/web/js/materialize.js: a list of items  *)
(* whose headers show and hide their bodies, one at a time in an accordion.*)
(*                                                                         *)
(* Like every widget's module this one has three variables: dom, its       *)
(* closure's variables with its part of the document; calls, the           *)
(* animations and time-outs it waits for; events, how many times somebody  *)
(* may still touch it.                                                     *)
(***************************************************************************)
EXTENDS Integers, Sequences, Animations

CONSTANTS Count, MaxEvents

VARIABLES dom, calls, events
vars == <<dom, calls, events>>

Items == 1 .. Count

(* Bodies are hidden before the headers marked active are opened. *)
Fresh(accordion, active) ==
    [accordion |-> accordion, bound |-> FALSE, methods |-> FALSE, active |-> active,
     body |-> [i \in Items |-> "hidden"],
     told |-> [i \in Items |-> "nothing"]]   \* the last callback about the item

Visible(d, i) == d.body[i] # "hidden"

(* execCallbacks() *)
Tell(d, i) == [d EXCEPT !.told[i] = IF i \in d.active THEN "open" ELSE "close"]

Slide(i, then) == Call("jquery", i, 350, then)

(* slideDown or slideUp of the item's own body, its animations stopped. *)
Own(d, cs, i) ==
    LET down == i \in d.active
        still == d.body[i] = IF down THEN "shown" ELSE "hidden"
        rest == Stopped(cs, "jquery", i)
    IN  [dom |-> IF still THEN d
                 ELSE [d EXCEPT !.body[i] = IF down THEN "opening" ELSE "closing"],
         calls |-> IF still THEN rest ELSE Append(rest, Slide(i, IF down THEN "shown" ELSE "hidden"))]

(* expandableOpen() touches the item alone; accordionOpen() takes active   *)
(* from the others and slides up those that can be seen: their callbacks   *)
(* come when they have closed.                                             *)
OpenOthers(s, i, then) ==
    LET others == {j \in Items \ {i} : Visible(s.dom, j)}
        rest == Without(s.calls, {s.calls[k] : k \in {j \in DOMAIN s.calls : s.calls[j].el # i}})
    IN  [dom |-> [s.dom EXCEPT !.active = @ \cap {i},
                               !.body = [j \in Items |-> IF j \in others THEN "closing" ELSE @[j]]],
         calls |-> rest \o Without([j \in Items |-> Slide(j, then)],
                                   {Slide(j, then) : j \in Items \ others})]

(* Mutant of OpenItem: nobody hears of the items that another one closes.  *)
OpenItemQuietly(d, cs, i, then) ==
    LET own == Own(d, cs, i)
        all == IF d.accordion THEN OpenOthers(own, i, "hidden") ELSE own
    IN  IF then = "told" THEN [all EXCEPT !.dom = Tell(@, i)] ELSE all

(* collapsibleOpen() without the toggle *)
OpenItem(d, cs, i, then) ==
    LET own == Own(d, cs, i)
        all == IF d.accordion THEN OpenOthers(own, i, then) ELSE own
    IN  IF then = "told" THEN [all EXCEPT !.dom = Tell(@, i)] ELSE all

Toggle(d, i) == [d EXCEPT !.active = IF i \in @ THEN @ \ {i} ELSE @ \cup {i}]

(* The end of .collapsible(): the first of the active headers is opened,   *)
(* or all of them.  An accordion without an active header opens no item    *)
(* and closes again what is closing; the callback about no item at all is  *)
(* left out.                                                               *)
NoItem == 0
Build(d, cs) ==
    LET s == [dom |-> [d EXCEPT !.bound = TRUE], calls |-> cs]
        first == CHOOSE i \in d.active : \A j \in d.active : i <= j
        opened[n \in 0 .. Count] ==
            IF n = 0 THEN s
            ELSE IF n \in d.active THEN OpenItem(opened[n - 1].dom, opened[n - 1].calls, n, "told")
            ELSE opened[n - 1]
    IN  IF ~d.accordion THEN opened[Count]
        ELSE IF d.active = {} THEN OpenOthers(s, NoItem, "told")
        ELSE OpenItem(s.dom, s.calls, first, "told")

Become(s) == dom' = s.dom /\ calls' = s.calls

Init ==
    /\ \E accordion \in BOOLEAN, active \in SUBSET Items :
          LET s == Build(Fresh(accordion, active), <<>>) IN dom = s.dom /\ calls = s.calls
    /\ events = MaxEvents

Rebuild == Become(Build(dom, calls))

(* collapsible('destroy') *)
Destroy == dom.bound /\ dom' = [dom EXCEPT !.bound = FALSE] /\ UNCHANGED calls

(* The click.collapse handler *)
Click(i) == dom.bound /\ Become(OpenItem(Toggle(dom, i), calls, i, "told"))

(* collapsible('open', i) toggles as well, and 'close' only what is open;  *)
(* the callbacks given when it was built are not known here.               *)
Method(i) == Become(OpenItem(Toggle([dom EXCEPT !.methods = TRUE], i), calls, i, "hidden"))

End(k) ==
    /\ MayEnd(calls, k)
    /\ LET c == calls[k]
           d == [dom EXCEPT !.body[c.el] = IF c.then = "shown" THEN "shown" ELSE "hidden"]
       IN  dom' = IF c.then = "told" THEN Tell(d, c.el) ELSE d
    /\ calls' = Ended(calls, k)
    /\ UNCHANGED events

Next ==
    \/ /\ events > 0 /\ events' = events - 1
       /\ \/ Rebuild \/ Destroy
          \/ \E i \in Items : Click(i) \/ Method(i)
    \/ \E k \in DOMAIN calls : End(k)

Spec == Init /\ [][Next]_vars
-----------------------------------------------------------------------------
(* Properties *)

Settled == calls = <<>>

(* However clicks and animations interleave, when all has come to rest the *)
(* bodies that can be seen are those of the active headers.                *)
ShownAsMarked == Settled => \A i \in Items : Visible(dom, i) <=> i \in dom.active

(* The last callback about an item says what has become of it, though      *)
(* some come at once and some when an animation ends that a click may stop.*)
Told ==
    Settled /\ ~dom.methods => \A i \in Items : dom.told[i] = "open" <=> i \in dom.active
=============================================================================
