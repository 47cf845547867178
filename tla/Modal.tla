-------------------------------- MODULE Modal --------------------------------
(***************************************************************************)
(* class Modal of src/monitor/web/js/materialize.js, which the monitor's   *)
(* page uses for its accounts: instances over the page's modal elements,   *)
(* with the overlay, the listeners and the body's scrolling they share.    *)
(* dom, calls and events are as in Collapsible.                            *)
(*                                                                         *)
(* A destroyed instance lives on in its key listener and its animations,   *)
(* so instances are numbered in the order they are made.                   *)
(***************************************************************************)
EXTENDS Integers, Sequences, Animations

CONSTANTS Modals, MaxInstances, MaxEvents

VARIABLES dom, calls, events
vars == <<dom, calls, events>>

(* isOpen, whether the overlay is in the body, and the keydown listener. *)
Instance(el, dismissible) ==
    [el |-> el, dismissible |-> dismissible, isOpen |-> FALSE, overlay |-> FALSE,
     keydown |-> FALSE]

None == 0

(* setupEventHandlers() of the first instance listens for the triggers. *)
Add(d, el, dismissible) ==
    [d EXCEPT !.instances = Append(@, Instance(el, dismissible)),
              !.mine[el] = Len(d.instances) + 1,   \* $el[0].M_Modal
              !.count = @ + 1,
              !.triggers = @ \/ d.count = 0]

(* destroy(): the triggers' listener would go if the count was 0 before,   *)
(* and neither the key's listener nor the body's scrolling come back.      *)
Destroyed(d, el) ==
    [d EXCEPT !.instances[d.mine[el]].overlay = FALSE,
              !.shown = @ \ {el},
              !.mine[el] = None,
              !.triggers = @ /\ d.count > 0,
              !.count = @ - 1]

Init ==
    /\ dom = [instances |-> <<>>, mine |-> [el \in Modals |-> None], count |-> 0,
              triggers |-> FALSE,       \* the body's click listener
              shown |-> {},             \* modals with display: block
              locked |-> FALSE]         \* document.body.style.overflow = 'hidden'
    /\ calls = <<>> /\ events = MaxEvents

(* open() with animateIn(); its end, the callback ready, is left out. *)
Opened(d, n) ==
    IF d.instances[n].isOpen THEN d
    ELSE [d EXCEPT !.instances[n] = [@ EXCEPT !.isOpen = TRUE, !.overlay = TRUE,
                                              !.keydown = d.instances[n].dismissible],
                   !.shown = @ \cup {d.instances[n].el},
                   !.locked = TRUE]

(* close() of several instances, the open ones among those that are asked. *)
Closed(d, ns) ==
    [d EXCEPT !.instances = [n \in DOMAIN @ |->
                  IF n \in ns THEN [@[n] EXCEPT !.isOpen = FALSE, !.keydown = FALSE] ELSE @[n]],
              !.locked = @ /\ ns = {}]

Open(ns) == {n \in ns : dom.instances[n].isOpen}
Mine == {dom.mine[el] : el \in Modals} \ {None}

(* animateOut(), instance by instance *)
Exit(n) == Call("velocity", n, 250, "exit")
Close(ns) ==
    /\ dom' = Closed(dom, Open(ns))
    /\ calls' = calls \o Without([n \in DOMAIN dom.instances |-> Exit(n)],
                                 {Exit(n) : n \in DOMAIN dom.instances \ Open(ns)})

(* new Modal(), which destroys what the element had. *)
New(el) ==
    /\ Len(dom.instances) < MaxInstances
    /\ \E dismissible \in BOOLEAN :
          dom' = Add(IF dom.mine[el] = None THEN dom ELSE Destroyed(dom, el), el, dismissible)
    /\ UNCHANGED calls

Destroy(el) == dom.mine[el] # None /\ dom' = Destroyed(dom, el) /\ UNCHANGED calls

(* handleTriggerClick(), from anywhere in the body *)
TriggerClick(el) ==
    /\ dom.triggers /\ dom.mine[el] # None
    /\ dom' = Opened(dom, dom.mine[el]) /\ UNCHANGED calls

(* handleModalCloseClick() or the method close(); the overlay's click      *)
(* closes dismissible modals.                                              *)
CloseClick(el) == dom.mine[el] # None /\ Close({dom.mine[el]})

OverlayClick(n) ==
    /\ n \in Mine /\ dom.instances[n].overlay /\ dom.instances[n].dismissible
    /\ Close({n})

(* ESC reaches every listener on the document. *)
Escape == Close({n \in DOMAIN dom.instances : dom.instances[n].keydown})

(* The end of animateOut(); without an overlay in the body it throws after *)
(* it has hidden the modal.                                                *)
End(k) ==
    /\ MayEnd(calls, k)
    /\ dom' = [dom EXCEPT !.shown = @ \ {dom.instances[calls[k].el].el},
                          !.instances[calls[k].el].overlay = FALSE]
    /\ calls' = Ended(calls, k)
    /\ UNCHANGED events

Next ==
    \/ /\ events > 0 /\ events' = events - 1
       /\ \/ \E el \in Modals : New(el) \/ Destroy(el) \/ TriggerClick(el) \/ CloseClick(el)
          \/ \E n \in DOMAIN dom.instances : OverlayClick(n)
          \/ Escape
    \/ \E k \in DOMAIN calls : End(k)

Spec == Init /\ [][Next]_vars
-----------------------------------------------------------------------------
(* Properties *)

Settled == calls = <<>>
Instances == DOMAIN dom.instances

(* However opening, closing, destroying and the animations interleave, a   *)
(* closed instance leaves neither its overlay nor its key listener, and    *)
(* when none is open the page scrolls again.  (An instance destroyed while *)
(* it is open stays open for ever, with its listener and the locked page.) *)
NothingLeftBehind ==
    Settled =>
        /\ \A n \in Instances :
              ~dom.instances[n].isOpen => ~dom.instances[n].overlay /\ ~dom.instances[n].keydown
        /\ (\A n \in Instances : ~dom.instances[n].isOpen) => ~dom.locked

(* A modal whose instance is closed is hidden when all has come to rest.   *)
(* The converse fails: one opened again while it closes gets hidden.       *)
ShownAsMarked ==
    Settled => \A n \in Mine : ~dom.instances[n].isOpen => dom.instances[n].el \notin dom.shown
=============================================================================
