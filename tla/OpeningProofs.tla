--------------------------- MODULE OpeningProofs ---------------------------
(***************************************************************************)
(* Proofs about the page's widgets that open and close, or come and go:    *)
(* picture, tooltip, dropdown, modal, side menu, messages, collapsible and *)
(* scroll spy, for any number of each and of their parts and any number of *)
(* events.                                                                 *)
(***************************************************************************)
EXTENDS MCWidgets, FiniteSetTheorems, CommonLemmas

-----------------------------------------------------------------------------
(* Which widget it is stays the same. *)
LEMMA WidgetsStep ==
  ASSUME Next
  PROVE  /\ widget' = widget
         /\ widget = "tabs" => TabBars!Next
         /\ widget = "slider" => Sliders!Next
         /\ widget = "chips" => ChipLines!Next
         /\ widget = "carousel" => Carousels!Next
         /\ widget = "autocomplete" => Completions!Next
         /\ widget = "select" => SelectLists!Next
         /\ widget = "collapsible" => Collapsibles!Next
         /\ widget = "dropdown" => Dropdowns!Next
         /\ widget = "modal" => ModalWindows!Next
         /\ widget = "materialbox" => Boxes!Next
         /\ widget = "tooltip" => Tooltips!Next
         /\ widget = "toasts" => Messages!Next
         /\ widget = "sidenav" => Menus!Next
         /\ widget = "scrollspy" => Spies!Next
  BY DEF Next

-----------------------------------------------------------------------------
(* The image that grows *)

BoxFields == {"responsive", "captioned", "overlayActive", "doneAnimating", "active",
              "ancestorsChanged", "overlay", "caption", "handlers"}

(* One animation at most is under way: out, with the handlers that end it, *)
(* or back, without them.                                                  *)
GoesOut(c) == c.then \in {"grow", "grown"} /\ dom.active = TRUE /\ dom.handlers = TRUE
GoesBack(c) == c.then = "back" /\ dom.handlers = FALSE
Animated(c) ==
    /\ calls = <<c>> /\ c.clock = "velocity" /\ c.el = "image" /\ dom.doneAnimating = FALSE
    /\ GoesOut(c) \/ GoesBack(c)
BoxInv ==
    /\ DOMAIN dom = BoxFields /\ dom.captioned \in BOOLEAN /\ dom.active \in BOOLEAN
    /\ dom.overlay = dom.active /\ dom.overlayActive = dom.active
    /\ dom.ancestorsChanged = dom.active /\ dom.caption = (dom.active /\ dom.captioned)
    /\ \/ calls = <<>> /\ dom.doneAnimating = TRUE /\ dom.handlers = dom.active
       \/ \E c : Animated(c)

LEMMA BoxOperators ==
  /\ \A t, k : Boxes!Ended(t, k) = RemoveAt(t, k)
  /\ \A t, clock, el :
        Boxes!Stopped(t, clock, el) = Without(t, {c \in ToSet(t) : c.clock = clock /\ c.el = el})
  /\ \A el, dur, then :
        Boxes!Vel(el, dur, then) = [clock |-> "velocity", el |-> el, dur |-> dur, then |-> then]
<1>1. \A t, S : Boxes!Without(t, S) = Without(t, S)
  BY DEF Without, Boxes!Without
<1>2. \A t, k : Boxes!Ended(t, k) = RemoveAt(t, k)
  BY DEF Boxes!Ended, RemoveAt
<1>3. ASSUME NEW t, NEW clock, NEW el
      PROVE  Boxes!Stopped(t, clock, el) = Without(t, {c \in ToSet(t) : c.clock = clock /\ c.el = el})
  <2>1. {t[k] : k \in {j \in DOMAIN t : t[j].clock = clock /\ t[j].el = el}}
          = {c \in ToSet(t) : c.clock = clock /\ c.el = el}
    BY DEF ToSet
  <2>. QED
    BY <1>1, <2>1 DEF Boxes!Stopped
<1>. QED
  BY <1>2, <1>3 DEF Boxes!Vel, Boxes!Call

LEMMA BoxBegins == Boxes!Init => BoxInv
<1>. SUFFICES ASSUME Boxes!Init PROVE BoxInv
  OBVIOUS
<1>1. PICK responsive \in BOOLEAN, caption \in BOOLEAN :
         dom = [responsive |-> responsive, captioned |-> caption, overlayActive |-> FALSE,
                doneAnimating |-> TRUE, active |-> FALSE, ancestorsChanged |-> FALSE,
                overlay |-> FALSE, caption |-> FALSE, handlers |-> FALSE]
  BY DEF Boxes!Init
<1>. QED
  BY <1>1 DEF Boxes!Init, BoxInv, BoxFields

LEMMA BoxStep == BoxInv /\ Boxes!Next => BoxInv'
<1>. SUFFICES ASSUME BoxInv, Boxes!Next PROVE BoxInv'
  OBVIOUS
<1>1. ASSUME NEW c, calls' = <<c>>, c.clock = "velocity", c.el = "image",
             DOMAIN dom' = BoxFields, dom'.doneAnimating = FALSE,
             dom'.captioned \in BOOLEAN, dom'.active \in BOOLEAN,
             dom'.overlay = dom'.active, dom'.overlayActive = dom'.active,
             dom'.ancestorsChanged = dom'.active, dom'.caption = (dom'.active /\ dom'.captioned),
             \/ c.then \in {"grow", "grown"} /\ dom'.active = TRUE /\ dom'.handlers = TRUE
             \/ c.then = "back" /\ dom'.handlers = FALSE
      PROVE  BoxInv'
  <2>1. Animated(c)'
    BY <1>1 DEF Animated, GoesOut, GoesBack
  <2>. QED
    BY <1>1, <2>1 DEF BoxInv
<1>2. CASE Boxes!Open
  <2>1. calls = <<>>
    BY <1>2 DEF Boxes!Open, BoxInv, Animated
  <2>2. calls' = Append(<<>>, Boxes!GrowFirst)
    BY <1>2, <2>1 DEF Boxes!Open
  <2>3. PICK c : /\ c = Boxes!GrowFirst /\ c.clock = "velocity" /\ c.el = "image"
                 /\ c.then \in {"grow", "grown"}
    BY BoxOperators DEF Boxes!GrowFirst, Boxes!Grow
  <2>4. calls' = <<c>>
    BY <2>2, <2>3
  <2>. QED
    BY <1>1, <1>2, <2>3, <2>4 DEF Boxes!Open, BoxInv, BoxFields
<1>3. CASE Boxes!ReturnToOriginal
  <2>1. /\ IsSequence(calls)
        /\ \A c \in ToSet(calls) : c.clock = "velocity" /\ c.el = "image"
    BY EmptySequence, OneInSequence DEF BoxInv, Animated
  <2>2. Boxes!Stopped(calls, "velocity", "image") = <<>>
    <3>. DEFINE S == {c \in ToSet(calls) : c.clock = "velocity" /\ c.el = "image"}
    <3>1. S = ToSet(calls)
      BY <2>1
    <3>. HIDE DEF S
    <3>2. IsSequence(Without(calls, S)) /\ ToSet(Without(calls, S)) = {}
      BY <2>1, <3>1, InWhatIsLeft
    <3>3. Without(calls, S) = <<>>
      BY <3>2, InSequence
    <3>. QED
      BY <3>3, BoxOperators DEF S
  <2>3. PICK c : c = Boxes!Vel("image", 200, "back")
    OBVIOUS
  <2>4. c.clock = "velocity" /\ c.el = "image" /\ c.then = "back"
    BY <2>3, BoxOperators
  <2>5. calls' = Append(<<>>, c)
    BY <1>3, <2>2, <2>3 DEF Boxes!ReturnToOriginal
  <2>6. calls' = <<c>>
    BY <2>5
  <2>. QED
    BY <1>1, <1>3, <2>4, <2>6 DEF Boxes!ReturnToOriginal, BoxInv, BoxFields
<1>4. CASE Boxes!ClickAgain \/ Boxes!ClickOverlay \/ Boxes!ScrollOrResize \/ Boxes!Escape
  BY <1>3, <1>4 DEF Boxes!ClickAgain, Boxes!ClickOverlay, Boxes!ScrollOrResize, Boxes!Escape
<1>5. ASSUME NEW k \in DOMAIN calls, Boxes!End(k) PROVE BoxInv'
  <2>1. PICK c : Animated(c)
    BY DEF BoxInv
  <2>2. k = 1 /\ calls[k] = c /\ calls = <<c>>
    BY <2>1 DEF Animated
  <2>3. Boxes!Ended(calls, k) = <<>>
    <3>1. IsSequence(calls) /\ k \in 1 .. Len(calls) /\ Len(calls) = 1
      BY <2>2, OneInSequence
    <3>2. Len(RemoveAt(calls, k)) = 1 - 1 /\ IsSequence(RemoveAt(calls, k))
      BY <3>1, RemovedOne, Zenon
    <3>3. RemoveAt(calls, k) = <<>>
      BY <3>2 DEF IsSequence
    <3>. QED
      BY <3>3, BoxOperators
  <2>4. CASE c.then = "grow"
    <3>1. PICK d : d = Boxes!Grow /\ d.clock = "velocity" /\ d.el = "image" /\ d.then = "grown"
      BY BoxOperators DEF Boxes!Grow
    <3>2. calls' = Append(<<>>, d)
      BY <1>5, <2>2, <2>3, <2>4, <3>1 DEF Boxes!End
    <3>3. calls' = <<d>>
      BY <3>2
    <3>4. dom' = dom /\ dom.active = TRUE /\ dom.handlers = TRUE /\ dom.doneAnimating = FALSE
      BY <1>5, <2>1, <2>2, <2>4 DEF Boxes!End, Animated, GoesOut, GoesBack
    <3>. QED
      BY <1>1, <3>1, <3>3, <3>4 DEF BoxInv
  <2>5. CASE c.then = "grown"
    <3>1. calls' = <<>> /\ dom' = [dom EXCEPT !.doneAnimating = TRUE]
      BY <1>5, <2>2, <2>3, <2>5 DEF Boxes!End
    <3>2. dom.active = TRUE /\ dom.handlers = TRUE
      BY <2>1, <2>5 DEF Animated, GoesOut, GoesBack
    <3>. QED
      BY <3>1, <3>2 DEF BoxInv, BoxFields
  <2>6. CASE c.then = "back"
    <3>1. /\ calls' = <<>>
          /\ dom' = [dom EXCEPT !.overlayActive = FALSE, !.overlay = FALSE, !.caption = FALSE,
                                !.active = FALSE, !.ancestorsChanged = FALSE,
                                !.doneAnimating = TRUE]
      BY <1>5, <2>2, <2>3, <2>6 DEF Boxes!End
    <3>2. dom.handlers = FALSE
      BY <2>1, <2>6 DEF Animated, GoesOut, GoesBack
    <3>. QED
      BY <3>1, <3>2 DEF BoxInv, BoxFields
  <2>. QED
    BY <2>1, <2>4, <2>5, <2>6 DEF Animated, GoesOut, GoesBack
<1>. QED
  BY <1>2, <1>4, <1>5 DEF Boxes!Next

LEMMA BoxRests == BoxInv => Boxes!NothingLeftBehind
  BY DEF BoxInv, Animated, Boxes!NothingLeftBehind, Boxes!Settled

-----------------------------------------------------------------------------
(* Tooltip *)

TooltipFields == {"delay", "attached", "over", "started", "visible"}

(* Under the mouse the text is seen and nothing that hides it is under     *)
(* way, or it is to be shown; elsewhere nothing will show it, and what is  *)
(* seen will be hidden.                                                    *)
Awaited(then) == \E c \in ToSet(calls) : c.then = then
Appears == Awaited("show") \/ (dom.visible /\ dom.started /\ ~Awaited("hidden"))
Vanishes ==
    /\ ~Awaited("show") /\ ~dom.started
    /\ dom.visible => Awaited("hide") \/ Awaited("hidden")
TooltipInv ==
    /\ DOMAIN dom = TooltipFields /\ IsSequence(calls)
    /\ \A c \in ToSet(calls) : c.then = "hidden" => c.clock = "velocity" /\ c.el = "tooltip"
    /\ \A c \in ToSet(calls) : c.then \in {"show", "hide"} => c.clock = "timeout"
    /\ IF dom.over THEN Appears ELSE Vanishes

LEMMA TooltipOperators ==
  /\ \A t, k : Tooltips!Ended(t, k) = RemoveAt(t, k)
  /\ \A t, clock, el :
        Tooltips!Stopped(t, clock, el) = Without(t, {c \in ToSet(t) : c.clock = clock /\ c.el = el})
  /\ \A t, then : Tooltips!Cleared(t, then) = Without(t, {c \in ToSet(t) : c.then = then})
  /\ \A clock, el, dur, then : Tooltips!Call(clock, el, dur, then) =
        [clock |-> clock, el |-> el, dur |-> dur, then |-> then]
<1>1. \A t, S : Tooltips!Without(t, S) = Without(t, S)
  BY DEF Without, Tooltips!Without
<1>2. \A t, k : Tooltips!Ended(t, k) = RemoveAt(t, k)
  BY DEF Tooltips!Ended, RemoveAt
<1>3. ASSUME NEW t, NEW clock, NEW el
      PROVE  Tooltips!Stopped(t, clock, el) = Without(t, {c \in ToSet(t) : c.clock = clock /\ c.el = el})
  <2>1. {t[k] : k \in {j \in DOMAIN t : t[j].clock = clock /\ t[j].el = el}}
          = {c \in ToSet(t) : c.clock = clock /\ c.el = el}
    BY DEF ToSet
  <2>. QED
    BY <1>1, <2>1 DEF Tooltips!Stopped
<1>4. ASSUME NEW t, NEW then
      PROVE  Tooltips!Cleared(t, then) = Without(t, {c \in ToSet(t) : c.then = then})
  <2>1. {t[k] : k \in {j \in DOMAIN t : t[j].then = then}} = {c \in ToSet(t) : c.then = then}
    BY DEF ToSet
  <2>. QED
    BY <1>1, <2>1 DEF Tooltips!Cleared
<1>. QED
  BY <1>2, <1>3, <1>4 DEF Tooltips!Call

LEMMA TooltipBegins == Tooltips!Init => TooltipInv
  BY EmptySequence DEF Tooltips!Init, TooltipInv, TooltipFields, Vanishes, Awaited

LEMMA TooltipStep == TooltipInv /\ Tooltips!Next => TooltipInv'
<1>. SUFFICES ASSUME TooltipInv, Tooltips!Next PROVE TooltipInv'
  OBVIOUS
<1>1. IsSequence(calls) /\ DOMAIN dom = TooltipFields
  BY DEF TooltipInv
<1>2. CASE Tooltips!MouseEnter
  <2>1. PICK c : c = [clock |-> "timeout", el |-> "tooltip", dur |-> dom.delay, then |-> "show"]
    OBVIOUS
  <2>2. calls' = Append(calls, c) /\ dom' = [dom EXCEPT !.over = TRUE]
    BY <1>2, <2>1, TooltipOperators DEF Tooltips!MouseEnter
  <2>3. IsSequence(calls') /\ ToSet(calls') = ToSet(calls) \cup {c}
    BY <1>1, <2>2, InAppended
  <2>. QED
    BY <2>1, <2>2, <2>3 DEF TooltipInv, TooltipFields, Appears, Awaited
<1>3. CASE Tooltips!MouseLeave
  <2>. DEFINE S == {c \in ToSet(calls) : c.then = "show"}
              t == Without(calls, S)
  <2>1. PICK c : c = [clock |-> "timeout", el |-> "tooltip", dur |-> 225, then |-> "hide"]
    OBVIOUS
  <2>2. calls' = Append(t, c) /\ dom' = [dom EXCEPT !.over = FALSE, !.started = FALSE]
    BY <1>3, <2>1, TooltipOperators DEF Tooltips!MouseLeave
  <2>3. IsSequence(t) /\ ToSet(t) = ToSet(calls) \ S
    BY <1>1, InWhatIsLeft
  <2>. HIDE DEF t
  <2>4. IsSequence(calls') /\ ToSet(calls') = (ToSet(calls) \ S) \cup {c}
    BY <2>2, <2>3, InAppended
  <2>. QED
    BY <2>1, <2>2, <2>4 DEF TooltipInv, TooltipFields, Vanishes, Awaited
<1>4. CASE Tooltips!RemoveTooltip
  BY <1>4 DEF Tooltips!RemoveTooltip, TooltipInv, TooltipFields, Appears, Vanishes, Awaited
<1>5. ASSUME NEW k \in DOMAIN calls, Tooltips!End(k) PROVE TooltipInv'
  <2>. DEFINE c == calls[k]
              t == RemoveAt(calls, k)
  <2>1. k \in 1 .. Len(calls) /\ Tooltips!Ended(calls, k) = t
    BY <1>1, InSequence, TooltipOperators
  <2>2. /\ IsSequence(t) /\ ToSet(t) \subseteq ToSet(calls)
        /\ ToSet(calls) \subseteq ToSet(t) \cup {c} /\ c \in ToSet(calls)
    BY <1>1, <2>1, RemovedOne
  <2>. HIDE DEF c, t
  <2>3. CASE Tooltips!Show(k) /\ c.then = "show"
    <3>. DEFINE S == {d \in ToSet(t) : d.clock = "velocity" /\ d.el = "tooltip"}
    <3>1. calls' = Without(t, S) /\ dom' = [dom EXCEPT !.started = TRUE, !.visible = TRUE]
      BY <2>1, <2>3, TooltipOperators DEF Tooltips!Show
    <3>2. IsSequence(calls') /\ ToSet(calls') = ToSet(t) \ S
      BY <2>2, <3>1, InWhatIsLeft
    <3>3. dom.over
      BY <2>2, <2>3 DEF TooltipInv, Vanishes, Awaited
    <3>. QED
      BY <2>2, <3>1, <3>2, <3>3 DEF TooltipInv, TooltipFields, Appears, Awaited
  <2>4. CASE Tooltips!Hide(k) /\ c.then = "hide"
    <3>1. CASE dom.started
      BY <2>1, <2>2, <2>4, <3>1 DEF Tooltips!Hide, TooltipInv, Appears, Vanishes, Awaited
    <3>2. CASE ~dom.started
      <4>1. PICK d : d = [clock |-> "velocity", el |-> "tooltip", dur |-> 225, then |-> "hidden"]
        OBVIOUS
      <4>2. calls' = Append(t, d) /\ dom' = dom
        BY <2>1, <2>4, <3>2, <4>1, TooltipOperators DEF Tooltips!Hide
      <4>3. IsSequence(calls') /\ ToSet(calls') = ToSet(t) \cup {d}
        BY <2>2, <4>2, InAppended
      <4>. QED
        BY <2>2, <2>4, <3>2, <4>1, <4>2, <4>3 DEF TooltipInv, Appears, Vanishes, Awaited
    <3>. QED
      BY <3>1, <3>2
  <2>5. CASE Tooltips!Hidden(k) /\ c.then = "hidden"
    <3>1. calls' = t /\ dom' = [dom EXCEPT !.visible = FALSE, !.started = FALSE]
      BY <2>1, <2>5 DEF Tooltips!Hidden
    <3>. QED
      BY <2>2, <2>5, <3>1 DEF TooltipInv, TooltipFields, Appears, Vanishes, Awaited
  <2>. QED
    BY <1>5, <2>3, <2>4, <2>5 DEF Tooltips!End, c
<1>. QED
  BY <1>2, <1>3, <1>4, <1>5 DEF Tooltips!Next

LEMMA TooltipRests == TooltipInv => Tooltips!ShownAsMarked
  BY EmptySequence DEF TooltipInv, Appears, Vanishes, Awaited, Tooltips!ShownAsMarked, Tooltips!Settled

-----------------------------------------------------------------------------
(* Dropdown *)

MenuFields == {"hover", "right", "scripts", "isFocused", "active", "menu", "docClick", "early",
               "open"}

Ending(cs, then) == \E c \in ToSet(cs) : c.then = then
MenuCall(c) ==
    \/ c.then = "listen" /\ c.clock = "timeout" /\ c.dur = 0
    \/ c.then \in {"shown", "hidden"} /\ c.clock = "jquery" /\ c.el = "menu" /\ c.dur > 0
MenuCalls(cs) == IsSequence(cs) /\ \A c \in ToSet(cs) : MenuCall(c)

(* What the menu does is what it has been told, to its end.                *)
Follows(d, cs) ==
    d.right =>
        /\ IF d.active THEN d.menu \in {"opening", "shown"} /\ ~Ending(cs, "hidden")
           ELSE d.menu \in {"closing", "hidden"}
        /\ d.menu = "opening" => Ending(cs, "shown")
        /\ d.menu = "closing" => Ending(cs, "hidden")

(* The handler of an open menu is on the document or will be in a moment,  *)
(* and that of a closed one only if it was closed before its time-out.     *)
Listens(d, cs) ==
    /\ d.docClick \in Nat
    /\ d.active => d.docClick > 0 \/ Ending(cs, "listen")
    /\ ~d.active /\ (d.docClick > 0 \/ Ending(cs, "listen")) => d.early

Reacts(d, cs) == DOMAIN d = MenuFields /\ MenuCalls(cs) /\ Follows(d, cs) /\ Listens(d, cs)
MenuInv == Reacts(dom, calls)

LEMMA MenuOperators ==
  /\ \A t, k : Dropdowns!Ended(t, k) = RemoveAt(t, k)
  /\ \A t, clock, el :
        Dropdowns!Stopped(t, clock, el) = Without(t, {c \in ToSet(t) : c.clock = clock /\ c.el = el})
  /\ \A clock, el, dur, then : Dropdowns!Call(clock, el, dur, then) =
        [clock |-> clock, el |-> el, dur |-> dur, then |-> then]
  /\ \A dur, then : Dropdowns!Menu(dur, then) =
        [clock |-> "jquery", el |-> "menu", dur |-> dur, then |-> then]
<1>1. \A t, S : Dropdowns!Without(t, S) = Without(t, S)
  BY DEF Without, Dropdowns!Without
<1>2. \A t, k : Dropdowns!Ended(t, k) = RemoveAt(t, k)
  BY DEF Dropdowns!Ended, RemoveAt
<1>3. ASSUME NEW t, NEW clock, NEW el
      PROVE  Dropdowns!Stopped(t, clock, el) = Without(t, {c \in ToSet(t) : c.clock = clock /\ c.el = el})
  <2>1. {t[k] : k \in {j \in DOMAIN t : t[j].clock = clock /\ t[j].el = el}}
          = {c \in ToSet(t) : c.clock = clock /\ c.el = el}
    BY DEF ToSet
  <2>. QED
    BY <1>1, <2>1 DEF Dropdowns!Stopped
<1>. QED
  BY <1>2, <1>3 DEF Dropdowns!Call, Dropdowns!Menu

LEMMA MenuBegins == Dropdowns!Init => MenuInv
<1>. SUFFICES ASSUME Dropdowns!Init PROVE MenuInv
  OBVIOUS
<1>1. PICK hover \in BOOLEAN, right \in BOOLEAN, scripts \in BOOLEAN :
         dom = Dropdowns!Fresh(hover, right, scripts)
  BY DEF Dropdowns!Init
<1>2. calls = <<>>
  BY DEF Dropdowns!Init
<1>. QED
  BY <1>1, <1>2, EmptySequence
  DEF Dropdowns!Fresh, MenuInv, Reacts, MenuFields, MenuCalls, Follows, Listens, Ending

(* Another animation or time-out of the menu. *)
LEMMA MenuCalled ==
  ASSUME NEW cs, MenuCalls(cs), NEW c, MenuCall(c)
  PROVE  MenuCalls(Append(cs, c)) /\ ToSet(Append(cs, c)) = ToSet(cs) \cup {c}
<1>1. IsSequence(Append(cs, c)) /\ ToSet(Append(cs, c)) = ToSet(cs) \cup {c}
  BY InAppended DEF MenuCalls
<1>. QED
  BY <1>1 DEF MenuCalls

(* Whatever state a handler has come to, s.dom and s.calls of it.          *)
IsState(s) == s = [dom |-> s.dom, calls |-> s.calls]
React(s) == IsState(s) /\ Reacts(s.dom, s.calls)

(* Nothing but the menu has changed. *)
ButMenu(e, d) == DOMAIN e = MenuFields /\ \A f \in MenuFields \ {"menu"} : e[f] = d[f]

(* placeDropdown() *)
LEMMA PlacedReacts ==
  ASSUME NEW s, React(s), NEW type
  PROVE  React(Dropdowns!PlaceDropdown(s, type))
<1>. DEFINE d == Dropdowns!Activated(s.dom, type)
            marked == [s EXCEPT !.dom = d]
            placed == IF s.dom.right THEN Dropdowns!Finish(marked) ELSE marked
            shown == Dropdowns!SlideDown(placed)
            heard == [clock |-> "timeout", el |-> "document", dur |-> 0, then |-> "listen"]
<1>0. DOMAIN s = {"dom", "calls"} /\ DOMAIN s.dom = MenuFields
  BY DEF React, IsState, Reacts
<1>1. marked = [dom |-> d, calls |-> s.calls]
  BY <1>0 DEF MenuFields
<1>2. /\ DOMAIN d = MenuFields /\ d.active = TRUE /\ d.right = s.dom.right
      /\ d.docClick = s.dom.docClick /\ d.menu = s.dom.menu
  BY DEF React, Reacts, MenuFields, Listens, Dropdowns!Activated
<1>. HIDE DEF d, marked
<1>3. /\ placed = [dom |-> placed.dom, calls |-> placed.calls] /\ MenuCalls(placed.calls)
      /\ ButMenu(placed.dom, d)
      /\ d.right => placed.dom.menu \in {"shown", "hidden"} /\ ~Ending(placed.calls, "hidden")
  <2>1. CASE ~s.dom.right
    <3>1. placed = [dom |-> d, calls |-> s.calls]
      BY <1>1, <2>1
    <3>. QED
      BY <1>2, <2>1, <3>1 DEF React, Reacts, ButMenu
  <2>2. CASE s.dom.right
    <3>. DEFINE S == {c \in ToSet(s.calls) : c.clock = "jquery" /\ c.el = "menu"}
                rest == Without(s.calls, S)
    <3>1. placed = [dom |-> [d EXCEPT !.menu = CASE @ = "opening" -> "shown"
                                                 [] @ = "closing" -> "hidden"
                                                 [] OTHER -> @],
                    calls |-> rest]
      BY <1>1, <2>2, MenuOperators DEF Dropdowns!Finish
    <3>2. IsSequence(rest) /\ ToSet(rest) = ToSet(s.calls) \ S
      BY InWhatIsLeft DEF React, Reacts, MenuCalls
    <3>. HIDE DEF rest
    <3>3. MenuCalls(rest) /\ ~Ending(rest, "hidden")
      BY <3>2 DEF React, Reacts, MenuCalls, MenuCall, Ending
    <3>4. s.dom.menu \in {"opening", "shown", "closing", "hidden"}
      BY <2>2 DEF React, Reacts, Follows
    <3>. QED
      BY <1>2, <3>1, <3>3, <3>4 DEF MenuFields, ButMenu
  <2>. QED
    BY <2>1, <2>2
<1>. HIDE DEF placed
<1>4. /\ shown = [dom |-> shown.dom, calls |-> shown.calls] /\ MenuCalls(shown.calls)
      /\ ButMenu(shown.dom, d)
      /\ d.right => /\ shown.dom.menu \in {"opening", "shown"} /\ ~Ending(shown.calls, "hidden")
                    /\ shown.dom.menu = "opening" => Ending(shown.calls, "shown")
  <2>1. CASE placed.dom.menu # "hidden"
    BY <1>3, <2>1 DEF Dropdowns!SlideDown
  <2>2. CASE placed.dom.menu = "hidden"
    <3>1. PICK c : c = [clock |-> "jquery", el |-> "menu", dur |-> 300, then |-> "shown"]
      OBVIOUS
    <3>2. shown = [dom |-> [placed.dom EXCEPT !.menu = "opening"], calls |-> Append(placed.calls, c)]
      BY <2>2, <3>1, MenuOperators DEF Dropdowns!SlideDown
    <3>3. MenuCalls(Append(placed.calls, c)) /\ ToSet(Append(placed.calls, c)) = ToSet(placed.calls) \cup {c}
      <4>1. MenuCall(c)
        BY <3>1 DEF MenuCall
      <4>. QED
        BY <1>3, <4>1, MenuCalled
    <3>. QED
      BY <1>2, <1>3, <3>1, <3>2, <3>3 DEF Ending, MenuFields, ButMenu
  <2>. QED
    BY <2>1, <2>2
<1>. HIDE DEF shown
<1>5. Dropdowns!PlaceDropdown(s, type) = [shown EXCEPT !.calls = Append(@, heard)]
  <2>1. Dropdowns!Call("timeout", "document", 0, "listen") = heard
    BY MenuOperators
  <2>. HIDE DEF heard
  <2>. QED
    BY <2>1 DEF Dropdowns!PlaceDropdown, shown, placed, marked, d
<1>6. Dropdowns!PlaceDropdown(s, type) = [dom |-> shown.dom, calls |-> Append(shown.calls, heard)]
  BY <1>4, <1>5
<1>7. /\ MenuCalls(Append(shown.calls, heard))
      /\ ToSet(Append(shown.calls, heard)) = ToSet(shown.calls) \cup {heard}
  <2>1. MenuCall(heard)
    BY DEF MenuCall
  <2>. HIDE DEF heard
  <2>. QED
    BY <1>4, <2>1, MenuCalled
<1>8. Follows(shown.dom, Append(shown.calls, heard))
  BY <1>2, <1>4, <1>7 DEF Follows, Ending, MenuFields, ButMenu
<1>9. Listens(shown.dom, Append(shown.calls, heard))
  BY <1>2, <1>4, <1>7 DEF Listens, Ending, MenuFields, ButMenu, React, Reacts
<1>10. DOMAIN shown.dom = MenuFields
  BY <1>2, <1>4 DEF MenuFields, ButMenu
<1>. QED
  BY <1>6, <1>7, <1>8, <1>9, <1>10 DEF React, IsState, Reacts

(* hideDropdown() *)
LEMMA HiddenReacts ==
  ASSUME NEW s, React(s)
  PROVE  React(Dropdowns!HideDropdown(s))
<1>. DEFINE d == [s.dom EXCEPT !.isFocused = FALSE, !.active = FALSE, !.docClick = 0,
                               !.early = Dropdowns!Listening(s.calls)]
            t == [s EXCEPT !.dom = d]
            faded == Dropdowns!FadeOut(t)
<1>0. DOMAIN s = {"dom", "calls"} /\ DOMAIN s.dom = MenuFields
  BY DEF React, IsState, Reacts
<1>1. t = [dom |-> d, calls |-> s.calls]
  BY <1>0 DEF MenuFields
<1>2. /\ DOMAIN d = MenuFields /\ d.active = FALSE /\ d.right = s.dom.right
      /\ d.docClick = 0 /\ d.menu = s.dom.menu
      /\ Ending(s.calls, "listen") => d.early
  <2>1. Ending(s.calls, "listen") => Dropdowns!Listening(s.calls)
    BY DEF Ending, ToSet, Dropdowns!Listening
  <2>. HIDE DEF Dropdowns!Listening
  <2>. QED
    BY <2>1 DEF React, Reacts, MenuFields
<1>. HIDE DEF d, t
<1>3. Dropdowns!HideDropdown(s) = faded
  BY DEF Dropdowns!HideDropdown, t, d
<1>4. CASE s.dom.menu \in {"opening", "shown"}
  <2>1. PICK c : c = [clock |-> "jquery", el |-> "menu", dur |-> 225, then |-> "hidden"]
    OBVIOUS
  <2>2. faded = [dom |-> [d EXCEPT !.menu = "closing"], calls |-> Append(s.calls, c)]
    BY <1>1, <1>2, <1>4, <2>1, MenuOperators DEF Dropdowns!FadeOut
  <2>3. MenuCalls(Append(s.calls, c)) /\ ToSet(Append(s.calls, c)) = ToSet(s.calls) \cup {c}
    <3>1. MenuCall(c)
      BY <2>1 DEF MenuCall
    <3>. QED
      BY <3>1, MenuCalled DEF React, Reacts
  <2>4. Follows([d EXCEPT !.menu = "closing"], Append(s.calls, c))
    BY <1>2, <2>1, <2>3 DEF Follows, Ending, MenuFields
  <2>5. Listens([d EXCEPT !.menu = "closing"], Append(s.calls, c))
    BY <1>2, <2>1, <2>3 DEF React, Reacts, Listens, Ending, MenuFields
  <2>6. DOMAIN [d EXCEPT !.menu = "closing"] = MenuFields
    BY <1>2
  <2>. QED
    BY <1>3, <2>2, <2>3, <2>4, <2>5, <2>6 DEF React, IsState, Reacts
<1>5. CASE s.dom.menu \notin {"opening", "shown"}
  <2>1. faded = [dom |-> d, calls |-> s.calls]
    BY <1>1, <1>2, <1>5 DEF Dropdowns!FadeOut
  <2>2. Follows(d, s.calls)
    BY <1>2, <1>5 DEF React, Reacts, Follows
  <2>3. Listens(d, s.calls)
    BY <1>2 DEF React, Reacts, Listens
  <2>. QED
    BY <1>2, <1>3, <2>1, <2>2, <2>3 DEF React, IsState, Reacts
<1>. QED
  BY <1>4, <1>5

LEMMA MenuStep == MenuInv /\ Dropdowns!Next => MenuInv'
<1>. SUFFICES ASSUME MenuInv, Dropdowns!Next PROVE MenuInv'
  OBVIOUS
<1>. DEFINE now == [dom |-> dom, calls |-> calls]
<1>1. Dropdowns!Now = now /\ React(now) /\ now.dom = dom /\ now.calls = calls
  BY DEF Dropdowns!Now, React, IsState, MenuInv
<1>. HIDE DEF now
<1>2. ASSUME NEW s, React(s), Dropdowns!Become(s) PROVE MenuInv'
  BY <1>2 DEF Dropdowns!Become, React, MenuInv
<1>3. ASSUME NEW s, React(s) PROVE React(Dropdowns!Bubble(s))
  BY <1>3, HiddenReacts DEF Dropdowns!Bubble
<1>4. CASE Dropdowns!ClickOrigin
  <2>1. PICK s : /\ s \in {now, Dropdowns!HideDropdown(now), Dropdowns!PlaceDropdown(now, "click")}
                 /\ Dropdowns!Become(s) \/ Dropdowns!Become(Dropdowns!Bubble(s))
    BY <1>1, <1>4 DEF Dropdowns!ClickOrigin
  <2>2. React(s)
    BY <1>1, <2>1, HiddenReacts, PlacedReacts
  <2>. QED
    BY <1>2, <1>3, <2>1, <2>2
<1>6. CASE Dropdowns!ClickElsewhere
  BY <1>1, <1>2, <1>3, <1>6 DEF Dropdowns!ClickElsewhere
<1>7. ASSUME NEW s, React(s), NEW open PROVE React([s EXCEPT !.dom.open = open])
  <2>. DEFINE d == [s.dom EXCEPT !.open = open]
  <2>1. [s EXCEPT !.dom.open = open] = [dom |-> d, calls |-> s.calls]
    BY <1>7 DEF React, IsState, Reacts, MenuFields
  <2>2. Reacts(d, s.calls)
    BY <1>7 DEF React, Reacts, MenuFields, Follows, Listens
  <2>. HIDE DEF d
  <2>. QED
    BY <2>1, <2>2 DEF React, IsState
<1>8. CASE Dropdowns!MouseEnter
  <2>1. React(Dropdowns!PlaceDropdown(now, "hover"))
    BY <1>1, PlacedReacts
  <2>. QED
    BY <1>1, <1>2, <1>7, <1>8, <2>1 DEF Dropdowns!MouseEnter
<1>9. CASE Dropdowns!MouseLeave
  <2>. DEFINE t == Dropdowns!Finish(now)
              S == {c \in ToSet(calls) : c.clock = "jquery" /\ c.el = "menu"}
              rest == Without(calls, S)
              menu == CASE dom.menu = "opening" -> "shown"
                        [] dom.menu = "closing" -> "hidden"
                        [] OTHER -> dom.menu
              d == [dom EXCEPT !.menu = menu]
  <2>1. t = [dom |-> d, calls |-> rest]
    BY <1>1, MenuOperators DEF Dropdowns!Finish, MenuInv, Reacts, MenuFields
  <2>2. IsSequence(rest) /\ ToSet(rest) = ToSet(calls) \ S
    BY InWhatIsLeft DEF MenuInv, Reacts, MenuCalls, MenuCall
  <2>. HIDE DEF rest, t
  <2>3. /\ MenuCalls(rest) /\ ~Ending(rest, "hidden") /\ ~Ending(rest, "shown")
        /\ Ending(rest, "listen") <=> Ending(calls, "listen")
    BY <2>2 DEF MenuInv, Reacts, MenuCalls, MenuCall, Ending
  <2>4. Follows(d, rest)
    BY <2>3 DEF MenuInv, Reacts, Follows, MenuFields
  <2>5. Listens(d, rest)
    BY <2>3 DEF MenuInv, Reacts, Listens, MenuFields
  <2>6. DOMAIN d = MenuFields
    BY DEF MenuInv, Reacts
  <2>. HIDE DEF d
  <2>7. React(t)
    BY <2>1, <2>3, <2>4, <2>5, <2>6 DEF React, IsState, Reacts
  <2>8. React(Dropdowns!HideDropdown(t))
    BY <2>7, HiddenReacts
  <2>. QED
    BY <1>1, <1>2, <1>7, <1>9, <2>8 DEF Dropdowns!MouseLeave, t
<1>10. CASE Dropdowns!Trigger
  BY <1>1, <1>2, <1>10, PlacedReacts, HiddenReacts DEF Dropdowns!Trigger
<1>11. ASSUME NEW k \in DOMAIN calls, Dropdowns!End(k) PROVE MenuInv'
  <2>. DEFINE c == calls[k]
              t == RemoveAt(calls, k)
  <2>1. IsSequence(calls) /\ k \in 1 .. Len(calls) /\ Dropdowns!Ended(calls, k) = t
    BY InSequence, MenuOperators DEF MenuInv, Reacts, MenuCalls, MenuCall
  <2>2. /\ IsSequence(t) /\ ToSet(t) \subseteq ToSet(calls)
        /\ ToSet(calls) \subseteq ToSet(t) \cup {c} /\ c \in ToSet(calls)
    BY <2>1, RemovedOne
  <2>. HIDE DEF t
  <2>3. calls' = t
    BY <1>11, <2>1 DEF Dropdowns!End
  <2>4. MenuCalls(t)
    BY <2>2 DEF MenuInv, Reacts, MenuCalls, MenuCall
  <2>5. CASE c.then = "listen"
    <3>1. dom' = [dom EXCEPT !.docClick = @ + 1]
      BY <1>11, <2>5 DEF Dropdowns!End
    <3>2. dom.docClick \in Nat /\ (dom.active \/ dom.early)
      BY <2>2, <2>5 DEF MenuInv, Reacts, Listens, Ending
    <3>3. dom.docClick + 1 \in Nat /\ dom.docClick + 1 > 0
      BY <3>2
    <3>. QED
      BY <2>2, <2>3, <2>4, <2>5, <3>1, <3>2, <3>3
      DEF MenuInv, Reacts, Follows, Listens, Ending, MenuFields
  <2>. HIDE DEF c
  <2>6. CASE c.then # "listen"
    <3>1. \/ c.then = "shown" /\ dom.menu = "opening" /\ dom' = [dom EXCEPT !.menu = "shown"]
          \/ c.then = "shown" /\ dom.menu # "opening" /\ dom' = dom
          \/ c.then = "hidden" /\ dom' = [dom EXCEPT !.menu = "hidden"]
      BY <1>11, <2>2, <2>6 DEF Dropdowns!End, c, MenuInv, Reacts, MenuCalls, MenuCall
    <3>2. Listens(dom', t)
      BY <2>2, <2>6, <3>1 DEF MenuInv, Reacts, Listens, Ending, MenuFields
    <3>3. Follows(dom', t)
      BY <2>2, <2>6, <3>1 DEF MenuInv, Reacts, Follows, Ending, MenuFields
    <3>4. DOMAIN dom' = MenuFields
      BY <3>1 DEF MenuInv, Reacts
    <3>. QED
      BY <2>3, <2>4, <3>2, <3>3, <3>4 DEF MenuInv, Reacts
  <2>. QED
    BY <2>5, <2>6
<1>. QED
  BY <1>4, <1>6, <1>8, <1>9, <1>10, <1>11 DEF Dropdowns!Next

LEMMA MenuRests == MenuInv => Dropdowns!ShownAsMarked /\ Dropdowns!NothingLeftBehind
<1>1. ASSUME MenuInv, calls = <<>> PROVE \A then : ~Ending(calls, then)
  BY <1>1, EmptySequence DEF Ending
<1>. QED
  BY <1>1 DEF MenuInv, Reacts, Follows, Listens, Dropdowns!ShownAsMarked,
     Dropdowns!NothingLeftBehind, Dropdowns!Settled

-----------------------------------------------------------------------------
(* Modal *)

ModalFields == {"instances", "mine", "count", "triggers", "shown", "locked"}
ModalInstances ==
    [el : ModalElements, dismissible : BOOLEAN, isOpen : BOOLEAN, overlay : BOOLEAN,
     keydown : BOOLEAN]

(* An instance that is closed waits for its exit as long as its overlay or *)
(* its modal can be seen; who locks the page is open.                      *)
Exits(cs, n) == \E c \in ToSet(cs) : c.el = n
ClosesWell(i, leaves) == (i.keydown => i.isOpen) /\ (i.overlay => i.isOpen \/ leaves)
ModalsWork(d, cs) ==
    /\ DOMAIN d = ModalFields
    /\ d.instances \in Seq(ModalInstances)
    /\ d.mine \in [ModalElements -> 0 .. Len(d.instances)]
    /\ \A el \in ModalElements : d.mine[el] # 0 => d.instances[d.mine[el]].el = el
    /\ \A n \in 1 .. Len(d.instances) : ClosesWell(d.instances[n], Exits(cs, n))
    /\ d.locked => \E n \in 1 .. Len(d.instances) : d.instances[n].isOpen
    /\ \A el \in ModalElements : el \in d.shown =>
          /\ d.mine[el] # 0
          /\ d.instances[d.mine[el]].isOpen \/ Exits(cs, d.mine[el])
    /\ IsSequence(cs)
    /\ \A c \in ToSet(cs) : c.el \in 1 .. Len(d.instances)
ModalInv == ModalsWork(dom, calls)

LEMMA ModalOperators ==
  /\ \A t, k : ModalWindows!Ended(t, k) = RemoveAt(t, k)
  /\ \A t, S : ModalWindows!Without(t, S) = Without(t, S)
  /\ \A n : ModalWindows!Exit(n) = [clock |-> "velocity", el |-> n, dur |-> 250, then |-> "exit"]
<1>1. \A t, S : ModalWindows!Without(t, S) = Without(t, S)
  BY DEF Without, ModalWindows!Without
<1>2. \A t, k : ModalWindows!Ended(t, k) = RemoveAt(t, k)
  BY DEF ModalWindows!Ended, RemoveAt
<1>. QED
  BY <1>1, <1>2 DEF ModalWindows!Exit, ModalWindows!Call

LEMMA ModalBegins == ModalWindows!Init => ModalInv
<1>1. \A n : n \notin 1 .. Len(<<>>)
  OBVIOUS
<1>. QED
  BY <1>1, EmptySequence DEF ModalWindows!Init, ModalWindows!None, ModalInv, ModalsWork, ModalFields

(* One instance is changed. *)
LEMMA InstanceChanged ==
  ASSUME NEW is \in Seq(ModalInstances), NEW n \in 1 .. Len(is), NEW i \in ModalInstances
  PROVE  /\ [is EXCEPT ![n] = i] \in Seq(ModalInstances) /\ Len([is EXCEPT ![n] = i]) = Len(is)
         /\ \A m \in 1 .. Len(is) : [is EXCEPT ![n] = i][m] = IF m = n THEN i ELSE is[m]
  OBVIOUS

LEMMA ModalDestroyed ==
  ASSUME NEW d, NEW cs, ModalsWork(d, cs), NEW el \in ModalElements, d.mine[el] # 0
  PROVE  /\ ModalsWork(ModalWindows!Destroyed(d, el), cs)
         /\ ModalWindows!Destroyed(d, el).mine[el] = 0
<1>. DEFINE e == ModalWindows!Destroyed(d, el)
            n == d.mine[el]
            i == [d.instances[n] EXCEPT !.overlay = FALSE]
            is == [d.instances EXCEPT ![n] = i]
<1>1. n \in 1 .. Len(d.instances) /\ d.instances[n] \in ModalInstances
  BY DEF ModalsWork
<1>2. /\ DOMAIN e = ModalFields /\ e.instances = is /\ e.shown = d.shown \ {el}
      /\ e.mine = [d.mine EXCEPT ![el] = 0] /\ e.locked = d.locked
  BY DEF ModalWindows!Destroyed, ModalWindows!None, ModalsWork, ModalFields
<1>3. /\ i \in ModalInstances /\ i.el = d.instances[n].el /\ i.isOpen = d.instances[n].isOpen
      /\ i.keydown = d.instances[n].keydown /\ i.overlay = FALSE
  BY <1>1 DEF ModalInstances
<1>. HIDE DEF e, i
<1>4. /\ is \in Seq(ModalInstances) /\ Len(is) = Len(d.instances)
      /\ \A m \in 1 .. Len(is) : is[m] = IF m = n THEN i ELSE d.instances[m]
  BY <1>1, <1>3, InstanceChanged DEF ModalsWork
<1>. HIDE DEF is
<1>5. /\ e.mine \in [ModalElements -> 0 .. Len(is)] /\ e.mine[el] = 0
      /\ \A x \in ModalElements : x # el => e.mine[x] = d.mine[x]
  BY <1>2, <1>4 DEF ModalsWork
<1>6. \A m \in 1 .. Len(is) : ClosesWell(is[m], Exits(cs, m)) /\ (is[m].isOpen <=> d.instances[m].isOpen)
                              /\ is[m].el = d.instances[m].el
  BY <1>1, <1>3, <1>4 DEF ModalsWork, ClosesWell
<1>7. \A x \in ModalElements : d.mine[x] # 0 => d.mine[x] \in 1 .. Len(is)
  BY <1>4 DEF ModalsWork
<1>. QED
  BY <1>2, <1>4, <1>5, <1>6, <1>7 DEF ModalsWork, e

LEMMA ModalAdded ==
  ASSUME NEW d, NEW cs, ModalsWork(d, cs), NEW el \in ModalElements, d.mine[el] = 0,
         NEW dismissible \in BOOLEAN
  PROVE  ModalsWork(ModalWindows!Add(d, el, dismissible), cs)
<1>. DEFINE e == ModalWindows!Add(d, el, dismissible)
            i == ModalWindows!Instance(el, dismissible)
            is == Append(d.instances, i)
            n == Len(d.instances)
<1>1. /\ DOMAIN e = ModalFields /\ e.instances = is /\ e.shown = d.shown
      /\ e.mine = [d.mine EXCEPT ![el] = n + 1] /\ e.locked = d.locked
  BY DEF ModalWindows!Add, ModalsWork, ModalFields
<1>2. i \in ModalInstances /\ i.el = el /\ ~i.isOpen /\ ~i.keydown /\ ~i.overlay
  BY DEF ModalWindows!Instance, ModalInstances
<1>. HIDE DEF e, i
<1>3. /\ is \in Seq(ModalInstances) /\ Len(is) = n + 1 /\ is[n + 1] = i /\ n \in Nat
      /\ \A m \in 1 .. n : is[m] = d.instances[m]
  BY <1>2 DEF ModalsWork
<1>. HIDE DEF is
<1>4. 1 .. n + 1 = (1 .. n) \cup {n + 1} /\ 0 .. n \subseteq 0 .. n + 1 /\ n + 1 \in 0 .. n + 1
      /\ n + 1 # 0
  BY <1>3
<1>5. /\ e.mine \in [ModalElements -> 0 .. n + 1] /\ e.mine[el] = n + 1
      /\ \A x \in ModalElements : x # el => e.mine[x] = d.mine[x] /\ (d.mine[x] # 0 => d.mine[x] \in 1 .. n)
  BY <1>1, <1>4 DEF ModalsWork
<1>6. \A m \in 1 .. n + 1 : ClosesWell(is[m], Exits(cs, m))
  <2>1. ClosesWell(i, Exits(cs, n + 1))
    BY <1>2 DEF ClosesWell
  <2>2. \A m \in 1 .. n : ClosesWell(d.instances[m], Exits(cs, m))
    BY DEF ModalsWork
  <2>. QED
    BY <1>3, <1>4, <2>1, <2>2
<1>7. e.locked => \E m \in 1 .. n + 1 : is[m].isOpen
  BY <1>1, <1>3, <1>4 DEF ModalsWork
<1>8. \A x \in ModalElements : e.mine[x] # 0 => is[e.mine[x]].el = x
  BY <1>2, <1>3, <1>5 DEF ModalsWork
<1>9. \A x \in ModalElements : x \in e.shown =>
         /\ e.mine[x] # 0
         /\ is[e.mine[x]].isOpen \/ Exits(cs, e.mine[x])
  BY <1>1, <1>3, <1>5 DEF ModalsWork
<1>10. IsSequence(cs) /\ \A c \in ToSet(cs) : c.el \in 1 .. n + 1
  BY <1>4 DEF ModalsWork
<1>11. ModalsWork(e, cs)
  BY <1>1, <1>3, <1>5, <1>6, <1>7, <1>8, <1>9, <1>10 DEF ModalsWork
<1>. QED
  BY <1>11 DEF e

LEMMA ModalOpened ==
  ASSUME NEW d, NEW cs, ModalsWork(d, cs), NEW el \in ModalElements, d.mine[el] # 0
  PROVE  ModalsWork(ModalWindows!Opened(d, d.mine[el]), cs)
<1>. DEFINE n == d.mine[el]
            e == ModalWindows!Opened(d, n)
            i == [d.instances[n] EXCEPT !.isOpen = TRUE, !.overlay = TRUE,
                                        !.keydown = d.instances[n].dismissible]
            is == [d.instances EXCEPT ![n] = i]
<1>. SUFFICES ASSUME ~d.instances[n].isOpen PROVE ModalsWork(e, cs)
  BY DEF ModalWindows!Opened
<1>1. d.instances[n] \in ModalInstances /\ n \in 1 .. Len(d.instances) /\ d.instances[n].el = el
  BY DEF ModalsWork
<1>2. /\ DOMAIN e = ModalFields /\ e.instances = is /\ e.shown = d.shown \cup {el}
      /\ e.mine = d.mine /\ e.locked = TRUE
  BY <1>1 DEF ModalWindows!Opened, ModalsWork, ModalFields
<1>3. i \in ModalInstances /\ i.el = d.instances[n].el /\ i.isOpen
  BY <1>1 DEF ModalInstances
<1>. HIDE DEF e, i
<1>4. /\ is \in Seq(ModalInstances) /\ Len(is) = Len(d.instances)
      /\ \A m \in 1 .. Len(is) : is[m] = IF m = n THEN i ELSE d.instances[m]
  BY <1>1, <1>3, InstanceChanged DEF ModalsWork
<1>. HIDE DEF is, n
<1>5. \A m \in 1 .. Len(is) : ClosesWell(is[m], Exits(cs, m))
                              /\ (d.instances[m].isOpen => is[m].isOpen)
                              /\ is[m].el = d.instances[m].el
  BY <1>1, <1>3, <1>4 DEF ModalsWork, ClosesWell
<1>6. \A x \in ModalElements : d.mine[x] # 0 => d.mine[x] \in 1 .. Len(is)
  BY <1>4 DEF ModalsWork
<1>7. n \in 1 .. Len(is) /\ is[n].isOpen /\ n = d.mine[el] /\ d.mine[el] # 0
  BY <1>1, <1>3, <1>4 DEF n
<1>8. \A x \in ModalElements : x \in e.shown =>
         /\ e.mine[x] # 0
         /\ is[e.mine[x]].isOpen \/ Exits(cs, e.mine[x])
  BY <1>2, <1>5, <1>6, <1>7 DEF ModalsWork
<1>9. /\ \A x \in ModalElements : d.mine[x] # 0 => is[d.mine[x]].el = x
      /\ d.mine \in [ModalElements -> 0 .. Len(is)]
  BY <1>4, <1>5, <1>6 DEF ModalsWork
<1>10. IsSequence(cs) /\ \A c \in ToSet(cs) : c.el \in 1 .. Len(is)
  BY <1>4 DEF ModalsWork
<1>. QED
  BY <1>2, <1>4, <1>5, <1>7, <1>8, <1>9, <1>10 DEF ModalsWork

LEMMA ModalClosed ==
  ASSUME ModalInv, NEW ns \in SUBSET (1 .. Len(dom.instances)), ModalWindows!Close(ns)
  PROVE  ModalInv'
<1>. DEFINE open == ModalWindows!Open(ns)
            all == [n \in DOMAIN dom.instances |-> ModalWindows!Exit(n)]
            S == {ModalWindows!Exit(n) : n \in DOMAIN dom.instances \ open}
            exits == Without(all, S)
            is == [n \in DOMAIN dom.instances |->
                     IF n \in open THEN [dom.instances[n] EXCEPT !.isOpen = FALSE, !.keydown = FALSE]
                     ELSE dom.instances[n]]
<1>1. /\ DOMAIN dom' = ModalFields /\ dom'.instances = is /\ dom'.shown = dom.shown
      /\ dom'.mine = dom.mine /\ dom'.locked = (dom.locked /\ open = {})
  BY DEF ModalWindows!Close, ModalWindows!Closed, ModalInv, ModalsWork, ModalFields
<1>2. calls' = calls \o exits
  BY ModalOperators DEF ModalWindows!Close
<1>3. /\ DOMAIN dom.instances = 1 .. Len(dom.instances) /\ Len(dom.instances) \in Nat
      /\ \A n \in 1 .. Len(dom.instances) : dom.instances[n] \in ModalInstances
  BY DEF ModalInv, ModalsWork
<1>4. open \subseteq 1 .. Len(dom.instances) /\ \A n \in open : dom.instances[n].isOpen
  BY DEF ModalWindows!Open
<1>. HIDE DEF open
<1>5. /\ IsSequence(exits) /\ \A c \in ToSet(exits) : c.el \in 1 .. Len(dom.instances)
      /\ \A n \in 1 .. Len(dom.instances) : Exits(exits, n) <=> n \in open
  <2>. DEFINE T == {ModalWindows!Exit(n) : n \in 1 .. Len(dom.instances)}
  <2>1. all \in Seq(T)
    BY <1>3
  <2>2. ToSet(all) = T
    BY <1>3 DEF ToSet
  <2>3. \A n : ModalWindows!Exit(n).el = n
    BY ModalOperators
  <2>. HIDE DEF T, all
  <2>4. IsSequence(all)
    BY <2>1, SequenceOf
  <2>5. IsSequence(exits) /\ ToSet(exits) = T \ S
    BY <2>2, <2>4, InWhatIsLeft
  <2>. HIDE DEF exits
  <2>6. \A n \in 1 .. Len(dom.instances) : ModalWindows!Exit(n) \in S <=> n \notin open
    BY <1>3, <2>3
  <2>7. \A c \in T : c = ModalWindows!Exit(c.el) /\ c.el \in 1 .. Len(dom.instances)
    BY <2>3 DEF T
  <2>8. \A n \in 1 .. Len(dom.instances) : ModalWindows!Exit(n) \in T
    BY DEF T
  <2>. HIDE DEF S
  <2>. QED
    BY <2>3, <2>5, <2>6, <2>7, <2>8 DEF Exits
<1>. HIDE DEF exits
<1>6. IsSequence(calls') /\ ToSet(calls') = ToSet(calls) \cup ToSet(exits)
  BY <1>2, <1>5, InConcatenated DEF ModalInv, ModalsWork
<1>7. ASSUME NEW n \in 1 .. Len(dom.instances)
      PROVE  /\ is[n] \in ModalInstances /\ is[n].el = dom.instances[n].el
             /\ n \in open => ~is[n].isOpen /\ ~is[n].keydown /\ Exits(calls', n)
             /\ n \notin open => is[n] = dom.instances[n]
             /\ Exits(calls, n) => Exits(calls', n)
  <2>1. is[n] = IF n \in open THEN [dom.instances[n] EXCEPT !.isOpen = FALSE, !.keydown = FALSE]
                ELSE dom.instances[n]
    BY <1>3
  <2>2. CASE n \in open
    <3>1. is[n] \in ModalInstances /\ is[n].el = dom.instances[n].el /\ ~is[n].isOpen /\ ~is[n].keydown
      BY <1>3, <2>1, <2>2 DEF ModalInstances
    <3>. QED
      BY <1>5, <1>6, <2>2, <3>1 DEF Exits
  <2>3. CASE n \notin open
    BY <1>3, <1>6, <2>1, <2>3 DEF Exits
  <2>. QED
    BY <2>2, <2>3
<1>8. is \in Seq(ModalInstances) /\ Len(is) = Len(dom.instances)
  <2>. HIDE DEF is
  <2>1. DOMAIN is = 1 .. Len(dom.instances) /\ is = [n \in 1 .. Len(dom.instances) |-> is[n]]
    BY <1>3 DEF is
  <2>2. is \in [1 .. Len(dom.instances) -> ModalInstances]
    BY <1>7, <2>1
  <2>. QED
    BY <1>3, <2>2
<1>. HIDE DEF is
<1>9. \A n \in 1 .. Len(is) : ClosesWell(is[n], Exits(calls', n))
  <2>. SUFFICES ASSUME NEW n \in 1 .. Len(is) PROVE ClosesWell(is[n], Exits(calls', n))
    OBVIOUS
  <2>1. ClosesWell(dom.instances[n], Exits(calls, n))
    BY <1>8 DEF ModalInv, ModalsWork
  <2>. QED
    BY <1>7, <1>8, <2>1 DEF ClosesWell
<1>10. \A el \in ModalElements : dom.mine[el] # 0 => dom.mine[el] \in 1 .. Len(is)
  BY <1>8 DEF ModalInv, ModalsWork
<1>11. \A el \in ModalElements : el \in dom.shown =>
          /\ dom.mine[el] # 0
          /\ is[dom.mine[el]].isOpen \/ Exits(calls', dom.mine[el])
  BY <1>7, <1>8, <1>10 DEF ModalInv, ModalsWork
<1>12. dom'.locked => \E n \in 1 .. Len(is) : is[n].isOpen
  BY <1>1, <1>7, <1>8 DEF ModalInv, ModalsWork
<1>13. \A c \in ToSet(calls') : c.el \in 1 .. Len(is)
  <2>1. \A c \in ToSet(exits) : c.el \in 1 .. Len(is)
    BY <1>5, <1>8
  <2>. QED
    BY <1>6, <1>8, <2>1 DEF ModalInv, ModalsWork
<1>14. \A el \in ModalElements : dom.mine[el] # 0 => is[dom.mine[el]].el = el
  BY <1>7, <1>8, <1>10 DEF ModalInv, ModalsWork
<1>15. dom'.mine \in [ModalElements -> 0 .. Len(is)]
  BY <1>1, <1>8 DEF ModalInv, ModalsWork
<1>. QED
  BY <1>1, <1>6, <1>8, <1>9, <1>11, <1>12, <1>13, <1>14, <1>15 DEF ModalInv, ModalsWork

LEMMA ModalEnds ==
  ASSUME ModalInv, NEW k \in DOMAIN calls, ModalWindows!End(k)
  PROVE  ModalInv'
<1>. DEFINE n == calls[k].el
            el == dom.instances[n].el
            t == RemoveAt(calls, k)
            i == [dom.instances[n] EXCEPT !.overlay = FALSE]
            is == [dom.instances EXCEPT ![n] = i]
<1>1. k \in 1 .. Len(calls) /\ calls' = t /\ IsSequence(calls)
  BY InSequence, ModalOperators DEF ModalWindows!End, ModalInv, ModalsWork
<1>2. /\ IsSequence(t) /\ ToSet(t) \subseteq ToSet(calls)
      /\ ToSet(calls) \subseteq ToSet(t) \cup {calls[k]} /\ calls[k] \in ToSet(calls)
  BY <1>1, RemovedOne
<1>. HIDE DEF t
<1>3. n \in 1 .. Len(dom.instances) /\ dom.instances[n] \in ModalInstances
  BY <1>2 DEF ModalInv, ModalsWork
<1>4. /\ DOMAIN dom' = ModalFields /\ dom'.instances = is /\ dom'.shown = dom.shown \ {el}
      /\ dom'.mine = dom.mine /\ dom'.locked = dom.locked
  BY DEF ModalWindows!End, ModalInv, ModalsWork, ModalFields
<1>5. /\ i \in ModalInstances /\ i.el = el /\ i.isOpen = dom.instances[n].isOpen
      /\ i.keydown = dom.instances[n].keydown /\ i.overlay = FALSE
  BY <1>3 DEF ModalInstances
<1>. HIDE DEF i
<1>6. /\ is \in Seq(ModalInstances) /\ Len(is) = Len(dom.instances)
      /\ \A m \in 1 .. Len(is) : is[m] = IF m = n THEN i ELSE dom.instances[m]
  BY <1>3, <1>5, InstanceChanged DEF ModalInv, ModalsWork
<1>7. \A m \in 1 .. Len(is) : m # n /\ Exits(calls, m) => Exits(t, m)
  BY <1>2 DEF Exits
<1>. HIDE DEF is, n, el
<1>8. \A m \in 1 .. Len(is) : /\ ClosesWell(is[m], Exits(t, m))
                              /\ is[m].isOpen <=> dom.instances[m].isOpen
                              /\ is[m].el = dom.instances[m].el
  <2>. SUFFICES ASSUME NEW m \in 1 .. Len(is)
                PROVE  /\ ClosesWell(is[m], Exits(t, m))
                       /\ is[m].isOpen <=> dom.instances[m].isOpen
                       /\ is[m].el = dom.instances[m].el
    OBVIOUS
  <2>1. ClosesWell(dom.instances[m], Exits(calls, m))
    BY <1>6 DEF ModalInv, ModalsWork
  <2>. QED
    BY <1>3, <1>5, <1>6, <1>7, <2>1 DEF ClosesWell, el
<1>9. \A x \in ModalElements : dom.mine[x] # 0 =>
         dom.mine[x] \in 1 .. Len(is) /\ (dom.mine[x] = n => x = el)
  BY <1>6 DEF ModalInv, ModalsWork, el
<1>10. dom'.mine \in [ModalElements -> 0 .. Len(is)]
  BY <1>4, <1>6 DEF ModalInv, ModalsWork
<1>11. \A x \in ModalElements : x \in dom'.shown =>
          /\ dom'.mine[x] # 0
          /\ is[dom'.mine[x]].isOpen \/ Exits(t, dom'.mine[x])
  BY <1>4, <1>7, <1>8, <1>9 DEF ModalInv, ModalsWork
<1>12. \A c \in ToSet(t) : c.el \in 1 .. Len(is)
  BY <1>2, <1>6 DEF ModalInv, ModalsWork
<1>13. dom'.locked => \E m \in 1 .. Len(is) : is[m].isOpen
  BY <1>4, <1>6, <1>8 DEF ModalInv, ModalsWork
<1>14. \A x \in ModalElements : dom.mine[x] # 0 => is[dom.mine[x]].el = x
  BY <1>8, <1>9, <1>6 DEF ModalInv, ModalsWork
<1>. QED
  BY <1>1, <1>2, <1>4, <1>6, <1>8, <1>10, <1>11, <1>12, <1>13, <1>14 DEF ModalInv, ModalsWork

LEMMA ModalStep == ModalInv /\ ModalWindows!Next => ModalInv'
<1>. SUFFICES ASSUME ModalInv, ModalWindows!Next PROVE ModalInv'
  OBVIOUS
<1>1. ASSUME NEW el \in ModalElements PROVE dom.mine[el] # 0 => dom.mine[el] \in 1 .. Len(dom.instances)
  BY DEF ModalInv, ModalsWork
<1>2. ASSUME NEW d, ModalsWork(d, calls), dom' = d, calls' = calls PROVE ModalInv'
  BY <1>2 DEF ModalInv
<1>3. ASSUME NEW el \in ModalElements, ModalWindows!New(el) PROVE ModalInv'
  <2>. DEFINE d == IF dom.mine[el] = 0 THEN dom ELSE ModalWindows!Destroyed(dom, el)
  <2>1. ModalsWork(d, calls) /\ d.mine[el] = 0
    BY ModalDestroyed DEF ModalInv
  <2>2. PICK dismissible \in BOOLEAN : dom' = ModalWindows!Add(d, el, dismissible)
    BY <1>3 DEF ModalWindows!New, ModalWindows!None
  <2>3. calls' = calls
    BY <1>3 DEF ModalWindows!New
  <2>. HIDE DEF d
  <2>. QED
    BY <1>2, <2>1, <2>2, <2>3, ModalAdded
<1>4. ASSUME NEW el \in ModalElements, ModalWindows!Destroy(el) PROVE ModalInv'
  BY <1>2, <1>4, ModalDestroyed DEF ModalWindows!Destroy, ModalWindows!None, ModalInv
<1>5. ASSUME NEW el \in ModalElements, ModalWindows!TriggerClick(el) PROVE ModalInv'
  BY <1>2, <1>5, ModalOpened DEF ModalWindows!TriggerClick, ModalWindows!None, ModalInv
<1>6. ASSUME NEW el \in ModalElements, ModalWindows!CloseClick(el) PROVE ModalInv'
  <2>1. {dom.mine[el]} \in SUBSET (1 .. Len(dom.instances))
    BY <1>1, <1>6 DEF ModalWindows!CloseClick, ModalWindows!None
  <2>. QED
    BY <1>6, <2>1, ModalClosed DEF ModalWindows!CloseClick
<1>7. ASSUME NEW n \in DOMAIN dom.instances, ModalWindows!OverlayClick(n) PROVE ModalInv'
  <2>1. {n} \in SUBSET (1 .. Len(dom.instances))
    BY DEF ModalInv, ModalsWork
  <2>. QED
    BY <1>7, <2>1, ModalClosed DEF ModalWindows!OverlayClick
<1>8. CASE ModalWindows!Escape
  <2>. DEFINE ns == {n \in DOMAIN dom.instances : dom.instances[n].keydown}
  <2>1. ns \in SUBSET (1 .. Len(dom.instances))
    BY DEF ModalInv, ModalsWork
  <2>. QED
    BY <1>8, <2>1, ModalClosed DEF ModalWindows!Escape
<1>. QED
  BY <1>3, <1>4, <1>5, <1>6, <1>7, <1>8, ModalEnds DEF ModalWindows!Next

LEMMA ModalRests == ModalInv => ModalWindows!NothingLeftBehind /\ ModalWindows!ShownAsMarked
<1>. SUFFICES ASSUME ModalInv, calls = <<>>
              PROVE  ModalWindows!NothingLeftBehind /\ ModalWindows!ShownAsMarked
  BY DEF ModalWindows!NothingLeftBehind, ModalWindows!ShownAsMarked, ModalWindows!Settled
<1>1. \A n : ~Exits(calls, n)
  BY EmptySequence DEF Exits
<1>2. DOMAIN dom.instances = 1 .. Len(dom.instances)
  BY DEF ModalInv, ModalsWork
<1>3. ModalWindows!NothingLeftBehind
  BY <1>1, <1>2 DEF ModalInv, ModalsWork, ClosesWell, ModalWindows!NothingLeftBehind,
     ModalWindows!Instances
<1>4. ModalWindows!ShownAsMarked
  BY <1>1 DEF ModalInv, ModalsWork, ModalWindows!ShownAsMarked, ModalWindows!Mine, ModalWindows!None
<1>. QED
  BY <1>3, <1>4

-----------------------------------------------------------------------------
(* SideNav *)

NavFields == {"draggable", "menuOut", "menu", "overlays", "made", "locked", "panning", "bound",
              "hurried"}
Under(cs, then) == \E c \in ToSet(cs) : c.then = then
Removal(cs, o) == \E c \in ToSet(cs) : c.then = "removed" /\ c.el = o

(* An overlay that stays as long as the page is locked.                    *)
Clickable(d, cs) ==
    /\ ~d.panning
    /\ d.locked => \E o \in ToSet(d.overlays) : ~Removal(cs, o)

(* There is one overlay at most.  While the page is locked the menu is out *)
(* or comes out; otherwise it is in or goes, and so does the overlay.      *)
MenuComes(d, cs) ==
    /\ d.overlays # <<>> /\ ~Under(cs, "removed") /\ ~Under(cs, "in")
    /\ d.menu = "out" \/ Under(cs, "out") \/ d.panning
    /\ d.menuOut \/ Under(cs, "opened") \/ d.panning
MenuGoes(d, cs) ==
    /\ \A o \in ToSet(d.overlays) : Removal(cs, o)
    /\ d.menu = "in" \/ Under(cs, "in")
    /\ ~Under(cs, "out")
Calm(d, cs) ==
    /\ d.panning => cs = <<>> /\ d.locked
    /\ d.overlays = <<>> \/ \E o : d.overlays = <<o>>
    /\ IF d.locked THEN MenuComes(d, cs) ELSE MenuGoes(d, cs)

NavCall(c, n) == c.then \in {"in", "out"} \/ (c.then \in {"removed", "opened"} /\ c.el \in 1 .. n)
NavWorks(d, cs) ==
    /\ DOMAIN d = NavFields
    /\ d.made \in Seq({"click", "pan"}) /\ d.overlays \in Seq(1 .. Len(d.made))
    /\ IsSequence(cs) /\ \A c \in ToSet(cs) : NavCall(c, Len(d.made))
    /\ ~d.draggable => Clickable(d, cs)
    /\ ~d.hurried => Calm(d, cs)
NavInv == NavWorks(dom, calls)

LEMMA NavOperators ==
  /\ \A t, k : Menus!Ended(t, k) = RemoveAt(t, k)
  /\ \A t, S : Menus!Without(t, S) = Without(t, S)
  /\ \A el, dur, then : Menus!Vel(el, dur, then) =
        [clock |-> "velocity", el |-> el, dur |-> dur, then |-> then]
<1>1. \A t, S : Menus!Without(t, S) = Without(t, S)
  BY DEF Without, Menus!Without
<1>2. \A t, k : Menus!Ended(t, k) = RemoveAt(t, k)
  BY DEF Menus!Ended, Menus!RemoveAt, RemoveAt
<1>. QED
  BY <1>1, <1>2 DEF Menus!Vel, Menus!Call

LEMMA NavBegins == Menus!Init => NavInv
<1>. SUFFICES ASSUME Menus!Init PROVE NavInv
  OBVIOUS
<1>1. PICK draggable \in BOOLEAN :
         dom = [draggable |-> draggable, menuOut |-> FALSE, menu |-> "in", overlays |-> <<>>,
                made |-> <<>>, locked |-> FALSE, panning |-> FALSE, bound |-> TRUE,
                hurried |-> FALSE]
  BY DEF Menus!Init
<1>2. calls = <<>>
  BY DEF Menus!Init
<1>. QED
  BY <1>1, <1>2, EmptySequence
  DEF NavInv, NavWorks, NavFields, Clickable, Calm, MenuGoes, Under, Removal

(* The fading of the first overlay, if there is one *)
LEMMA FirstFades ==
  ASSUME NavInv
  PROVE  LET fade == Menus!Fade(Menus!FirstOverlay, 200, "removed")
         IN  /\ IsSequence(fade) /\ \A c \in ToSet(fade) : c.then = "removed" /\ c.el \in 1 .. Len(dom.made)
             /\ \A o : dom.overlays = <<o>> => Removal(fade, o)
<1>. DEFINE fade == Menus!Fade(Menus!FirstOverlay, 200, "removed")
<1>1. CASE dom.overlays = <<>>
  <2>1. DOMAIN <<>> = {} /\ \A o : <<>> # <<o>>
    OBVIOUS
  <2>2. fade = [k \in {} |-> Menus!Vel(<<>>[k], 200, "removed")]
    BY <1>1, <2>1 DEF Menus!Fade, Menus!FirstOverlay
  <2>3. fade = <<>>
    BY <2>2
  <2>. QED
    BY <1>1, <2>1, <2>3, EmptySequence
<1>2. CASE dom.overlays # <<>>
  <2>. DEFINE o == Head(dom.overlays)
              c == Menus!Vel(o, 200, "removed")
  <2>1. o \in 1 .. Len(dom.made) /\ \A p : dom.overlays = <<p>> => p = o
    BY <1>2 DEF NavInv, NavWorks
  <2>2. Menus!FirstOverlay = <<o>>
    BY <1>2 DEF Menus!FirstOverlay
  <2>. HIDE DEF o
  <2>3. DOMAIN <<o>> = {1} /\ <<o>>[1] = o
    OBVIOUS
  <2>4. fade = [k \in {1} |-> c]
    BY <2>2, <2>3 DEF Menus!Fade
  <2>5. c.then = "removed" /\ c.el = o
    BY NavOperators
  <2>. HIDE DEF c
  <2>6. fade = <<c>>
    BY <2>4
  <2>. QED
    BY <2>1, <2>5, <2>6, OneInSequence DEF Removal
<1>. QED
  BY <1>1, <1>2

(* The menu goes in, with the overlay that there is. *)
LEMMA NavCloses ==
  ASSUME NavInv, DOMAIN dom' = NavFields, dom'.made = dom.made,
         dom'.overlays \in Seq(1 .. Len(dom.made)),
         dom'.draggable = dom.draggable, ~dom'.locked, ~dom'.draggable => ~dom'.panning,
         IsSequence(calls'), \A c \in ToSet(calls') : NavCall(c, Len(dom.made)),
         ~dom'.hurried =>
            /\ ~dom'.panning /\ Under(calls', "in") /\ ~Under(calls', "out")
            /\ dom'.overlays = <<>> \/ \E o : dom'.overlays = <<o>> /\ Removal(calls', o)
  PROVE  NavInv'
<1>1. \A o : ToSet(<<o>>) = {o}
  BY OneInSequence
<1>2. ASSUME ~dom'.hurried PROVE Calm(dom', calls')
  <2>1. \A o \in ToSet(dom'.overlays) : Removal(calls', o)
    <3>1. CASE dom'.overlays = <<>>
      BY <3>1, EmptySequence
    <3>2. CASE \E o : dom'.overlays = <<o>> /\ Removal(calls', o)
      <4>1. PICK o : dom'.overlays = <<o>> /\ Removal(calls', o)
        BY <3>2
      <4>2. ToSet(dom'.overlays) = {o}
        BY <1>1, <4>1
      <4>. QED
        BY <4>1, <4>2
    <3>. QED
      BY <1>2, <3>1, <3>2
  <2>. QED
    BY <1>2, <2>1 DEF Calm, MenuGoes
<1>. QED
  BY <1>2 DEF NavInv, NavWorks, Clickable

LEMMA NavRemoves ==
  ASSUME NavInv, NEW more, IsSequence(more), Menus!RemoveMenu(more),
         \A c \in ToSet(more) : c.then = "removed" /\ c.el \in 1 .. Len(dom.made)
  PROVE  NavInv'
<1>. DEFINE fade == Menus!Fade(Menus!FirstOverlay, 200, "removed")
            c == Menus!Vel("menu", 200, "in")
            t == (fade \o <<c>>) \o more
<1>1. /\ IsSequence(fade) /\ \A x \in ToSet(fade) : x.then = "removed" /\ x.el \in 1 .. Len(dom.made)
      /\ \A o : dom.overlays = <<o>> => Removal(fade, o)
  BY FirstFades
<1>2. c.then = "in"
  BY NavOperators
<1>3. calls' = ((calls \o fade) \o <<c>>) \o more
  BY DEF Menus!RemoveMenu
<1>. HIDE DEF fade, c
<1>4. IsSequence(<<c>>) /\ ToSet(<<c>>) = {c}
  BY OneInSequence
<1>5. /\ IsSequence(calls \o fade) /\ ToSet(calls \o fade) = ToSet(calls) \cup ToSet(fade)
  BY <1>1, InConcatenated DEF NavInv, NavWorks
<1>6. /\ IsSequence((calls \o fade) \o <<c>>)
      /\ ToSet((calls \o fade) \o <<c>>) = ToSet(calls) \cup ToSet(fade) \cup {c}
  BY <1>4, <1>5, InConcatenated
<1>7. IsSequence(calls') /\ ToSet(calls') = ToSet(calls) \cup ToSet(fade) \cup {c} \cup ToSet(more)
  BY <1>3, <1>6, InConcatenated
<1>8. /\ DOMAIN dom' = NavFields /\ dom'.made = dom.made /\ dom'.overlays = dom.overlays
      /\ dom'.draggable = dom.draggable /\ ~dom'.locked /\ dom'.panning = dom.panning
      /\ ~dom'.hurried => ~dom.hurried /\ calls = <<>> /\ ~dom.panning
  BY DEF Menus!RemoveMenu, Menus!Moving, NavInv, NavWorks, NavFields
<1>9. \A x \in ToSet(calls') : NavCall(x, Len(dom.made))
  BY <1>1, <1>2, <1>7 DEF NavInv, NavWorks, NavCall
<1>10. ASSUME ~dom'.hurried
       PROVE  /\ ~dom'.panning /\ Under(calls', "in") /\ ~Under(calls', "out")
              /\ dom'.overlays = <<>> \/ \E o : dom'.overlays = <<o>> /\ Removal(calls', o)
  <2>1. Under(calls', "in") /\ ~Under(calls', "out")
    BY <1>1, <1>2, <1>7, <1>8, <1>10, EmptySequence DEF Under
  <2>2. dom.overlays = <<>> \/ \E o : dom.overlays = <<o>>
    BY <1>8, <1>10 DEF NavInv, NavWorks, Calm
  <2>3. \A o : Removal(fade, o) => Removal(calls', o)
    BY <1>7 DEF Removal
  <2>. QED
    BY <1>1, <1>8, <1>10, <2>1, <2>2, <2>3
<1>11. ~dom'.draggable => ~dom'.panning
  BY <1>8 DEF NavInv, NavWorks, Clickable
<1>12. dom'.overlays \in Seq(1 .. Len(dom.made))
  BY <1>8 DEF NavInv, NavWorks
<1>. QED
  BY <1>7, <1>8, <1>9, <1>10, <1>11, <1>12, NavCloses

LEMMA NavClicked == NavInv /\ Menus!Click => NavInv'
<1>. SUFFICES ASSUME NavInv, Menus!Click PROVE NavInv'
  OBVIOUS
<1>1. CASE Menus!RemoveMenu(<<>>)
  BY <1>1, EmptySequence, NavRemoves
<1>2. CASE ~dom.menuOut /\ ~Menus!RemoveMenu(<<>>)
  <2>. DEFINE new == Len(dom.made) + 1
              c == Menus!Vel("menu", 300, "out")
              b == Menus!Vel(new, 300, "opened")
  <2>1. /\ DOMAIN dom' = NavFields /\ dom'.made = Append(dom.made, "click")
        /\ dom'.overlays = Append(dom.overlays, new)
        /\ dom'.draggable = dom.draggable /\ dom'.locked /\ dom'.panning = dom.panning
        /\ dom'.menuOut = dom.menuOut /\ dom'.menu = dom.menu
        /\ ~dom'.hurried => ~dom.hurried /\ calls = <<>> /\ ~dom.panning
    BY <1>2 DEF Menus!Click, Menus!NewOverlay, Menus!Moving, NavInv, NavWorks, NavFields
  <2>2. c.then = "out" /\ b.then = "opened" /\ b.el = new
    BY NavOperators
  <2>3. calls' = calls \o <<c, b>>
    BY <1>2 DEF Menus!Click, Menus!NewOverlay
  <2>. HIDE DEF b, c
  <2>4. IsSequence(<<c, b>>) /\ ToSet(<<c, b>>) = {c, b}
    <3>1. DOMAIN <<c, b>> = {1, 2} /\ <<c, b>>[1] = c /\ <<c, b>>[2] = b
      OBVIOUS
    <3>2. ToSet(<<c, b>>) = {c, b}
      BY <3>1 DEF ToSet
    <3>. QED
      BY <3>2 DEF IsSequence
  <2>5. IsSequence(calls') /\ ToSet(calls') = ToSet(calls) \cup {c, b}
    BY <2>3, <2>4, InConcatenated DEF NavInv, NavWorks
  <2>6. /\ dom'.made \in Seq({"click", "pan"}) /\ Len(dom'.made) = new
        /\ new \in Nat /\ Len(dom.made) \in Nat /\ new \in 1 .. new
        /\ 1 .. Len(dom.made) \subseteq 1 .. new /\ new \notin 1 .. Len(dom.made)
    BY <2>1 DEF NavInv, NavWorks
  <2>. HIDE DEF new
  <2>7. dom.overlays \in Seq(1 .. new)
    BY <2>6 DEF NavInv, NavWorks
  <2>8. dom'.overlays \in Seq(1 .. new) /\ ToSet(dom'.overlays) = ToSet(dom.overlays) \cup {new}
    BY <2>1, <2>6, <2>7, AddedToSet, AppendProperties
  <2>9. \A x \in ToSet(calls') : NavCall(x, new)
    BY <2>2, <2>5, <2>6 DEF NavInv, NavWorks, NavCall
  <2>10. ~Removal(calls', new)
    BY <2>2, <2>5, <2>6 DEF NavInv, NavWorks, NavCall, Removal
  <2>11. ~dom'.draggable => Clickable(dom', calls')
    BY <2>1, <2>8, <2>10 DEF NavInv, NavWorks, Clickable
  <2>12. ASSUME ~dom'.hurried PROVE Calm(dom', calls')
    <3>1. ~dom.locked /\ calls = <<>> /\ Calm(dom, calls) /\ ~dom'.panning
      BY <1>2, <2>1, <2>12, EmptySequence DEF NavInv, NavWorks, Calm, MenuComes, Under
    <3>2. ToSet(dom.overlays) = {}
      BY <3>1, EmptySequence DEF Calm, MenuGoes, Removal
    <3>3. dom.overlays = <<>>
      BY <3>2, SequenceOf, InSequence DEF NavInv, NavWorks
    <3>4. dom'.overlays = Append(<<>>, new)
      BY <2>1, <3>3
    <3>5. dom'.overlays = <<new>> /\ dom'.overlays # <<>>
      BY <3>4
    <3>6. /\ Under(calls', "out") /\ Under(calls', "opened")
          /\ ~Under(calls', "removed") /\ ~Under(calls', "in")
      BY <2>2, <2>5, <3>1, EmptySequence DEF Under
    <3>. QED
      BY <2>1, <3>1, <3>5, <3>6 DEF Calm, MenuComes
  <2>. QED
    BY <2>1, <2>5, <2>6, <2>8, <2>9, <2>11, <2>12 DEF NavInv, NavWorks
<1>. QED
  BY <1>1, <1>2 DEF Menus!Click

LEMMA NavPanned == NavInv /\ Menus!Pan => NavInv'
<1>. SUFFICES ASSUME NavInv, Menus!Pan PROVE NavInv'
  OBVIOUS
<1>. DEFINE new == Len(dom.made) + 1
            overlays == IF dom.overlays = <<>> THEN <<new>> ELSE dom.overlays
            made == IF dom.overlays = <<>> THEN Append(dom.made, "pan") ELSE dom.made
<1>1. /\ DOMAIN dom' = NavFields /\ dom'.made = made /\ dom'.overlays = overlays
      /\ dom'.draggable = dom.draggable /\ dom.draggable /\ dom'.locked /\ dom'.panning
      /\ ~dom'.hurried => ~dom.hurried /\ calls = <<>>
      /\ calls' = calls
  BY DEF Menus!Pan, Menus!NewOverlay, Menus!Moving, NavInv, NavWorks, NavFields
<1>2. new \in Nat /\ Len(dom.made) \in Nat /\ new \in 1 .. new /\ 1 .. Len(dom.made) \subseteq 1 .. new
  BY DEF NavInv, NavWorks
<1>3. /\ made \in Seq({"click", "pan"}) /\ overlays \in Seq(1 .. Len(made))
      /\ 1 .. Len(dom.made) \subseteq 1 .. Len(made)
  <2>1. CASE dom.overlays = <<>>
    <3>1. made \in Seq({"click", "pan"}) /\ Len(made) = new
      BY <2>1 DEF NavInv, NavWorks
    <3>. HIDE DEF new
    <3>. QED
      BY <1>2, <2>1, <3>1
  <2>2. CASE dom.overlays # <<>>
    BY <2>2 DEF NavInv, NavWorks
  <2>. QED
    BY <2>1, <2>2
<1>4. overlays # <<>> /\ ((\E o : dom.overlays = <<o>>) \/ dom.overlays = <<>> => \E o : overlays = <<o>>)
  OBVIOUS
<1>. HIDE DEF overlays, made, new
<1>5. \A c \in ToSet(calls') : NavCall(c, Len(made))
  BY <1>1, <1>3 DEF NavInv, NavWorks, NavCall
<1>6. ASSUME ~dom'.hurried PROVE Calm(dom', calls')
  <2>1. Calm(dom, calls) /\ calls' = <<>>
    BY <1>1, <1>6 DEF NavInv, NavWorks
  <2>2. \E o : overlays = <<o>>
    BY <1>4, <2>1 DEF Calm
  <2>3. \A then : ~Under(calls', then)
    BY <2>1, EmptySequence DEF Under
  <2>. QED
    BY <1>1, <1>4, <2>1, <2>2, <2>3 DEF Calm, MenuComes
<1>. QED
  BY <1>1, <1>3, <1>5, <1>6 DEF NavInv, NavWorks

LEMMA NavPanEnded == NavInv /\ Menus!PanEnd => NavInv'
<1>. SUFFICES ASSUME NavInv, Menus!PanEnd PROVE NavInv'
  OBVIOUS
<1>1. dom.panning /\ dom.draggable
  BY DEF Menus!PanEnd, NavInv, NavWorks, Clickable
<1>2. CASE /\ dom' = [dom EXCEPT !.panning = FALSE, !.menuOut = TRUE, !.hurried = @ \/ calls # <<>>]
           /\ calls' = Append(calls, Menus!Vel("menu", 300, "out"))
  <2>1. PICK c : c = Menus!Vel("menu", 300, "out")
    OBVIOUS
  <2>2. c.then = "out"
    BY <2>1, NavOperators
  <2>3. IsSequence(calls') /\ ToSet(calls') = ToSet(calls) \cup {c}
    BY <1>2, <2>1, InAppended DEF NavInv, NavWorks
  <2>4. /\ DOMAIN dom' = NavFields /\ dom'.made = dom.made /\ dom'.overlays = dom.overlays
        /\ dom'.draggable = dom.draggable /\ dom'.locked = dom.locked /\ ~dom'.panning
        /\ dom'.menuOut = TRUE
        /\ ~dom'.hurried => ~dom.hurried /\ calls = <<>>
    BY <1>2 DEF NavInv, NavWorks, NavFields
  <2>5. \A x \in ToSet(calls') : NavCall(x, Len(dom.made))
    BY <2>2, <2>3 DEF NavInv, NavWorks, NavCall
  <2>6. ASSUME ~dom'.hurried PROVE Calm(dom', calls')
    <3>1. Calm(dom, calls) /\ calls = <<>>
      BY <2>4, <2>6 DEF NavInv, NavWorks
    <3>2. Under(calls', "out") /\ ~Under(calls', "removed") /\ ~Under(calls', "in")
      BY <2>2, <2>3, <3>1, EmptySequence DEF Under
    <3>. QED
      BY <1>1, <2>4, <3>1, <3>2 DEF Calm, MenuComes
  <2>. QED
    BY <1>1, <2>3, <2>4, <2>5, <2>6 DEF NavInv, NavWorks
<1>3. CASE /\ dom' = [dom EXCEPT !.panning = FALSE, !.locked = FALSE, !.hurried = @ \/ calls # <<>>]
           /\ calls' = calls \o <<Menus!Vel("menu", 200, "in")>>
                             \o Menus!Fade(Menus!FirstOverlay, 200, "removed")
  <2>. DEFINE fade == Menus!Fade(Menus!FirstOverlay, 200, "removed")
              c == Menus!Vel("menu", 200, "in")
  <2>1. /\ IsSequence(fade) /\ \A x \in ToSet(fade) : x.then = "removed" /\ x.el \in 1 .. Len(dom.made)
        /\ \A o : dom.overlays = <<o>> => Removal(fade, o)
    BY FirstFades
  <2>2. c.then = "in"
    BY NavOperators
  <2>3. calls' = (calls \o <<c>>) \o fade
    BY <1>3
  <2>. HIDE DEF fade, c
  <2>4. IsSequence(<<c>>) /\ ToSet(<<c>>) = {c}
    BY OneInSequence
  <2>5. IsSequence(calls \o <<c>>) /\ ToSet(calls \o <<c>>) = ToSet(calls) \cup {c}
    BY <2>4, InConcatenated DEF NavInv, NavWorks
  <2>6. IsSequence(calls') /\ ToSet(calls') = ToSet(calls) \cup {c} \cup ToSet(fade)
    BY <2>1, <2>3, <2>5, InConcatenated
  <2>7. /\ DOMAIN dom' = NavFields /\ dom'.made = dom.made /\ dom'.overlays = dom.overlays
        /\ dom'.draggable = dom.draggable /\ ~dom'.locked /\ ~dom'.panning
        /\ ~dom'.hurried => ~dom.hurried /\ calls = <<>>
    BY <1>3 DEF NavInv, NavWorks, NavFields
  <2>8. \A x \in ToSet(calls') : NavCall(x, Len(dom.made))
    BY <2>1, <2>2, <2>6 DEF NavInv, NavWorks, NavCall
  <2>9. ASSUME ~dom'.hurried
        PROVE  /\ Under(calls', "in") /\ ~Under(calls', "out")
               /\ dom'.overlays = <<>> \/ \E o : dom'.overlays = <<o>> /\ Removal(calls', o)
    <3>1. Under(calls', "in") /\ ~Under(calls', "out")
      BY <2>1, <2>2, <2>6, <2>7, <2>9, EmptySequence DEF Under
    <3>2. dom.overlays = <<>> \/ \E o : dom.overlays = <<o>>
      BY <2>7, <2>9 DEF NavInv, NavWorks, Calm
    <3>3. \A o : Removal(fade, o) => Removal(calls', o)
      BY <2>6 DEF Removal
    <3>. QED
      BY <2>1, <2>7, <3>1, <3>2, <3>3
  <2>10. dom'.overlays \in Seq(1 .. Len(dom.made))
    BY <2>7 DEF NavInv, NavWorks
  <2>. QED
    BY <2>6, <2>7, <2>8, <2>9, <2>10, NavCloses
<1>. QED
  BY <1>2, <1>3 DEF Menus!PanEnd

LEMMA NavDestroyed == NavInv /\ Menus!Destroy => NavInv'
<1>. SUFFICES ASSUME NavInv, Menus!Destroy PROVE NavInv'
  OBVIOUS
<1>1. CASE dom.overlays = <<>>
  <2>1. /\ DOMAIN dom' = NavFields /\ dom'.made = dom.made /\ dom'.overlays = dom.overlays
        /\ dom'.draggable = dom.draggable /\ dom'.locked = dom.locked
        /\ dom'.panning = dom.panning /\ dom'.menuOut = dom.menuOut /\ dom'.menu = dom.menu
        /\ ~dom'.hurried => ~dom.hurried
        /\ calls' = calls
    BY <1>1 DEF Menus!Destroy, NavInv, NavWorks, NavFields
  <2>. QED
    BY <2>1 DEF NavInv, NavWorks, Clickable, Calm, MenuComes, MenuGoes
<1>2. CASE dom.overlays # <<>>
  <2>. DEFINE fade == Menus!Fade(Menus!FirstOverlay, 200, "removed")
              c == Menus!Vel("menu", 200, "in")
  <2>1. /\ IsSequence(fade) /\ \A x \in ToSet(fade) : x.then = "removed" /\ x.el \in 1 .. Len(dom.made)
    BY FirstFades
  <2>2. c.then = "in"
    BY NavOperators
  <2>3. calls' = (calls \o fade) \o <<c>>
    BY <1>2 DEF Menus!Destroy
  <2>. HIDE DEF fade, c
  <2>4. IsSequence(<<c>>) /\ ToSet(<<c>>) = {c}
    BY OneInSequence
  <2>5. IsSequence(calls \o fade) /\ ToSet(calls \o fade) = ToSet(calls) \cup ToSet(fade)
    BY <2>1, InConcatenated DEF NavInv, NavWorks
  <2>6. IsSequence(calls') /\ ToSet(calls') = ToSet(calls) \cup ToSet(fade) \cup {c}
    BY <2>3, <2>4, <2>5, InConcatenated
  <2>7. /\ DOMAIN dom' = NavFields /\ dom'.made = dom.made /\ dom'.overlays = Tail(dom.overlays)
        /\ dom'.draggable = dom.draggable /\ ~dom'.locked /\ ~dom'.panning
        /\ ~dom'.hurried => ~dom.hurried /\ calls = <<>>
    BY <1>2 DEF Menus!Destroy, Menus!Moving, NavInv, NavWorks, NavFields
  <2>8. \A x \in ToSet(calls') : NavCall(x, Len(dom.made))
    BY <2>1, <2>2, <2>6 DEF NavInv, NavWorks, NavCall
  <2>9. ASSUME ~dom'.hurried
        PROVE  Under(calls', "in") /\ ~Under(calls', "out") /\ dom'.overlays = <<>>
    <3>1. Under(calls', "in") /\ ~Under(calls', "out")
      BY <2>1, <2>2, <2>6, <2>7, <2>9, EmptySequence DEF Under
    <3>2. PICK o : dom.overlays = <<o>>
      BY <1>2, <2>7, <2>9 DEF NavInv, NavWorks, Calm
    <3>3. Tail(<<o>>) = <<>>
      OBVIOUS
    <3>. QED
      BY <2>7, <3>1, <3>2, <3>3
  <2>10. dom'.overlays \in Seq(1 .. Len(dom.made))
    <3>1. dom.overlays \in Seq(1 .. Len(dom.made))
      BY DEF NavInv, NavWorks
    <3>. QED
      BY <1>2, <2>7, <3>1, HeadTailProperties
  <2>. QED
    BY <2>6, <2>7, <2>8, <2>9, <2>10, NavCloses
<1>. QED
  BY <1>1, <1>2

LEMMA NavOverlayClicked ==
  ASSUME NavInv, NEW o \in DOMAIN dom.made, Menus!ClickOverlay(o)
  PROVE  NavInv'
<1>1. CASE dom.made[o] = "click"
  <2>1. PICK c : c = Menus!Vel(o, 300, "removed")
    OBVIOUS
  <2>2. c.then = "removed" /\ c.el = o /\ o \in 1 .. Len(dom.made)
    BY <2>1, NavOperators DEF NavInv, NavWorks
  <2>3. Menus!RemoveMenu(<<c>>)
    BY <1>1, <2>1 DEF Menus!ClickOverlay
  <2>. QED
    BY <2>2, <2>3, OneInSequence, NavRemoves
<1>2. CASE dom.made[o] # "click"
  BY <1>2, EmptySequence, NavRemoves DEF Menus!ClickOverlay
<1>. QED
  BY <1>1, <1>2

LEMMA NavEnds ==
  ASSUME NavInv, NEW k \in DOMAIN calls, Menus!End(k)
  PROVE  NavInv'
<1>. DEFINE c == calls[k]
            t == RemoveAt(calls, k)
            overlays == Without(dom.overlays, {c.el})
<1>1. k \in 1 .. Len(calls) /\ calls' = t /\ IsSequence(calls)
  BY InSequence, NavOperators DEF Menus!End, NavInv, NavWorks
<1>2. /\ IsSequence(t) /\ ToSet(t) \subseteq ToSet(calls)
      /\ ToSet(calls) \subseteq ToSet(t) \cup {c} /\ c \in ToSet(calls)
  BY <1>1, RemovedOne
<1>. HIDE DEF t
<1>3. NavCall(c, Len(dom.made)) /\ ~(calls = <<>>)
  BY <1>1, <1>2, EmptySequence DEF NavInv, NavWorks
<1>4. \A then : /\ Under(t, then) => Under(calls, then)
                /\ Under(calls, then) /\ then # c.then => Under(t, then)
  BY <1>2 DEF Under
<1>5. \A o : /\ Removal(t, o) => Removal(calls, o)
             /\ Removal(calls, o) /\ ~(c.then = "removed" /\ o = c.el) => Removal(t, o)
  BY <1>2 DEF Removal
<1>6. \A x \in ToSet(t) : NavCall(x, Len(dom.made))
  BY <1>2 DEF NavInv, NavWorks
<1>7. dom' = CASE c.then = "opened" -> [dom EXCEPT !.menuOut = TRUE]
               [] c.then = "removed" -> [dom EXCEPT !.overlays = overlays]
               [] OTHER -> [dom EXCEPT !.menu = c.then]
  BY NavOperators DEF Menus!End
<1>8. Under(calls, c.then) /\ (c.then = "removed" => Removal(calls, c.el))
  BY <1>2 DEF Under, Removal
<1>. HIDE DEF c, overlays
<1>9. CASE c.then = "opened"
  <2>1. /\ DOMAIN dom' = NavFields /\ dom'.made = dom.made /\ dom'.overlays = dom.overlays
        /\ dom'.draggable = dom.draggable /\ dom'.locked = dom.locked
        /\ dom'.panning = dom.panning /\ dom'.menuOut = TRUE /\ dom'.menu = dom.menu
        /\ dom'.hurried = dom.hurried
    BY <1>7, <1>9 DEF NavInv, NavWorks, NavFields
  <2>2. ~dom'.draggable => Clickable(dom', t)
    BY <1>5, <2>1 DEF NavInv, NavWorks, Clickable
  <2>3. ~dom'.hurried => Calm(dom', t)
    BY <1>3, <1>4, <1>5, <1>9, <2>1 DEF NavInv, NavWorks, Calm, MenuComes, MenuGoes
  <2>. QED
    BY <1>1, <1>2, <1>6, <2>1, <2>2, <2>3 DEF NavInv, NavWorks
<1>10. CASE c.then = "removed"
  <2>1. /\ DOMAIN dom' = NavFields /\ dom'.made = dom.made /\ dom'.overlays = overlays
        /\ dom'.draggable = dom.draggable /\ dom'.locked = dom.locked
        /\ dom'.panning = dom.panning /\ dom'.menuOut = dom.menuOut /\ dom'.menu = dom.menu
        /\ dom'.hurried = dom.hurried
    BY <1>7, <1>10 DEF NavInv, NavWorks, NavFields
  <2>2. /\ overlays \in Seq(1 .. Len(dom.made)) /\ ToSet(overlays) = ToSet(dom.overlays) \ {c.el}
        /\ (\A i \in 1 .. Len(dom.overlays) : dom.overlays[i] \notin {c.el}) => overlays = dom.overlays
    BY WhatIsLeft DEF NavInv, NavWorks, overlays
  <2>3. ~dom'.draggable => Clickable(dom', t)
    BY <1>5, <1>8, <1>10, <2>1, <2>2 DEF NavInv, NavWorks, Clickable
  <2>4. ASSUME ~dom'.hurried PROVE Calm(dom', t)
    <3>1. Calm(dom, calls) /\ ~dom.locked /\ MenuGoes(dom, calls) /\ ~dom.panning
      BY <1>3, <1>8, <1>10, <2>1, <2>4 DEF NavInv, NavWorks, Calm, MenuComes
    <3>2. overlays = <<>> \/ \E o : overlays = <<o>>
      <4>1. CASE overlays = dom.overlays
        BY <3>1, <4>1 DEF Calm
      <4>2. CASE overlays # dom.overlays
        <5>1. PICK i \in 1 .. Len(dom.overlays) : dom.overlays[i] = c.el
          BY <2>2, <4>2
        <5>2. dom.overlays # <<>>
          BY <5>1
        <5>3. PICK o : dom.overlays = <<o>>
          BY <3>1, <5>2 DEF Calm
        <5>4. o = c.el
          BY <5>1, <5>3
        <5>5. ToSet(overlays) = {}
          BY <2>2, <5>3, <5>4, OneInSequence
        <5>. QED
          BY <2>2, <5>5, SequenceOf, InSequence
      <4>. QED
        BY <4>1, <4>2
    <3>3. MenuGoes(dom', t)
      BY <1>4, <1>5, <1>10, <2>1, <2>2, <3>1 DEF MenuGoes
    <3>. QED
      BY <2>1, <3>1, <3>2, <3>3 DEF Calm
  <2>. QED
    BY <1>1, <1>2, <1>6, <2>1, <2>2, <2>3, <2>4 DEF NavInv, NavWorks
<1>11. CASE c.then \in {"in", "out"}
  <2>1. /\ DOMAIN dom' = NavFields /\ dom'.made = dom.made /\ dom'.overlays = dom.overlays
        /\ dom'.draggable = dom.draggable /\ dom'.locked = dom.locked
        /\ dom'.panning = dom.panning /\ dom'.menuOut = dom.menuOut /\ dom'.menu = c.then
        /\ dom'.hurried = dom.hurried
    BY <1>7, <1>11 DEF NavInv, NavWorks, NavFields
  <2>2. ~dom'.draggable => Clickable(dom', t)
    BY <1>5, <2>1 DEF NavInv, NavWorks, Clickable
  <2>3. ~dom'.hurried => Calm(dom', t)
    BY <1>3, <1>4, <1>5, <1>8, <1>11, <2>1 DEF NavInv, NavWorks, Calm, MenuComes, MenuGoes
  <2>. QED
    BY <1>1, <1>2, <1>6, <2>1, <2>2, <2>3 DEF NavInv, NavWorks
<1>. QED
  BY <1>3, <1>9, <1>10, <1>11 DEF NavCall

LEMMA NavStep == NavInv /\ Menus!Next => NavInv'
<1>. SUFFICES ASSUME NavInv, Menus!Next PROVE NavInv'
  OBVIOUS
<1>1. CASE Menus!ClickDragTarget
  BY <1>1, EmptySequence, NavRemoves DEF Menus!ClickDragTarget
<1>. QED
  BY <1>1, NavClicked, NavPanned, NavPanEnded, NavDestroyed, NavOverlayClicked, NavEnds
  DEF Menus!Next

LEMMA NavRests == NavInv => Menus!NothingLeftBehind
<1>. SUFFICES ASSUME NavInv PROVE Menus!NothingLeftBehind
  OBVIOUS
<1>1. ASSUME calls = <<>>, ~dom.panning, ~dom.hurried
      PROVE  (dom.locked <=> dom.menu = "out") /\ (dom.locked <=> dom.overlays # <<>>)
  <2>1. /\ \A then : ~Under(calls, then)
        /\ \A o : ~Removal(calls, o)
    BY <1>1, EmptySequence DEF Under, Removal
  <2>2. CASE dom.locked
    BY <1>1, <2>1, <2>2 DEF NavInv, NavWorks, Calm, MenuComes
  <2>3. CASE ~dom.locked
    <3>1. ToSet(dom.overlays) = {} /\ dom.menu = "in"
      BY <1>1, <2>1, <2>3 DEF NavInv, NavWorks, Calm, MenuGoes
    <3>2. dom.overlays = <<>>
      BY <3>1, SequenceOf, InSequence DEF NavInv, NavWorks
    <3>. QED
      BY <2>3, <3>1, <3>2
  <2>. QED
    BY <2>2, <2>3
<1>2. ~dom.draggable /\ dom.locked => dom.overlays # <<>>
  BY EmptySequence DEF NavInv, NavWorks, Clickable
<1>. QED
  BY <1>1, <1>2 DEF Menus!NothingLeftBehind, Menus!Settled

-----------------------------------------------------------------------------
(* Toasts *)

ToastFields == {"made", "toasts", "shown", "container", "dragged"}
Toast == [timeRemaining : Int, timer : BOOLEAN, panning : BOOLEAN]

(* What is shown is listed once, and stays for ever, has a timer or goes.  *)
Going(cs, t) == \E c \in ToSet(cs) : c.el = t
ToastsListed(d) ==
    /\ d.toasts \in Seq(1 .. Len(d.made)) /\ IsInjective(d.toasts)
    /\ d.shown = ToSet(d.toasts) /\ (d.container <=> d.shown # {})
ToastsGo(d, cs) ==
    \A t \in d.shown : d.made[t].timeRemaining = 0 \/ d.made[t].timer \/ Going(cs, t)
ToastsWork(d, cs) ==
    /\ DOMAIN d = ToastFields /\ d.made \in Seq(Toast) /\ d.dragged \in 0 .. Len(d.made)
    /\ ToastsListed(d) /\ ToastsGo(d, cs)
    /\ IsSequence(cs) /\ \A c \in ToSet(cs) : c.el \in 1 .. Len(d.made)
ToastInv == ToastsWork(dom, calls)

LEMMA ToastOperators ==
  /\ \A t, k : Messages!Ended(t, k) = RemoveAt(t, k)
  /\ \A t, S : Messages!Without(t, S) = Without(t, S)
  /\ \A t : Messages!ToSet(t) = ToSet(t)
  /\ \A t : Messages!IsInjective(t) <=> IsInjective(t)
  /\ \A t : Messages!Removing(t).el = t
<1>1. \A t, S : Messages!Without(t, S) = Without(t, S)
  BY DEF Without, Messages!Without
<1>2. \A t, k : Messages!Ended(t, k) = RemoveAt(t, k)
  BY DEF Messages!Ended, Messages!RemoveAt, RemoveAt
<1>3. \A t : Messages!ToSet(t) = ToSet(t)
  BY DEF ToSet, Messages!ToSet
<1>4. \A t : Messages!IsInjective(t) <=> IsInjective(t)
  BY DEF IsInjective, Messages!IsInjective
<1>5. \A t : Messages!Removing(t).el = t
  BY DEF Messages!Removing, Messages!Call
<1>. QED
  BY <1>1, <1>2, <1>3, <1>4, <1>5

LEMMA ToastsBegin == Messages!Init => ToastInv
<1>. SUFFICES ASSUME Messages!Init PROVE ToastInv
  OBVIOUS
<1>1. Len(<<>>) = 0 /\ IsInjective(<<>>)
  BY DEF IsInjective
<1>. QED
  BY <1>1, EmptySequence
  DEF Messages!Init, Messages!None, ToastInv, ToastsWork, ToastsListed, ToastsGo, ToastFields

(* One toast is changed, and who is dragged. *)
LEMMA ToastChanged ==
  ASSUME NEW d, NEW cs, ToastsWork(d, cs), NEW t \in 1 .. Len(d.made), NEW i \in Toast,
         \/ i.timeRemaining = 0
         \/ i.timer
         \/ ~d.made[t].timer /\ i.timeRemaining = d.made[t].timeRemaining,
         NEW e, DOMAIN e = ToastFields, e.made = [d.made EXCEPT ![t] = i],
         e.dragged \in 0 .. Len(d.made), e.toasts = d.toasts, e.shown = d.shown,
         e.container = d.container
  PROVE  ToastsWork(e, cs) /\ Len(e.made) = Len(d.made)
<1>1. /\ e.made \in Seq(Toast) /\ Len(e.made) = Len(d.made)
      /\ \A m \in 1 .. Len(d.made) : e.made[m] = IF m = t THEN i ELSE d.made[m]
  BY DEF ToastsWork
<1>2. ToastsListed(e)
  BY <1>1 DEF ToastsWork, ToastsListed
<1>3. d.shown \subseteq 1 .. Len(d.made)
  BY SequenceOf DEF ToastsWork, ToastsListed
<1>4. ToastsGo(e, cs)
  BY <1>1, <1>3 DEF ToastsWork, ToastsGo
<1>. QED
  BY <1>1, <1>2, <1>4 DEF ToastsWork

(* Some toasts are taken their timers and are removed. *)
LEMMA ToastsRemoved ==
  ASSUME NEW d, NEW cs, ToastsWork(d, cs), NEW ts, NEW t, IsSequence(t),
         ToSet(cs) \subseteq ToSet(t), \A c \in ToSet(t) : c.el \in 1 .. Len(d.made),
         \A x \in ts : Going(t, x)
  PROVE  ToastsWork(Messages!WithoutTimer(d, ts), t)
<1>. DEFINE e == Messages!WithoutTimer(d, ts)
            Off(x) == IF x \in ts THEN [d.made[x] EXCEPT !.timer = FALSE] ELSE d.made[x]
            made == [x \in DOMAIN d.made |-> Off(x)]
<1>1. /\ DOMAIN e = ToastFields /\ e.made = made /\ e.toasts = d.toasts /\ e.shown = d.shown
      /\ e.container = d.container /\ e.dragged = d.dragged
  BY DEF Messages!WithoutTimer, ToastsWork, ToastFields
<1>2. DOMAIN d.made = 1 .. Len(d.made) /\ Len(d.made) \in Nat
      /\ \A x \in 1 .. Len(d.made) : d.made[x] \in Toast
  BY DEF ToastsWork
<1>3. ASSUME NEW x \in 1 .. Len(d.made)
      PROVE  /\ Off(x) \in Toast /\ Off(x).timeRemaining = d.made[x].timeRemaining
             /\ x \notin ts => Off(x) = d.made[x]
  <2>1. d.made[x] \in Toast
    BY <1>2
  <2>. QED
    BY <2>1 DEF Toast
<1>. HIDE DEF e, Off
<1>4. /\ made \in Seq(Toast) /\ Len(made) = Len(d.made)
      /\ \A x \in 1 .. Len(d.made) : made[x] = Off(x)
  <2>1. made \in [1 .. Len(d.made) -> Toast]
    BY <1>2, <1>3
  <2>2. \A x \in 1 .. Len(d.made) : made[x] = Off(x)
    BY <1>2
  <2>. HIDE DEF made
  <2>. QED
    BY <1>2, <2>1, <2>2
<1>. HIDE DEF made
<1>5. ToastsListed(e)
  BY <1>1, <1>4 DEF ToastsWork, ToastsListed
<1>6. d.shown \subseteq 1 .. Len(d.made)
  BY SequenceOf DEF ToastsWork, ToastsListed
<1>7. \A x : Going(cs, x) => Going(t, x)
  BY DEF Going
<1>8. ToastsGo(e, t)
  BY <1>1, <1>3, <1>4, <1>6, <1>7 DEF ToastsWork, ToastsGo
<1>9. ToastsWork(e, t)
  BY <1>1, <1>4, <1>5, <1>8 DEF ToastsWork
<1>. QED
  BY <1>9 DEF e

LEMMA ToastRemoved ==
  ASSUME NEW d, NEW cs, ToastsWork(d, cs), NEW x \in 1 .. Len(d.made)
  PROVE  ToastsWork(Messages!WithoutTimer(d, {x}), Append(cs, Messages!Removing(x)))
<1>1. PICK c : c = Messages!Removing(x)
  OBVIOUS
<1>2. c.el = x
  BY <1>1, ToastOperators
<1>3. IsSequence(Append(cs, c)) /\ ToSet(Append(cs, c)) = ToSet(cs) \cup {c}
  BY InAppended DEF ToastsWork
<1>4. PICK t : t = Append(cs, c)
  OBVIOUS
<1>5. /\ IsSequence(t) /\ ToSet(cs) \subseteq ToSet(t) /\ \A y \in {x} : Going(t, y)
      /\ \A y \in ToSet(t) : y.el \in 1 .. Len(d.made)
  BY <1>2, <1>3, <1>4 DEF ToastsWork, Going
<1>6. ToastsWork(Messages!WithoutTimer(d, {x}), t)
  BY <1>5, ToastsRemoved
<1>. QED
  BY <1>1, <1>4, <1>6

LEMMA ToastMade == ToastInv /\ Messages!New => ToastInv'
<1>. SUFFICES ASSUME ToastInv, Messages!New PROVE ToastInv'
  OBVIOUS
<1>. DEFINE n == Len(dom.made)
            t == n + 1
<1>1. PICK length \in ToastLengths :
         dom' = [dom EXCEPT !.made = Append(@, [timeRemaining |-> length, timer |-> length > 0,
                                                panning |-> FALSE]),
                            !.toasts = Append(@, t), !.shown = @ \cup {t}, !.container = TRUE]
  BY DEF Messages!New
<1>2. calls' = calls
  BY DEF Messages!New
<1>3. PICK i : i = [timeRemaining |-> length, timer |-> length > 0, panning |-> FALSE]
  OBVIOUS
<1>4. i \in Toast /\ (i.timeRemaining = 0 \/ i.timer)
  <2>1. length \in Nat
    BY WidgetConstants
  <2>2. CASE length > 0
    <3>1. (length > 0) = TRUE
      BY <2>2
    <3>2. i = [timeRemaining |-> length, timer |-> TRUE, panning |-> FALSE]
      BY <1>3, <3>1
    <3>. QED
      BY <2>1, <3>2 DEF Toast
  <2>3. CASE ~(length > 0)
    <3>1. (length > 0) = FALSE /\ length = 0
      BY <2>1, <2>3
    <3>2. i = [timeRemaining |-> 0, timer |-> FALSE, panning |-> FALSE]
      BY <1>3, <3>1
    <3>. QED
      BY <3>2 DEF Toast
  <2>. QED
    BY <2>2, <2>3
<1>5. dom' = [dom EXCEPT !.made = Append(dom.made, i), !.toasts = Append(dom.toasts, t),
                         !.shown = dom.shown \cup {t}, !.container = TRUE]
  BY <1>1, <1>3, Zenon
<1>6. /\ DOMAIN dom' = ToastFields /\ dom'.made = Append(dom.made, i)
      /\ dom'.toasts = Append(dom.toasts, t) /\ dom'.shown = dom.shown \cup {t}
      /\ dom'.container = TRUE /\ dom'.dragged = dom.dragged
  BY <1>5 DEF ToastInv, ToastsWork, ToastFields
<1>7. /\ dom'.made \in Seq(Toast) /\ Len(dom'.made) = t /\ dom'.made[t] = i
      /\ \A m \in 1 .. n : dom'.made[m] = dom.made[m]
  BY <1>4, <1>6 DEF ToastInv, ToastsWork
<1>8. n \in Nat /\ 1 .. n \subseteq 1 .. t /\ t \in 1 .. t /\ t \notin 1 .. n /\ 0 .. n \subseteq 0 .. t
  BY DEF ToastInv, ToastsWork
<1>. HIDE DEF n, t
<1>9. dom.toasts \in Seq(1 .. n) /\ dom.toasts \in Seq(1 .. t) /\ ToSet(dom.toasts) \subseteq 1 .. n
  <2>1. dom.toasts \in Seq(1 .. n)
    BY DEF ToastInv, ToastsWork, ToastsListed, n
  <2>. QED
    BY <1>8, <2>1, SequenceOf
<1>10. /\ dom'.toasts \in Seq(1 .. t) /\ IsInjective(dom'.toasts)
       /\ ToSet(dom'.toasts) = ToSet(dom.toasts) \cup {t}
  <2>1. t \notin ToSet(dom.toasts) /\ IsInjective(dom.toasts)
    BY <1>8, <1>9 DEF ToastInv, ToastsWork, ToastsListed
  <2>. QED
    BY <1>6, <1>8, <1>9, <2>1, AddedToSet, AppendedOnce, AppendProperties
<1>11. ToastsListed(dom')
  BY <1>6, <1>7, <1>10 DEF ToastInv, ToastsWork, ToastsListed
<1>12. ToastsGo(dom', calls)
  <2>1. \A x \in dom.shown : x \in 1 .. n
    BY <1>9 DEF ToastInv, ToastsWork, ToastsListed
  <2>. QED
    BY <1>4, <1>6, <1>7, <2>1 DEF ToastInv, ToastsWork, ToastsGo
<1>13. /\ \A c \in ToSet(calls) : c.el \in 1 .. t
       /\ dom'.dragged \in 0 .. t
  BY <1>6, <1>8 DEF ToastInv, ToastsWork, n
<1>. QED
  BY <1>2, <1>6, <1>7, <1>11, <1>12, <1>13 DEF ToastInv, ToastsWork

LEMMA ToastTicks ==
  ASSUME ToastInv, NEW t \in DOMAIN dom.made, Messages!Tick(t)
  PROVE  ToastInv'
<1>. DEFINE left == dom.made[t].timeRemaining - (IF dom.made[t].panning THEN 0 ELSE 1)
            d == [dom EXCEPT !.made[t].timeRemaining = left]
            i == [dom.made[t] EXCEPT !.timeRemaining = left]
<1>1. t \in 1 .. Len(dom.made) /\ dom.made[t] \in Toast /\ dom.made[t].timer
  BY DEF ToastInv, ToastsWork, Messages!Tick
<1>2. left \in Int
  BY <1>1 DEF Toast
<1>3. \/ dom' = d /\ calls' = calls
      \/ dom' = Messages!WithoutTimer(d, {t}) /\ calls' = Append(calls, Messages!Removing(t))
  BY Zenon DEF Messages!Tick
<1>. HIDE DEF left
<1>4. i \in Toast /\ i.timer
  BY <1>1, <1>2 DEF Toast
<1>5. /\ DOMAIN d = ToastFields /\ d.made = [dom.made EXCEPT ![t] = i] /\ d.dragged = dom.dragged
      /\ d.toasts = dom.toasts /\ d.shown = dom.shown /\ d.container = dom.container
  BY DEF ToastInv, ToastsWork, ToastFields
<1>. HIDE DEF i, d
<1>6. ToastsWork(d, calls) /\ Len(d.made) = Len(dom.made)
  <2>1. ToastsWork(dom, calls) /\ d.dragged \in 0 .. Len(dom.made)
    BY <1>5 DEF ToastInv, ToastsWork
  <2>2. t \in 1 .. Len(dom.made)
    BY <1>1
  <2>. QED
    BY <1>4, <1>5, <2>1, <2>2, ToastChanged
<1>. QED
  BY <1>1, <1>3, <1>6, ToastRemoved DEF ToastInv

LEMMA ToastStep == ToastInv /\ Messages!Next => ToastInv'
<1>. SUFFICES ASSUME ToastInv, Messages!Next PROVE ToastInv'
  OBVIOUS
<1>1. CASE Messages!RemoveAll
  <2>. DEFINE f == [k \in DOMAIN dom.toasts |-> Messages!Removing(dom.toasts[k])]
              t == calls \o f
  <2>1. IsSequence(dom.toasts) /\ ToSet(dom.toasts) \subseteq 1 .. Len(dom.made)
    BY SequenceOf DEF ToastInv, ToastsWork, ToastsListed
  <2>2. Len(dom.toasts) \in Nat /\ DOMAIN dom.toasts = 1 .. Len(dom.toasts)
    BY <2>1, InSequence
  <2>3. DOMAIN f = DOMAIN dom.toasts /\ f = [k \in DOMAIN f |-> f[k]]
        /\ \A k \in 1 .. Len(dom.toasts) : f[k].el = dom.toasts[k]
    BY <2>2, ToastOperators
  <2>. HIDE DEF f
  <2>4. IsSequence(f) /\ ToSet(f) = {f[k] : k \in 1 .. Len(dom.toasts)}
    BY <2>1, <2>3, Mapped
  <2>5. \A c \in ToSet(f) : c.el \in ToSet(dom.toasts)
    BY <2>1, <2>3, <2>4, InSequence
  <2>6. \A x \in ToSet(dom.toasts) : Going(f, x)
    <3>. SUFFICES ASSUME NEW x \in ToSet(dom.toasts) PROVE Going(f, x)
      OBVIOUS
    <3>1. PICK k \in 1 .. Len(dom.toasts) : x = dom.toasts[k]
      BY <2>1, InSequence
    <3>. QED
      BY <2>3, <2>4, <3>1 DEF Going
  <2>7. /\ IsSequence(t) /\ ToSet(t) = ToSet(calls) \cup ToSet(f)
    BY <2>4, InConcatenated DEF ToastInv, ToastsWork
  <2>8. dom' = Messages!WithoutTimer(dom, ToSet(dom.toasts)) /\ calls' = t
    BY <1>1, ToastOperators DEF Messages!RemoveAll, f
  <2>. HIDE DEF t
  <2>9. ToSet(calls) \subseteq ToSet(t) /\ \A c \in ToSet(t) : c.el \in 1 .. Len(dom.made)
    BY <2>1, <2>5, <2>7 DEF ToastInv, ToastsWork
  <2>10. \A x \in ToSet(dom.toasts) : Going(t, x)
    BY <2>6, <2>7 DEF Going
  <2>11. ToastsWork(dom, calls)
    BY DEF ToastInv
  <2>12. ToastsWork(Messages!WithoutTimer(dom, ToSet(dom.toasts)), t)
    BY <2>7, <2>9, <2>10, <2>11, ToastsRemoved
  <2>. QED
    BY <2>8, <2>12 DEF ToastInv
<1>2. ASSUME NEW t \in DOMAIN dom.made, Messages!DragStart(t) PROVE ToastInv'
  <2>. DEFINE i == [dom.made[t] EXCEPT !.panning = TRUE]
  <2>1. t \in 1 .. Len(dom.made) /\ dom.made[t] \in Toast /\ t \in dom.shown
    BY <1>2 DEF ToastInv, ToastsWork, Messages!DragStart
  <2>2. /\ DOMAIN dom' = ToastFields /\ dom'.made = [dom.made EXCEPT ![t] = i]
        /\ dom'.dragged = t /\ dom'.toasts = dom.toasts /\ dom'.shown = dom.shown
        /\ dom'.container = dom.container /\ calls' = calls
    BY <1>2 DEF Messages!DragStart, ToastInv, ToastsWork, ToastFields
  <2>3. i \in Toast /\ i.timer = dom.made[t].timer /\ i.timeRemaining = dom.made[t].timeRemaining
    BY <2>1 DEF Toast
  <2>. HIDE DEF i
  <2>4. ToastsWork(dom, calls) /\ t \in 0 .. Len(dom.made)
    BY <2>1 DEF ToastInv, ToastsWork
  <2>5. ToastsWork(dom', calls)
    BY <2>1, <2>2, <2>3, <2>4, ToastChanged
  <2>. QED
    BY <2>2, <2>5 DEF ToastInv
<1>3. CASE Messages!DragEnd
  <2>. DEFINE t == dom.dragged
              i == [dom.made[t] EXCEPT !.panning = FALSE]
              d == [dom EXCEPT !.made[t].panning = FALSE, !.dragged = Messages!None]
  <2>1. t \in 1 .. Len(dom.made) /\ dom.made[t] \in Toast
    BY <1>3 DEF ToastInv, ToastsWork, Messages!DragEnd, Messages!None
  <2>2. \/ dom' = d /\ calls' = calls
        \/ dom' = Messages!WithoutTimer(d, {t}) /\ calls' = Append(calls, Messages!Removing(t))
    BY <1>3, Zenon DEF Messages!DragEnd
  <2>3. /\ DOMAIN d = ToastFields /\ d.made = [dom.made EXCEPT ![t] = i] /\ d.dragged = 0
        /\ d.toasts = dom.toasts /\ d.shown = dom.shown /\ d.container = dom.container
    BY DEF ToastInv, ToastsWork, ToastFields, Messages!None
  <2>4. i \in Toast /\ i.timer = dom.made[t].timer /\ i.timeRemaining = dom.made[t].timeRemaining
    BY <2>1 DEF Toast
  <2>. HIDE DEF i, d, t
  <2>5. ToastsWork(dom, calls) /\ 0 \in 0 .. Len(dom.made)
    BY DEF ToastInv, ToastsWork
  <2>6. ToastsWork(d, calls) /\ Len(d.made) = Len(dom.made)
    BY <2>1, <2>3, <2>4, <2>5, ToastChanged
  <2>. QED
    BY <2>1, <2>2, <2>6, ToastRemoved DEF ToastInv
<1>4. ASSUME NEW k \in DOMAIN calls, Messages!End(k) PROVE ToastInv'
  <2>. DEFINE c == calls[k]
              r == RemoveAt(calls, k)
              x == c.el
              left == Without(dom.toasts, {x})
  <2>1. k \in 1 .. Len(calls) /\ calls' = r /\ IsSequence(calls)
    BY <1>4, InSequence, ToastOperators DEF Messages!End, ToastInv, ToastsWork
  <2>2. /\ IsSequence(r) /\ ToSet(r) \subseteq ToSet(calls)
        /\ ToSet(calls) \subseteq ToSet(r) \cup {c} /\ c \in ToSet(calls)
    BY <2>1, RemovedOne
  <2>. HIDE DEF r
  <2>3. \A y : Going(calls, y) /\ y # x => Going(r, y)
    BY <2>2 DEF Going
  <2>4. \A b \in ToSet(r) : b.el \in 1 .. Len(dom.made)
    BY <2>2 DEF ToastInv, ToastsWork
  <2>5. dom' = IF x \notin dom.shown THEN dom
               ELSE [dom EXCEPT !.shown = @ \ {x}, !.toasts = left, !.container = left # <<>>]
    BY <1>4, ToastOperators DEF Messages!End, Messages!Gone
  <2>. HIDE DEF c, x
  <2>6. CASE x \notin dom.shown
    <3>1. ToastsGo(dom, r)
      BY <2>3, <2>6 DEF ToastInv, ToastsWork, ToastsGo
    <3>. QED
      BY <2>1, <2>2, <2>4, <2>5, <2>6, <3>1 DEF ToastInv, ToastsWork
  <2>7. CASE x \in dom.shown
    <3>1. left \in Seq(1 .. Len(dom.made)) /\ ToSet(left) = ToSet(dom.toasts) \ {x} /\ IsInjective(left)
      BY WhatIsLeft, LeftOnce DEF ToastInv, ToastsWork, ToastsListed
    <3>. HIDE DEF left
    <3>2. left = <<>> <=> ToSet(left) = {}
      <4>1. IsSequence(left)
        BY <3>1, SequenceOf
      <4>. QED
        BY <4>1, InSequence
    <3>3. /\ DOMAIN dom' = ToastFields /\ dom'.made = dom.made /\ dom'.dragged = dom.dragged
          /\ dom'.toasts = left /\ dom'.shown = dom.shown \ {x}
          /\ dom'.container <=> left # <<>>
      BY <2>5, <2>7 DEF ToastInv, ToastsWork, ToastFields
    <3>4. ToastsListed(dom')
      BY <3>1, <3>2, <3>3 DEF ToastInv, ToastsWork, ToastsListed
    <3>5. ToastsGo(dom', r)
      BY <2>3, <3>3 DEF ToastInv, ToastsWork, ToastsGo
    <3>. QED
      BY <2>1, <2>2, <2>4, <3>3, <3>4, <3>5 DEF ToastInv, ToastsWork
  <2>. QED
    BY <2>6, <2>7
<1>. QED
  BY <1>1, <1>2, <1>3, <1>4, ToastMade, ToastTicks DEF Messages!Next

LEMMA ToastsRest == ToastInv => Messages!NothingLeftBehind
<1>. SUFFICES ASSUME ToastInv PROVE Messages!NothingLeftBehind
  OBVIOUS
<1>1. calls = <<>> => \A t : ~Going(calls, t)
  BY EmptySequence DEF Going
<1>. QED
  BY <1>1, ToastOperators DEF ToastInv, ToastsWork, ToastsListed, ToastsGo, Messages!NothingLeftBehind

-----------------------------------------------------------------------------
(* Collapsible *)

CollapseDom ==
    [accordion : BOOLEAN, bound : BOOLEAN, methods : BOOLEAN,
     active : SUBSET Collapsibles!Items,
     body : [Collapsibles!Items -> {"hidden", "opening", "shown", "closing"}],
     told : [Collapsibles!Items -> {"nothing", "open", "close"}]]
CollapseCalls ==
    {Collapsibles!Slide(p[1], p[2]) : p \in Collapsibles!Items \X {"shown", "hidden", "told"}}
CollapseState == [dom : CollapseDom, calls : Seq(CollapseCalls)]

Slides(cs, j, then) == Collapsibles!Slide(j, then) \in ToSet(cs)

(* The body of item j shows what its header says, or is on its way there.  *)
BodyFollows(d, cs, j) ==
    /\ j \in d.active <=> d.body[j] \in {"opening", "shown"}
    /\ d.body[j] = "opening" => Slides(cs, j, "shown")
    /\ d.body[j] = "closing" => Slides(cs, j, "hidden") \/ Slides(cs, j, "told")
    /\ Slides(cs, j, "shown") => j \in d.active
    /\ Slides(cs, j, "hidden") \/ Slides(cs, j, "told") => j \notin d.active

(* The last callback about item j was right, or the end of its way will    *)
(* tell.                                                                   *)
Heard(d, cs, j) ==
    d.methods = FALSE =>
        /\ j \in d.active => d.told[j] = "open"
        /\ j \notin d.active /\ d.told[j] = "open" =>
              d.body[j] = "closing" /\ Slides(cs, j, "told") /\ ~Slides(cs, j, "hidden")

ItemRight(d, cs, j) == BodyFollows(d, cs, j) /\ Heard(d, cs, j)

(* An item that cannot be seen is not the one the page has last heard to   *)
(* have opened.                                                            *)
HiddenIsHeard(d, j) == d.methods = FALSE /\ d.body[j] = "hidden" => d.told[j] # "open"

CollapseInv ==
    /\ dom \in CollapseDom /\ calls \in Seq(CollapseCalls)
    /\ \A j \in Collapsibles!Items : ItemRight(dom, calls, j)

(* Nothing about item j has changed. *)
ItemKept(d, cs, e, es, j) ==
    /\ j \in e.active <=> j \in d.active
    /\ e.body[j] = d.body[j] /\ e.told[j] = d.told[j] /\ e.methods = d.methods
    /\ \A t : Slides(es, j, t) <=> Slides(cs, j, t)

LEMMA KeptRight ==
  \A d, cs, e, es, j : ItemKept(d, cs, e, es, j) /\ ItemRight(d, cs, j) => ItemRight(e, es, j)
  BY DEF ItemKept, ItemRight, BodyFollows, Heard

LEMMA RightIsHeard == \A d, cs, j : ItemRight(d, cs, j) => HiddenIsHeard(d, j)
  BY DEF ItemRight, BodyFollows, Heard, HiddenIsHeard

LEMMA SlidesDiffer ==
  /\ \A j, t : LET c == Collapsibles!Slide(j, t)
               IN  c.clock = "jquery" /\ c.el = j /\ c.then = t
  /\ \A j, t, k, u : Collapsibles!Slide(j, t) = Collapsibles!Slide(k, u) => j = k /\ t = u
<1>1. \A j, t : /\ Collapsibles!Slide(j, t).clock = "jquery" /\ Collapsibles!Slide(j, t).el = j
                /\ Collapsibles!Slide(j, t).then = t
  BY DEF Collapsibles!Slide, Collapsibles!Call
<1>. QED
  BY <1>1

LEMMA CollapseCall ==
  ASSUME NEW c \in CollapseCalls
  PROVE  /\ c.clock = "jquery" /\ c.el \in Collapsibles!Items
         /\ c.then \in {"shown", "hidden", "told"} /\ c = Collapsibles!Slide(c.el, c.then)
<1>1. PICK p \in Collapsibles!Items \X {"shown", "hidden", "told"} :
         c = Collapsibles!Slide(p[1], p[2])
  BY DEF CollapseCalls
<1>. QED
  BY <1>1, SlidesDiffer

LEMMA SlideMade ==
  ASSUME NEW j \in Collapsibles!Items, NEW t \in {"shown", "hidden", "told"}
  PROVE  Collapsibles!Slide(j, t) \in CollapseCalls
<1>1. <<j, t>> \in Collapsibles!Items \X {"shown", "hidden", "told"}
  OBVIOUS
<1>. QED
  BY <1>1 DEF CollapseCalls

LEMMA CollapseOperators == \A t, S : Collapsibles!Without(t, S) = Without(t, S)
  BY DEF Without, Collapsibles!Without

(* slideDown or slideUp of one item *)
LEMMA OwnMoves ==
  ASSUME NEW d \in CollapseDom, NEW cs \in Seq(CollapseCalls), NEW i \in Collapsibles!Items,
         NEW s, s = Collapsibles!Own(d, cs, i)
  PROVE  /\ s \in CollapseState
         /\ s.dom.active = d.active /\ s.dom.told = d.told /\ s.dom.methods = d.methods
         /\ s.dom.accordion = d.accordion
         /\ BodyFollows(s.dom, s.calls, i)
         /\ ~Slides(s.calls, i, "told")
         /\ \A j \in Collapsibles!Items \ {i} : ItemKept(d, cs, s.dom, s.calls, j)
<1>. DEFINE down == i \in d.active
            still == d.body[i] = IF down THEN "shown" ELSE "hidden"
            S == {c \in ToSet(cs) : c.clock = "jquery" /\ c.el = i}
            rest == Without(cs, S)
            way == IF down THEN "opening" ELSE "closing"
            end == IF down THEN "shown" ELSE "hidden"
            e == [d EXCEPT !.body[i] = way]
            c == Collapsibles!Slide(i, end)
<1>1. Collapsibles!Stopped(cs, "jquery", i) = rest
  <2>1. {cs[k] : k \in {j \in DOMAIN cs : cs[j].clock = "jquery" /\ cs[j].el = i}} = S
    BY DEF ToSet
  <2>. QED
    BY <2>1, CollapseOperators DEF Collapsibles!Stopped
<1>2. /\ s.dom = IF still THEN d ELSE e
      /\ s.calls = IF still THEN rest ELSE Append(rest, c)
      /\ s = [dom |-> s.dom, calls |-> s.calls]
  BY <1>1 DEF Collapsibles!Own
<1>3. rest \in Seq(CollapseCalls) /\ ToSet(rest) = ToSet(cs) \ S
  BY WhatIsLeft
<1>4. \A j, t : Slides(rest, j, t) <=> Slides(cs, j, t) /\ j # i
  BY <1>3, SlidesDiffer DEF Slides
<1>5. c \in CollapseCalls
  BY SlideMade
<1>6. /\ Append(rest, c) \in Seq(CollapseCalls)
      /\ ToSet(Append(rest, c)) = ToSet(rest) \cup {c}
  <2>. HIDE DEF rest, c
  <2>. QED
    BY <1>3, <1>5, AddedToSet, AppendProperties
<1>7. \A j, t : Slides(Append(rest, c), j, t) <=> Slides(rest, j, t) \/ (j = i /\ t = end)
  BY <1>6, SlidesDiffer DEF Slides
<1>8. /\ e \in CollapseDom /\ e.active = d.active /\ e.told = d.told /\ e.methods = d.methods
      /\ e.accordion = d.accordion
      /\ e.body[i] = way /\ \A j \in Collapsibles!Items \ {i} : e.body[j] = d.body[j]
  BY DEF CollapseDom
<1>. HIDE DEF rest, c, e, S
<1>9. CASE still
  <2>1. s.dom = d /\ s.calls = rest
    BY <1>2, <1>9
  <2>2. BodyFollows(d, rest, i) /\ ~Slides(rest, i, "told")
    BY <1>4, <1>9 DEF BodyFollows
  <2>3. \A j \in Collapsibles!Items \ {i} : ItemKept(d, cs, d, rest, j)
    BY <1>4 DEF ItemKept
  <2>4. s \in CollapseState
    BY <1>2, <1>3, <2>1 DEF CollapseState
  <2>. QED
    BY <2>1, <2>2, <2>3, <2>4
<1>10. CASE ~still
  <2>1. s.dom = e /\ s.calls = Append(rest, c)
    BY <1>2, <1>10
  <2>2. BodyFollows(e, Append(rest, c), i) /\ ~Slides(Append(rest, c), i, "told")
    BY <1>4, <1>7, <1>8 DEF BodyFollows
  <2>3. \A j \in Collapsibles!Items \ {i} : ItemKept(d, cs, e, Append(rest, c), j)
    BY <1>4, <1>7, <1>8 DEF ItemKept
  <2>4. s \in CollapseState
    BY <1>2, <1>6, <1>8, <2>1 DEF CollapseState
  <2>. QED
    BY <1>8, <2>1, <2>2, <2>3, <2>4
<1>. QED
  BY <1>9, <1>10

(* The others of an accordion close, whatever they were doing. *)
LEMMA OthersClose ==
  ASSUME NEW r \in CollapseState, NEW i, NEW then \in {"told", "hidden"},
         NEW s, s = Collapsibles!OpenOthers(r, i, then),
         then = "told" \/ r.dom.methods = TRUE,
         \A j \in Collapsibles!Items \ {i} : HiddenIsHeard(r.dom, j)
  PROVE  /\ s \in CollapseState /\ s.dom.methods = r.dom.methods
         /\ \A j \in Collapsibles!Items \ {i} : ItemRight(s.dom, s.calls, j)
         /\ i \in Collapsibles!Items => ItemKept(r.dom, r.calls, s.dom, s.calls, i)
<1>. DEFINE d == r.dom
            cs == r.calls
            Items == Collapsibles!Items
            others == {j \in Items \ {i} : Collapsibles!Visible(d, j)}
            rest == Without(cs, {c \in ToSet(cs) : c.el # i})
            all == [j \in Items |-> Collapsibles!Slide(j, then)]
            still == {Collapsibles!Slide(j, then) : j \in Items \ others}
            more == Without(all, still)
            e == [d EXCEPT !.active = @ \cap {i},
                           !.body = [j \in Items |-> IF j \in others THEN "closing" ELSE @[j]]]
<1>0. d \in CollapseDom /\ cs \in Seq(CollapseCalls)
  BY DEF CollapseState
<1>1. s.dom = e /\ s.calls = rest \o more /\ s = [dom |-> s.dom, calls |-> s.calls]
  <2>1. {cs[k] : k \in {j \in DOMAIN cs : cs[j].el # i}} = {c \in ToSet(cs) : c.el # i}
    BY DEF ToSet
  <2>. QED
    BY <2>1, CollapseOperators DEF Collapsibles!OpenOthers
<1>2. rest \in Seq(CollapseCalls) /\ ToSet(rest) = ToSet(cs) \ {c \in ToSet(cs) : c.el # i}
  BY <1>0, WhatIsLeft
<1>3. \A j, t : Slides(rest, j, t) <=> Slides(cs, j, t) /\ j = i
  BY <1>2, SlidesDiffer DEF Slides
<1>4. all \in Seq(CollapseCalls) /\ ToSet(all) = {Collapsibles!Slide(j, then) : j \in Items}
  <2>1. Items = 1 .. HeaderCount /\ HeaderCount \in Nat
    BY WidgetConstants DEF Collapsibles!Items
  <2>2. \A j \in Items : Collapsibles!Slide(j, then) \in CollapseCalls
    BY SlideMade
  <2>. QED
    BY <2>1, <2>2 DEF ToSet
<1>5. /\ more \in Seq(CollapseCalls)
      /\ ToSet(more) = {Collapsibles!Slide(j, then) : j \in Items} \ still
  <2>. HIDE DEF all, still
  <2>. QED
    BY <1>4, WhatIsLeft
<1>6. \A j, t : Slides(more, j, t) <=> j \in others /\ t = then
  <2>1. others \subseteq Items
    OBVIOUS
  <2>. HIDE DEF more, others
  <2>. QED
    BY <1>5, <2>1, SlidesDiffer DEF Slides
<1>7. rest \o more \in Seq(CollapseCalls) /\ ToSet(rest \o more) = ToSet(rest) \cup ToSet(more)
  <2>. HIDE DEF rest, more
  <2>. QED
    BY <1>2, <1>5, SequenceOf, InConcatenated, ConcatProperties
<1>8. \A j, t : Slides(s.calls, j, t) <=> \/ Slides(cs, j, t) /\ j = i
                                          \/ j \in others /\ t = then
  BY <1>1, <1>3, <1>6, <1>7 DEF Slides
<1>9. /\ e \in CollapseDom /\ e.active = d.active \cap {i} /\ e.told = d.told
      /\ e.methods = d.methods
      /\ \A j \in Items : e.body[j] = IF j \in others THEN "closing" ELSE d.body[j]
  BY <1>0 DEF CollapseDom
<1>10. s \in CollapseState
  BY <1>1, <1>7, <1>9 DEF CollapseState
<1>11. \A j \in Items \ {i} : j \in others <=> d.body[j] # "hidden"
  BY DEF Collapsibles!Visible
<1>12. i \notin others
  OBVIOUS
<1>. HIDE DEF others, rest, more, e, all, still, d, cs
<1>13. ASSUME NEW j \in Items \ {i} PROVE ItemRight(s.dom, s.calls, j)
  <2>1. /\ s.dom.body[j] = IF d.body[j] # "hidden" THEN "closing" ELSE "hidden"
        /\ s.dom.told[j] = d.told[j] /\ j \notin s.dom.active /\ s.dom.methods = d.methods
    BY <1>1, <1>9, <1>11
  <2>2. \A t : Slides(s.calls, j, t) <=> d.body[j] # "hidden" /\ t = then
    BY <1>8, <1>11
  <2>3. BodyFollows(s.dom, s.calls, j)
    BY <2>1, <2>2 DEF BodyFollows
  <2>4. HiddenIsHeard(d, j) /\ (then = "told" \/ d.methods = TRUE)
    BY DEF d
  <2>5. Heard(s.dom, s.calls, j)
    BY <2>1, <2>2, <2>4 DEF Heard, HiddenIsHeard
  <2>. QED
    BY <2>3, <2>5 DEF ItemRight
<1>14. ASSUME i \in Items PROVE ItemKept(d, cs, s.dom, s.calls, i)
  BY <1>1, <1>8, <1>9, <1>12, <1>14 DEF ItemKept
<1>. QED
  BY <1>1, <1>9, <1>10, <1>13, <1>14 DEF d, cs

(* collapsibleOpen() sets item i right, and in an accordion all the others;*)
(* else it leaves them alone.                                              *)
LEMMA ItemOpened ==
  ASSUME NEW d \in CollapseDom, NEW cs \in Seq(CollapseCalls), NEW i \in Collapsibles!Items,
         NEW then \in {"told", "hidden"}, then = "told" \/ d.methods = TRUE,
         d.accordion = TRUE => \A j \in Collapsibles!Items \ {i} : HiddenIsHeard(d, j),
         NEW s, s = Collapsibles!OpenItem(d, cs, i, then)
  PROVE  /\ s \in CollapseState
         /\ ItemRight(s.dom, s.calls, i)
         /\ d.accordion = FALSE =>
              /\ s.dom.accordion = FALSE /\ s.dom.active = d.active
              /\ \A j \in Collapsibles!Items \ {i} : ItemKept(d, cs, s.dom, s.calls, j)
         /\ d.accordion = TRUE =>
              \A j \in Collapsibles!Items \ {i} : ItemRight(s.dom, s.calls, j)
<1>. DEFINE Items == Collapsibles!Items
            own == Collapsibles!Own(d, cs, i)
            others == Collapsibles!OpenOthers(own, i, then)
<1>1. /\ own \in CollapseState
      /\ own.dom.active = d.active /\ own.dom.told = d.told /\ own.dom.methods = d.methods
      /\ own.dom.accordion = d.accordion
      /\ BodyFollows(own.dom, own.calls, i) /\ ~Slides(own.calls, i, "told")
      /\ \A j \in Items \ {i} : ItemKept(d, cs, own.dom, own.calls, j)
  BY OwnMoves
<1>. DEFINE all == IF d.accordion THEN others ELSE own
            told == [all EXCEPT !.dom = Collapsibles!Tell(all.dom, i)]
<1>2. s = IF then = "told" THEN told ELSE all
  BY DEF Collapsibles!OpenItem
<1>. HIDE DEF own
<1>3. own.dom \in CollapseDom /\ own.calls \in Seq(CollapseCalls)
  BY <1>1 DEF CollapseState
(* Without an accordion, and for item i, nothing comes after Own. *)
<1>4. /\ all \in CollapseState /\ all.dom.methods = d.methods
      /\ BodyFollows(all.dom, all.calls, i) /\ ~Slides(all.calls, i, "told")
      /\ d.accordion = FALSE =>
           /\ all.dom.accordion = FALSE /\ all.dom.active = d.active
           /\ \A j \in Items \ {i} : ItemKept(d, cs, all.dom, all.calls, j)
      /\ d.accordion = TRUE => \A j \in Items \ {i} : ItemRight(all.dom, all.calls, j)
  <2>1. CASE d.accordion = FALSE
    BY <1>1, <2>1
  <2>2. CASE d.accordion = TRUE
    <3>1. all = others
      BY <2>2
    <3>2. then = "told" \/ own.dom.methods = TRUE
      BY <1>1
    <3>3. \A j \in Items \ {i} : HiddenIsHeard(own.dom, j)
      BY <1>1, <2>2 DEF HiddenIsHeard, ItemKept
    <3>4. /\ others \in CollapseState /\ others.dom.methods = own.dom.methods
          /\ \A j \in Items \ {i} : ItemRight(others.dom, others.calls, j)
          /\ ItemKept(own.dom, own.calls, others.dom, others.calls, i)
      BY <1>1, <3>2, <3>3, OthersClose
    <3>. HIDE DEF others, all
    <3>5. BodyFollows(others.dom, others.calls, i) /\ ~Slides(others.calls, i, "told")
      BY <1>1, <3>4 DEF ItemKept, BodyFollows
    <3>. QED
      BY <1>1, <2>2, <3>1, <3>4, <3>5
  <2>. QED
    BY <2>1, <2>2 DEF CollapseDom
<1>. HIDE DEF all
<1>5. all.dom \in CollapseDom /\ all.calls \in Seq(CollapseCalls)
  BY <1>4 DEF CollapseState
<1>6. CASE then = "told"
  <2>. DEFINE e == Collapsibles!Tell(all.dom, i)
  <2>1. /\ e \in CollapseDom /\ e.active = all.dom.active /\ e.body = all.dom.body
        /\ e.methods = all.dom.methods /\ e.accordion = all.dom.accordion
        /\ e.told[i] = (IF i \in e.active THEN "open" ELSE "close")
        /\ \A j \in Items \ {i} : e.told[j] = all.dom.told[j]
    BY <1>5 DEF Collapsibles!Tell, CollapseDom
  <2>2. s = told /\ s.dom = e /\ s.calls = all.calls /\ s \in CollapseState
    BY <1>2, <1>4, <1>6, <2>1 DEF CollapseState
  <2>. HIDE DEF e, told
  <2>3. BodyFollows(s.dom, s.calls, i) /\ Heard(s.dom, s.calls, i)
    BY <1>4, <2>1, <2>2 DEF BodyFollows, Heard
  <2>4. \A j \in Items \ {i} : ItemKept(all.dom, all.calls, s.dom, s.calls, j)
    BY <2>1, <2>2 DEF ItemKept
  <2>5. d.accordion = TRUE => \A j \in Items \ {i} : ItemRight(s.dom, s.calls, j)
    BY <1>4, <2>4, KeptRight
  <2>6. d.accordion = FALSE => \A j \in Items \ {i} : ItemKept(d, cs, s.dom, s.calls, j)
    BY <1>4, <2>4 DEF ItemKept
  <2>. QED
    BY <1>4, <2>1, <2>2, <2>3, <2>5, <2>6 DEF ItemRight
<1>7. CASE then # "told"
  <2>1. s = all /\ d.methods = TRUE
    BY <1>2, <1>7
  <2>2. Heard(s.dom, s.calls, i)
    BY <1>4, <2>1 DEF Heard
  <2>. QED
    BY <1>4, <2>1, <2>2 DEF ItemRight
<1>. QED
  BY <1>6, <1>7

(* Headers marked active are to be opened, the other items are right.      *)
Ready(d, cs) ==
    /\ d \in CollapseDom /\ cs \in Seq(CollapseCalls)
    /\ \A j \in Collapsibles!Items :
          ItemRight(d, cs, j) \/ (j \in d.active /\ HiddenIsHeard(d, j))

(* A list without accordion is built. *)
LEMMA AllOpened ==
  ASSUME NEW d, NEW cs, Ready(d, cs), d.accordion = FALSE,
         NEW s, s = Collapsibles!Build(d, cs)
  PROVE  s \in CollapseState /\ \A j \in Collapsibles!Items : ItemRight(s.dom, s.calls, j)
<1>. DEFINE Items == Collapsibles!Items
            N == HeaderCount
            D == 0 .. N
            first == [dom |-> [d EXCEPT !.bound = TRUE], calls |-> cs]
            Open(n, r) == Collapsibles!OpenItem(r.dom, r.calls, n, "told")
            Defines(g) == g = [n \in D |-> IF n = 0 THEN first
                                           ELSE IF n \in d.active THEN Open(n, g[n - 1])
                                           ELSE g[n - 1]]
            opened == CHOOSE g : Defines(g)
<1>1. s = opened[N]
  BY Zenon DEF Collapsibles!Build
<1>2. /\ N \in Nat /\ Items = 1 .. N
      /\ d \in CollapseDom /\ cs \in Seq(CollapseCalls)
  BY WidgetConstants DEF Collapsibles!Items, Ready
<1>3. /\ first \in CollapseState /\ first.dom.accordion = FALSE
      /\ first.dom.active = d.active /\ first.calls = cs
      /\ \A j \in Items : ItemKept(d, cs, first.dom, cs, j)
  <2>. DEFINE e == [d EXCEPT !.bound = TRUE]
  <2>1. /\ e \in CollapseDom /\ e.accordion = FALSE /\ e.active = d.active /\ e.body = d.body
        /\ e.told = d.told /\ e.methods = d.methods
    BY <1>2 DEF CollapseDom
  <2>2. first = [dom |-> e, calls |-> cs]
    OBVIOUS
  <2>. HIDE DEF e, first
  <2>. QED
    BY <1>2, <2>1, <2>2 DEF CollapseState, ItemKept
<1>. HIDE DEF first
(* A list whose first n items have been looked at *)
<1>. DEFINE T == {r \in CollapseState : r.dom.accordion = FALSE}
            next == [p \in (1 .. N) \X T |-> IF p[1] \in d.active THEN Open(p[1], p[2]) ELSE p[2]]
<1>4. ASSUME NEW n \in 1 .. N, NEW r \in T
      PROVE  /\ Open(n, r) \in T /\ Open(n, r).dom.active = r.dom.active
             /\ ItemRight(Open(n, r).dom, Open(n, r).calls, n)
             /\ \A j \in Items \ {n} : ItemKept(r.dom, r.calls, Open(n, r).dom, Open(n, r).calls, j)
  <2>1. /\ r.dom \in CollapseDom /\ r.calls \in Seq(CollapseCalls) /\ r.dom.accordion = FALSE
        /\ n \in Items
    BY <1>2 DEF CollapseState
  <2>. QED
    BY <2>1, ItemOpened
<1>5. next \in [(1 .. N) \X T -> T]
  <2>. HIDE DEF T
  <2>. QED
    BY <1>4
<1>6. first \in T
  BY <1>3
<1>7. PICK g : Recursive(g, N, T, first, next)
  <2>. HIDE DEF T, next
  <2>. QED
    BY <1>2, <1>5, <1>6, Recursion
<1>. HIDE DEF T
<1>8. Defines(g)
  <2>1. /\ g \in [D -> T] /\ g[0] = first /\ \A n \in 1 .. N : g[n] = next[<<n, g[n - 1]>>]
    BY <1>7 DEF Recursive
  <2>2. ASSUME NEW n \in 1 .. N
        PROVE  g[n] = IF n \in d.active THEN Open(n, g[n - 1]) ELSE g[n - 1]
    <3>1. g[n - 1] \in T
      BY <1>2, <2>1
    <3>2. <<n, g[n - 1]>> \in (1 .. N) \X T
      BY <3>1
    <3>. HIDE DEF Open
    <3>. QED
      BY <2>1, <3>2
  <2>3. \A n \in D : n # 0 => n \in 1 .. N
    BY <1>2
  <2>. HIDE DEF Open, next
  <2>. QED
    BY <2>1, <2>2, <2>3
<1>9. Defines(opened)
  BY <1>8
<1>. HIDE DEF opened, next, Open
<1>10. opened[0] = first
  <2>1. 0 \in D
    BY <1>2
  <2>. QED
    BY <1>9, <2>1
<1>11. ASSUME NEW n \in 1 .. N
       PROVE  opened[n] = IF n \in d.active THEN Open(n, opened[n - 1]) ELSE opened[n - 1]
  <2>1. n \in D /\ n # 0
    BY <1>2
  <2>. QED
    BY <1>9, <2>1
<1>. HIDE DEF Defines
<1>. DEFINE Right(n, r) == /\ r \in T /\ r.dom.active = d.active
                           /\ \A j \in Items : j <= n \/ j \notin d.active =>
                                                 ItemRight(r.dom, r.calls, j)
            R == {n \in Nat : n <= N => Right(n, opened[n])}
<1>12. 0 \in R
  <2>1. ASSUME NEW j \in Items, j <= 0 \/ j \notin d.active PROVE ItemRight(first.dom, first.calls, j)
    <3>1. j \notin d.active
      BY <1>2, <2>1
    <3>2. ItemRight(d, cs, j)
      BY <3>1 DEF Ready
    <3>. QED
      BY <1>3, <3>2, KeptRight
  <2>. QED
    BY <1>3, <1>6, <1>10, <2>1
<1>13. ASSUME NEW n \in Nat, n \in R PROVE n + 1 \in R
  <2>. SUFFICES ASSUME n + 1 <= N PROVE Right(n + 1, opened[n + 1])
    OBVIOUS
  <2>. DEFINE r == opened[n]
  <2>1. Right(n, r) /\ n + 1 \in 1 .. N /\ n + 1 \in Items /\ (n + 1) - 1 = n
    BY <1>2, <1>13
  <2>. HIDE DEF r
  <2>2. CASE n + 1 \in d.active
    <3>. DEFINE q == Open(n + 1, r)
    <3>1. opened[n + 1] = q
      BY <1>11, <2>1, <2>2 DEF r
    <3>2. /\ q \in T /\ q.dom.active = r.dom.active /\ ItemRight(q.dom, q.calls, n + 1)
          /\ \A j \in Items \ {n + 1} : ItemKept(r.dom, r.calls, q.dom, q.calls, j)
      BY <1>4, <2>1
    <3>. HIDE DEF q
    <3>3. ASSUME NEW j \in Items, j <= n + 1 \/ j \notin d.active PROVE ItemRight(q.dom, q.calls, j)
      <4>1. j = n + 1 \/ j <= n \/ j \notin d.active
        BY <1>2, <3>3
      <4>. QED
        BY <2>1, <3>2, <4>1, KeptRight
    <3>. QED
      BY <2>1, <3>1, <3>2, <3>3
  <2>3. CASE n + 1 \notin d.active
    <3>1. opened[n + 1] = r
      BY <1>11, <2>1, <2>3 DEF r
    <3>2. ASSUME NEW j \in Items, j <= n + 1 \/ j \notin d.active PROVE ItemRight(r.dom, r.calls, j)
      <4>1. j <= n \/ j \notin d.active
        BY <1>2, <2>3, <3>2
      <4>. QED
        BY <2>1, <4>1
    <3>. QED
      BY <2>1, <3>1, <3>2
  <2>. QED
    BY <2>2, <2>3
<1>. HIDE DEF R
<1>14. Nat \subseteq R
  BY <1>12, <1>13, Reached
<1>15. Right(N, opened[N])
  BY <1>2, <1>14 DEF R
<1>16. \A j \in Items : j <= N
  BY <1>2
<1>. QED
  BY <1>1, <1>15, <1>16 DEF T

(* A list is built, the first time or again. *)
LEMMA ListBuilt ==
  ASSUME NEW d, NEW cs, Ready(d, cs), NEW s, s = Collapsibles!Build(d, cs)
  PROVE  s \in CollapseState /\ \A j \in Collapsibles!Items : ItemRight(s.dom, s.calls, j)
<1>. DEFINE Items == Collapsibles!Items
            e == [d EXCEPT !.bound = TRUE]
            r == [dom |-> e, calls |-> cs]
            first == CHOOSE i \in d.active : \A j \in d.active : i <= j
<1>1. d \in CollapseDom /\ cs \in Seq(CollapseCalls) /\ d.accordion \in BOOLEAN
  BY DEF Ready, CollapseDom
<1>2. /\ e \in CollapseDom /\ e.accordion = d.accordion /\ e.active = d.active /\ e.body = d.body
      /\ e.told = d.told /\ e.methods = d.methods
  BY <1>1 DEF CollapseDom
<1>3. \A j \in Items : HiddenIsHeard(d, j)
  BY RightIsHeard DEF Ready
<1>4. \A j \in Items : HiddenIsHeard(e, j)
  <2>. HIDE DEF e
  <2>. QED
    BY <1>2, <1>3 DEF HiddenIsHeard
<1>5. CASE d.accordion = FALSE
  BY <1>5, AllOpened
<1>6. CASE d.accordion = TRUE /\ d.active = {}
  <2>1. s = Collapsibles!OpenOthers(r, Collapsibles!NoItem, "told")
    BY <1>6 DEF Collapsibles!Build
  <2>2. r.dom = e /\ r \in CollapseState
    BY <1>1, <1>2 DEF CollapseState
  <2>3. Collapsibles!NoItem \notin Items
    BY WidgetConstants DEF Collapsibles!NoItem, Collapsibles!Items
  <2>. HIDE DEF e, r
  <2>4. \A j \in Items \ {Collapsibles!NoItem} : HiddenIsHeard(r.dom, j)
    BY <1>4, <2>2
  <2>5. /\ s \in CollapseState
        /\ \A j \in Items \ {Collapsibles!NoItem} : ItemRight(s.dom, s.calls, j)
    BY <2>1, <2>2, <2>4, OthersClose
  <2>. QED
    BY <2>3, <2>5
<1>7. CASE d.accordion = TRUE /\ d.active # {}
  <2>1. s = Collapsibles!OpenItem(e, cs, first, "told")
    BY <1>7 DEF Collapsibles!Build
  <2>2. first \in Items
    <3>1. d.active \subseteq Nat /\ d.active \subseteq Items
      BY <1>1, WidgetConstants DEF CollapseDom, Collapsibles!Items
    <3>2. \E i \in d.active : \A j \in d.active : i <= j
      BY <1>7, <3>1, Smallest
    <3>. QED
      BY <3>1, <3>2
  <2>. HIDE DEF e, first
  <2>3. /\ s \in CollapseState /\ ItemRight(s.dom, s.calls, first)
        /\ \A j \in Items \ {first} : ItemRight(s.dom, s.calls, j)
    BY <1>1, <1>2, <1>4, <1>7, <2>1, <2>2, ItemOpened
  <2>. QED
    BY <2>2, <2>3
<1>. QED
  BY <1>1, <1>5, <1>6, <1>7

LEMMA CollapseBegins == Collapsibles!Init => CollapseInv
<1>. SUFFICES ASSUME Collapsibles!Init PROVE CollapseInv
  OBVIOUS
<1>1. PICK accordion \in BOOLEAN, active \in SUBSET Collapsibles!Items :
         \E s : /\ s = Collapsibles!Build(Collapsibles!Fresh(accordion, active), <<>>)
               /\ dom = s.dom /\ calls = s.calls
  BY DEF Collapsibles!Init
<1>0. PICK s : /\ s = Collapsibles!Build(Collapsibles!Fresh(accordion, active), <<>>)
               /\ dom = s.dom /\ calls = s.calls
  BY <1>1
<1>. DEFINE d == Collapsibles!Fresh(accordion, active)
<1>2. /\ d \in CollapseDom /\ d.active = active
      /\ \A j \in Collapsibles!Items : d.body[j] = "hidden" /\ d.told[j] = "nothing"
  BY DEF Collapsibles!Fresh, CollapseDom
<1>3. \A j, t : ~Slides(<<>>, j, t)
  BY EmptySequence DEF Slides
<1>. HIDE DEF d
<1>4. Ready(d, <<>>)
  BY <1>2, <1>3 DEF Ready, ItemRight, BodyFollows, Heard, HiddenIsHeard
<1>5. s \in CollapseState /\ \A j \in Collapsibles!Items : ItemRight(s.dom, s.calls, j)
  BY <1>0, <1>4, ListBuilt DEF d
<1>. QED
  BY <1>0, <1>5 DEF CollapseInv, CollapseState

LEMMA CollapseStep == CollapseInv /\ Collapsibles!Next => CollapseInv'
<1>. SUFFICES ASSUME CollapseInv, Collapsibles!Next PROVE CollapseInv'
  OBVIOUS
<1>. DEFINE Items == Collapsibles!Items
<1>1. /\ dom \in CollapseDom /\ calls \in Seq(CollapseCalls)
      /\ \A j \in Items : ItemRight(dom, calls, j) /\ HiddenIsHeard(dom, j)
  BY RightIsHeard DEF CollapseInv
<1>2. ASSUME dom' \in CollapseDom, calls' \in Seq(CollapseCalls),
             \A j \in Items : ItemRight(dom', calls', j)
      PROVE  CollapseInv'
  BY <1>2 DEF CollapseInv, ItemRight, BodyFollows, Heard, Slides
<1>3. ASSUME NEW s \in CollapseState, Collapsibles!Become(s),
             \A j \in Items : ItemRight(s.dom, s.calls, j)
      PROVE  CollapseInv'
  <2>1. /\ dom' = s.dom /\ calls' = s.calls
        /\ s.dom \in CollapseDom /\ s.calls \in Seq(CollapseCalls)
    BY <1>3 DEF Collapsibles!Become, CollapseState
  <2>. QED
    BY <1>2, <1>3, <2>1
(* What a click or a method does *)
<1>4. ASSUME NEW i \in Items, NEW then \in {"told", "hidden"}, NEW d \in CollapseDom,
             d.methods = TRUE \/ (d = dom /\ then = "told"),
             Collapsibles!Become(Collapsibles!OpenItem(Collapsibles!Toggle(d, i), calls, i, then)),
             \A j \in Items : d.body[j] = dom.body[j] /\ d.told[j] = dom.told[j],
             d.active = dom.active, d.accordion = dom.accordion
      PROVE  CollapseInv'
  <2>. DEFINE e == Collapsibles!Toggle(d, i)
              s == Collapsibles!OpenItem(e, calls, i, then)
  <2>1. /\ e \in CollapseDom /\ e.methods = d.methods /\ e.body = d.body /\ e.told = d.told
        /\ e.accordion = d.accordion
        /\ \A j \in Items \ {i} : j \in e.active <=> j \in d.active
    BY DEF Collapsibles!Toggle, CollapseDom
  <2>. HIDE DEF e
  <2>2. \A j \in Items : HiddenIsHeard(e, j)
    BY <1>1, <1>4, <2>1 DEF HiddenIsHeard
  <2>3. then = "told" \/ e.methods = TRUE
    BY <1>4, <2>1
  <2>4. /\ s \in CollapseState /\ ItemRight(s.dom, s.calls, i)
        /\ e.accordion = FALSE => \A j \in Items \ {i} : ItemKept(e, calls, s.dom, s.calls, j)
        /\ e.accordion = TRUE => \A j \in Items \ {i} : ItemRight(s.dom, s.calls, j)
    BY <1>1, <2>1, <2>2, <2>3, ItemOpened
  <2>. HIDE DEF s
  <2>5. \A j \in Items \ {i} : ItemRight(e, calls, j)
    BY <1>1, <1>4, <2>1 DEF ItemRight, BodyFollows, Heard
  <2>6. \A j \in Items : ItemRight(s.dom, s.calls, j)
    <3>1. e.accordion = TRUE \/ e.accordion = FALSE
      BY <2>1 DEF CollapseDom
    <3>. QED
      BY <2>4, <2>5, <3>1, KeptRight
  <2>7. Collapsibles!Become(s)
    BY <1>4 DEF s, e
  <2>. QED
    BY <1>3, <2>4, <2>6, <2>7
<1>5. CASE Collapsibles!Rebuild
  <2>. DEFINE s == Collapsibles!Build(dom, calls)
  <2>1. Collapsibles!Become(s)
    BY <1>5 DEF Collapsibles!Rebuild
  <2>2. Ready(dom, calls)
    BY <1>1 DEF Ready
  <2>3. s \in CollapseState /\ \A j \in Items : ItemRight(s.dom, s.calls, j)
    BY <2>2, ListBuilt
  <2>. HIDE DEF s
  <2>. QED
    BY <1>3, <2>1, <2>3
<1>6. CASE Collapsibles!Destroy
  <2>1. dom' = [dom EXCEPT !.bound = FALSE] /\ calls' = calls
    BY <1>6 DEF Collapsibles!Destroy
  <2>2. /\ dom' \in CollapseDom /\ dom'.active = dom.active /\ dom'.body = dom.body
        /\ dom'.told = dom.told /\ dom'.methods = dom.methods
    BY <1>1, <2>1 DEF CollapseDom
  <2>3. \A j \in Items : ItemKept(dom, calls, dom', calls', j)
    BY <2>1, <2>2 DEF ItemKept
  <2>. QED
    BY <1>1, <1>2, <2>1, <2>2, <2>3, KeptRight
<1>7. ASSUME NEW i \in Items, Collapsibles!Click(i) PROVE CollapseInv'
  BY <1>1, <1>4, <1>7 DEF Collapsibles!Click
<1>8. ASSUME NEW i \in Items, Collapsibles!Method(i) PROVE CollapseInv'
  <2>. DEFINE d == [dom EXCEPT !.methods = TRUE]
  <2>1. /\ d \in CollapseDom /\ d.methods = TRUE /\ d.body = dom.body /\ d.told = dom.told
        /\ d.active = dom.active /\ d.accordion = dom.accordion
    BY <1>1 DEF CollapseDom
  <2>2. Collapsibles!Become(Collapsibles!OpenItem(Collapsibles!Toggle(d, i), calls, i, "hidden"))
    BY <1>8 DEF Collapsibles!Method
  <2>. HIDE DEF d
  <2>. QED
    BY <1>4, <2>1, <2>2
<1>9. ASSUME NEW k \in DOMAIN calls, Collapsibles!End(k) PROVE CollapseInv'
  <2>. DEFINE c == calls[k]
              i == c.el
              to == IF c.then = "shown" THEN "shown" ELSE "hidden"
              d == [dom EXCEPT !.body[i] = to]
              e == Collapsibles!Tell(d, i)
  <2>1. k \in 1 .. Len(calls) /\ c \in CollapseCalls /\ IsSequence(calls)
    BY <1>1, SequenceOf
  <2>2. i \in Items /\ c.then \in {"shown", "hidden", "told"} /\ c = Collapsibles!Slide(i, c.then)
    BY <2>1, CollapseCall
  <2>3. dom' = (IF c.then = "told" THEN e ELSE d) /\ calls' = RemoveAt(calls, k)
    BY <1>9 DEF Collapsibles!End, Collapsibles!Ended, RemoveAt
  <2>4. /\ calls' \in Seq(CollapseCalls) /\ ToSet(calls') \subseteq ToSet(calls)
        /\ ToSet(calls) \subseteq ToSet(calls') \cup {c} /\ c \in ToSet(calls)
    BY <1>1, <2>1, <2>3, Removed, RemovedOne
  <2>5. /\ \A j, t : Slides(calls', j, t) => Slides(calls, j, t)
        /\ \A j, t : Slides(calls, j, t) => Slides(calls', j, t) \/ (j = i /\ t = c.then)
        /\ Slides(calls, i, c.then)
    <3>. HIDE DEF c, i
    <3>. QED
      BY <2>2, <2>4, SlidesDiffer DEF Slides
  <2>. HIDE DEF c, i
  <2>6. /\ d \in CollapseDom /\ d.active = dom.active /\ d.told = dom.told
        /\ d.methods = dom.methods /\ d.body[i] = to
        /\ \A j \in Items \ {i} : d.body[j] = dom.body[j]
    BY <1>1, <2>2 DEF CollapseDom
  <2>. HIDE DEF d
  <2>7. /\ e \in CollapseDom /\ e.active = dom.active /\ e.body = d.body
        /\ e.methods = dom.methods /\ e.told[i] = (IF i \in dom.active THEN "open" ELSE "close")
        /\ \A j \in Items \ {i} : e.told[j] = dom.told[j]
    BY <2>2, <2>6 DEF Collapsibles!Tell, CollapseDom
  <2>. HIDE DEF e
  <2>8. /\ dom' \in CollapseDom /\ dom'.active = dom.active /\ dom'.methods = dom.methods
        /\ dom'.body[i] = to
        /\ dom'.told[i] = IF c.then # "told" THEN dom.told[i]
                          ELSE IF i \in dom.active THEN "open" ELSE "close"
        /\ \A j \in Items \ {i} : dom'.body[j] = dom.body[j] /\ dom'.told[j] = dom.told[j]
    BY <2>3, <2>6, <2>7
  <2>9. ASSUME NEW j \in Items \ {i} PROVE ItemRight(dom', calls', j)
    <3>1. ItemKept(dom, calls, dom', calls', j)
      BY <2>5, <2>8 DEF ItemKept
    <3>. QED
      BY <1>1, <3>1, KeptRight
  <2>10. ItemRight(dom', calls', i)
    <3>1. BodyFollows(dom, calls, i) /\ Heard(dom, calls, i)
      BY <1>1, <2>2 DEF ItemRight
    <3>2. BodyFollows(dom', calls', i)
      BY <2>2, <2>5, <2>8, <3>1 DEF BodyFollows
    <3>3. Heard(dom', calls', i)
      BY <2>2, <2>5, <2>8, <3>1 DEF BodyFollows, Heard
    <3>. QED
      BY <3>2, <3>3 DEF ItemRight
  <2>. QED
    BY <1>2, <2>4, <2>8, <2>9, <2>10
<1>. QED
  BY <1>5, <1>6, <1>7, <1>8, <1>9 DEF Collapsibles!Next

LEMMA CollapseRests == CollapseInv => Collapsibles!ShownAsMarked /\ Collapsibles!Told
<1>. SUFFICES ASSUME CollapseInv, Collapsibles!Settled, NEW j \in Collapsibles!Items
     PROVE  /\ Collapsibles!Visible(dom, j) <=> j \in dom.active
            /\ ~dom.methods => (dom.told[j] = "open" <=> j \in dom.active)
  BY DEF Collapsibles!ShownAsMarked, Collapsibles!Told
<1>1. ItemRight(dom, calls, j) /\ dom \in CollapseDom
  BY DEF CollapseInv
<1>2. \A t : ~Slides(calls, j, t)
  BY EmptySequence DEF Slides, Collapsibles!Settled
<1>3. dom.body[j] \in {"hidden", "opening", "shown", "closing"} /\ dom.methods \in BOOLEAN
  BY <1>1 DEF CollapseDom
<1>4. Collapsibles!Visible(dom, j) <=> j \in dom.active
  BY <1>1, <1>2, <1>3 DEF ItemRight, BodyFollows, Collapsibles!Visible
<1>5. ~dom.methods => (dom.told[j] = "open" <=> j \in dom.active)
  BY <1>1, <1>2, <1>3 DEF ItemRight, Heard
<1>. QED
  BY <1>4, <1>5

-----------------------------------------------------------------------------
(* Scroll spy *)

SpyDom ==
    [view : SUBSET Spies!Sections, flat : SUBSET Spies!Sections,
     elementsInView : SUBSET Spies!Sections, ticked : SUBSET Spies!Sections,
     visible : Seq(Spies!Sections), marked : SUBSET Spies!Sections,
     later : BOOLEAN, collapsed : BOOLEAN]
FirstScan == Spies!Call("timeout", "page", 0, "scan")
SpyCalls == {FirstScan, Spies!Wait}

(* The sections of S are on the list, each once, and the first is marked.  *)
Listed(d, S) ==
    /\ d.flat = {} /\ IsInjective(d.visible) /\ ToSet(d.visible) = S
    /\ d.marked = ToSet(Spies!FirstOf(d.visible))

Spied(d) == Listed(d, d.ticked) /\ d.elementsInView = d.ticked

(* What has come into view and is not listed yet will be looked at.        *)
SpyInv ==
    /\ dom \in SpyDom /\ calls \in Seq(SpyCalls)
    /\ dom.collapsed = FALSE =>
         /\ Spied(dom)
         /\ \/ dom.view = dom.elementsInView
            \/ FirstScan \in ToSet(calls)
            \/ dom.later = TRUE
         /\ dom.later = TRUE => Spies!Wait \in ToSet(calls)

(* Only the list and the marks may differ. *)
ListDiffers(d, e) ==
    /\ e \in SpyDom /\ e.view = d.view /\ e.flat = d.flat
    /\ e.elementsInView = d.elementsInView /\ e.ticked = d.ticked
    /\ e.later = d.later /\ e.collapsed = d.collapsed

LEMMA SpyOperators ==
  /\ \A t, S : Spies!Without(t, S) = Without(t, S)
  /\ \A t : Spies!ToSet(t) = ToSet(t)
  /\ \A t : Spies!IsInjective(t) <=> IsInjective(t)
<1>1. \A t, S : Spies!Without(t, S) = Without(t, S)
  BY DEF Without, Spies!Without
<1>2. \A t : Spies!ToSet(t) = ToSet(t)
  BY DEF ToSet, Spies!ToSet
<1>3. \A t : Spies!IsInjective(t) <=> IsInjective(t)
  BY DEF IsInjective, Spies!IsInjective
<1>. QED
  BY <1>1, <1>2, <1>3

LEMMA PutFirst ==
  ASSUME NEW T, NEW s \in Seq(T), NEW e \in T
  PROVE  /\ <<e>> \o s \in Seq(T) /\ ToSet(<<e>> \o s) = ToSet(s) \cup {e}
         /\ <<e>> \o s # <<>> /\ Head(<<e>> \o s) = e
         /\ IsInjective(s) /\ e \notin ToSet(s) => IsInjective(<<e>> \o s)
<1>. DEFINE t == <<e>> \o s
            n == Len(s)
<1>1. /\ t \in Seq(T) /\ n \in Nat /\ Len(t) = n + 1 /\ t[1] = e
      /\ \A k \in 2 .. n + 1 : t[k] = s[k - 1]
      /\ DOMAIN t = 1 .. n + 1 /\ DOMAIN s = 1 .. n
  OBVIOUS
<1>2. ToSet(t) = ToSet(s) \cup {e}
  BY SequenceOf, OneInSequence, InConcatenated
<1>. HIDE DEF t
<1>3. t # <<>> /\ Head(t) = e
  BY <1>1
<1>4. ASSUME IsInjective(s), e \notin ToSet(s) PROVE IsInjective(t)
  <2>. SUFFICES ASSUME NEW a \in 1 .. n + 1, NEW b \in 1 .. n + 1, t[a] = t[b] PROVE a = b
    BY <1>1 DEF IsInjective
  <2>1. \A k \in 2 .. n + 1 : k - 1 \in 1 .. n /\ t[k] = s[k - 1] /\ t[k] # e
    <3>. TAKE k \in 2 .. n + 1
    <3>1. k - 1 \in 1 .. n
      BY <1>1
    <3>2. s[k - 1] \in ToSet(s)
      BY <1>1, <3>1 DEF ToSet
    <3>. QED
      BY <1>1, <1>4, <3>1, <3>2
  <2>2. (a = 1 \/ a \in 2 .. n + 1) /\ (b = 1 \/ b \in 2 .. n + 1)
    BY <1>1
  <2>3. CASE a = 1 \/ b = 1
    BY <1>1, <2>1, <2>2, <2>3
  <2>4. CASE a \in 2 .. n + 1 /\ b \in 2 .. n + 1
    <3>1. a - 1 = b - 1
      BY <1>1, <1>4, <2>1, <2>4 DEF IsInjective
    <3>. QED
      BY <3>1, <2>4, <1>1
  <2>. QED
    BY <2>2, <2>3, <2>4
<1>. QED
  BY <1>1, <1>2, <1>3, <1>4 DEF t

LEMMA HeadListed ==
  ASSUME NEW T, NEW s \in Seq(T), s # <<>>
  PROVE  /\ Head(s) \in T /\ Head(s) \in ToSet(s)
         /\ ToSet(Spies!FirstOf(s)) = {Head(s)}
<1>1. Len(s) > 0 /\ Head(s) = s[1] /\ 1 \in 1 .. Len(s) /\ DOMAIN s = 1 .. Len(s)
  OBVIOUS
<1>2. Head(s) \in T /\ Head(s) \in ToSet(s)
  BY <1>1 DEF ToSet
<1>3. ToSet(Spies!FirstOf(s)) = {Head(s)}
  <2>1. Spies!FirstOf(s) = <<Head(s)>>
    BY DEF Spies!FirstOf
  <2>. QED
    BY <2>1, OneInSequence
<1>. QED
  BY <1>2, <1>3

LEMMA NoneListed == ToSet(Spies!FirstOf(<<>>)) = {}
  BY EmptySequence DEF Spies!FirstOf

(* A section enters the list. *)
LEMMA EnterOne ==
  ASSUME NEW d \in SpyDom, NEW e \in Spies!Sections
  PROVE  /\ ListDiffers(d, Spies!Enter(d, e))
         /\ \A S : Listed(d, S) /\ e \notin S => Listed(Spies!Enter(d, e), S \cup {e})
<1>. DEFINE T == Spies!Sections
            v == Without(d.visible, d.flat)
            w == IF v = <<>> THEN <<e>>
                 ELSE IF e < Head(v) THEN <<e>> \o v ELSE Append(v, e)
            m == (d.marked \ ToSet(Spies!FirstOf(v))) \cup {Head(w)}
            r == [d EXCEPT !.visible = w, !.marked = m]
<1>1. Spies!Enter(d, e) = r
  BY SpyOperators DEF Spies!Enter, Spies!High
<1>2. d.visible \in Seq(T) /\ d.marked \subseteq T
  BY DEF SpyDom
<1>3. v \in Seq(T)
  BY <1>2, WhatIsLeft
<1>4. ASSUME d.flat = {} PROVE v = d.visible
  BY <1>2, <1>4, WhatIsLeft
<1>. HIDE DEF v
<1>5. /\ w \in Seq(T) /\ w # <<>> /\ ToSet(w) = ToSet(v) \cup {e} /\ Head(w) \in T
      /\ IsInjective(v) /\ e \notin ToSet(v) => IsInjective(w)
  <2>1. CASE v = <<>>
    <3>1. w = <<e>>
      BY <2>1
    <3>2. ToSet(<<e>>) = {e} /\ ToSet(v) = {} /\ IsInjective(<<e>>)
      BY <2>1, OneInSequence, EmptySequence DEF IsInjective
    <3>. QED
      BY <3>1, <3>2
  <2>2. CASE v # <<>> /\ e < Head(v)
    <3>1. w = <<e>> \o v
      BY <2>2
    <3>. HIDE DEF w
    <3>. QED
      BY <1>3, <3>1, PutFirst
  <2>3. CASE v # <<>> /\ ~(e < Head(v))
    <3>1. w = Append(v, e)
      BY <2>3
    <3>. HIDE DEF w
    <3>2. w \in Seq(T) /\ w # <<>>
      BY <1>3, <3>1, AppendProperties
    <3>3. ToSet(w) = ToSet(v) \cup {e}
      BY <1>3, <3>1, AddedToSet
    <3>4. IsInjective(v) /\ e \notin ToSet(v) => IsInjective(w)
      BY <1>3, <3>1, AppendedOnce
    <3>. QED
      BY <3>2, <3>3, <3>4, HeadListed
  <2>. QED
    BY <2>1, <2>2, <2>3
<1>6. ASSUME d.marked = ToSet(Spies!FirstOf(v)) PROVE m = ToSet(Spies!FirstOf(w))
  <2>. HIDE DEF w
  <2>. QED
    BY <1>5, <1>6, HeadListed
<1>. HIDE DEF w
<1>7. m \subseteq T
  BY <1>2, <1>5
<1>. HIDE DEF m
<1>8. ListDiffers(d, r) /\ r.visible = w /\ r.marked = m
  BY <1>5, <1>7 DEF ListDiffers, SpyDom
<1>. HIDE DEF r
<1>9. ASSUME NEW S, Listed(d, S), e \notin S PROVE Listed(r, S \cup {e})
  BY <1>4, <1>5, <1>6, <1>8, <1>9 DEF Listed, ListDiffers
<1>. QED
  BY <1>1, <1>8, <1>9

(* A section leaves it. *)
LEMMA ExitOne ==
  ASSUME NEW d \in SpyDom, NEW e \in Spies!Sections
  PROVE  /\ ListDiffers(d, Spies!Exit(d, e))
         /\ \A S : Listed(d, S) => Listed(Spies!Exit(d, e), S \ {e})
<1>. DEFINE T == Spies!Sections
            v == Without(d.visible, d.flat)
            w == Without(v, {e})
            m == (d.marked \ {Head(v)}) \cup ToSet(Spies!FirstOf(w))
            r == [d EXCEPT !.visible = w, !.marked = m]
            q == [d EXCEPT !.visible = <<>>]
<1>1. Spies!Exit(d, e) = IF v = <<>> THEN q ELSE r
  BY SpyOperators DEF Spies!Exit, Spies!High
<1>2. d.visible \in Seq(T) /\ d.marked \subseteq T
  BY DEF SpyDom
<1>3. v \in Seq(T)
  BY <1>2, WhatIsLeft
<1>4. ASSUME d.flat = {} PROVE v = d.visible
  BY <1>2, <1>4, WhatIsLeft
<1>. HIDE DEF v
<1>5. w \in Seq(T) /\ ToSet(w) = ToSet(v) \ {e} /\ (IsInjective(v) => IsInjective(w))
  BY <1>3, WhatIsLeft, LeftOnce
<1>. HIDE DEF w
<1>6. ToSet(Spies!FirstOf(w)) \subseteq T
  BY <1>5, HeadListed, NoneListed
<1>7. CASE v = <<>>
  <2>1. ListDiffers(d, q) /\ q.visible = <<>> /\ q.marked = d.marked
    <3>1. <<>> \in Seq(T)
      OBVIOUS
    <3>. QED
      BY <3>1 DEF ListDiffers, SpyDom
  <2>. HIDE DEF q
  <2>2. ASSUME NEW S, Listed(d, S) PROVE Listed(q, S \ {e})
    <3>1. q.visible = d.visible /\ S = {}
      BY <1>4, <1>7, <2>1, <2>2, EmptySequence DEF Listed
    <3>. QED
      BY <2>1, <2>2, <3>1 DEF Listed, ListDiffers
  <2>. QED
    BY <1>1, <1>7, <2>1, <2>2
<1>8. CASE v # <<>>
  <2>1. m \subseteq T
    BY <1>2, <1>6
  <2>2. ASSUME d.marked = ToSet(Spies!FirstOf(v)) PROVE m = ToSet(Spies!FirstOf(w))
    BY <1>3, <1>8, <2>2, HeadListed
  <2>. HIDE DEF m
  <2>3. ListDiffers(d, r) /\ r.visible = w /\ r.marked = m
    BY <1>5, <2>1 DEF ListDiffers, SpyDom
  <2>. HIDE DEF r
  <2>4. ASSUME NEW S, Listed(d, S) PROVE Listed(r, S \ {e})
    BY <1>4, <1>5, <2>2, <2>3, <2>4 DEF Listed, ListDiffers
  <2>. QED
    BY <1>1, <1>8, <2>3, <2>4
<1>. QED
  BY <1>7, <1>8

(* All the sections of C enter the list, in the order of their numbers.    *)
LEMMA AllEnter ==
  ASSUME NEW d \in SpyDom, NEW C \in SUBSET Spies!Sections, NEW entered,
         entered = CHOOSE g : g = [n \in 0 .. SectionCount |->
                       IF n = 0 THEN d
                       ELSE IF n \in C THEN Spies!Enter(g[n - 1], n) ELSE g[n - 1]]
  PROVE  /\ ListDiffers(d, entered[SectionCount])
         /\ \A S : Listed(d, S) /\ S \cap C = {} => Listed(entered[SectionCount], S \cup C)
<1>. DEFINE N == SectionCount
            D == 0 .. N
            Defines(g) == g = [n \in D |-> IF n = 0 THEN d
                                           ELSE IF n \in C THEN Spies!Enter(g[n - 1], n)
                                           ELSE g[n - 1]]
            T == {r \in SpyDom : ListDiffers(d, r)}
            next == [p \in (1 .. N) \X T |-> IF p[1] \in C THEN Spies!Enter(p[2], p[1]) ELSE p[2]]
<1>1. /\ N \in Nat /\ Spies!Sections = 1 .. N
      /\ \A e \in C : e \in Int /\ 1 <= e /\ e <= N
  BY WidgetConstants DEF Spies!Sections
<1>2. d \in T
  BY DEF ListDiffers
<1>3. ASSUME NEW n \in 1 .. N, NEW r \in T
      PROVE  /\ Spies!Enter(r, n) \in T
             /\ \A S : Listed(r, S) /\ n \notin S => Listed(Spies!Enter(r, n), S \cup {n})
  <2>1. /\ ListDiffers(r, Spies!Enter(r, n))
        /\ \A S : Listed(r, S) /\ n \notin S => Listed(Spies!Enter(r, n), S \cup {n})
    BY <1>1, EnterOne
  <2>2. ListDiffers(d, Spies!Enter(r, n))
    BY <2>1 DEF ListDiffers
  <2>. QED
    BY <2>1, <2>2 DEF ListDiffers
<1>4. next \in [(1 .. N) \X T -> T]
  <2>. HIDE DEF T
  <2>. QED
    BY <1>3
<1>5. PICK g : Recursive(g, N, T, d, next)
  <2>. HIDE DEF T, next
  <2>. QED
    BY <1>1, <1>2, <1>4, Recursion
<1>6. Defines(g)
  <2>1. /\ g \in [D -> T] /\ g[0] = d /\ \A n \in 1 .. N : g[n] = next[<<n, g[n - 1]>>]
    BY <1>5 DEF Recursive
  <2>. HIDE DEF T
  <2>2. ASSUME NEW n \in 1 .. N
        PROVE  g[n] = IF n \in C THEN Spies!Enter(g[n - 1], n) ELSE g[n - 1]
    <3>1. g[n - 1] \in T
      BY <1>1, <2>1
    <3>2. <<n, g[n - 1]>> \in (1 .. N) \X T
      BY <3>1
    <3>. QED
      BY <2>1, <3>2
  <2>3. \A n \in D : n # 0 => n \in 1 .. N
    BY <1>1
  <2>. HIDE DEF next
  <2>. QED
    BY <2>1, <2>2, <2>3
<1>7. Defines(entered)
  BY <1>6
<1>. HIDE DEF next
<1>8. entered[0] = d
  <2>1. 0 \in D
    BY <1>1
  <2>. QED
    BY <1>7, <2>1
<1>9. ASSUME NEW n \in 1 .. N
      PROVE  entered[n] = IF n \in C THEN Spies!Enter(entered[n - 1], n) ELSE entered[n - 1]
  <2>1. n \in D /\ n # 0
    BY <1>1
  <2>. QED
    BY <1>7, <2>1
<1>. HIDE DEF T
<1>10. ASSUME NEW S, S \cap C = {}
       PROVE  /\ entered[N] \in T
              /\ Listed(d, S) => Listed(entered[N], S \cup C)
  <2>. DEFINE Sofar(n) == S \cup {e \in C : e <= n}
              R == {n \in Nat : n <= N => /\ entered[n] \in T
                                          /\ Listed(d, S) => Listed(entered[n], Sofar(n))}
  <2>1. 0 \in R
    <3>1. Sofar(0) = S
      <4>1. \A e \in C : ~(e <= 0)
        BY <1>1
      <4>. QED
        BY <4>1
    <3>. HIDE DEF Sofar
    <3>. QED
      BY <1>2, <1>8, <3>1
  <2>2. ASSUME NEW n \in Nat, n \in R PROVE n + 1 \in R
    <3>. SUFFICES ASSUME n + 1 <= N
                  PROVE  /\ entered[n + 1] \in T
                         /\ Listed(d, S) => Listed(entered[n + 1], Sofar(n + 1))
      OBVIOUS
    <3>. DEFINE r == entered[n]
    <3>1. /\ r \in T /\ (Listed(d, S) => Listed(r, Sofar(n)))
          /\ n + 1 \in 1 .. N /\ (n + 1) - 1 = n
      BY <1>1, <2>2
    <3>2. entered[n + 1] = IF n + 1 \in C THEN Spies!Enter(r, n + 1) ELSE r
      BY <1>9, <3>1
    <3>. HIDE DEF r
    <3>3. CASE n + 1 \in C
      <4>1. n + 1 \notin Sofar(n) /\ Sofar(n + 1) = Sofar(n) \cup {n + 1}
        <5>1. \A e \in C : e <= n + 1 <=> e <= n \/ e = n + 1
          BY <1>1, <2>2
        <5>2. ~(n + 1 <= n)
          BY <2>2
        <5>. QED
          BY <1>10, <3>3, <5>1, <5>2
      <4>. HIDE DEF Sofar
      <4>. QED
        BY <1>3, <3>1, <3>2, <3>3, <4>1
    <3>4. CASE n + 1 \notin C
      <4>1. Sofar(n + 1) = Sofar(n)
        <5>1. \A e \in C : e <= n + 1 <=> e <= n \/ e = n + 1
          BY <1>1, <2>2
        <5>. QED
          BY <3>4, <5>1
      <4>. HIDE DEF Sofar
      <4>. QED
        BY <3>1, <3>2, <3>4, <4>1
    <3>. QED
      BY <3>3, <3>4
  <2>. HIDE DEF R
  <2>3. Nat \subseteq R
    BY <2>1, <2>2, Reached
  <2>4. Sofar(N) = S \cup C
    <3>1. \A e \in C : e <= N
      BY <1>1
    <3>. QED
      BY <3>1
  <2>. HIDE DEF Sofar
  <2>5. entered[N] \in T /\ (Listed(d, S) => Listed(entered[N], Sofar(N)))
    BY <1>1, <2>3 DEF R
  <2>. QED
    BY <2>4, <2>5
<1>11. entered[N] \in T
  <2>1. {} \cap C = {}
    OBVIOUS
  <2>. QED
    BY <1>10, <2>1
<1>. QED
  BY <1>10, <1>11 DEF T

(* All the sections of C leave it. *)
LEMMA AllExit ==
  ASSUME NEW d \in SpyDom, NEW C \in SUBSET Spies!Sections, NEW exited,
         exited = CHOOSE g : g = [n \in 0 .. SectionCount |->
                       IF n = 0 THEN d
                       ELSE IF n \in C THEN Spies!Exit(g[n - 1], n) ELSE g[n - 1]]
  PROVE  /\ ListDiffers(d, exited[SectionCount])
         /\ \A S : Listed(d, S) => Listed(exited[SectionCount], S \ C)
<1>. DEFINE N == SectionCount
            D == 0 .. N
            Defines(g) == g = [n \in D |-> IF n = 0 THEN d
                                           ELSE IF n \in C THEN Spies!Exit(g[n - 1], n)
                                           ELSE g[n - 1]]
            T == {r \in SpyDom : ListDiffers(d, r)}
            next == [p \in (1 .. N) \X T |-> IF p[1] \in C THEN Spies!Exit(p[2], p[1]) ELSE p[2]]
<1>1. /\ N \in Nat /\ Spies!Sections = 1 .. N
      /\ \A e \in C : e \in Int /\ 1 <= e /\ e <= N
  BY WidgetConstants DEF Spies!Sections
<1>2. d \in T
  BY DEF ListDiffers
<1>3. ASSUME NEW n \in 1 .. N, NEW r \in T
      PROVE  /\ Spies!Exit(r, n) \in T
             /\ \A S : Listed(r, S) => Listed(Spies!Exit(r, n), S \ {n})
  <2>1. /\ ListDiffers(r, Spies!Exit(r, n))
        /\ \A S : Listed(r, S) => Listed(Spies!Exit(r, n), S \ {n})
    BY <1>1, ExitOne
  <2>2. ListDiffers(d, Spies!Exit(r, n))
    BY <2>1 DEF ListDiffers
  <2>. QED
    BY <2>1, <2>2 DEF ListDiffers
<1>4. next \in [(1 .. N) \X T -> T]
  <2>. HIDE DEF T
  <2>. QED
    BY <1>3
<1>5. PICK g : Recursive(g, N, T, d, next)
  <2>. HIDE DEF T, next
  <2>. QED
    BY <1>1, <1>2, <1>4, Recursion
<1>6. Defines(g)
  <2>1. /\ g \in [D -> T] /\ g[0] = d /\ \A n \in 1 .. N : g[n] = next[<<n, g[n - 1]>>]
    BY <1>5 DEF Recursive
  <2>. HIDE DEF T
  <2>2. ASSUME NEW n \in 1 .. N
        PROVE  g[n] = IF n \in C THEN Spies!Exit(g[n - 1], n) ELSE g[n - 1]
    <3>1. g[n - 1] \in T
      BY <1>1, <2>1
    <3>2. <<n, g[n - 1]>> \in (1 .. N) \X T
      BY <3>1
    <3>. QED
      BY <2>1, <3>2
  <2>3. \A n \in D : n # 0 => n \in 1 .. N
    BY <1>1
  <2>. HIDE DEF next
  <2>. QED
    BY <2>1, <2>2, <2>3
<1>7. Defines(exited)
  BY <1>6
<1>. HIDE DEF next
<1>8. exited[0] = d
  <2>1. 0 \in D
    BY <1>1
  <2>. QED
    BY <1>7, <2>1
<1>9. ASSUME NEW n \in 1 .. N
      PROVE  exited[n] = IF n \in C THEN Spies!Exit(exited[n - 1], n) ELSE exited[n - 1]
  <2>1. n \in D /\ n # 0
    BY <1>1
  <2>. QED
    BY <1>7, <2>1
<1>. HIDE DEF T
<1>10. ASSUME NEW S
       PROVE  /\ exited[N] \in T
              /\ Listed(d, S) => Listed(exited[N], S \ C)
  <2>. DEFINE Sofar(n) == S \ {e \in C : e <= n}
              R == {n \in Nat : n <= N => /\ exited[n] \in T
                                          /\ Listed(d, S) => Listed(exited[n], Sofar(n))}
  <2>1. 0 \in R
    <3>1. Sofar(0) = S
      <4>1. \A e \in C : ~(e <= 0)
        BY <1>1
      <4>. QED
        BY <4>1
    <3>. HIDE DEF Sofar
    <3>. QED
      BY <1>2, <1>8, <3>1
  <2>2. ASSUME NEW n \in Nat, n \in R PROVE n + 1 \in R
    <3>. SUFFICES ASSUME n + 1 <= N
                  PROVE  /\ exited[n + 1] \in T
                         /\ Listed(d, S) => Listed(exited[n + 1], Sofar(n + 1))
      OBVIOUS
    <3>. DEFINE r == exited[n]
    <3>1. /\ r \in T /\ (Listed(d, S) => Listed(r, Sofar(n)))
          /\ n + 1 \in 1 .. N /\ (n + 1) - 1 = n
      BY <1>1, <2>2
    <3>2. exited[n + 1] = IF n + 1 \in C THEN Spies!Exit(r, n + 1) ELSE r
      BY <1>9, <3>1
    <3>. HIDE DEF r
    <3>3. CASE n + 1 \in C
      <4>1. Sofar(n + 1) = Sofar(n) \ {n + 1}
        <5>1. \A e \in C : e <= n + 1 <=> e <= n \/ e = n + 1
          BY <1>1, <2>2
        <5>. QED
          BY <3>3, <5>1
      <4>. HIDE DEF Sofar
      <4>. QED
        BY <1>3, <3>1, <3>2, <3>3, <4>1
    <3>4. CASE n + 1 \notin C
      <4>1. Sofar(n + 1) = Sofar(n)
        <5>1. \A e \in C : e <= n + 1 <=> e <= n \/ e = n + 1
          BY <1>1, <2>2
        <5>. QED
          BY <3>4, <5>1
      <4>. HIDE DEF Sofar
      <4>. QED
        BY <3>1, <3>2, <3>4, <4>1
    <3>. QED
      BY <3>3, <3>4
  <2>. HIDE DEF R
  <2>3. Nat \subseteq R
    BY <2>1, <2>2, Reached
  <2>4. Sofar(N) = S \ C
    <3>1. \A e \in C : e <= N
      BY <1>1
    <3>. QED
      BY <3>1
  <2>. HIDE DEF Sofar
  <2>5. exited[N] \in T /\ (Listed(d, S) => Listed(exited[N], Sofar(N)))
    BY <1>1, <2>3 DEF R
  <2>. QED
    BY <2>4, <2>5
<1>11. exited[N] \in T
  BY <1>10
<1>. QED
  BY <1>10, <1>11 DEF T

LEMMA Scrolled ==
  ASSUME NEW d \in SpyDom, NEW e, e = Spies!OnScroll(d)
  PROVE  /\ e \in SpyDom /\ e.view = d.view /\ e.later = d.later /\ e.collapsed = d.collapsed
         /\ Spied(d) => Spied(e) /\ e.elementsInView = e.view
<1>. DEFINE hits == d.view \ d.flat
            came == hits \ d.ticked
            gone == (d.elementsInView \cap d.ticked) \ hits
            entered == CHOOSE g : g = [n \in 0 .. SectionCount |->
                          IF n = 0 THEN d
                          ELSE IF n \in came THEN Spies!Enter(g[n - 1], n) ELSE g[n - 1]]
            a == entered[SectionCount]
            exited == CHOOSE g : g = [n \in 0 .. SectionCount |->
                          IF n = 0 THEN a
                          ELSE IF n \in gone THEN Spies!Exit(g[n - 1], n) ELSE g[n - 1]]
            b == exited[SectionCount]
<1>1. e = [b EXCEPT !.ticked = (@ \cup hits) \ gone, !.elementsInView = hits]
  BY Zenon DEF Spies!OnScroll
<1>2. /\ came \in SUBSET Spies!Sections /\ gone \in SUBSET Spies!Sections
      /\ hits \subseteq Spies!Sections
  BY DEF SpyDom
<1>3. /\ ListDiffers(d, a)
      /\ \A S : Listed(d, S) /\ S \cap came = {} => Listed(a, S \cup came)
  <2>. HIDE DEF came, hits
  <2>. QED
    BY <1>2, AllEnter
<1>4. a \in SpyDom
  BY <1>3 DEF ListDiffers
<1>5. /\ ListDiffers(a, b)
      /\ \A S : Listed(a, S) => Listed(b, S \ gone)
  <2>. HIDE DEF gone, hits, a
  <2>. QED
    BY <1>2, <1>4, AllExit
<1>. HIDE DEF a, b
<1>6. ListDiffers(d, b)
  BY <1>3, <1>5 DEF ListDiffers
<1>7. /\ e \in SpyDom /\ e.view = d.view /\ e.later = d.later /\ e.collapsed = d.collapsed
      /\ e.flat = d.flat /\ e.visible = b.visible /\ e.marked = b.marked
      /\ e.ticked = (d.ticked \cup hits) \ gone /\ e.elementsInView = hits
  <2>. HIDE DEF hits, gone
  <2>. QED
    BY <1>1, <1>2, <1>6 DEF ListDiffers, SpyDom
<1>8. ASSUME Spied(d) PROVE Spied(e) /\ e.elementsInView = e.view
  <2>1. d.flat = {} /\ Listed(d, d.ticked) /\ d.elementsInView = d.ticked
    BY <1>8 DEF Spied, Listed
  <2>2. Listed(b, (d.ticked \cup came) \ gone)
    <3>1. d.ticked \cap came = {}
      OBVIOUS
    <3>. HIDE DEF came, gone
    <3>. QED
      BY <1>3, <1>5, <2>1, <3>1
  <2>3. /\ (d.ticked \cup came) \ gone = hits /\ (d.ticked \cup hits) \ gone = hits
        /\ hits = d.view
    BY <2>1
  <2>. HIDE DEF hits, came, gone
  <2>. QED
    BY <1>7, <2>1, <2>2, <2>3 DEF Spied, Listed
<1>. QED
  BY <1>7, <1>8

LEMMA SpyBegins == Spies!Init => SpyInv
<1>. SUFFICES ASSUME Spies!Init PROVE SpyInv
  OBVIOUS
<1>1. /\ dom = [view |-> {}, flat |-> {}, elementsInView |-> {}, ticked |-> {},
                visible |-> <<>>, marked |-> {}, later |-> FALSE, collapsed |-> FALSE]
      /\ calls = <<FirstScan>>
  BY DEF Spies!Init, FirstScan
<1>2. calls \in Seq(SpyCalls)
  <2>1. FirstScan \in SpyCalls
    BY DEF SpyCalls
  <2>. QED
    BY <1>1, <2>1
<1>3. <<>> \in Seq(Spies!Sections) /\ IsInjective(<<>>) /\ ToSet(<<>>) = {}
  BY EmptySequence DEF IsInjective
<1>4. dom \in SpyDom
  BY <1>1, <1>3 DEF SpyDom
<1>5. Spied(dom)
  BY <1>1, <1>3, NoneListed DEF Spied, Listed
<1>. QED
  BY <1>1, <1>2, <1>4, <1>5 DEF SpyInv

(* The throttled function leaves what is in view looked at, or to be looked*)
(* at when the wait is over.                                               *)
LEMMA ThrottleKeeps ==
  ASSUME NEW d \in SpyDom, NEW cs \in Seq(SpyCalls),
         d.collapsed = FALSE => Spied(d),
         NEW s, s = Spies!Throttled(d, cs)
  PROVE  /\ s.dom \in SpyDom /\ s.calls \in Seq(SpyCalls) /\ Spies!Wait \in ToSet(s.calls)
         /\ s.dom.collapsed = FALSE =>
              /\ Spied(s.dom)
              /\ s.dom.view = s.dom.elementsInView \/ s.dom.later = TRUE
<1>. DEFINE w == Spies!Wait
<1>1. Spies!Waiting(cs) => w \in ToSet(cs)
  <2>. SUFFICES ASSUME NEW k \in DOMAIN cs, cs[k].el = "throttle" PROVE w \in ToSet(cs)
    BY DEF Spies!Waiting, Spies!Pending
  <2>1. cs[k] \in SpyCalls
    OBVIOUS
  <2>2. FirstScan.el = "page"
    BY DEF FirstScan, Spies!Call
  <2>3. cs[k] = w
    BY <2>1, <2>2 DEF SpyCalls
  <2>. HIDE DEF w
  <2>. QED
    BY <2>3 DEF ToSet
<1>2. w \in SpyCalls
  BY DEF SpyCalls
<1>3. CASE Spies!Waiting(cs)
  <2>. DEFINE e == [d EXCEPT !.later = TRUE]
  <2>1. s.dom = e /\ s.calls = cs
    BY <1>3 DEF Spies!Throttled
  <2>2. /\ e \in SpyDom /\ e.later = TRUE /\ e.collapsed = d.collapsed
        /\ e.flat = d.flat /\ e.visible = d.visible /\ e.marked = d.marked
        /\ e.ticked = d.ticked /\ e.elementsInView = d.elementsInView
    BY DEF SpyDom
  <2>. HIDE DEF e
  <2>. QED
    BY <1>1, <1>3, <2>1, <2>2 DEF Spied, Listed
<1>4. CASE ~Spies!Waiting(cs)
  <2>1. s.dom = Spies!OnScroll(d) /\ s.calls = Append(cs, w)
    BY <1>4 DEF Spies!Throttled
  <2>. HIDE DEF w
  <2>2. s.calls \in Seq(SpyCalls) /\ w \in ToSet(s.calls)
    BY <1>2, <2>1, AddedToSet, AppendProperties
  <2>. QED
    BY <2>1, <2>2, Scrolled DEF w
<1>. QED
  BY <1>3, <1>4

LEMMA SpyStep == SpyInv /\ Spies!Next => SpyInv'
<1>. SUFFICES ASSUME SpyInv, Spies!Next PROVE SpyInv'
  OBVIOUS
<1>1. /\ dom \in SpyDom /\ calls \in Seq(SpyCalls)
      /\ dom.collapsed = FALSE => Spied(dom)
  BY DEF SpyInv
<1>2. ASSUME dom' \in SpyDom, calls' \in Seq(SpyCalls),
             dom'.collapsed = FALSE =>
               /\ Spied(dom')
               /\ \/ dom'.view = dom'.elementsInView
                  \/ FirstScan \in ToSet(calls')
                  \/ dom'.later = TRUE
               /\ dom'.later = TRUE => Spies!Wait \in ToSet(calls')
      PROVE  SpyInv'
  BY <1>2 DEF SpyInv, Spied, Listed
<1>3. ASSUME NEW d \in SpyDom, NEW cs \in Seq(SpyCalls),
             d.collapsed = FALSE => Spied(d), Spies!Become(Spies!Throttled(d, cs))
      PROVE  SpyInv'
  <2>. DEFINE s == Spies!Throttled(d, cs)
  <2>1. dom' = s.dom /\ calls' = s.calls
    BY <1>3 DEF Spies!Become
  <2>2. /\ s.dom \in SpyDom /\ s.calls \in Seq(SpyCalls) /\ Spies!Wait \in ToSet(s.calls)
        /\ s.dom.collapsed = FALSE =>
             /\ Spied(s.dom)
             /\ s.dom.view = s.dom.elementsInView \/ s.dom.later = TRUE
    BY <1>3, ThrottleKeeps
  <2>. HIDE DEF s
  <2>. QED
    BY <1>2, <2>1, <2>2
<1>4. ASSUME NEW view \in SUBSET Spies!Sections, Spies!ScrollTo(view) PROVE SpyInv'
  <2>. DEFINE d == [dom EXCEPT !.view = view]
  <2>1. /\ d \in SpyDom /\ d.collapsed = dom.collapsed /\ d.flat = dom.flat
        /\ d.visible = dom.visible /\ d.marked = dom.marked /\ d.ticked = dom.ticked
        /\ d.elementsInView = dom.elementsInView
    BY <1>1 DEF SpyDom
  <2>2. Spies!Become(Spies!Throttled(d, calls))
    BY <1>4 DEF Spies!ScrollTo
  <2>. HIDE DEF d
  <2>3. d.collapsed = FALSE => Spied(d)
    BY <1>1, <2>1 DEF Spied, Listed
  <2>. QED
    BY <1>1, <1>3, <2>1, <2>2, <2>3
<1>5. ASSUME NEW s \in Spies!Sections, Spies!Collapse(s) PROVE SpyInv'
  <2>1. dom' \in SpyDom /\ dom'.collapsed = TRUE /\ calls' = calls
    BY <1>1, <1>5 DEF Spies!Collapse, SpyDom
  <2>. QED
    BY <1>1, <1>2, <2>1
<1>6. ASSUME NEW k \in DOMAIN calls, Spies!End(k) PROVE SpyInv'
  <2>. DEFINE rest == RemoveAt(calls, k)
  <2>1. k \in 1 .. Len(calls) /\ IsSequence(calls)
    BY <1>1, SequenceOf
  <2>2. /\ rest \in Seq(SpyCalls) /\ ToSet(calls) \subseteq ToSet(rest) \cup {calls[k]}
        /\ Spies!Ended(calls, k) = rest
    BY <1>1, <2>1, Removed, RemovedOne DEF Spies!Ended, Spies!RemoveAt, RemoveAt
  <2>. HIDE DEF rest
  <2>3. CASE Spies!Scan(k)
    BY <1>1, <1>3, <2>2, <2>3 DEF Spies!Scan
  <2>4. CASE Spies!WaitEnds(k) /\ dom.later = TRUE
    <3>. DEFINE d == [dom EXCEPT !.later = FALSE]
                e == Spies!OnScroll(d)
                w == Spies!Wait
    <3>1. dom' = e /\ calls' = Append(rest, w)
      BY <2>2, <2>4 DEF Spies!WaitEnds
    <3>2. /\ d \in SpyDom /\ d.collapsed = dom.collapsed /\ d.flat = dom.flat
          /\ d.visible = dom.visible /\ d.marked = dom.marked /\ d.ticked = dom.ticked
          /\ d.elementsInView = dom.elementsInView
      BY <1>1 DEF SpyDom
    <3>. HIDE DEF d
    <3>3. d.collapsed = FALSE => Spied(d)
      BY <1>1, <3>2 DEF Spied, Listed
    <3>4. /\ e \in SpyDom /\ e.collapsed = d.collapsed
          /\ Spied(d) => Spied(e) /\ e.elementsInView = e.view
      BY <3>2, Scrolled
    <3>5. w \in SpyCalls
      BY DEF SpyCalls
    <3>. HIDE DEF e, w
    <3>6. calls' \in Seq(SpyCalls) /\ w \in ToSet(calls')
      BY <2>2, <3>1, <3>5, AddedToSet, AppendProperties
    <3>. QED
      BY <1>2, <3>1, <3>3, <3>4, <3>6 DEF w
  <2>5. CASE Spies!WaitEnds(k) /\ dom.later = FALSE
    <3>1. dom' = dom /\ calls' = rest /\ calls[k].then = "wait"
      BY <2>2, <2>5 DEF Spies!WaitEnds
    <3>2. FirstScan # calls[k]
      BY <3>1 DEF FirstScan, Spies!Call
    <3>. QED
      BY <1>1, <1>2, <2>2, <2>5, <3>1, <3>2 DEF SpyInv
  <2>. QED
    BY <1>1, <1>6, <2>3, <2>4, <2>5 DEF Spies!End, SpyDom
<1>. QED
  BY <1>4, <1>5, <1>6 DEF Spies!Next

LEMMA SpyRests == SpyInv => Spies!ShownAsMarked /\ Spies!Told
<1>. SUFFICES ASSUME SpyInv PROVE Spies!ShownAsMarked /\ Spies!Told
  OBVIOUS
<1>1. dom.collapsed \in BOOLEAN
  BY DEF SpyInv, SpyDom
<1>2. ASSUME dom.collapsed = FALSE PROVE ToSet(dom.visible) = dom.ticked
  BY <1>2 DEF SpyInv, Spied, Listed
<1>3. ASSUME dom.collapsed = FALSE, calls = <<>>
      PROVE  /\ ToSet(dom.visible) = dom.view /\ IsInjective(dom.visible)
             /\ dom.marked = ToSet(Spies!FirstOf(dom.visible))
  <2>1. dom.view = dom.elementsInView
    BY <1>3, EmptySequence DEF SpyInv
  <2>. QED
    BY <1>3, <2>1 DEF SpyInv, Spied, Listed
<1>. QED
  BY <1>1, <1>2, <1>3, SpyOperators DEF Spies!ShownAsMarked, Spies!Told, Spies!Settled

-----------------------------------------------------------------------------
(* All of them together *)

(* What is invariant of a widget speaks of its dom and calls only. *)
LEMMA NothingMoves ==
  ASSUME dom' = dom, calls' = calls
  PROVE  /\ BoxInv => BoxInv'
         /\ TooltipInv => TooltipInv'
         /\ MenuInv => MenuInv'
         /\ ModalInv => ModalInv'
         /\ NavInv => NavInv'
         /\ ToastInv => ToastInv'
         /\ CollapseInv => CollapseInv'
         /\ SpyInv => SpyInv'
<1>1. BoxInv => BoxInv'
  BY DEF BoxInv, Animated, GoesOut, GoesBack
<1>2. TooltipInv => TooltipInv'
  BY DEF TooltipInv, Appears, Vanishes, Awaited
<1>3. MenuInv => MenuInv'
  BY DEF MenuInv
<1>4. ModalInv => ModalInv'
  BY DEF ModalInv
<1>5. NavInv => NavInv'
  BY DEF NavInv
<1>6. ToastInv => ToastInv'
  BY DEF ToastInv
<1>7. CollapseInv => CollapseInv'
  BY DEF CollapseInv
<1>8. SpyInv => SpyInv'
  BY DEF SpyInv
<1>. QED
  BY <1>1, <1>2, <1>3, <1>4, <1>5, <1>6, <1>7, <1>8

(* Whenever everything has come to rest, no overlay, listener, element or  *)
(* lock of the page's scrolling is left of a modal, side menu, image,      *)
(* message or dropdown that is no longer there, within the limits that the *)
(* property of each widget names (materialize.js, close(), removeMenu(),   *)
(* returnToOriginal(), the toasts' timers, hideDropdown()).                *)
RestInv ==
    /\ widget = "modal" => ModalInv
    /\ widget = "sidenav" => NavInv
    /\ widget = "materialbox" => BoxInv
    /\ widget = "toasts" => ToastInv
    /\ widget = "dropdown" => MenuInv

THEOREM NothingStays == Spec => []NothingLeftBehind
<1>1. Init => RestInv
  BY ModalBegins, NavBegins, BoxBegins, ToastsBegin, MenuBegins DEF Init, RestInv
<1>2. RestInv /\ [Next]_vars => RestInv'
  <2>. SUFFICES ASSUME RestInv, [Next]_vars PROVE RestInv'
    OBVIOUS
  <2>1. CASE Next
    BY <2>1, WidgetsStep, ModalStep, NavStep, BoxStep, ToastStep, MenuStep DEF RestInv
  <2>2. CASE UNCHANGED vars
    BY <2>2, NothingMoves DEF vars, RestInv
  <2>. QED
    BY <2>1, <2>2
<1>3. RestInv => NothingLeftBehind
  BY ModalRests, NavRests, BoxRests, ToastsRest, MenuRests DEF RestInv, NothingLeftBehind
<1>. QED
  BY <1>1, <1>2, <1>3, PTL DEF Spec

(* The page's callbacks and events have told of every body that opened and *)
(* closed and of every section that came into view and left it, the last   *)
(* that was told of each is how it is now (materialize.js, onOpen and      *)
(* onClose of the accordion, scrollSpy:enter and scrollSpy:exit).          *)
ToldInv ==
    /\ widget = "collapsible" => CollapseInv
    /\ widget = "scrollspy" => SpyInv

THEOREM CallbacksTell == Spec => []Told
<1>1. Init => ToldInv
  BY CollapseBegins, SpyBegins DEF Init, ToldInv
<1>2. ToldInv /\ [Next]_vars => ToldInv'
  <2>. SUFFICES ASSUME ToldInv, [Next]_vars PROVE ToldInv'
    OBVIOUS
  <2>1. CASE Next
    BY <2>1, WidgetsStep, CollapseStep, SpyStep DEF ToldInv
  <2>2. CASE UNCHANGED vars
    BY <2>2, NothingMoves DEF vars, ToldInv
  <2>. QED
    BY <2>1, <2>2
<1>3. ToldInv => Told
  BY CollapseRests, SpyRests DEF ToldInv, Told
<1>. QED
  BY <1>1, <1>2, <1>3, PTL DEF Spec
=============================================================================
