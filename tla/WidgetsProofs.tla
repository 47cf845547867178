----------------------------- MODULE WidgetsProofs -----------------------------
(***************************************************************************)
(* Proofs about the page's widgets of which parts are chosen, and about    *)
(* all of them together, for any number of links, slides, chips, items,    *)
(* entries and options and any number of events.                           *)
(***************************************************************************)
EXTENDS OpeningProofs

-----------------------------------------------------------------------------
(* Tabs *)

TabFields == {"swipeable", "disabled", "others", "marked", "active", "index", "content",
              "shown", "clicked"}
TabsInv ==
    /\ DOMAIN dom = TabFields /\ TabBars!OneSelected
    /\ ~dom.swipeable => dom.shown = {dom.active} /\ dom.content = dom.active

LEMMA TabsBegin == TabBars!Init => TabsInv
  BY DEF TabsInv, TabFields, TabBars!Init, TabBars!Fresh, TabBars!OneSelected

LEMMA TabsStep == TabsInv /\ TabBars!Next => TabsInv'
<1>. SUFFICES ASSUME TabsInv, TabBars!Next PROVE TabsInv'
  OBVIOUS
<1>1. ASSUME NEW l, TabBars!Click(l) PROVE TabsInv'
  BY <1>1 DEF TabsInv, TabFields, TabBars!OneSelected, TabBars!Click, TabBars!Swap
<1>2. ASSUME NEW l, TabBars!CycleTo(l) PROVE TabsInv'
  BY <1>2 DEF TabsInv, TabFields, TabBars!OneSelected, TabBars!CycleTo
<1>3. ASSUME NEW k, TabBars!End(k) PROVE TabsInv'
  BY <1>3 DEF TabsInv, TabFields, TabBars!OneSelected, TabBars!End
<1>. QED
  BY <1>1, <1>2, <1>3 DEF TabBars!Next

-----------------------------------------------------------------------------
(* Slider *)

SlideFields == {"active", "indicators", "opaque", "premarked", "swipeLeft", "swipeRight",
                "curr", "interval", "ticks", "panning", "hurried"}

(* One slide is active, and its indicator unless the page has marked it.   *)
Turns(d, a) ==
    /\ DOMAIN d = SlideFields
    /\ d.active = {a} /\ d.indicators = IF d.premarked THEN {} ELSE {a}
SlideEnds == [clock : {"velocity"}, el : Int, dur : Int, then : {"show", "fade", "back"}]
SliderInv == calls \in Seq(SlideEnds) /\ \E a \in Sliders!Slides : Turns(dom, a)

LEMMA SlidesExist == Sliders!Slides = 0 .. SlideCount - 1 /\ SlideCount \in Nat /\ SlideCount > 0
  BY WidgetConstants DEF Sliders!Slides

LEMMA SlideEnd ==
  ASSUME NEW a \in Int, NEW dur \in Int, NEW then \in {"show", "fade", "back"}
  PROVE  Sliders!Vel(a, dur, then) \in SlideEnds
  BY DEF SlideEnds, Sliders!Vel, Sliders!Call

LEMMA SliderBegin == Sliders!Init => SliderInv
<1>. SUFFICES ASSUME Sliders!Init PROVE SliderInv
  OBVIOUS
<1>1. PICK first \in Sliders!Slides, premarked \in BOOLEAN :
          /\ dom = [active |-> {first}, indicators |-> IF premarked THEN {} ELSE {first},
                    opaque |-> {}, premarked |-> premarked,
                    swipeLeft |-> FALSE, swipeRight |-> FALSE,
                    curr |-> Sliders!None, interval |-> TRUE, ticks |-> SlideTicks,
                    panning |-> FALSE, hurried |-> FALSE]
          /\ calls = IF premarked THEN <<>> ELSE <<Sliders!Vel(first, 500, "show")>>
  BY DEF Sliders!Init
<1>2. Turns(dom, first)
  BY <1>1 DEF Turns, SlideFields
<1>3. calls \in Seq(SlideEnds)
  <2>1. Sliders!Vel(first, 500, "show") \in SlideEnds
    BY SlideEnd, SlidesExist
  <2>. QED
    BY <1>1, <2>1
<1>. QED
  BY <1>2, <1>3 DEF SliderInv

(* The next slide of the last one is the first, and before that the last.  *)
LEMMA MovedOne ==
  ASSUME NEW d, NEW a \in Sliders!Slides, Turns(d, a),
         NEW index, index \in Sliders!Slides \/ index \in {a - 1, a, a + 1}
  PROVE  /\ \E b \in Sliders!Slides : Turns(Sliders!Moved(d, index), b)
         /\ Sliders!Moving(d, index) \in Seq(SlideEnds)
<1>. DEFINE i == Sliders!WrapIndex(index)
<1>1. Sliders!ActiveIndex(d) = a
  BY DEF Sliders!ActiveIndex, Turns, Sliders!Slides
<1>2. i \in Sliders!Slides /\ i \in Int /\ a \in Int
  <2>1. index \in Int /\ index >= -1 /\ index <= SlideCount
    BY SlidesExist
  <2>. QED
    BY <2>1, SlidesExist DEF Sliders!WrapIndex
<1>. HIDE DEF i
<1>3. Sliders!Moved(d, index) =
        IF i = a THEN d
        ELSE [d EXCEPT !.active = (@ \ {a}) \cup {i}, !.indicators = (@ \ {a}) \cup {i},
                       !.premarked = FALSE]
  BY <1>1 DEF Sliders!Moved, i
<1>4. Turns(Sliders!Moved(d, index), i)
  BY <1>3 DEF Turns, SlideFields
<1>5. Sliders!Moving(d, index) \in Seq(SlideEnds)
  <2>1. Sliders!Moving(d, index) =
          IF i = a THEN <<>> ELSE <<Sliders!Vel(a, 500, "fade"), Sliders!Vel(i, 500, "show")>>
    BY <1>1 DEF Sliders!Moving, i
  <2>2. Sliders!Vel(a, 500, "fade") \in SlideEnds /\ Sliders!Vel(i, 500, "show") \in SlideEnds
    BY <1>2, SlideEnd
  <2>. QED
    BY <2>1, <2>2
<1>. QED
  BY <1>2, <1>4, <1>5

(* What a pan lets appear beside slide a, on the left and on the right *)
Neighbours(a, left, right) ==
    (IF left THEN <<Sliders!Vel(IF a + 1 = SlideCount THEN 0 ELSE a + 1, 300, "show")>> ELSE <<>>)
    \o (IF right THEN <<Sliders!Vel(IF a = 0 THEN SlideCount - 1 ELSE a - 1, 300, "show")>> ELSE <<>>)

LEMMA Panned ==
  ASSUME Sliders!Pan
  PROVE  \E left, right : calls' = calls \o Neighbours(Sliders!ActiveIndex(dom), left, right)
<1>. DEFINE act == Sliders!ActiveIndex(dom)
            d(side) == [dom EXCEPT !.interval = FALSE, !.curr = act, !.panning = TRUE,
                             !.swipeLeft = @ \/ side = "left",
                             !.swipeRight = @ \/ side = "right",
                             !.hurried = @ \/ \E k \in DOMAIN calls : calls[k].then = "back"]
<1>1. PICK side \in {"left", "right", "none"} :
         /\ dom' = d(side)
         /\ calls' = calls \o Neighbours(act, d(side).swipeLeft, d(side).swipeRight)
  BY Zenon DEF Sliders!Pan, Neighbours
<1>. HIDE DEF d, act
<1>. WITNESS d(side).swipeLeft, d(side).swipeRight
<1>. QED
  BY <1>1 DEF act

LEMMA SliderStep == SliderInv /\ Sliders!Next => SliderInv'
<1>. SUFFICES ASSUME SliderInv, Sliders!Next PROVE SliderInv'
  OBVIOUS
<1>1. PICK a \in Sliders!Slides : Turns(dom, a)
  BY DEF SliderInv
<1>2. Sliders!ActiveIndex(dom) = a /\ a \in Int /\ calls \in Seq(SlideEnds)
  <2>1. a \in Int
    BY SlidesExist
  <2>2. Sliders!ActiveIndex(dom) = a
    BY <1>1, <2>1 DEF Sliders!ActiveIndex, Turns
  <2>. QED
    BY <2>1, <2>2 DEF SliderInv
<1>3. ASSUME NEW d, Turns(d, a), NEW index,
             index \in Sliders!Slides \/ index \in {a - 1, a, a + 1}, Sliders!Move(d, index)
      PROVE  SliderInv'
  <2>1. /\ \E b \in Sliders!Slides : Turns(dom', b)
        /\ Sliders!Moving(d, index) \in Seq(SlideEnds)
        /\ calls' = calls \o Sliders!Moving(d, index)
    BY <1>3, MovedOne DEF Sliders!Move
  <2>2. calls' \in Seq(SlideEnds)
    BY <1>2, <2>1, ConcatProperties
  <2>. QED
    BY <2>1, <2>2 DEF SliderInv
<1>4. ASSUME NEW i \in Sliders!Slides, Sliders!Indicator(i) PROVE SliderInv'
  <2>1. Turns([dom EXCEPT !.interval = TRUE], a)
    BY <1>1 DEF Turns, SlideFields
  <2>. QED
    BY <1>3, <1>4, <2>1 DEF Sliders!Indicator
<1>5. CASE Sliders!Tick
  <2>1. Turns([dom EXCEPT !.ticks = @ - 1], a)
    BY <1>1 DEF Turns, SlideFields
  <2>. QED
    BY <1>2, <1>3, <1>5, <2>1 DEF Sliders!Tick
<1>6. CASE Sliders!Step
  <2>1. PICK by \in {-1, 1} : Sliders!Move(dom, a + by)
    BY <1>2, <1>6 DEF Sliders!Step
  <2>2. a + by \in {a - 1, a, a + 1}
    BY <1>2, <2>1
  <2>. QED
    BY <1>1, <1>3, <2>1, <2>2
<1>7. CASE Sliders!PauseOrStart
  BY <1>1, <1>2, <1>7 DEF Sliders!PauseOrStart, SliderInv, Turns, SlideFields
<1>8. CASE Sliders!Pan
  <2>. DEFINE seen(b) == <<Sliders!Vel(b, 300, "show")>>
              after == IF a + 1 = SlideCount THEN 0 ELSE a + 1
              before == IF a = 0 THEN SlideCount - 1 ELSE a - 1
  <2>1. PICK x \in {<<>>, seen(after)}, y \in {<<>>, seen(before)} : calls' = calls \o (x \o y)
    <3>1. PICK left, right : calls' = calls \o Neighbours(a, left, right)
      BY <1>2, <1>8, Panned
    <3>2. Neighbours(a, left, right) =
            (IF left THEN seen(after) ELSE <<>>) \o (IF right THEN seen(before) ELSE <<>>)
      BY DEF Neighbours
    <3>. HIDE DEF seen, after, before
    <3>. QED
      BY <3>1, <3>2
  <2>2. Turns(dom', a)
    BY <1>1, <1>8 DEF Sliders!Pan, Turns, SlideFields
  <2>3. seen(after) \in Seq(SlideEnds) /\ seen(before) \in Seq(SlideEnds)
    <3>1. after \in Int /\ before \in Int
      BY <1>2, SlidesExist
    <3>2. Sliders!Vel(after, 300, "show") \in SlideEnds /\ Sliders!Vel(before, 300, "show") \in SlideEnds
      BY <3>1, SlideEnd
    <3>. QED
      BY <3>2
  <2>. HIDE DEF seen, after, before
  <2>4. x \in Seq(SlideEnds) /\ y \in Seq(SlideEnds)
    <3>1. <<>> \in Seq(SlideEnds)
      OBVIOUS
    <3>. QED
      BY <2>1, <2>3, <3>1
  <2>5. calls' \in Seq(SlideEnds)
    BY <1>2, <2>1, <2>4, ConcatProperties
  <2>. QED
    BY <2>2, <2>5 DEF SliderInv
<1>9. CASE Sliders!PanEnd
  <2>1. PICK to \in {a - 1, a, a + 1}, back \in {<<>>, <<Sliders!Vel(a, 300, "back")>>} :
           /\ dom' = [Sliders!Moved(dom, to) EXCEPT !.curr = a, !.panning = FALSE,
                                                    !.interval = TRUE, !.swipeLeft = FALSE,
                                                    !.swipeRight = FALSE]
           /\ calls' = calls \o Sliders!Moving(dom, to) \o back
    BY <1>2, <1>9 DEF Sliders!PanEnd
  <2>2. PICK b \in Sliders!Slides : Turns(Sliders!Moved(dom, to), b)
    BY <1>1, MovedOne
  <2>3. Turns(dom', b)
    BY <2>1, <2>2 DEF Turns, SlideFields
  <2>4. Sliders!Moving(dom, to) \in Seq(SlideEnds) /\ back \in Seq(SlideEnds)
    <3>1. Sliders!Vel(a, 300, "back") \in SlideEnds
      BY <1>2, SlideEnd
    <3>2. <<Sliders!Vel(a, 300, "back")>> \in Seq(SlideEnds)
      BY <3>1
    <3>3. Sliders!Moving(dom, to) \in Seq(SlideEnds)
      BY <1>1, MovedOne
    <3>4. <<>> \in Seq(SlideEnds)
      OBVIOUS
    <3>5. back \in {<<>>, <<Sliders!Vel(a, 300, "back")>>}
      BY <2>1
    <3>. QED
      BY <3>2, <3>3, <3>4, <3>5, Zenon
  <2>5. calls' \in Seq(SlideEnds)
    BY <1>2, <2>1, <2>4, ConcatProperties
  <2>. QED
    BY <2>3, <2>5 DEF SliderInv
<1>10. ASSUME NEW k \in DOMAIN calls, Sliders!End(k) PROVE SliderInv'
  <2>1. k \in 1 .. Len(calls) /\ calls[k] \in SlideEnds
    BY <1>2
  <2>2. calls[k].then \in {"show", "fade", "back"}
    BY <2>1 DEF SlideEnds
  <2>3. PICK seen : dom' = [dom EXCEPT !.opaque = seen]
    BY <1>10, <2>2 DEF Sliders!End
  <2>4. Turns(dom', a)
    BY <1>1, <2>3 DEF Turns, SlideFields
  <2>5. calls' \in Seq(SlideEnds)
    BY <1>2, <1>10, <2>1, Removed DEF Sliders!End, Sliders!Ended, RemoveAt
  <2>. QED
    BY <2>4, <2>5 DEF SliderInv
<1>. QED
  BY <1>4, <1>5, <1>6, <1>7, <1>8, <1>9, <1>10 DEF Sliders!Next

LEMMA SlidesCounted == \A S : Sliders!Cardinality(S) = Cardinality(S)
  BY DEF Cardinality, Sliders!Cardinality

LEMMA SliderOne == SliderInv => Sliders!OneSelected
<1>. SUFFICES ASSUME SliderInv PROVE Sliders!OneSelected
  OBVIOUS
<1>1. PICK a \in Sliders!Slides : Turns(dom, a)
  BY DEF SliderInv
<1>2. Cardinality(dom.active) = 1 /\ dom.active \subseteq Sliders!Slides
  BY <1>1, FS_Singleton DEF Turns
<1>3. ~dom.premarked => dom.indicators = dom.active
  BY <1>1 DEF Turns
<1>. QED
  BY <1>2, <1>3, SlidesCounted DEF Sliders!OneSelected

-----------------------------------------------------------------------------
(* Slider, what is seen *)

SlideCall == [clock : {"velocity"}, el : Sliders!Slides, dur : {300, 500},
              then : {"show", "fade", "back"}]

(* What fades takes as long as anything does: it ends when it is the       *)
(* oldest, and then all that appeared before has ended.                    *)
SlideCalls == {c \in SlideCall : c.then = "fade" => c.dur = 500}

FadesAfter(cs, k) == \E m \in k + 1 .. Len(cs) : cs[m].then = "fade"

(* What is seen beside slide a, or will be, fades.                         *)
Covered(d, cs, a) ==
    /\ \A x \in d.opaque : x # a => FadesAfter(cs, 0)
    /\ \A k \in 1 .. Len(cs) : cs[k].then = "show" /\ cs[k].el # a => FadesAfter(cs, k)

(* Something after the k-th call will hide slide a.                        *)
Hides(d, c, a) == (c.then = "fade" /\ c.el = a) \/ (c.then = "back" /\ d.curr = a)
HidesAfter(d, cs, a, k) == \E m \in k + 1 .. Len(cs) : Hides(d, cs[m], a)

(* Slide a is seen, or appears with nothing to hide it after that.         *)
Lit(d, cs, a) ==
    \/ a \in d.opaque /\ ~HidesAfter(d, cs, a, 0)
    \/ \E k \in 1 .. Len(cs) :
          /\ cs[k].then = "show" /\ cs[k].el = a /\ cs[k].dur = 500
          /\ ~HidesAfter(d, cs, a, k)

(* A pan is under way that shows a neighbour. *)
Peeks(d) == d.panning /\ (d.swipeLeft \/ d.swipeRight)

SlideSeen(d, cs, a) ==
    /\ a \in Sliders!Slides /\ Turns(d, a)
    /\ cs \in Seq(SlideCalls) /\ d.opaque \subseteq Sliders!Slides
    /\ d.panning \in BOOLEAN /\ d.swipeLeft \in BOOLEAN /\ d.swipeRight \in BOOLEAN
    /\ d.premarked \in BOOLEAN /\ d.hurried \in BOOLEAN
    /\ Peeks(d) \/ Covered(d, cs, a)
    /\ d.hurried \/ d.premarked \/ Lit(d, cs, a)
    /\ d.hurried \/ ~d.panning \/ \A k \in 1 .. Len(cs) : cs[k].then # "back"

SeenInv == \E a \in Sliders!Slides : SlideSeen(dom, calls, a)

LEMMA SlideCallMade ==
  ASSUME NEW a \in Sliders!Slides
  PROVE  /\ Sliders!Vel(a, 500, "fade") \in SlideCalls
         /\ \A dur \in {300, 500} : Sliders!Vel(a, dur, "show") \in SlideCalls
         /\ Sliders!Vel(a, 300, "back") \in SlideCalls
  BY DEF SlideCalls, SlideCall, Sliders!Vel, Sliders!Call

LEMMA SlideCallFields ==
  \A el, dur, then : /\ Sliders!Vel(el, dur, then).then = then
                     /\ Sliders!Vel(el, dur, then).el = el
                     /\ Sliders!Vel(el, dur, then).dur = dur
  BY DEF Sliders!Vel, Sliders!Call

LEMMA SeenBegins == Sliders!Init => SeenInv
<1>. SUFFICES ASSUME Sliders!Init PROVE SeenInv
  OBVIOUS
<1>1. PICK first \in Sliders!Slides, premarked \in BOOLEAN :
          /\ dom = [active |-> {first}, indicators |-> IF premarked THEN {} ELSE {first},
                    opaque |-> {}, premarked |-> premarked,
                    swipeLeft |-> FALSE, swipeRight |-> FALSE,
                    curr |-> Sliders!None, interval |-> TRUE, ticks |-> SlideTicks,
                    panning |-> FALSE, hurried |-> FALSE]
          /\ calls = IF premarked THEN <<>> ELSE <<Sliders!Vel(first, 500, "show")>>
  BY DEF Sliders!Init
<1>2. /\ Turns(dom, first) /\ dom.opaque = {} /\ dom.premarked = premarked
      /\ dom.swipeLeft = FALSE /\ dom.swipeRight = FALSE /\ dom.panning = FALSE
      /\ dom.hurried = FALSE
  BY <1>1 DEF Turns, SlideFields
<1>. DEFINE c == Sliders!Vel(first, 500, "show")
<1>3. c \in SlideCalls /\ c.then = "show" /\ c.el = first /\ c.dur = 500
  BY SlideCallMade, SlideCallFields
<1>. HIDE DEF c
<1>4. CASE premarked = TRUE
  <2>1. calls = <<>> /\ calls \in Seq(SlideCalls) /\ Len(calls) = 0
    BY <1>1, <1>4
  <2>2. Covered(dom, calls, first)
    BY <1>2, <2>1 DEF Covered
  <2>3. \A k \in 1 .. Len(calls) : calls[k].then # "back"
    BY <2>1
  <2>. QED
    BY <1>2, <1>4, <2>1, <2>2, <2>3 DEF SeenInv, SlideSeen
<1>5. CASE premarked = FALSE
  <2>1. calls = <<c>>
    BY <1>1, <1>5 DEF c
  <2>2. calls \in Seq(SlideCalls) /\ Len(calls) = 1 /\ calls[1] = c
    BY <1>3, <2>1
  <2>3. Covered(dom, calls, first)
    BY <1>2, <1>3, <2>2 DEF Covered
  <2>4. ~HidesAfter(dom, calls, first, 1)
    BY <2>2 DEF HidesAfter
  <2>5. Lit(dom, calls, first)
    BY <1>3, <2>2, <2>4 DEF Lit
  <2>. QED
    BY <1>2, <1>5, <2>2, <2>3, <2>5 DEF SeenInv, SlideSeen
<1>. QED
  BY <1>4, <1>5

(* The animations of a move from slide a to slide b, and of the way back   *)
(* of a slide that was pulled aside                                        *)
Turn(a, b) == <<Sliders!Vel(a, 500, "fade"), Sliders!Vel(b, 500, "show")>>

WayBack(a) == <<Sliders!Vel(a, 300, "back")>>

(* A move from slide a to slide b, after which at most a way back is added,*)
(* of another slide than b.                                                *)
LEMMA MovedSeen ==
  ASSUME NEW d, NEW cs \in Seq(SlideCalls), NEW a \in Sliders!Slides, NEW b \in Sliders!Slides,
         NEW back, back = <<>> \/ (back = WayBack(a) /\ d.curr # b),
         NEW t, t = cs \o Turn(a, b) \o back
  PROVE  t \in Seq(SlideCalls) /\ Covered(d, t, b) /\ Lit(d, t, b)
<1>. DEFINE f == Sliders!Vel(a, 500, "fade")
            w == Sliders!Vel(b, 500, "show")
            r == Sliders!Vel(a, 300, "back")
            s == cs \o <<f, w>> \o back
            n == Len(cs)
<1>1. /\ f \in SlideCalls /\ w \in SlideCalls /\ r \in SlideCalls
      /\ f.then = "fade" /\ w.then = "show" /\ w.el = b /\ w.dur = 500 /\ r.then = "back"
  BY SlideCallMade, SlideCallFields
<1>. HIDE DEF f, w, r
<1>2. n \in Nat /\ t = s
  BY DEF f, w, Turn
<1>3. /\ s \in Seq(SlideCalls) /\ s[n + 1] = f /\ s[n + 2] = w
      /\ \/ Len(s) = n + 2
         \/ Len(s) = n + 3 /\ s[n + 3] = r /\ d.curr # b
  <2>1. CASE back = <<>>
    BY <1>1, <2>1
  <2>2. CASE back = <<r>> /\ d.curr # b
    BY <1>1, <2>2
  <2>. QED
    BY <2>1, <2>2 DEF r, WayBack
<1>. HIDE DEF s, n
<1>4. Len(s) \in Nat /\ n + 2 <= Len(s) /\ Len(s) <= n + 3
  BY <1>2, <1>3
<1>5. \A k \in 0 .. n : FadesAfter(s, k)
  <2>. TAKE k \in 0 .. n
  <2>1. n + 1 \in k + 1 .. Len(s)
    BY <1>2, <1>4
  <2>. QED
    BY <1>1, <1>3, <2>1 DEF FadesAfter
<1>6. Covered(d, s, b)
  <2>1. 0 \in 0 .. n
    BY <1>2
  <2>2. ASSUME NEW k \in 1 .. Len(s), s[k].then = "show", s[k].el # b PROVE FadesAfter(s, k)
    <3>1. k \in 0 .. n \/ k = n + 1 \/ k = n + 2 \/ (k = n + 3 /\ Len(s) = n + 3)
      BY <1>2, <1>4
    <3>. QED
      BY <1>1, <1>3, <1>5, <2>2, <3>1
  <2>. QED
    BY <1>5, <2>1, <2>2 DEF Covered
<1>7. Lit(d, s, b)
  <2>1. n + 2 \in 1 .. Len(s)
    BY <1>2, <1>4
  <2>2. ~HidesAfter(d, s, b, n + 2)
    <3>. SUFFICES ASSUME NEW m \in n + 2 + 1 .. Len(s), Hides(d, s[m], b) PROVE FALSE
      BY DEF HidesAfter
    <3>1. m = n + 3 /\ Len(s) = n + 3
      BY <1>2, <1>3, <1>4
    <3>. QED
      BY <1>1, <1>3, <3>1 DEF Hides
  <2>. QED
    BY <1>1, <1>3, <2>1, <2>2 DEF Lit
<1>. QED
  BY <1>2, <1>3, <1>6, <1>7

(* What only appears leaves the rest as it was.                            *)
Appearing == {c \in SlideCalls : c.then = "show"}
LEMMA AddedSeen ==
  ASSUME NEW d, NEW e, NEW cs \in Seq(SlideCalls), NEW a, NEW z \in Seq(Appearing),
         e.opaque = d.opaque
  PROVE  /\ cs \o z \in Seq(SlideCalls)
         /\ (\A k \in 1 .. Len(cs) : cs[k].then # "back") =>
               /\ \A k \in 1 .. Len(cs \o z) : (cs \o z)[k].then # "back"
               /\ Lit(d, cs, a) => Lit(e, cs \o z, a)
<1>. DEFINE s == cs \o z
<1>1. z \in Seq(SlideCalls)
  BY DEF Appearing
<1>2. /\ s \in Seq(SlideCalls) /\ Len(s) = Len(cs) + Len(z)
      /\ Len(cs) \in Nat /\ Len(z) \in Nat
      /\ \A k \in 1 .. Len(cs) : s[k] = cs[k]
      /\ \A k \in Len(cs) + 1 .. Len(s) : s[k] \in Appearing
  <2>1. /\ s \in Seq(SlideCalls) /\ Len(s) = Len(cs) + Len(z)
        /\ Len(cs) \in Nat /\ Len(z) \in Nat
        /\ \A k \in 1 .. Len(cs) : s[k] = cs[k]
    BY <1>1, ConcatProperties
  <2>2. \A k \in Len(cs) + 1 .. Len(s) : s[k] = z[k - Len(cs)] /\ k - Len(cs) \in 1 .. Len(z)
    BY <1>1, <2>1
  <2>. QED
    BY <2>1, <2>2
<1>. HIDE DEF s
<1>3. ASSUME \A k \in 1 .. Len(cs) : cs[k].then # "back"
      PROVE  \A k \in 1 .. Len(s) : s[k].then # "back"
  <2>. TAKE k \in 1 .. Len(s)
  <2>1. k \in 1 .. Len(cs) \/ k \in Len(cs) + 1 .. Len(s)
    BY <1>2
  <2>. QED
    BY <1>2, <1>3, <2>1 DEF Appearing
<1>4. ASSUME \A k \in 1 .. Len(cs) : cs[k].then # "back", NEW j \in 0 .. Len(cs),
             ~HidesAfter(d, cs, a, j)
      PROVE  ~HidesAfter(e, s, a, j)
  <2>. SUFFICES ASSUME NEW m \in j + 1 .. Len(s), Hides(e, s[m], a) PROVE FALSE
    BY DEF HidesAfter
  <2>1. m \in 1 .. Len(s) /\ (m \in j + 1 .. Len(cs) \/ m \in Len(cs) + 1 .. Len(s))
    BY <1>2
  <2>2. s[m].then = "fade" /\ s[m].el = a
    BY <1>3, <1>4, <2>1 DEF Hides
  <2>3. m \in j + 1 .. Len(cs)
    BY <1>2, <2>1, <2>2 DEF Appearing
  <2>4. s[m] = cs[m]
    BY <1>2, <2>3
  <2>. QED
    BY <1>4, <2>2, <2>3, <2>4 DEF HidesAfter, Hides
<1>5. ASSUME \A k \in 1 .. Len(cs) : cs[k].then # "back", Lit(d, cs, a) PROVE Lit(e, s, a)
  <2>1. CASE a \in d.opaque /\ ~HidesAfter(d, cs, a, 0)
    <3>1. 0 \in 0 .. Len(cs)
      BY <1>2
    <3>. QED
      BY <1>4, <1>5, <2>1, <3>1 DEF Lit
  <2>2. ASSUME NEW k \in 1 .. Len(cs), cs[k].then = "show", cs[k].el = a, cs[k].dur = 500,
               ~HidesAfter(d, cs, a, k)
        PROVE  Lit(e, s, a)
    <3>1. k \in 0 .. Len(cs) /\ k \in 1 .. Len(s) /\ s[k] = cs[k]
      BY <1>2
    <3>. QED
      BY <1>4, <1>5, <2>2, <3>1 DEF Lit
  <2>. QED
    BY <1>5, <2>1, <2>2 DEF Lit
<1>. QED
  BY <1>2, <1>3, <1>5 DEF s

(* The end of the k-th call *)
LEMMA EndedSeen ==
  ASSUME NEW d, NEW e, NEW cs, NEW a, SlideSeen(d, cs, a),
         NEW k \in 1 .. Len(cs), Sliders!MayEnd(cs, k),
         Turns(e, a), e.panning = d.panning, e.swipeLeft = d.swipeLeft,
         e.swipeRight = d.swipeRight, e.premarked = d.premarked, e.hurried = d.hurried,
         e.curr = d.curr,
         cs[k].then = "show" => e.opaque = d.opaque \cup {cs[k].el},
         cs[k].then = "fade" => e.opaque = (d.opaque \cap {a}) \ {cs[k].el},
         cs[k].then = "back" => e.opaque = d.opaque \ {d.curr}
  PROVE  SlideSeen(e, RemoveAt(cs, k), a)
<1>. DEFINE s == RemoveAt(cs, k)
            n == Len(cs)
            c == cs[k]
<1>1. /\ cs \in Seq(SlideCalls) /\ n \in Nat /\ k \in Nat /\ 1 <= k /\ k <= n
      /\ \A j \in 1 .. n : cs[j] \in SlideCalls
  BY DEF SlideSeen
<1>2. IsSequence(cs)
  BY <1>1, SequenceOf
<1>3. /\ s \in Seq(SlideCalls) /\ Len(s) = n - 1
      /\ \A i \in 1 .. n - 1 : s[i] = cs[IF i < k THEN i ELSE i + 1]
  BY <1>1, <1>2, Removed, RemovedOne
<1>4. /\ c \in SlideCalls /\ c.then \in {"show", "fade", "back"} /\ c.dur \in {300, 500}
      /\ c.el \in Sliders!Slides
      /\ c.then = "fade" => c.dur = 500
  <2>1. c \in SlideCalls
    BY <1>1
  <2>. HIDE DEF c
  <2>. QED
    BY <2>1 DEF SlideCalls, SlideCall
<1>5. c.dur = 500 => k = 1
  <2>. SUFFICES ASSUME c.dur = 500, k # 1 PROVE FALSE
    OBVIOUS
  <2>1. 1 \in 1 .. k - 1 /\ cs[1] \in SlideCalls
    BY <1>1
  <2>2. cs[1].clock = "velocity" /\ cs[1].dur \in {300, 500} /\ c.clock = "velocity"
    BY <1>4, <2>1 DEF SlideCalls, SlideCall
  <2>3. cs[1].dur > 500
    BY <2>1, <2>2 DEF Sliders!MayEnd
  <2>. QED
    BY <2>2, <2>3
<1>6. e.opaque \subseteq Sliders!Slides
  BY <1>4 DEF SlideSeen
<1>. HIDE DEF s, n
(* The places of those that are left *)
<1>7. ASSUME NEW j \in 1 .. n, j # k
      PROVE  \E i \in 1 .. Len(s) : s[i] = cs[j] /\ i = IF j < k THEN j ELSE j - 1
  <2>1. CASE j < k
    BY <1>1, <1>3, <2>1
  <2>2. CASE ~(j < k)
    <3>1. j - 1 \in 1 .. n - 1 /\ ~(j - 1 < k) /\ j - 1 + 1 = j
      BY <1>1, <1>7, <2>2
    <3>. QED
      BY <1>3, <2>2, <3>1
  <2>. QED
    BY <2>1, <2>2
<1>8. ASSUME NEW i \in 1 .. Len(s)
      PROVE  \E j \in 1 .. n : s[i] = cs[j] /\ j # k /\ j = IF i < k THEN i ELSE i + 1
  <2>1. i \in 1 .. n - 1 /\ i + 1 \in 1 .. n /\ i \in 1 .. n
    BY <1>1, <1>3
  <2>. QED
    BY <1>1, <1>3, <2>1
<1>9. ASSUME NEW j \in 0 .. n, NEW i \in 0 .. Len(s), i = IF j < k THEN j ELSE j - 1,
             FadesAfter(cs, j), c.then = "fade" => j >= 1
      PROVE  FadesAfter(s, i)
  <2>1. PICK m \in j + 1 .. n : cs[m].then = "fade"
    BY <1>9 DEF FadesAfter, n
  <2>2. m \in 1 .. n /\ m # k
    <3>1. CASE c.then = "fade"
      BY <1>1, <1>4, <1>5, <1>9, <2>1, <3>1
    <3>2. CASE c.then # "fade"
      BY <1>1, <2>1, <3>2
    <3>. QED
      BY <3>1, <3>2
  <2>3. PICK p \in 1 .. Len(s) : s[p] = cs[m] /\ p = IF m < k THEN m ELSE m - 1
    BY <1>7, <2>2
  <2>4. p \in i + 1 .. Len(s)
    BY <1>1, <1>3, <1>9, <2>1, <2>2, <2>3
  <2>. QED
    BY <2>1, <2>3, <2>4 DEF FadesAfter
<1>10. ASSUME Covered(d, cs, a) PROVE Covered(e, s, a)
  <2>1. ASSUME NEW x \in e.opaque, x # a PROVE FadesAfter(s, 0)
    <3>1. c.then # "fade" /\ (x \in d.opaque \/ (c.then = "show" /\ x = c.el))
      BY <1>4, <2>1
    <3>2. CASE x \in d.opaque
      <4>1. FadesAfter(cs, 0)
        BY <1>10, <2>1, <3>2 DEF Covered
      <4>2. 0 \in 0 .. n /\ 0 \in 0 .. Len(s) /\ 0 < k
        BY <1>1, <1>3
      <4>. QED
        BY <1>9, <3>1, <4>1, <4>2
    <3>3. CASE c.then = "show" /\ x = c.el
      <4>1. FadesAfter(cs, k)
        BY <1>10, <2>1, <3>3 DEF Covered, n
      <4>2. k \in 0 .. n /\ k - 1 \in 0 .. Len(s) /\ ~(k < k) /\ Len(s) \in Nat
        BY <1>1, <1>3
      <4>3. FadesAfter(s, k - 1)
        BY <1>9, <3>1, <4>1, <4>2
      <4>4. k - 1 + 1 .. Len(s) \subseteq 0 + 1 .. Len(s)
        BY <1>1, <4>2
      <4>. QED
        BY <4>3, <4>4 DEF FadesAfter
    <3>. QED
      BY <3>1, <3>2, <3>3
  <2>2. ASSUME NEW i \in 1 .. Len(s), s[i].then = "show", s[i].el # a PROVE FadesAfter(s, i)
    <3>1. PICK j \in 1 .. n : s[i] = cs[j] /\ j # k /\ j = IF i < k THEN i ELSE i + 1
      BY <1>8
    <3>2. FadesAfter(cs, j)
      BY <1>10, <2>2, <3>1 DEF Covered, n
    <3>3. j \in 0 .. n /\ i \in 0 .. Len(s) /\ j >= 1 /\ i = IF j < k THEN j ELSE j - 1
      BY <1>1, <1>3, <3>1
    <3>. QED
      BY <1>9, <3>2, <3>3
  <2>. QED
    BY <2>1, <2>2 DEF Covered
<1>11. ASSUME NEW j \in 0 .. n, NEW i \in 0 .. Len(s), i = IF j < k THEN j ELSE j - 1,
              ~HidesAfter(d, cs, a, j)
       PROVE  ~HidesAfter(e, s, a, i)
  <2>. SUFFICES ASSUME NEW m \in i + 1 .. Len(s), Hides(e, s[m], a) PROVE FALSE
    BY DEF HidesAfter
  <2>1. m \in 1 .. Len(s)
    BY <1>3, <1>11
  <2>2. PICK p \in 1 .. n : s[m] = cs[p] /\ p # k /\ p = IF m < k THEN m ELSE m + 1
    BY <1>8, <2>1
  <2>3. p \in j + 1 .. n
    BY <1>1, <1>3, <1>11, <2>1, <2>2
  <2>. QED
    BY <1>11, <2>2, <2>3 DEF HidesAfter, Hides, n
<1>12. ASSUME Lit(d, cs, a) PROVE Lit(e, s, a)
  <2>1. CASE a \in d.opaque /\ ~HidesAfter(d, cs, a, 0)
    <3>1. ~Hides(d, c, a)
      <4>1. k \in 0 + 1 .. n
        BY <1>1
      <4>. QED
        BY <2>1, <4>1 DEF HidesAfter, n
    <3>2. a \in e.opaque
      BY <1>4, <2>1, <3>1 DEF Hides
    <3>3. 0 \in 0 .. n /\ 0 \in 0 .. Len(s) /\ 0 < k
      BY <1>1, <1>3
    <3>4. ~HidesAfter(e, s, a, 0)
      BY <1>11, <2>1, <3>3
    <3>. QED
      BY <3>2, <3>4 DEF Lit
  <2>2. ASSUME NEW j \in 1 .. n, cs[j].then = "show", cs[j].el = a, cs[j].dur = 500,
               ~HidesAfter(d, cs, a, j)
        PROVE  Lit(e, s, a)
    <3>1. CASE j = k
      <4>1. k = 1 /\ a \in e.opaque
        BY <1>5, <2>2, <3>1
      <4>2. k \in 0 .. n /\ 0 \in 0 .. Len(s) /\ ~(k < k) /\ 0 = k - 1
        BY <1>1, <1>3, <4>1
      <4>3. ~HidesAfter(e, s, a, 0)
        BY <1>11, <2>2, <3>1, <4>2
      <4>. QED
        BY <4>1, <4>3 DEF Lit
    <3>2. CASE j # k
      <4>1. PICK i \in 1 .. Len(s) : s[i] = cs[j] /\ i = IF j < k THEN j ELSE j - 1
        BY <1>7, <3>2
      <4>2. i \in 0 .. Len(s) /\ j \in 0 .. n
        BY <1>1, <1>3
      <4>3. ~HidesAfter(e, s, a, i)
        BY <1>11, <2>2, <4>1, <4>2
      <4>. QED
        BY <2>2, <4>1, <4>3 DEF Lit
    <3>. QED
      BY <3>1, <3>2
  <2>. QED
    BY <1>12, <2>1, <2>2 DEF Lit, n
<1>13. ASSUME \A j \in 1 .. n : cs[j].then # "back"
       PROVE  \A i \in 1 .. Len(s) : s[i].then # "back"
  BY <1>8, <1>13
<1>14. SlideSeen(e, s, a)
  BY <1>3, <1>6, <1>10, <1>12, <1>13 DEF SlideSeen, Peeks, n
<1>. QED
  BY <1>14 DEF s

LEMMA SequenceIn ==
  ASSUME NEW T, NEW s \in Seq(T), NEW S, \A k \in 1 .. Len(s) : s[k] \in S
  PROVE  s \in Seq(S)
<1>1. Len(s) \in Nat /\ DOMAIN s = 1 .. Len(s) /\ s = [k \in 1 .. Len(s) |-> s[k]]
  OBVIOUS
<1>2. s \in [1 .. Len(s) -> S]
  BY <1>1
<1>. QED
  BY <1>1, <1>2

LEMMA Wrapped ==
  ASSUME NEW a \in Sliders!Slides, NEW index,
         index \in Sliders!Slides \/ index \in {a - 1, a, a + 1}
  PROVE  Sliders!WrapIndex(index) \in Sliders!Slides
<1>1. a \in Int /\ index \in Int /\ index >= -1 /\ index <= SlideCount
  BY SlidesExist
<1>. QED
  BY <1>1, SlidesExist DEF Sliders!WrapIndex

(* What moveToSlide() changes when it goes from slide a to slide b *)
MovesOn(d, e, moving, a, b) ==
    /\ b = a => e = d /\ moving = <<>>
    /\ b # a =>
         /\ Turns(e, b) /\ e.opaque = d.opaque /\ e.panning = d.panning
         /\ e.swipeLeft = d.swipeLeft /\ e.swipeRight = d.swipeRight
         /\ e.premarked = FALSE /\ e.hurried = d.hurried /\ e.curr = d.curr
         /\ moving = <<Sliders!Vel(a, 500, "fade"), Sliders!Vel(b, 500, "show")>>

LEMMA WhereTo ==
  ASSUME NEW d, NEW a \in Sliders!Slides, Turns(d, a), NEW index
  PROVE  MovesOn(d, Sliders!Moved(d, index), Sliders!Moving(d, index), a,
                 Sliders!WrapIndex(index))
<1>. DEFINE b == Sliders!WrapIndex(index)
            e == Sliders!Moved(d, index)
            moving == Sliders!Moving(d, index)
<1>1. Sliders!ActiveIndex(d) = a
  BY SlidesExist DEF Sliders!ActiveIndex, Turns
<1>2. e = IF b = a THEN d
          ELSE [d EXCEPT !.active = (@ \ {a}) \cup {b}, !.indicators = (@ \ {a}) \cup {b},
                         !.premarked = FALSE]
  BY <1>1 DEF Sliders!Moved
<1>3. moving = IF b = a THEN <<>>
               ELSE <<Sliders!Vel(a, 500, "fade"), Sliders!Vel(b, 500, "show")>>
  BY <1>1 DEF Sliders!Moving
<1>. HIDE DEF b, e, moving
<1>4. CASE b = a
  <2>1. MovesOn(d, e, moving, a, b)
    BY <1>2, <1>3, <1>4 DEF MovesOn
  <2>. QED
    BY <2>1 DEF b, e, moving
<1>5. CASE b # a
  <2>1. Turns(e, b)
    BY <1>2, <1>5 DEF Turns, SlideFields
  <2>2. /\ e.opaque = d.opaque /\ e.panning = d.panning
        /\ e.swipeLeft = d.swipeLeft /\ e.swipeRight = d.swipeRight
        /\ e.premarked = FALSE /\ e.hurried = d.hurried /\ e.curr = d.curr
    BY <1>2, <1>5 DEF Turns, SlideFields
  <2>3. MovesOn(d, e, moving, a, b)
    BY <1>3, <1>5, <2>1, <2>2 DEF MovesOn
  <2>. QED
    BY <2>3 DEF b, e, moving
<1>. QED
  BY <1>4, <1>5

(* A pan shows the slide behind, and says so until it ends. *)
LEMMA PanSeen ==
  ASSUME NEW a, SlideSeen(dom, calls, a), Sliders!ActiveIndex(dom) = a, Sliders!Pan
  PROVE  SlideSeen(dom', calls', a)
<1>. DEFINE seen(b) == <<Sliders!Vel(b, 300, "show")>>
            act == Sliders!ActiveIndex(dom)
            after == IF act + 1 = SlideCount THEN 0 ELSE act + 1
            before == IF act = 0 THEN SlideCount - 1 ELSE act - 1
            backs == \E k \in DOMAIN calls : calls[k].then = "back"
            peek(left, right) == (IF left THEN seen(after) ELSE <<>>)
                                 \o (IF right THEN seen(before) ELSE <<>>)
            d(side) == [dom EXCEPT !.interval = FALSE, !.curr = act, !.panning = TRUE,
                             !.swipeLeft = @ \/ side = "left",
                             !.swipeRight = @ \/ side = "right",
                             !.hurried = @ \/ backs]
<1>1. PICK side \in {"left", "right", "none"} :
         /\ dom' = d(side) 
         /\ calls' = calls \o peek(d(side).swipeLeft, d(side).swipeRight)
  BY Zenon DEF Sliders!Pan
<1>2. PICK left \in BOOLEAN, right \in BOOLEAN, hurried \in BOOLEAN :
        /\ left = (dom.swipeLeft \/ side = "left")
        /\ right = (dom.swipeRight \/ side = "right")
        /\ hurried = (dom.hurried \/ backs)
  OBVIOUS
<1>3. dom' = [dom EXCEPT !.interval = FALSE, !.curr = a, !.panning = TRUE,
                         !.swipeLeft = left, !.swipeRight = right, !.hurried = hurried]
  BY <1>1, <1>2
<1>4. /\ a \in Sliders!Slides /\ a \in Int /\ Turns(dom, a) /\ calls \in Seq(SlideCalls)
      /\ dom.swipeLeft \in BOOLEAN /\ dom.swipeRight \in BOOLEAN
      /\ DOMAIN calls = 1 .. Len(calls)
  BY SlidesExist DEF SlideSeen
<1>5. /\ Turns(dom', a) /\ dom'.opaque = dom.opaque /\ dom'.panning = TRUE /\ dom'.curr = a
      /\ dom'.swipeLeft = left /\ dom'.swipeRight = right /\ dom'.hurried = hurried
      /\ dom'.premarked = dom.premarked
  BY <1>3, <1>4 DEF Turns, SlideFields
<1>6. calls' = calls \o ((IF left THEN seen(after) ELSE <<>>)
                         \o (IF right THEN seen(before) ELSE <<>>))
  BY <1>1, <1>3, <1>5
<1>7. seen(after) \in Seq(Appearing) /\ seen(before) \in Seq(Appearing)
  <2>1. after \in Sliders!Slides /\ before \in Sliders!Slides
    BY <1>4, SlidesExist
  <2>. HIDE DEF after, before
  <2>2. Sliders!Vel(after, 300, "show") \in Appearing /\ Sliders!Vel(before, 300, "show") \in Appearing
    BY <2>1, SlideCallMade, SlideCallFields DEF Appearing
  <2>. QED
    BY <2>2
<1>. HIDE DEF seen, after, before
<1>8. PICK z \in Seq(Appearing) : calls' = calls \o z /\ (~left /\ ~right => z = <<>>)
  <2>1. <<>> \in Seq(Appearing) /\ <<>> \o <<>> = <<>>
    OBVIOUS
  <2>. DEFINE x == IF left THEN seen(after) ELSE <<>>
              y == IF right THEN seen(before) ELSE <<>>
  <2>2. x \in Seq(Appearing) /\ y \in Seq(Appearing)
    BY <1>7, <2>1
  <2>3. x \o y \in Seq(Appearing)
    <3>. HIDE DEF x, y
    <3>. QED
      BY <2>2, ConcatProperties
  <2>4. ~left /\ ~right => x \o y = <<>>
    BY <2>1
  <2>5. calls' = calls \o (x \o y)
    BY <1>6
  <2>. QED
    BY <2>3, <2>4, <2>5
<1>9. hurried \/ \A k \in 1 .. Len(calls) : calls[k].then # "back"
  BY <1>2, <1>4
<1>10. hurried \/ dom.hurried = FALSE
  BY <1>2 DEF SlideSeen
<1>11. calls' \in Seq(SlideCalls)
  BY <1>4, <1>5, <1>8, AddedSeen
<1>12. hurried \/ \A k \in 1 .. Len(calls') : calls'[k].then # "back"
  BY <1>4, <1>5, <1>8, <1>9, AddedSeen
<1>13. hurried \/ dom.premarked \/ Lit(dom', calls', a)
  BY <1>4, <1>5, <1>8, <1>9, <1>10, AddedSeen DEF SlideSeen
<1>14. left \/ right \/ Covered(dom', calls', a)
  <2>. SUFFICES ASSUME left = FALSE, right = FALSE PROVE Covered(dom', calls', a)
    BY <1>2
  <2>1. ~Peeks(dom)
    BY <1>2 DEF Peeks
  <2>2. calls' = calls
    BY <1>4, <1>8
  <2>. QED
    BY <1>5, <2>1, <2>2 DEF SlideSeen, Covered
<1>. QED
  BY <1>4, <1>5, <1>11, <1>12, <1>13, <1>14 DEF SlideSeen, Peeks

(* A pan's end moves, with the way back of the slide it leaves, or leaves  *)
(* all as it is.                                                           *)
LEMMA PanEndSeen ==
  ASSUME NEW a, SlideSeen(dom, calls, a), Sliders!ActiveIndex(dom) = a, Sliders!PanEnd
  PROVE  \E b : SlideSeen(dom', calls', b)
<1>. DEFINE moves == (dom.swipeLeft \/ dom.swipeRight) /\ SlideCount > 1
            to == IF ~moves THEN a ELSE IF dom.swipeLeft THEN a + 1 ELSE a - 1
            r == <<Sliders!Vel(a, 300, "back")>>
            e == Sliders!Moved(dom, to)
<1>1. /\ dom.panning
      /\ dom' = [e EXCEPT !.curr = a, !.panning = FALSE, !.interval = TRUE,
                          !.swipeLeft = FALSE, !.swipeRight = FALSE]
      /\ calls' = calls \o Sliders!Moving(dom, to) \o (IF moves THEN r ELSE <<>>)
  BY DEF Sliders!PanEnd
<1>2. /\ a \in Sliders!Slides /\ a \in Int /\ Turns(dom, a) /\ calls \in Seq(SlideCalls)
      /\ dom.opaque \subseteq Sliders!Slides
      /\ dom.premarked \in BOOLEAN /\ dom.hurried \in BOOLEAN
  BY SlidesExist DEF SlideSeen
<1>3. ASSUME NEW b, Turns(e, b)
      PROVE  /\ Turns(dom', b) /\ dom'.opaque = e.opaque /\ dom'.panning = FALSE
             /\ dom'.swipeLeft = FALSE /\ dom'.swipeRight = FALSE /\ dom'.curr = a
             /\ dom'.premarked = e.premarked /\ dom'.hurried = e.hurried
  <2>. HIDE DEF e
  <2>. QED
    BY <1>1, <1>3 DEF Turns, SlideFields
<1>4. CASE ~moves
  <2>1. Sliders!WrapIndex(to) = a
    BY <1>2, <1>4, SlidesExist DEF Sliders!WrapIndex
  <2>2. e = dom /\ Sliders!Moving(dom, to) = <<>>
    <3>. HIDE DEF to
    <3>1. MovesOn(dom, e, Sliders!Moving(dom, to), a, Sliders!WrapIndex(to))
      BY <1>2, WhereTo
    <3>. HIDE DEF e
    <3>. QED
      BY <2>1, <3>1 DEF MovesOn
  <2>3. calls' = calls
    BY <1>1, <1>2, <1>4, <2>2
  <2>4. /\ Turns(dom', a) /\ dom'.opaque = dom.opaque /\ dom'.panning = FALSE
        /\ dom'.swipeLeft = FALSE /\ dom'.swipeRight = FALSE
        /\ dom'.premarked = dom.premarked /\ dom'.hurried = dom.hurried
    BY <1>2, <1>3, <2>2
  <2>5. Covered(dom', calls', a)
    <3>1. CASE Peeks(dom)
      <4>1. SlideCount = 1 /\ Sliders!Slides = {a}
        BY <1>2, <1>4, <3>1, SlidesExist DEF Peeks
      <4>2. \A k \in 1 .. Len(calls) : calls[k] \in SlideCalls
        BY <1>2
      <4>3. \A k \in 1 .. Len(calls) : calls[k].el = a
        BY <4>1, <4>2 DEF SlideCalls, SlideCall
      <4>. QED
        BY <1>2, <2>3, <2>4, <4>1, <4>3 DEF Covered
    <3>2. CASE ~Peeks(dom)
      BY <2>3, <2>4, <3>2 DEF SlideSeen, Covered
    <3>. QED
      BY <3>1, <3>2
  <2>6. dom'.hurried \/ dom'.premarked \/ Lit(dom', calls', a)
    <3>. SUFFICES ASSUME ~dom.hurried, ~dom.premarked PROVE Lit(dom', calls', a)
      BY <2>4
    <3>1. Lit(dom, calls, a) /\ \A k \in 1 .. Len(calls) : calls[k].then # "back"
      BY <1>1 DEF SlideSeen
    <3>2. ASSUME NEW j \in 0 .. Len(calls), ~HidesAfter(dom, calls, a, j)
          PROVE  ~HidesAfter(dom', calls, a, j)
      BY <1>2, <3>1, <3>2 DEF HidesAfter, Hides
    <3>3. 0 \in 0 .. Len(calls) /\ 1 .. Len(calls) \subseteq 0 .. Len(calls)
      BY <1>2
    <3>. QED
      BY <2>3, <2>4, <3>1, <3>2, <3>3 DEF Lit
  <2>7. SlideSeen(dom', calls', a)
    BY <1>2, <2>3, <2>4, <2>5, <2>6 DEF SlideSeen
  <2>. QED
    BY <2>7
<1>5. CASE moves
  <2>1. PICK b \in Sliders!Slides : b = Sliders!WrapIndex(to) /\ b # a
    BY <1>2, <1>5, SlidesExist DEF Sliders!WrapIndex
  <2>2. /\ Turns(e, b) /\ e.opaque = dom.opaque /\ e.premarked = FALSE
        /\ e.hurried = dom.hurried
        /\ Sliders!Moving(dom, to) = <<Sliders!Vel(a, 500, "fade"), Sliders!Vel(b, 500, "show")>>
    <3>. HIDE DEF to
    <3>1. MovesOn(dom, e, Sliders!Moving(dom, to), a, Sliders!WrapIndex(to))
      BY <1>2, WhereTo
    <3>. HIDE DEF e
    <3>. QED
      BY <2>1, <3>1 DEF MovesOn
  <2>3. /\ Turns(dom', b) /\ dom'.opaque = dom.opaque /\ dom'.panning = FALSE
        /\ dom'.swipeLeft = FALSE /\ dom'.swipeRight = FALSE /\ dom'.curr = a
        /\ dom'.premarked = FALSE /\ dom'.hurried = dom.hurried
    <3>. HIDE DEF e
    <3>1. Turns(e, b) /\ e.opaque = dom.opaque /\ e.premarked = FALSE /\ e.hurried = dom.hurried
      BY <2>2
    <3>. QED
      BY <1>3, <3>1
  <2>4. calls' = calls \o <<Sliders!Vel(a, 500, "fade"), Sliders!Vel(b, 500, "show")>> \o r
    BY <1>1, <1>5, <2>2
  <2>5. calls' \in Seq(SlideCalls) /\ Covered(dom', calls', b) /\ Lit(dom', calls', b)
    <3>1. dom'.curr # b
      BY <2>1, <2>3
    <3>2. calls' = calls \o Turn(a, b) \o WayBack(a)
      BY <2>4 DEF Turn, WayBack
    <3>. QED
      BY <1>2, <2>1, <3>1, <3>2, MovedSeen
  <2>6. SlideSeen(dom', calls', b)
    BY <1>2, <2>1, <2>3, <2>5 DEF SlideSeen
  <2>. QED
    BY <2>6
<1>. QED
  BY <1>4, <1>5

LEMMA SeenStep == SeenInv /\ Sliders!Next => SeenInv'
<1>. SUFFICES ASSUME SeenInv, Sliders!Next PROVE SeenInv'
  OBVIOUS
<1>1. PICK a \in Sliders!Slides : SlideSeen(dom, calls, a)
  BY DEF SeenInv
<1>2. /\ Sliders!ActiveIndex(dom) = a /\ a \in Int /\ calls \in Seq(SlideCalls)
      /\ Turns(dom, a)
  <2>1. a \in Int
    BY SlidesExist
  <2>2. Sliders!ActiveIndex(dom) = a
    BY <1>1, <2>1 DEF Sliders!ActiveIndex, SlideSeen, Turns
  <2>. QED
    BY <1>1, <2>1, <2>2 DEF SlideSeen
(* A slider with another interval is the same here. *)
<1>3. ASSUME NEW d, Turns(d, a), d.opaque = dom.opaque, d.panning = dom.panning,
             d.swipeLeft = dom.swipeLeft, d.swipeRight = dom.swipeRight,
             d.premarked = dom.premarked, d.hurried = dom.hurried, d.curr = dom.curr
      PROVE  SlideSeen(d, calls, a)
  BY <1>1, <1>3 DEF SlideSeen, Peeks, Covered, Lit, HidesAfter, Hides
<1>4. ASSUME NEW b, SlideSeen(dom', calls', b) PROVE SeenInv'
  <2>1. b \in Sliders!Slides
    BY <1>4 DEF SlideSeen
  <2>. QED
    BY <1>4, <2>1 DEF SeenInv, SlideSeen, Turns, Peeks, Covered, FadesAfter, Lit, HidesAfter, Hides
<1>5. ASSUME NEW d, SlideSeen(d, calls, a), NEW index,
             index \in Sliders!Slides \/ index \in {a - 1, a, a + 1}, Sliders!Move(d, index)
      PROVE  SeenInv'
  <2>1. Turns(d, a)
    BY <1>5 DEF SlideSeen
  <2>2. PICK b \in Sliders!Slides : b = Sliders!WrapIndex(index)
    BY <1>2, <1>5, Wrapped
  <2>. DEFINE e == Sliders!Moved(d, index)
              moving == Sliders!Moving(d, index)
  <2>5. dom' = e /\ calls' = calls \o moving
    BY <1>5 DEF Sliders!Move
  <2>6. MovesOn(d, e, moving, a, b)
    BY <2>1, <2>2, WhereTo
  <2>. HIDE DEF e, moving
  <2>3. CASE b = a
    <3>1. dom' = d /\ moving = <<>>
      BY <2>3, <2>5, <2>6 DEF MovesOn
    <3>2. calls' = calls
      BY <1>2, <2>5, <3>1
    <3>. QED
      BY <1>4, <1>5, <3>1, <3>2
  <2>4. CASE b # a
    <3>. DEFINE s == <<Sliders!Vel(a, 500, "fade"), Sliders!Vel(b, 500, "show")>>
    <3>1. /\ Turns(dom', b) /\ dom'.opaque = d.opaque /\ dom'.panning = d.panning
          /\ dom'.swipeLeft = d.swipeLeft /\ dom'.swipeRight = d.swipeRight
          /\ dom'.premarked = FALSE /\ dom'.hurried = d.hurried
          /\ moving = s
      BY <2>4, <2>5, <2>6 DEF MovesOn
    <3>2. calls' = calls \o s \o <<>>
      <4>1. calls' = calls \o s
        BY <2>5, <3>1
      <4>2. s \in Seq(SlideCalls)
        BY <2>2, SlideCallMade
      <4>. HIDE DEF s
      <4>. QED
        BY <1>2, <4>1, <4>2
    <3>3. calls' \in Seq(SlideCalls) /\ Covered(dom', calls', b) /\ Lit(dom', calls', b)
      <4>1. calls' = calls \o Turn(a, b) \o <<>>
        BY <3>2 DEF Turn
      <4>. QED
        BY <1>2, <2>2, <4>1, MovedSeen
    <3>. HIDE DEF s
    <3>4. d.hurried \/ ~d.panning \/ \A k \in 1 .. Len(calls') : calls'[k].then # "back"
      <4>. SUFFICES ASSUME \A k \in 1 .. Len(calls) : calls[k].then # "back"
                    PROVE  \A k \in 1 .. Len(calls') : calls'[k].then # "back"
        BY <1>5 DEF SlideSeen
      <4>1. s \in Seq({c \in SlideCalls : c.then # "back"})
        BY <2>2, SlideCallMade, SlideCallFields DEF s
      <4>2. calls \in Seq({c \in SlideCalls : c.then # "back"})
        BY <1>2, SequenceIn
      <4>3. calls' \in Seq({c \in SlideCalls : c.then # "back"})
        BY <3>2, <4>1, <4>2, ConcatProperties
      <4>. QED
        BY <4>3
    <3>5. SlideSeen(dom', calls', b)
      BY <1>5, <2>2, <3>1, <3>3, <3>4 DEF SlideSeen
    <3>. QED
      BY <1>4, <3>5
  <2>. QED
    BY <2>3, <2>4
<1>6. ASSUME NEW i \in Sliders!Slides, Sliders!Indicator(i) PROVE SeenInv'
  <2>1. SlideSeen([dom EXCEPT !.interval = TRUE], calls, a)
    BY <1>2, <1>3 DEF Turns, SlideFields
  <2>. QED
    BY <1>5, <1>6, <2>1 DEF Sliders!Indicator
<1>7. CASE Sliders!Tick
  <2>1. SlideSeen([dom EXCEPT !.ticks = @ - 1], calls, a)
    BY <1>2, <1>3 DEF Turns, SlideFields
  <2>. QED
    BY <1>2, <1>5, <1>7, <2>1 DEF Sliders!Tick
<1>8. CASE Sliders!Step
  <2>1. PICK by \in {-1, 1} : Sliders!Move(dom, a + by)
    BY <1>2, <1>8 DEF Sliders!Step
  <2>2. a + by \in {a - 1, a, a + 1}
    BY <1>2, <2>1
  <2>. QED
    BY <1>1, <1>5, <2>1, <2>2
<1>9. CASE Sliders!PauseOrStart
  <2>1. PICK run \in BOOLEAN : dom' = [dom EXCEPT !.interval = run] /\ calls' = calls
    BY <1>9 DEF Sliders!PauseOrStart
  <2>2. SlideSeen(dom', calls, a)
    BY <1>2, <1>3, <2>1 DEF Turns, SlideFields
  <2>. QED
    BY <1>4, <2>1, <2>2
<1>10. CASE Sliders!Pan
  BY <1>1, <1>2, <1>4, <1>10, PanSeen
<1>11. CASE Sliders!PanEnd
  BY <1>1, <1>2, <1>4, <1>11, PanEndSeen
<1>12. ASSUME NEW k \in DOMAIN calls, Sliders!End(k) PROVE SeenInv'
  <2>1. k \in 1 .. Len(calls) /\ calls[k] \in SlideCalls
    BY <1>2
  <2>2. calls[k].then \in {"show", "fade", "back"}
    BY <2>1 DEF SlideCalls, SlideCall
  <2>3. PICK seen :
           /\ dom' = [dom EXCEPT !.opaque = seen]
           /\ calls[k].then = "show" => seen = dom.opaque \cup {calls[k].el}
           /\ calls[k].then = "fade" => seen = (dom.opaque \cap dom.active) \ {calls[k].el}
           /\ calls[k].then = "back" => seen = dom.opaque \ {dom.curr}
    BY <1>12, <2>2 DEF Sliders!End
  <2>4. /\ Turns(dom', a) /\ dom'.panning = dom.panning /\ dom'.swipeLeft = dom.swipeLeft
        /\ dom'.swipeRight = dom.swipeRight /\ dom'.premarked = dom.premarked
        /\ dom'.hurried = dom.hurried /\ dom'.curr = dom.curr /\ dom'.opaque = seen
        /\ dom.active = {a}
    BY <1>2, <2>3 DEF Turns, SlideFields
  <2>5. Sliders!MayEnd(calls, k) /\ calls' = RemoveAt(calls, k)
    BY <1>12 DEF Sliders!End, Sliders!Ended, RemoveAt
  <2>6. SlideSeen(dom', RemoveAt(calls, k), a)
    BY <1>1, <2>1, <2>3, <2>4, <2>5, EndedSeen
  <2>. QED
    BY <1>4, <2>5, <2>6
<1>. QED
  BY <1>6, <1>7, <1>8, <1>9, <1>10, <1>11, <1>12 DEF Sliders!Next

LEMMA SeenRests == SeenInv => Sliders!ShownAsMarked
<1>. SUFFICES ASSUME SeenInv, Sliders!Settled, ~dom.premarked, ~dom.hurried
     PROVE  dom.opaque = dom.active
  BY DEF Sliders!ShownAsMarked
<1>1. PICK a \in Sliders!Slides : SlideSeen(dom, calls, a)
  BY DEF SeenInv
<1>2. calls = <<>> /\ Len(calls) = 0 /\ ~dom.panning /\ dom.active = {a}
  BY <1>1 DEF Sliders!Settled, SlideSeen, Turns
<1>3. dom.opaque \subseteq {a}
  BY <1>1, <1>2 DEF SlideSeen, Peeks, Covered, FadesAfter
<1>4. a \in dom.opaque
  BY <1>1, <1>2 DEF SlideSeen, Lit
<1>. QED
  BY <1>2, <1>3, <1>4

-----------------------------------------------------------------------------
(* Chips *)

ChipFields == {"data", "chips", "gaps", "selected", "focus"}
ChipTexts == ChipTags \cup {ChipLines!Empty}

(* Data and chips are lines of tags, which differ only by empty ones; at   *)
(* most one chip is selected, and only while the input has no focus.       *)
Line(d) ==
    /\ DOMAIN d = ChipFields
    /\ d.data \in Seq(ChipTexts) /\ d.chips \in Seq(ChipTexts)
    /\ ~d.gaps => d.data = d.chips
AtMostOne(d) ==
    d.selected = {} \/ (~d.focus /\ \E i \in 0 .. Len(d.chips) - 1 : d.selected = {i})
ChipsInv == Line(dom) /\ AtMostOne(dom)

LEMMA ChipOperators ==
  /\ \A S : ChipLines!Cardinality(S) = Cardinality(S)
  /\ \A t, i : ChipLines!RemoveAt(t, i) = RemoveAt(t, i)
  /\ \A t, S : ChipLines!Without(t, S) = Without(t, S)
  /\ \A t : ChipLines!ToSet(t) = ToSet(t)
<1>1. \A S : ChipLines!Cardinality(S) = Cardinality(S)
  BY DEF Cardinality, ChipLines!Cardinality
<1>2. \A t, i : ChipLines!RemoveAt(t, i) = RemoveAt(t, i)
  BY DEF RemoveAt, ChipLines!RemoveAt
<1>3. \A t, S : ChipLines!Without(t, S) = Without(t, S)
  BY DEF Without, ChipLines!Without
<1>4. \A t : ChipLines!ToSet(t) = ToSet(t)
  BY DEF ToSet, ChipLines!ToSet
<1>. QED
  BY <1>1, <1>2, <1>3, <1>4

LEMMA Bounded ==
  ASSUME NEW S, NEW n, NEW t \in UNION {[1 .. m -> S] : m \in 0 .. n}
  PROVE  t \in Seq(S)
  OBVIOUS

LEMMA ChipsBegin == ChipLines!Init => ChipsInv
<1>. SUFFICES ASSUME ChipLines!Init PROVE ChipsInv
  OBVIOUS
<1>1. PICK data \in ChipLines!BoundedSeq(ChipTags \cup {ChipLines!Empty}, 2) :
         dom = [data |-> data, chips |-> ChipLines!Rendered(data),
                gaps |-> ChipLines!Empty \in ChipLines!ToSet(data),
                selected |-> {}, focus |-> FALSE]
  BY DEF ChipLines!Init
<1>2. data \in Seq(ChipTexts)
  BY Bounded DEF ChipLines!BoundedSeq, ChipLines!SeqOf, ChipTexts
<1>3. ChipLines!Rendered(data) = Without(data, {ChipLines!Empty})
  BY ChipOperators DEF ChipLines!Rendered
<1>4. Without(data, {ChipLines!Empty}) \in Seq(ChipTexts)
  BY <1>2, WhatIsLeft
<1>5. ASSUME ChipLines!Empty \notin ToSet(data) PROVE Without(data, {ChipLines!Empty}) = data
  <2>1. \A k \in 1 .. Len(data) : data[k] \notin {ChipLines!Empty}
    BY <1>2, <1>5 DEF ToSet
  <2>. QED
    BY <1>2, <2>1, WhatIsLeft
<1>6. /\ DOMAIN dom = ChipFields /\ dom.data = data /\ dom.selected = {}
      /\ dom.chips = Without(data, {ChipLines!Empty})
      /\ ~dom.gaps => ChipLines!Empty \notin ToSet(data)
  BY <1>1, <1>3, ChipOperators DEF ChipFields
<1>. QED
  BY <1>2, <1>4, <1>5, <1>6 DEF ChipsInv, Line, AtMostOne

(* A chip is deleted, and what was selected is not any more. *)
LEMMA ChipDeleted ==
  ASSUME Line(dom), NEW i \in ChipLines!Chips
  PROVE  /\ Line(ChipLines!Deleted(i))
         /\ Len(ChipLines!Deleted(i).chips) = Len(dom.chips) - 1
         /\ dom.selected = {i} => ChipLines!Deleted(i).selected = {}
<1>1. /\ dom.data \in Seq(ChipTexts) /\ dom.chips \in Seq(ChipTexts)
      /\ ~dom.gaps => dom.data = dom.chips
      /\ Len(dom.chips) \in Nat /\ Len(dom.data) \in Nat
  BY DEF Line
<1>2. i + 1 \in 1 .. Len(dom.chips) /\ i \in Nat
  BY <1>1 DEF ChipLines!Chips, ChipLines!Length
<1>3. /\ RemoveAt(dom.chips, i + 1) \in Seq(ChipTexts)
      /\ Len(RemoveAt(dom.chips, i + 1)) = Len(dom.chips) - 1
  BY <1>1, <1>2, Removed
<1>4. ChipLines!DataWithout(i) \in Seq(ChipTexts)
  <2>1. i < Len(dom.data) => i + 1 \in 1 .. Len(dom.data)
    BY <1>1, <1>2
  <2>2. i < Len(dom.data) => RemoveAt(dom.data, i + 1) \in Seq(ChipTexts)
    BY <1>1, <2>1, Removed
  <2>. QED
    BY <1>1, <2>2, ChipOperators DEF ChipLines!DataWithout
<1>5. dom.data = dom.chips => ChipLines!DataWithout(i) = RemoveAt(dom.chips, i + 1)
  <2>1. i < Len(dom.chips)
    BY <1>1, <1>2
  <2>. QED
    BY <2>1, ChipOperators DEF ChipLines!DataWithout
<1>6. /\ DOMAIN ChipLines!Deleted(i) = ChipFields
      /\ ChipLines!Deleted(i).data = ChipLines!DataWithout(i)
      /\ ChipLines!Deleted(i).chips = RemoveAt(dom.chips, i + 1)
      /\ ChipLines!Deleted(i).gaps = dom.gaps
      /\ dom.selected = {i} => ChipLines!Deleted(i).selected = {}
  BY ChipOperators DEF ChipLines!Deleted, Line, ChipFields
<1>. QED
  BY <1>1, <1>3, <1>4, <1>5, <1>6 DEF Line

LEMMA ChipsStep == ChipsInv /\ ChipLines!Next => ChipsInv'
<1>. SUFFICES ASSUME ChipsInv, ChipLines!Next PROVE ChipsInv'
  OBVIOUS
<1>1. /\ Line(dom) /\ AtMostOne(dom) /\ DOMAIN dom = ChipFields
      /\ dom.chips \in Seq(ChipTexts) /\ dom.data \in Seq(ChipTexts)
      /\ Len(dom.chips) \in Nat /\ ChipLines!Length = Len(dom.chips)
      /\ ChipLines!Chips = 0 .. Len(dom.chips) - 1
  BY DEF ChipsInv, Line, ChipLines!Length, ChipLines!Chips
<1>2. ASSUME NEW focus, NEW S, dom' = [dom EXCEPT !.focus = focus, !.selected = S],
             S = {} \/ (~focus /\ \E i \in 0 .. Len(dom.chips) - 1 : S = {i})
      PROVE  ChipsInv'
  <2>1. /\ DOMAIN dom' = ChipFields /\ dom'.data = dom.data /\ dom'.chips = dom.chips
        /\ dom'.gaps = dom.gaps /\ dom'.focus = focus /\ dom'.selected = S
    BY <1>1, <1>2 DEF ChipFields
  <2>. QED
    BY <1>1, <1>2, <2>1 DEF ChipsInv, Line, AtMostOne
<1>3. CASE ChipLines!Focus
  BY <1>2, <1>3 DEF ChipLines!Focus
<1>4. CASE ChipLines!BackIntoChips
  <2>1. dom.selected = {} /\ Len(dom.chips) - 1 \in 0 .. Len(dom.chips) - 1
    BY <1>1, <1>4 DEF ChipLines!BackIntoChips, AtMostOne
  <2>. DEFINE S == dom.selected \cup {Len(dom.chips) - 1}
  <2>2. dom' = [dom EXCEPT !.focus = FALSE, !.selected = S]
    BY <1>1, <1>4 DEF ChipLines!BackIntoChips, ChipFields
  <2>3. S = {Len(dom.chips) - 1}
    BY <2>1
  <2>. QED
    BY <1>2, <2>1, <2>2, <2>3
<1>5. ASSUME NEW i \in ChipLines!Chips, ChipLines!Click(i) PROVE ChipsInv'
  BY <1>1, <1>2, <1>5 DEF ChipLines!Click
<1>6. ASSUME NEW i \in ChipLines!Chips, ChipLines!ClickDelete(i) PROVE ChipsInv'
  <2>1. Line(ChipLines!Deleted(i))
    BY <1>1, ChipDeleted
  <2>2. dom' = [ChipLines!Deleted(i) EXCEPT !.focus = TRUE, !.selected = {}]
    BY <1>6 DEF ChipLines!ClickDelete
  <2>. QED
    BY <2>1, <2>2 DEF ChipsInv, Line, AtMostOne, ChipFields
<1>7. ASSUME NEW tag \in ChipTexts, ChipLines!Add(tag) PROVE ChipsInv'
  <2>1. CASE dom' = dom
    BY <2>1, <1>1 DEF ChipsInv, Line, AtMostOne
  <2>2. CASE dom' = [dom EXCEPT !.data = Append(@, tag), !.chips = Append(@, tag)]
    <3>1. /\ DOMAIN dom' = ChipFields /\ dom'.data = Append(dom.data, tag)
          /\ dom'.chips = Append(dom.chips, tag) /\ dom'.gaps = dom.gaps
          /\ dom'.focus = dom.focus /\ dom'.selected = dom.selected
      BY <1>1, <2>2 DEF ChipFields
    <3>2. dom.selected = {}
      BY <1>1, <1>7 DEF ChipLines!Add, AtMostOne
    <3>3. Append(dom.data, tag) \in Seq(ChipTexts) /\ Append(dom.chips, tag) \in Seq(ChipTexts)
      BY <1>1, AppendProperties
    <3>. QED
      BY <1>1, <3>1, <3>2, <3>3 DEF ChipsInv, Line, AtMostOne
  <2>. QED
    BY <1>7, <2>1, <2>2 DEF ChipLines!Add
<1>8. ASSUME NEW i \in dom.selected, ~dom.focus,
             ChipLines!DeleteKey(i) \/ ChipLines!LeftKey(i) \/ ChipLines!RightKey(i)
      PROVE  ChipsInv'
  <2>1. dom.selected = {i} /\ i \in 0 .. Len(dom.chips) - 1 /\ i \in ChipLines!Chips
    BY <1>1, <1>8 DEF AtMostOne
  <2>2. CASE ChipLines!LeftKey(i)
    <3>1. i - 1 \in 0 .. Len(dom.chips) - 1
      BY <1>1, <2>1, <2>2 DEF ChipLines!LeftKey
    <3>2. dom' = [dom EXCEPT !.focus = dom.focus, !.selected = {i - 1}]
      BY <1>1, <2>2 DEF ChipLines!LeftKey, ChipFields
    <3>. QED
      BY <1>2, <1>8, <3>1, <3>2
  <2>3. CASE ChipLines!RightKey(i)
    <3>1. CASE i + 1 > Len(dom.chips) - 1
      <4>1. dom' = [dom EXCEPT !.focus = TRUE, !.selected = {}]
        BY <1>1, <2>3, <3>1 DEF ChipLines!RightKey, ChipFields
      <4>. QED
        BY <1>2, <4>1
    <3>2. CASE ~(i + 1 > Len(dom.chips) - 1)
      <4>1. i + 1 \in 0 .. Len(dom.chips) - 1
        BY <1>1, <2>1, <3>2
      <4>2. dom' = [dom EXCEPT !.focus = dom.focus, !.selected = {i + 1}]
        BY <1>1, <2>3, <3>2 DEF ChipLines!RightKey, ChipFields
      <4>. QED
        BY <1>2, <1>8, <4>1, <4>2
    <3>. QED
      BY <3>1, <3>2
  <2>4. CASE ChipLines!DeleteKey(i)
    <3>. DEFINE length == Len(dom.chips) - 1
                S == IF i + 1 < length THEN {i}
                     ELSE IF i \in {length, length - 1} /\ length > 0 THEN {length - 1} ELSE {}
                d == ChipLines!Deleted(i)
    <3>1. Line(d) /\ Len(d.chips) = length /\ d.selected = {}
      BY <1>1, <2>1, ChipDeleted
    <3>2. dom' = [d EXCEPT !.selected = @ \cup S, !.focus = length = 0]
      BY <1>1, <2>4 DEF ChipLines!DeleteKey
    <3>. HIDE DEF d
    <3>3. /\ DOMAIN dom' = ChipFields /\ dom'.data = d.data /\ dom'.chips = d.chips
          /\ dom'.gaps = d.gaps /\ dom'.selected = S /\ dom'.focus = (length = 0)
      BY <3>1, <3>2 DEF Line, ChipFields
    <3>4. S = {} \/ (length # 0 /\ \E j \in 0 .. length - 1 : S = {j})
      <4>1. length \in Int /\ i \in Nat /\ i <= length
        BY <1>1, <2>1
      <4>. HIDE DEF length
      <4>2. CASE i + 1 < length
        <5>1. S = {i} /\ length # 0 /\ i \in 0 .. length - 1
          BY <4>1, <4>2
        <5>. QED
          BY <5>1
      <4>3. CASE ~(i + 1 < length) /\ length > 0
        <5>1. S = {length - 1} /\ length # 0 /\ length - 1 \in 0 .. length - 1
          BY <4>1, <4>3
        <5>. QED
          BY <5>1
      <4>4. CASE ~(length > 0)
        BY <4>1, <4>4
      <4>. QED
        BY <4>2, <4>3, <4>4
    <3>5. AtMostOne(dom')
      BY <3>1, <3>3, <3>4 DEF AtMostOne
    <3>. QED
      BY <3>1, <3>3, <3>5 DEF ChipsInv, Line
  <2>. QED
    BY <1>8, <2>2, <2>3, <2>4
<1>. QED
  BY <1>3, <1>4, <1>5, <1>6, <1>7, <1>8 DEF ChipLines!Next, ChipLines!Key, ChipTexts

LEMMA ChipsOne == ChipsInv => ChipLines!OneSelected
<1>. SUFFICES ASSUME ChipsInv PROVE ChipLines!OneSelected
  OBVIOUS
<1>1. dom.selected = {} \/ \E i \in ChipLines!Chips : dom.selected = {i}
  BY DEF ChipsInv, AtMostOne, ChipLines!Chips, ChipLines!Length
<1>2. Cardinality(dom.selected) <= 1 /\ dom.selected \subseteq ChipLines!Chips
  <2>1. Cardinality({}) = 0 /\ \A i : Cardinality({i}) = 1
    BY FS_EmptySet, FS_Singleton
  <2>2. Cardinality(dom.selected) \in {0, 1}
    BY <1>1, <2>1
  <2>. QED
    BY <1>1, <2>2
<1>3. dom.focus => dom.selected = {}
  BY DEF ChipsInv, AtMostOne
<1>. QED
  BY <1>2, <1>3, ChipOperators DEF ChipLines!OneSelected

-----------------------------------------------------------------------------
(* At every moment of every animation one slide is the active one, at most *)
(* one chip is selected, and one tab is marked besides those the page has  *)
(* marked itself, whatever number there is of them (materialize.js, the    *)
(* click handlers of tabs and chips, moveToSlide()).                       *)
OneInv ==
    /\ widget = "tabs" => TabsInv
    /\ widget = "slider" => SliderInv
    /\ widget = "chips" => ChipsInv

THEOREM OneIsSelected == Spec => []OneSelected
<1>1. Init => OneInv
  BY TabsBegin, SliderBegin, ChipsBegin DEF Init, OneInv
<1>2. OneInv /\ [Next]_vars => OneInv'
  <2>. SUFFICES ASSUME OneInv, [Next]_vars PROVE OneInv'
    OBVIOUS
  <2>1. CASE Next
    BY <2>1, WidgetsStep, TabsStep, SliderStep, ChipsStep DEF OneInv
  <2>2. CASE UNCHANGED vars
    BY <2>2 DEF vars, OneInv, TabsInv, TabBars!OneSelected, SliderInv, Turns, ChipsInv, Line,
       AtMostOne
  <2>. QED
    BY <2>1, <2>2
<1>3. OneInv => OneSelected
  BY SliderOne, ChipsOne DEF OneInv, TabsInv, OneSelected
<1>. QED
  BY <1>1, <1>2, <1>3, PTL DEF Spec

-----------------------------------------------------------------------------
(* Autocomplete *)

CompletionFields == {"value", "oldVal", "items", "activeIndex", "active"}
Texts == TypedValues \cup ToSet(Entries) \cup {<<>>}

(* The list is that of the text searched for, and the entry chosen is one  *)
(* of it.                                                                  *)
CompletionsInv ==
    /\ DOMAIN dom = CompletionFields
    /\ dom.value \in Texts /\ dom.items \in Seq(ToSet(Entries))
    /\ Completions!InRange /\ Completions!DataMatchesView

LEMMA CompletionOperators ==
  /\ \A t, S : Completions!Without(t, S) = Without(t, S)
  /\ \A t : Completions!ToSet(t) = ToSet(t)
<1>1. \A t, S : Completions!Without(t, S) = Without(t, S)
  BY DEF Without, Completions!Without
<1>2. \A t : Completions!ToSet(t) = ToSet(t)
  BY DEF ToSet, Completions!ToSet
<1>. QED
  BY <1>1, <1>2

LEMMA FoundEntries ==
  ASSUME NEW val
  PROVE  Completions!Found(val) \in Seq(ToSet(Entries))
<1>. DEFINE S == {key \in ToSet(Entries) : val = <<>> \/ ~Completions!Occurs(val, key)}
            all == Without(Entries, S)
<1>1. Completions!Found(val) = IF Len(all) > ListLimit THEN SubSeq(all, 1, ListLimit) ELSE all
  BY CompletionOperators DEF Completions!Found
<1>. HIDE DEF S
<1>2. all \in Seq(ToSet(Entries)) /\ ListLimit \in Nat
  BY WidgetConstants, WhatIsLeft
<1>. HIDE DEF all
<1>3. Len(all) > ListLimit => SubSeq(all, 1, ListLimit) \in Seq(ToSet(Entries))
  BY <1>2
<1>. QED
  BY <1>1, <1>2, <1>3

(* With the list renewed, or gone, no entry is chosen. *)
LEMMA Renewed ==
  ASSUME NEW val \in Texts, NEW old, NEW found \in Seq(ToSet(Entries)),
         DOMAIN dom' = CompletionFields, dom'.value = val, dom'.oldVal = old,
         dom'.items = found, dom'.activeIndex = -1, dom'.active = {},
         found = IF old = Completions!Undefined THEN <<>> ELSE Completions!Found(old)
  PROVE  CompletionsInv'
<1>1. -1 \in -1 .. Len(found) - 1
  BY LenProperties
<1>2. Completions!InRange'
  BY <1>1 DEF Completions!InRange, Completions!NoElement
<1>3. Completions!DataMatchesView'
  BY DEF Completions!DataMatchesView
<1>. QED
  BY <1>2, <1>3 DEF CompletionsInv

LEMMA CompletionsBegin == Completions!Init => CompletionsInv
<1>. SUFFICES ASSUME Completions!Init PROVE CompletionsInv
  OBVIOUS
<1>1. dom = [value |-> <<>>, oldVal |-> Completions!Undefined, items |-> <<>>,
             activeIndex |-> -1, active |-> {}]
  BY DEF Completions!Init, Completions!NoElement
<1>2. <<>> \in Seq(ToSet(Entries)) /\ Len(<<>>) = 0 /\ <<>> \in Texts
  BY DEF Texts
<1>3. Completions!InRange
  BY <1>1, <1>2 DEF Completions!InRange, Completions!NoElement
<1>4. Completions!DataMatchesView
  BY <1>1 DEF Completions!DataMatchesView
<1>. QED
  BY <1>1, <1>2, <1>3, <1>4 DEF CompletionsInv, CompletionFields

LEMMA CompletionsStep == CompletionsInv /\ Completions!Next => CompletionsInv'
<1>. SUFFICES ASSUME CompletionsInv, Completions!Next PROVE CompletionsInv'
  OBVIOUS
<1>1. /\ DOMAIN dom = CompletionFields /\ dom.value \in Texts
      /\ dom.items \in Seq(ToSet(Entries)) /\ Len(dom.items) \in Nat
      /\ dom.activeIndex \in -1 .. Len(dom.items) - 1
      /\ dom.active = {dom.activeIndex} \ {-1}
      /\ Completions!DataMatchesView
  BY DEF CompletionsInv, Completions!InRange, Completions!NoElement
<1>2. <<>> \in Seq(ToSet(Entries))
  OBVIOUS
<1>3. ASSUME NEW val \in Texts, dom' = [Completions!Removed EXCEPT !.value = val]
      PROVE  CompletionsInv'
  <2>1. /\ DOMAIN dom' = CompletionFields /\ dom'.value = val /\ dom'.items = <<>>
        /\ dom'.oldVal = Completions!Undefined /\ dom'.activeIndex = -1 /\ dom'.active = {}
    BY <1>1, <1>3 DEF Completions!Removed, Completions!NoElement, CompletionFields
  <2>. QED
    BY <1>2, <2>1, Renewed
<1>4. ASSUME NEW index \in -1 .. Len(dom.items) - 1, Completions!MoveTo(index)
      PROVE  CompletionsInv'
  <2>1. /\ DOMAIN dom' = CompletionFields /\ dom'.value = dom.value /\ dom'.items = dom.items
        /\ dom'.oldVal = dom.oldVal /\ dom'.activeIndex = index
        /\ dom'.active = IF index >= 0 THEN {index} ELSE {}
    BY <1>1, <1>4 DEF Completions!MoveTo, CompletionFields
  <2>2. dom'.active = {index} \ {-1}
    BY <1>1, <2>1
  <2>3. Completions!InRange'
    BY <2>1, <2>2 DEF Completions!InRange, Completions!NoElement
  <2>. QED
    BY <1>1, <2>1, <2>3 DEF CompletionsInv, Completions!DataMatchesView
<1>5. CASE Completions!Search
  <2>1. CASE dom.oldVal = dom.value
    BY <1>5, <2>1 DEF Completions!Search, CompletionsInv, Completions!InRange,
       Completions!DataMatchesView
  <2>2. CASE dom.oldVal # dom.value
    <3>1. /\ DOMAIN dom' = CompletionFields /\ dom'.value = dom.value
          /\ dom'.items = Completions!Found(dom.value)
          /\ dom'.oldVal = dom.value /\ dom'.activeIndex = -1 /\ dom'.active = {}
      BY <1>1, <1>5, <2>2
         DEF Completions!Search, Completions!Removed, Completions!NoElement, CompletionFields
    <3>2. dom.value # Completions!Undefined
      <4>1. <<>> # <<"undefined">>
        OBVIOUS
      <4>. QED
        BY <1>1, <4>1, WidgetConstants DEF Texts, Completions!Undefined
    <3>. QED
      BY <1>1, <3>1, <3>2, FoundEntries, Renewed
  <2>. QED
    BY <2>1, <2>2
<1>6. CASE Completions!Blur
  <2>1. dom' = [Completions!Removed EXCEPT !.value = dom.value]
    BY <1>1, <1>6 DEF Completions!Blur, Completions!Removed, CompletionFields
  <2>. QED
    BY <1>1, <1>3, <2>1
<1>7. CASE Completions!Up
  BY <1>1, <1>4, <1>7 DEF Completions!Up
<1>8. CASE Completions!Down
  BY <1>1, <1>4, <1>8 DEF Completions!Down
<1>9. ASSUME NEW index \in 0 .. Len(dom.items) - 1, Completions!Select(index)
      PROVE  CompletionsInv'
  <2>1. index + 1 \in 1 .. Len(dom.items)
    BY <1>1
  <2>2. dom.items[index + 1] \in Texts
    BY <1>1, <2>1 DEF Texts
  <2>. QED
    BY <1>3, <1>9, <2>2 DEF Completions!Select
<1>10. CASE Completions!Enter
  <2>1. dom.activeIndex \in 0 .. Len(dom.items) - 1
    BY <1>1, <1>10 DEF Completions!Enter
  <2>. QED
    BY <1>9, <1>10, <2>1 DEF Completions!Enter
<1>11. ASSUME NEW val \in TypedValues, Completions!Type(val) PROVE CompletionsInv'
  <2>1. /\ DOMAIN dom' = CompletionFields /\ dom'.value = val /\ dom'.items = dom.items
        /\ dom'.oldVal = dom.oldVal /\ dom'.activeIndex = dom.activeIndex
        /\ dom'.active = dom.active
    BY <1>1, <1>11 DEF Completions!Type, CompletionFields
  <2>. QED
    BY <1>1, <2>1 DEF CompletionsInv, Completions!InRange, Completions!DataMatchesView,
       Completions!NoElement, Texts
<1>. QED
  BY <1>5, <1>6, <1>7, <1>8, <1>9, <1>10, <1>11 DEF Completions!Next

-----------------------------------------------------------------------------
(* Carousel *)

CarouselFields == {"noWrap", "fullWidth", "padding", "offset", "target", "center", "amplitude",
                   "pressed", "dragged", "indicator", "active", "wanted", "beyond", "shifted"}

(* Unless a resize has shifted it, the carousel is on its way to item m,   *)
(* counted along the line, which is the one asked for last.                *)
Goal(d, m) ==
    /\ d.target = CarouselDim * m
    /\ d.wanted # Carousels!Undefined => Carousels!Wrap(m) = d.wanted
    /\ d.noWrap /\ ~d.beyond => m \in Carousels!Items

Placed(d) ==
    /\ DOMAIN d = CarouselFields
    /\ d.offset \in Int /\ d.target \in Int /\ d.amplitude \in Int /\ d.center \in Int
    /\ d.padding \in Nat
    /\ ~d.shifted => d.center = Carousels!Round(d.offset)
    /\ \E m \in Int : ~d.shifted => Goal(d, m)

(* Unless it is held it is there, or a frame will bring it on.             *)
Arrives(d, pending) ==
    ~d.pressed /\ d.offset # d.target => d.amplitude # 0 /\ pending # <<>>

CarouselInv == calls \in Seq({Carousels!Frame}) /\ Placed(dom) /\ Arrives(dom, calls)

LEMMA ItemsExist ==
  /\ Carousels!Items = 0 .. CarouselCount - 1
  /\ CarouselCount \in Nat /\ CarouselCount > 0 /\ CarouselDim \in Nat /\ CarouselDim > 0
  /\ Carousels!Undefined = -1000
  BY WidgetConstants DEF Carousels!Items, Carousels!Undefined

(* The place of an item is nearest to that item. *)
LEMMA Rounded ==
  /\ \A x \in Int : Carousels!Round(x) \in Int
  /\ \A m \in Int : Carousels!Round(CarouselDim * m) = m
<1>1. CarouselDim \in Nat /\ CarouselDim > 0 /\ 2 * CarouselDim \in Nat \ {0}
  BY ItemsExist
<1>2. ASSUME NEW x \in Int PROVE Carousels!Round(x) \in Int
  <2>1. 2 * x + CarouselDim \in Int
    BY <1>1
  <2>. QED
    BY <1>1, <2>1, DivMod DEF Carousels!Round
<1>3. ASSUME NEW m \in Int PROVE Carousels!Round(CarouselDim * m) = m
  <2>. DEFINE b == 2 * CarouselDim
              n == 2 * (CarouselDim * m) + CarouselDim
              q == n \div b
              r == n % b
  <2>1. b \in Nat \ {0} /\ n \in Int /\ CarouselDim < b
    BY <1>1
  <2>2. n = b * m + CarouselDim
    BY <1>1
  <2>3. q \in Int /\ r \in Int /\ r >= 0 /\ r < b /\ n = b * q + r
    <3>. HIDE DEF b, n
    <3>. QED
      BY <2>1, DivMod
  <2>4. Carousels!Round(CarouselDim * m) = q
    BY DEF Carousels!Round
  <2>. HIDE DEF b, n, q, r
  <2>5. q = m
    <3>1. b * q + r = b * m + CarouselDim
      BY <2>2, <2>3
    <3>. QED
      BY <1>1, <2>1, <2>3, <3>1, QuotientUnique
  <2>. QED
    BY <2>4, <2>5
<1>. QED
  BY <1>2, <1>3

(* The remainder differs by whole turns, and so does wrap(). *)
LEMMA Turned ==
  ASSUME NEW x \in Int
  PROVE  /\ \E k \in Int : x = Carousels!Rem(x, CarouselCount) + CarouselCount * k
         /\ \E k \in Int : x = Carousels!Wrap(x) + CarouselCount * k
         /\ Carousels!Rem(x, CarouselCount) \in Int /\ Carousels!Wrap(x) \in Carousels!Items
<1>. DEFINE R == Carousels!Rem(x, CarouselCount)
<1>1. CarouselCount \in Nat /\ CarouselCount > 0 /\ CarouselCount \in Nat \ {0}
  BY ItemsExist
<1>2. ASSUME x >= 0
      PROVE  /\ \E k \in Int : x = R + CarouselCount * k
             /\ R \in Int /\ R >= 0 /\ R < CarouselCount
  <2>1. R = x % CarouselCount
    BY <1>2 DEF Carousels!Rem
  <2>2. x \in Nat
    BY <1>2
  <2>3. /\ x \div CarouselCount \in Int /\ R \in Int /\ R >= 0 /\ R < CarouselCount
        /\ x = CarouselCount * (x \div CarouselCount) + R
    BY <1>1, <2>1, <2>2, DivMod
  <2>. HIDE DEF R
  <2>4. x = R + CarouselCount * (x \div CarouselCount)
    BY <1>1, <2>3
  <2>. QED
    BY <2>3, <2>4
<1>3. ASSUME x < 0
      PROVE  /\ \E k \in Int : x = R + CarouselCount * k
             /\ R \in Int /\ R <= 0 /\ R > -CarouselCount
  <2>. DEFINE r == (-x) % CarouselCount
              q == (-x) \div CarouselCount
  <2>1. R = -r
    BY <1>3 DEF Carousels!Rem
  <2>2. -x \in Nat
    BY <1>3
  <2>3. q \in Int /\ r \in Int /\ r >= 0 /\ r < CarouselCount /\ -x = CarouselCount * q + r
    BY <1>1, <2>2, DivMod
  <2>. HIDE DEF R, r, q
  <2>4. x = R + CarouselCount * (-q) /\ -q \in Int
    BY <1>1, <2>1, <2>3
  <2>. QED
    BY <1>1, <2>1, <2>3, <2>4
<1>4. R \in Int /\ \E k \in Int : x = R + CarouselCount * k
  BY <1>2, <1>3
<1>5. CASE x >= CarouselCount
  <2>1. Carousels!Wrap(x) = R
    BY <1>5 DEF Carousels!Wrap
  <2>. HIDE DEF R
  <2>2. R \in Carousels!Items
    BY <1>1, <1>2, <1>5, ItemsExist
  <2>. QED
    BY <1>4, <2>1, <2>2 DEF R
<1>6. CASE x < 0
  <2>. DEFINE y == CarouselCount + R
              w == y % CarouselCount
              q == y \div CarouselCount
  <2>1. Carousels!Wrap(x) = w
    BY <1>1, <1>6 DEF Carousels!Wrap
  <2>. HIDE DEF R
  <2>2. y \in Nat
    BY <1>1, <1>3, <1>6
  <2>3. w \in Int /\ w >= 0 /\ w < CarouselCount /\ q \in Int /\ y = CarouselCount * q + w
    <3>. HIDE DEF y
    <3>. QED
      BY <1>1, <2>2, DivMod
  <2>. HIDE DEF w, q
  <2>4. PICK k \in Int : x = R + CarouselCount * k
    BY <1>4
  <2>5. x = w + CarouselCount * (k + q - 1) /\ k + q - 1 \in Int
    BY <1>1, <1>4, <2>3, <2>4
  <2>6. \E j \in Int : x = w + CarouselCount * j
    BY <2>5
  <2>7. w \in Carousels!Items
    BY <1>1, <2>3, ItemsExist
  <2>. QED
    BY <1>4, <2>1, <2>6, <2>7 DEF R
<1>7. CASE 0 <= x /\ x < CarouselCount
  <2>1. Carousels!Wrap(x) = x
    BY <1>1, <1>7 DEF Carousels!Wrap
  <2>2. x = x + CarouselCount * 0
    BY <1>1
  <2>3. x \in Carousels!Items
    BY <1>1, <1>7, ItemsExist
  <2>4. \E k \in Int : x = x + CarouselCount * k
    BY <2>2
  <2>. QED
    BY <1>4, <2>1, <2>3, <2>4
<1>. QED
  BY <1>1, <1>5, <1>6, <1>7

LEMMA SameItem ==
  ASSUME NEW x \in Int, NEW n \in Carousels!Items, NEW k \in Int, x = n + CarouselCount * k
  PROVE  Carousels!Wrap(x) = n
<1>. DEFINE w == Carousels!Wrap(x)
<1>1. PICK j \in Int : x = w + CarouselCount * j
  BY Turned
<1>2. w \in Carousels!Items
  BY Turned
<1>. HIDE DEF w
<1>3. /\ w \in Int /\ 0 <= w /\ w < CarouselCount
      /\ n \in Int /\ 0 <= n /\ n < CarouselCount /\ CarouselCount \in Nat \ {0}
  BY <1>2, ItemsExist
<1>4. CarouselCount * j + w = CarouselCount * k + n
  BY <1>1, <1>3
<1>5. w = n
  BY <1>3, <1>4, QuotientUnique
<1>. QED
  BY <1>5 DEF w

(* cycleTo() turns to the item it was asked for, whichever way around. *)
LEMMA WayLeads ==
  ASSUME NEW n \in Carousels!Items \cup {-1}, dom.center \in Int
  PROVE  /\ Carousels!Way(n) \in Int
         /\ n \in Carousels!Items => Carousels!Wrap(dom.center + Carousels!Way(n)) = n
<1>. DEFINE c == dom.center
            R == Carousels!Rem(c, CarouselCount)
            way == Carousels!Way(n)
<1>1. n \in Int /\ CarouselCount \in Nat
  BY ItemsExist
<1>2. R \in Int /\ \E k \in Int : c = R + CarouselCount * k
  BY Turned
<1>3. way \in {-(R - n + CarouselCount), -(R - n - CarouselCount), -(R - n)}
  BY DEF Carousels!Way
<1>. HIDE DEF c, R, way
<1>4. PICK k \in Int : c = R + CarouselCount * k
  BY <1>2
<1>5. c \in Int /\ way \in Int
  BY <1>1, <1>2, <1>3 DEF c
<1>6. \E j \in Int : c + way = n + CarouselCount * j
  <2>1. CASE way = -(R - n + CarouselCount)
    <3>1. c + way = n + CarouselCount * (k - 1) /\ k - 1 \in Int
      BY <1>1, <1>2, <1>4, <2>1
    <3>. QED
      BY <3>1
  <2>2. CASE way = -(R - n - CarouselCount)
    <3>1. c + way = n + CarouselCount * (k + 1) /\ k + 1 \in Int
      BY <1>1, <1>2, <1>4, <2>2
    <3>. QED
      BY <3>1
  <2>3. CASE way = -(R - n)
    <3>1. c + way = n + CarouselCount * k
      BY <1>1, <1>2, <1>4, <2>3
    <3>. QED
      BY <3>1
  <2>. QED
    BY <1>3, <2>1, <2>2, <2>3
<1>7. n \in Carousels!Items => Carousels!Wrap(c + way) = n
  BY <1>5, <1>6, SameItem
<1>. QED
  BY <1>5, <1>7 DEF c, way

LEMMA FramesKept ==
  ASSUME calls \in Seq({Carousels!Frame})
  PROVE  /\ Append(calls, Carousels!Frame) \in Seq({Carousels!Frame})
         /\ Append(calls, Carousels!Frame) # <<>>
         /\ \A k \in DOMAIN calls :
               /\ Carousels!Ended(calls, k) \in Seq({Carousels!Frame})
               /\ Append(Carousels!Ended(calls, k), Carousels!Frame) \in Seq({Carousels!Frame})
               /\ Append(Carousels!Ended(calls, k), Carousels!Frame) # <<>>
<1>. DEFINE f == Carousels!Frame
<1>1. ASSUME NEW s \in Seq({f}) PROVE Append(s, f) \in Seq({f}) /\ Append(s, f) # <<>>
  <2>. HIDE DEF f
  <2>. QED
    BY <1>1
<1>2. ASSUME NEW k \in DOMAIN calls PROVE Carousels!Ended(calls, k) \in Seq({f})
  <2>1. k \in 1 .. Len(calls)
    OBVIOUS
  <2>2. RemoveAt(calls, k) \in Seq({f})
    BY <2>1, Removed
  <2>. QED
    BY <2>2 DEF Carousels!Ended, RemoveAt
<1>. HIDE DEF f
<1>3. calls \in Seq({f})
  BY DEF f
<1>. QED
  BY <1>1, <1>2, <1>3 DEF f

LEMMA ScrollPlaces ==
  ASSUME NEW d, Placed(d), NEW x \in Int
  PROVE  /\ Placed(Carousels!Scroll(d, x))
         /\ Carousels!Scroll(d, x).offset = x /\ Carousels!Scroll(d, x).target = d.target
         /\ Carousels!Scroll(d, x).amplitude = d.amplitude
         /\ Carousels!Scroll(d, x).pressed = d.pressed
<1>. DEFINE e == Carousels!Scroll(d, x)
<1>1. DOMAIN d = CarouselFields
  BY DEF Placed
<1>2. /\ DOMAIN e = CarouselFields /\ e.offset = x /\ e.center = Carousels!Round(x)
      /\ e.target = d.target /\ e.amplitude = d.amplitude /\ e.pressed = d.pressed
      /\ e.wanted = d.wanted /\ e.noWrap = d.noWrap /\ e.beyond = d.beyond
      /\ e.shifted = d.shifted /\ e.padding = d.padding
  BY <1>1 DEF Carousels!Scroll, CarouselFields
<1>. HIDE DEF e
<1>3. Placed(e)
  BY <1>2, Rounded DEF Placed, Goal
<1>. QED
  BY <1>2, <1>3 DEF e

(* A turn by n items, asked for or not. *)
LEMMA TurnPlaces ==
  ASSUME Placed(dom), NEW wanted, NEW n \in Int,
         wanted # Carousels!Undefined => Carousels!Wrap(dom.center + n) = wanted
  PROVE  LET d == Carousels!Turn([dom EXCEPT !.wanted = wanted], n)
         IN  /\ Placed(d) /\ d.offset = dom.offset /\ d.pressed = dom.pressed
             /\ d.offset # d.target => d.amplitude # 0
<1>. DEFINE e == [dom EXCEPT !.wanted = wanted]
            d == Carousels!Turn(e, n)
            m == Carousels!Round(dom.offset) + n
<1>1. /\ DOMAIN dom = CarouselFields /\ dom.offset \in Int /\ dom.amplitude \in Int
      /\ dom.padding \in Nat /\ Carousels!Round(dom.offset) \in Int /\ dom.center \in Int
      /\ ~dom.shifted => dom.center = Carousels!Round(dom.offset)
  BY Rounded DEF Placed
<1>2. /\ DOMAIN e = CarouselFields /\ e.wanted = wanted /\ e.offset = dom.offset
      /\ e.amplitude = dom.amplitude /\ e.pressed = dom.pressed /\ e.noWrap = dom.noWrap
      /\ e.center = dom.center /\ e.shifted = dom.shifted /\ e.padding = dom.padding
  BY <1>1 DEF CarouselFields
<1>. HIDE DEF e
<1>3. /\ DOMAIN d = CarouselFields /\ d.target = CarouselDim * m /\ d.wanted = wanted
      /\ d.offset = dom.offset /\ d.center = dom.center /\ d.pressed = dom.pressed
      /\ d.noWrap = dom.noWrap /\ d.shifted = dom.shifted /\ d.padding = dom.padding
      /\ d.amplitude = IF dom.offset # CarouselDim * m THEN CarouselDim * m - dom.offset
                       ELSE dom.amplitude
      /\ d.noWrap /\ ~d.beyond => m \in Carousels!Items
  BY <1>1, <1>2 DEF Carousels!Turn, CarouselFields
<1>. HIDE DEF d
<1>4. m \in Int /\ CarouselDim * m \in Int
  BY <1>1, ItemsExist
<1>5. d.amplitude \in Int /\ (d.offset # d.target => d.amplitude # 0)
  <2>. HIDE DEF m
  <2>. QED
    BY <1>1, <1>3, <1>4
<1>6. ~d.shifted => Goal(d, m)
  BY <1>1, <1>3 DEF Goal
<1>. HIDE DEF m
<1>7. Placed(d)
  BY <1>1, <1>3, <1>4, <1>5, <1>6 DEF Placed
<1>. QED
  BY <1>3, <1>5, <1>7 DEF d, e

LEMMA CarouselBegin == Carousels!Init => CarouselInv
<1>. SUFFICES ASSUME Carousels!Init PROVE CarouselInv
  OBVIOUS
<1>1. PICK noWrap, fullWidth \in BOOLEAN, padding \in CarouselPaddings :
         dom = Carousels!Scroll([noWrap |-> noWrap, fullWidth |-> fullWidth, padding |-> padding,
                        offset |-> 0, target |-> 0, center |-> Carousels!Undefined,
                        amplitude |-> 0, pressed |-> FALSE, dragged |-> FALSE,
                        indicator |-> 0, active |-> 0, wanted |-> Carousels!Undefined,
                        beyond |-> FALSE, shifted |-> FALSE], 0)
  BY DEF Carousels!Init
<1>2. /\ DOMAIN dom = CarouselFields /\ dom.offset = 0 /\ dom.target = 0 /\ dom.amplitude = 0
      /\ dom.center = Carousels!Round(0) /\ dom.wanted = Carousels!Undefined
      /\ dom.padding \in Nat
  BY <1>1, WidgetConstants DEF Carousels!Scroll, CarouselFields
<1>3. 0 = CarouselDim * 0 /\ 0 \in Carousels!Items
  BY ItemsExist
<1>4. Goal(dom, 0)
  BY <1>2, <1>3 DEF Goal
<1>5. calls \in Seq({Carousels!Frame})
  BY DEF Carousels!Init
<1>. QED
  BY <1>2, <1>4, <1>5, Rounded DEF CarouselInv, Placed, Arrives

(* Without wrap release() leaves an item of the line to go to. *)
LEMMA Clamped ==
  ASSUME NEW m \in Int
  PROVE  \E j \in Int : /\ Carousels!Clamp(CarouselDim * m) = CarouselDim * j
                        /\ dom.noWrap => j \in Carousels!Items
<1>. DEFINE x == CarouselDim * m
            last == CarouselCount - 1
<1>1. /\ CarouselDim \in Nat /\ CarouselDim > 0 /\ last \in Nat
      /\ Carousels!Items = 0 .. last
  BY ItemsExist
<1>2. 0 = CarouselDim * 0 /\ 0 \in 0 .. last /\ last \in 0 .. last
  BY <1>1
<1>3. CASE ~dom.noWrap
  BY <1>3 DEF Carousels!Clamp
<1>4. CASE dom.noWrap /\ x >= CarouselDim * last
  <2>1. Carousels!Clamp(x) = CarouselDim * last
    BY <1>4 DEF Carousels!Clamp
  <2>. QED
    BY <1>1, <1>2, <2>1
<1>5. CASE dom.noWrap /\ ~(x >= CarouselDim * last) /\ x < 0
  <2>1. Carousels!Clamp(x) = 0
    BY <1>5 DEF Carousels!Clamp
  <2>. QED
    BY <1>1, <1>2, <2>1
<1>6. CASE dom.noWrap /\ ~(x >= CarouselDim * last) /\ ~(x < 0)
  <2>1. Carousels!Clamp(x) = x
    BY <1>6 DEF Carousels!Clamp
  <2>2. m >= 0
    <3>1. m < 0 => CarouselDim * m < 0
      BY <1>1
    <3>. QED
      BY <1>6, <3>1
  <2>3. m <= last
    <3>1. ASSUME m > last PROVE CarouselDim * m >= CarouselDim * last
      <4>1. CarouselDim * (m - last) >= 0
        BY <1>1, <3>1
      <4>2. CarouselDim * (m - last) = CarouselDim * m - CarouselDim * last
        BY <1>1
      <4>3. CarouselDim * m \in Int /\ CarouselDim * last \in Int
        BY <1>1
      <4>. QED
        BY <4>1, <4>2, <4>3
    <3>. QED
      BY <1>1, <1>6, <3>1
  <2>4. m \in 0 .. last
    BY <1>1, <2>2, <2>3
  <2>. QED
    BY <1>1, <2>1, <2>4
<1>. QED
  BY <1>3, <1>4, <1>5, <1>6

LEMMA CarouselStep == CarouselInv /\ Carousels!Next => CarouselInv'
<1>. SUFFICES ASSUME CarouselInv, Carousels!Next PROVE CarouselInv'
  OBVIOUS
<1>. DEFINE Frames == Seq({Carousels!Frame})
<1>1. calls \in Frames /\ Placed(dom) /\ Arrives(dom, calls)
  BY DEF CarouselInv
<1>2. PICK m \in Int : ~dom.shifted => Goal(dom, m)
  BY <1>1 DEF Placed
<1>3. /\ DOMAIN dom = CarouselFields
      /\ dom.offset \in Int /\ dom.target \in Int /\ dom.amplitude \in Int
      /\ dom.center \in Int /\ dom.padding \in Nat
      /\ ~dom.shifted => dom.center = Carousels!Round(dom.offset)
  BY <1>1 DEF Placed
<1>4. /\ Append(calls, Carousels!Frame) \in Frames
      /\ Append(calls, Carousels!Frame) # <<>>
      /\ \A k \in DOMAIN calls :
            /\ Carousels!Ended(calls, k) \in Frames
            /\ Append(Carousels!Ended(calls, k), Carousels!Frame) \in Frames
            /\ Append(Carousels!Ended(calls, k), Carousels!Frame) # <<>>
  BY <1>1, FramesKept
<1>. HIDE DEF Frames
<1>5. ASSUME NEW wanted, NEW n \in Int,
             wanted # Carousels!Undefined => Carousels!Wrap(dom.center + n) = wanted,
             dom' = Carousels!Turn([dom EXCEPT !.wanted = wanted], n),
             calls' = Carousels!Start(dom, dom')
      PROVE  CarouselInv'
  <2>1. /\ Placed(dom') /\ dom'.offset = dom.offset /\ dom'.pressed = dom.pressed
        /\ dom'.offset # dom'.target => dom'.amplitude # 0
    BY <1>1, <1>5, TurnPlaces
  <2>2. calls' \in Frames /\ (dom'.offset # dom'.target => calls' # <<>>)
    BY <1>1, <1>4, <1>5, <2>1 DEF Carousels!Start
  <2>. QED
    BY <2>1, <2>2 DEF CarouselInv, Placed, Goal, Arrives, Frames
<1>6. CASE UNCHANGED <<dom, calls>>
  BY <1>1, <1>6 DEF CarouselInv, Placed, Goal, Arrives
<1>7. ASSUME NEW n \in Carousels!Items \cup {-1}, Carousels!CycleTo(n) \/ Carousels!Click(n)
      PROVE  CarouselInv'
  <2>1. CASE Carousels!Way(n) = 0
    BY <1>6, <1>7, <2>1 DEF Carousels!Click, Carousels!CycleTo
  <2>2. CASE Carousels!Way(n) # 0
    <3>1. PICK wanted :
             /\ wanted = IF n \in Carousels!Items THEN n ELSE Carousels!Undefined
             /\ dom' = Carousels!Turn([dom EXCEPT !.wanted = wanted], Carousels!Way(n))
             /\ calls' = Carousels!Start(dom, dom')
      BY <1>7, <2>2 DEF Carousels!Click, Carousels!CycleTo
    <3>2. /\ Carousels!Way(n) \in Int
          /\ n \in Carousels!Items => Carousels!Wrap(dom.center + Carousels!Way(n)) = n
      BY <1>3, <1>7, WayLeads
    <3>. QED
      BY <1>5, <3>1, <3>2
  <2>. QED
    BY <2>1, <2>2
<1>8. ASSUME NEW n \in {-1, 1}, Carousels!Method(n) PROVE CarouselInv'
  <2>1. /\ dom' = Carousels!Turn([dom EXCEPT !.wanted = Carousels!Undefined], n)
        /\ calls' = Carousels!Start(dom, dom') /\ n \in Int
    BY <1>8 DEF Carousels!Method
  <2>. QED
    BY <1>5, <2>1
<1>9. CASE Carousels!Tap
  <2>1. /\ DOMAIN dom' = CarouselFields /\ dom'.offset = dom.offset /\ dom'.target = dom.target
        /\ dom'.amplitude = 0 /\ dom'.center = dom.center /\ dom'.wanted = Carousels!Undefined
        /\ dom'.noWrap = dom.noWrap /\ dom'.beyond = dom.beyond /\ dom'.pressed
        /\ dom'.shifted = dom.shifted /\ dom'.padding = dom.padding
    BY <1>3, <1>9 DEF Carousels!Tap, CarouselFields
  <2>2. ~dom'.shifted => Goal(dom', m)
    BY <1>2, <2>1 DEF Goal
  <2>3. calls' \in Frames
    BY <1>1, <1>9 DEF Carousels!Tap
  <2>. QED
    BY <1>3, <2>1, <2>2, <2>3 DEF CarouselInv, Placed, Goal, Arrives, Frames
<1>10. CASE Carousels!Drag
  <2>1. PICK x \in Int : dom' = Carousels!Scroll([dom EXCEPT !.dragged = TRUE], x)
    <3>1. PICK pull \in (-Pull .. Pull) \ {0} :
             dom' = Carousels!Scroll([dom EXCEPT !.dragged = TRUE], dom.offset + pull)
      BY <1>10 DEF Carousels!Drag
    <3>2. dom.offset + pull \in Int
      BY <1>3
    <3>. QED
      BY <3>1, <3>2
  <2>. DEFINE d == [dom EXCEPT !.dragged = TRUE]
  <2>2. /\ DOMAIN d = CarouselFields /\ d.offset = dom.offset /\ d.target = dom.target
        /\ d.amplitude = dom.amplitude /\ d.center = dom.center /\ d.wanted = dom.wanted
        /\ d.noWrap = dom.noWrap /\ d.beyond = dom.beyond /\ d.pressed = dom.pressed
        /\ d.shifted = dom.shifted /\ d.padding = dom.padding
    BY <1>3 DEF CarouselFields
  <2>3. dom' = Carousels!Scroll(d, x)
    BY <2>1
  <2>. HIDE DEF d
  <2>4. ~d.shifted => Goal(d, m)
    BY <1>2, <2>2 DEF Goal
  <2>5. Placed(d)
    BY <1>3, <2>2, <2>4 DEF Placed
  <2>6. Placed(dom') /\ dom'.pressed = dom.pressed
    BY <2>2, <2>3, <2>5, ScrollPlaces
  <2>7. dom.pressed /\ calls' \in Frames
    BY <1>1, <1>10 DEF Carousels!Drag
  <2>. QED
    BY <2>6, <2>7 DEF CarouselInv, Placed, Goal, Arrives, Frames
<1>11. CASE Carousels!Release
  <2>1. PICK speed \in {-Pull, 0, Pull} :
           LET target == Carousels!Clamp(CarouselDim * Carousels!Round(dom.offset + speed))
           IN  dom' = [dom EXCEPT !.pressed = FALSE, !.target = target,
                                  !.wanted = Carousels!Undefined, !.beyond = FALSE,
                                  !.amplitude = target - dom.offset]
    BY <1>11 DEF Carousels!Release
  <2>2. Carousels!Round(dom.offset + speed) \in Int
    <3>1. dom.offset + speed \in Int
      BY <1>3, <2>1, WidgetConstants
    <3>. QED
      BY <3>1, Rounded
  <2>3. PICK j \in Int :
           /\ Carousels!Clamp(CarouselDim * Carousels!Round(dom.offset + speed)) = CarouselDim * j
           /\ dom.noWrap => j \in Carousels!Items
    BY <2>2, Clamped
  <2>. DEFINE target == CarouselDim * j
  <2>4. target \in Int
    BY ItemsExist
  <2>5. /\ DOMAIN dom' = CarouselFields /\ dom'.offset = dom.offset /\ dom'.target = target
        /\ dom'.amplitude = target - dom.offset /\ dom'.center = dom.center
        /\ dom'.wanted = Carousels!Undefined /\ dom'.noWrap = dom.noWrap
        /\ dom'.shifted = dom.shifted /\ dom'.padding = dom.padding
    BY <1>3, <2>1, <2>3 DEF CarouselFields
  <2>6. Goal(dom', j)
    BY <2>3, <2>5 DEF Goal
  <2>. HIDE DEF target
  <2>7. dom'.amplitude \in Int /\ (dom'.offset # dom'.target => dom'.amplitude # 0)
    BY <1>3, <2>4, <2>5
  <2>8. calls' \in Frames /\ calls' # <<>>
    BY <1>4, <1>11 DEF Carousels!Release
  <2>. QED
    BY <1>3, <2>4, <2>5, <2>6, <2>7, <2>8 DEF CarouselInv, Placed, Goal, Arrives, Frames
<1>12. CASE Carousels!Resize
  <2>1. calls' = calls
    BY <1>12 DEF Carousels!Resize
  <2>2. CASE dom.fullWidth
    <3>. DEFINE x == (CarouselDim - dom.padding) * dom.center
    <3>1. /\ DOMAIN dom' = CarouselFields /\ dom'.offset = x /\ dom'.target = x
          /\ dom'.amplitude = dom.amplitude /\ dom'.center = dom.center
          /\ dom'.wanted = Carousels!Undefined /\ dom'.noWrap = dom.noWrap
          /\ dom'.padding = dom.padding
          /\ ~dom'.beyond /\ dom.noWrap => dom.center \in Carousels!Items
          /\ ~dom'.shifted => ~dom.shifted /\ ~(dom.padding > 0)
      <4>1. dom' = [dom EXCEPT !.offset = x, !.target = x, !.wanted = Carousels!Undefined,
                               !.beyond = dom.noWrap /\ dom.center \notin Carousels!Items,
                               !.shifted = dom.shifted \/ dom.padding > 0]
        BY <1>12, <2>2, Zenon DEF Carousels!Resize
      <4>. HIDE DEF x
      <4>. QED
        BY <1>3, <4>1 DEF CarouselFields
    <3>2. x \in Int
      BY <1>3, ItemsExist
    <3>3. ASSUME ~dom'.shifted
          PROVE  x = CarouselDim * dom.center
      <4>1. dom.padding = 0
        BY <1>3, <3>1, <3>3
      <4>. QED
        BY <1>3, <4>1, ItemsExist
    <3>4. ~dom'.shifted => Goal(dom', dom.center) /\ dom'.center = Carousels!Round(dom'.offset)
      BY <1>3, <3>1, <3>3, Rounded DEF Goal
    <3>. HIDE DEF x
    <3>5. Placed(dom')
      BY <1>3, <3>1, <3>2, <3>4 DEF Placed
    <3>. QED
      BY <1>1, <2>1, <3>1, <3>5 DEF CarouselInv, Placed, Goal, Arrives, Frames
  <2>3. CASE ~dom.fullWidth
    <3>1. dom' = Carousels!Scroll(dom, dom.offset)
      BY <1>12, <2>3 DEF Carousels!Resize
    <3>2. /\ Placed(dom') /\ dom'.offset = dom.offset /\ dom'.target = dom.target
          /\ dom'.amplitude = dom.amplitude /\ dom'.pressed = dom.pressed
      BY <1>1, <1>3, <3>1, ScrollPlaces
    <3>. QED
      BY <1>1, <2>1, <3>2 DEF CarouselInv, Placed, Goal, Arrives, Frames
  <2>. QED
    BY <2>2, <2>3
<1>13. ASSUME NEW k \in DOMAIN calls, Carousels!AutoScroll(k) PROVE CarouselInv'
  <2>1. CASE dom.amplitude = 0
    <3>1. dom' = dom /\ calls' \in Frames
      BY <1>4, <1>13, <2>1 DEF Carousels!AutoScroll
    <3>. QED
      BY <1>1, <2>1, <3>1 DEF CarouselInv, Placed, Goal, Arrives, Frames
  <2>2. CASE dom.amplitude # 0 /\ dom' = Carousels!Scroll(dom, dom.target)
             /\ calls' = Carousels!Ended(calls, k)
    <3>1. Placed(dom') /\ dom'.offset = dom.target /\ dom'.target = dom.target
      BY <1>1, <1>3, <2>2, ScrollPlaces
    <3>2. calls' \in Frames
      BY <1>4, <2>2
    <3>. QED
      BY <3>1, <3>2 DEF CarouselInv, Placed, Goal, Arrives, Frames
  <2>3. CASE dom.amplitude # 0 /\ calls' = Append(Carousels!Ended(calls, k), Carousels!Frame)
             /\ \E x \in Int : dom' = Carousels!Scroll(dom, x)
    <3>1. Placed(dom') /\ dom'.amplitude = dom.amplitude
      BY <1>1, <2>3, ScrollPlaces
    <3>2. calls' \in Frames /\ calls' # <<>>
      BY <1>4, <2>3
    <3>. QED
      BY <2>3, <3>1, <3>2 DEF CarouselInv, Placed, Goal, Arrives, Frames
  <2>4. ASSUME NEW delta \in (1 .. dom.amplitude - 1) \cup (dom.amplitude + 1 .. -1)
        PROVE  dom.target - delta \in Int
    BY <1>3
  <2>. QED
    BY <1>13, <2>1, <2>2, <2>3, <2>4 DEF Carousels!AutoScroll
<1>. QED
  BY <1>7, <1>8, <1>9, <1>10, <1>11, <1>12, <1>13 DEF Carousels!Next

LEMMA CarouselRests == CarouselInv => Carousels!InRange
<1>. SUFFICES ASSUME CarouselInv, Carousels!Settled, Carousels!OnTrack
     PROVE  /\ dom.offset = CarouselDim * dom.center
            /\ dom.wanted # Carousels!Undefined => Carousels!Wrap(dom.center) = dom.wanted
            /\ dom.noWrap => dom.center \in Carousels!Items
  BY DEF Carousels!InRange
<1>1. PICK m \in Int : Goal(dom, m)
  BY DEF CarouselInv, Placed, Carousels!OnTrack
<1>2. dom.offset = dom.target /\ dom.center = Carousels!Round(dom.offset) /\ ~dom.beyond
  BY DEF CarouselInv, Placed, Arrives, Carousels!Settled, Carousels!OnTrack
<1>3. dom.offset = CarouselDim * m /\ dom.center = m
  BY <1>1, <1>2, Rounded DEF Goal
<1>. QED
  BY <1>1, <1>2, <1>3 DEF Goal

-----------------------------------------------------------------------------
(* Carousel, the marks *)

(* What scroll() marked is of the place where the carousel is now. *)
Marks(d) ==
    /\ DOMAIN d = CarouselFields
    /\ d.indicator = Carousels!Eq(Carousels!Rem(d.center, CarouselCount))
    /\ ~d.noWrap \/ d.center \in Carousels!Items => d.active = Carousels!Wrap(d.center)

SameMarks(d, e) ==
    /\ DOMAIN e = CarouselFields /\ e.noWrap = d.noWrap
    /\ e.center = d.center /\ e.indicator = d.indicator /\ e.active = d.active

LEMMA SameMarksHold == \A d, e : Marks(d) /\ SameMarks(d, e) => Marks(e)
  BY DEF Marks, SameMarks

LEMMA ScrollMarks ==
  ASSUME NEW d, DOMAIN d = CarouselFields, NEW x
  PROVE  Marks(Carousels!Scroll(d, x))
<1>. DEFINE e == Carousels!Scroll(d, x)
            c == Carousels!Round(x)
<1>1. /\ DOMAIN e = CarouselFields /\ e.center = c /\ e.noWrap = d.noWrap
      /\ e.indicator = Carousels!Eq(Carousels!Rem(c, CarouselCount))
      /\ ~d.noWrap \/ c \in Carousels!Items => e.active = Carousels!Wrap(c)
  BY DEF Carousels!Scroll, CarouselFields
<1>. HIDE DEF e, c
<1>2. Marks(e)
  BY <1>1 DEF Marks
<1>. QED
  BY <1>2 DEF e

LEMMA MarksBegin == Carousels!Init => Marks(dom)
<1>. SUFFICES ASSUME Carousels!Init PROVE Marks(dom)
  OBVIOUS
<1>1. PICK d : DOMAIN d = CarouselFields /\ dom = Carousels!Scroll(d, 0)
  BY DEF Carousels!Init, CarouselFields
<1>. QED
  BY <1>1, ScrollMarks

LEMMA MarksStep == Marks(dom) /\ Carousels!Next => Marks(dom')
<1>. SUFFICES ASSUME Marks(dom), Carousels!Next PROVE Marks(dom')
  OBVIOUS
<1>1. DOMAIN dom = CarouselFields /\ SameMarks(dom, dom)
  BY DEF Marks, SameMarks
<1>2. ASSUME NEW d, SameMarks(dom, d), NEW n, dom' = Carousels!Turn(d, n) PROVE Marks(dom')
  <2>1. SameMarks(dom, dom')
    BY <1>2 DEF Carousels!Turn, SameMarks, CarouselFields
  <2>. QED
    BY <2>1, SameMarksHold
<1>3. \A w : SameMarks(dom, [dom EXCEPT !.wanted = w])
  BY <1>1 DEF SameMarks, CarouselFields
<1>4. ASSUME NEW n, Carousels!CycleTo(n) \/ Carousels!Click(n) PROVE Marks(dom')
  <2>1. \/ dom' = dom
        \/ \E w : dom' = Carousels!Turn([dom EXCEPT !.wanted = w], Carousels!Way(n))
    BY <1>4 DEF Carousels!CycleTo, Carousels!Click
  <2>. QED
    BY <1>2, <1>3, <2>1
<1>5. ASSUME NEW n, Carousels!Method(n) PROVE Marks(dom')
  BY <1>2, <1>3, <1>5 DEF Carousels!Method
<1>6. CASE Carousels!Tap
  <2>1. SameMarks(dom, dom')
    BY <1>1, <1>6 DEF Carousels!Tap, SameMarks, CarouselFields
  <2>. QED
    BY <2>1, SameMarksHold
<1>7. CASE Carousels!Drag
  <2>1. DOMAIN [dom EXCEPT !.dragged = TRUE] = CarouselFields
    BY <1>1
  <2>2. \E x : dom' = Carousels!Scroll([dom EXCEPT !.dragged = TRUE], x)
    BY <1>7 DEF Carousels!Drag
  <2>. QED
    BY <2>1, <2>2, ScrollMarks
<1>8. CASE Carousels!Release
  <2>1. SameMarks(dom, dom')
    BY <1>1, <1>8 DEF Carousels!Release, SameMarks, CarouselFields
  <2>. QED
    BY <2>1, SameMarksHold
<1>9. CASE Carousels!Resize
  <2>1. SameMarks(dom, dom') \/ dom' = Carousels!Scroll(dom, dom.offset)
    BY <1>1, <1>9 DEF Carousels!Resize, SameMarks, CarouselFields
  <2>. QED
    BY <1>1, <2>1, SameMarksHold, ScrollMarks
<1>10. ASSUME NEW k, Carousels!AutoScroll(k) PROVE Marks(dom')
  <2>1. dom' = dom \/ \E x : dom' = Carousels!Scroll(dom, x)
    BY <1>10 DEF Carousels!AutoScroll
  <2>. QED
    BY <1>1, <2>1, ScrollMarks
<1>. QED
  BY <1>4, <1>5, <1>6, <1>7, <1>8, <1>9, <1>10 DEF Carousels!Next

(* eq() of the remainder is what wrap() gives. *)
LEMMA SameNumber ==
  ASSUME NEW c \in Int
  PROVE  Carousels!Eq(Carousels!Rem(c, CarouselCount)) = Carousels!Wrap(c)
<1>. DEFINE R == Carousels!Rem(c, CarouselCount)
<1>1. CarouselCount \in Nat /\ CarouselCount > 0 /\ CarouselCount \in Nat \ {0}
  BY ItemsExist
<1>2. ASSUME NEW n \in Nat PROVE n % CarouselCount \in 0 .. CarouselCount - 1
  BY <1>1, <1>2, DivMod
<1>3. ASSUME NEW n \in 0 .. CarouselCount - 1 PROVE n % CarouselCount = n
  BY <1>1, <1>3, ModSmall
<1>4. CASE c >= 0
  <2>1. R = c % CarouselCount
    BY <1>4 DEF Carousels!Rem
  <2>2. Carousels!Wrap(c) = R
    <3>1. CASE c >= CarouselCount
      BY <3>1 DEF Carousels!Wrap
    <3>2. CASE ~(c >= CarouselCount)
      <4>1. c \in 0 .. CarouselCount - 1
        BY <1>1, <1>4, <3>2
      <4>. QED
        BY <1>3, <1>4, <2>1, <3>2, <4>1 DEF Carousels!Wrap
    <3>. QED
      BY <3>1, <3>2
  <2>3. ~(R < 0)
    BY <1>2, <1>4, <2>1
  <2>. QED
    BY <2>2, <2>3 DEF Carousels!Eq
<1>5. CASE c < 0
  <2>. DEFINE r == (-c) % CarouselCount
  <2>1. r \in 0 .. CarouselCount - 1
    <3>1. -c \in Nat
      BY <1>5
    <3>. QED
      BY <1>2, <3>1
  <2>2. R = -r
    BY <1>5 DEF Carousels!Rem
  <2>3. Carousels!Wrap(c) = (CarouselCount + R) % CarouselCount
    BY <1>1, <1>5 DEF Carousels!Wrap
  <2>4. Carousels!Eq(R) = IF R < 0 THEN CarouselCount + R ELSE R
    BY DEF Carousels!Eq
  <2>. HIDE DEF r, R
  <2>5. CASE r = 0
    <3>1. R = 0 /\ CarouselCount + R = CarouselCount
      <4>1. R + r = 0 /\ R \in Int
        BY <2>1, <2>2
      <4>. QED
        BY <1>1, <2>5, <4>1
    <3>2. CarouselCount % CarouselCount = 0
      <4>. DEFINE N == CarouselCount
                  q == N \div N
                  s == N % N
      <4>1. q \in Int /\ s \in Int /\ s >= 0 /\ s < N /\ N = N * q + s
        BY <1>1, DivMod
      <4>. HIDE DEF q, s
      <4>2. N * q + s = N * 1 + 0
        BY <1>1, <4>1
      <4>3. s = 0
        BY <1>1, <4>1, <4>2, QuotientUnique
      <4>. QED
        BY <4>3 DEF s
    <3>. QED
      BY <2>3, <2>4, <3>1, <3>2 DEF R
  <2>6. CASE r # 0
    <3>1. R < 0 /\ CarouselCount + R \in 0 .. CarouselCount - 1
      BY <1>1, <2>1, <2>2, <2>6
    <3>. QED
      BY <1>3, <2>3, <2>4, <3>1 DEF R
  <2>. QED
    BY <2>5, <2>6
<1>. QED
  BY <1>4, <1>5

LEMMA MarksRest == CarouselInv /\ Marks(dom) => Carousels!ShownAsMarked
<1>. SUFFICES ASSUME CarouselInv, Marks(dom), Carousels!Settled,
                     dom.noWrap => Carousels!OnTrack
     PROVE  dom.indicator = dom.active
  BY DEF Carousels!ShownAsMarked
<1>1. dom.center \in Int
  BY DEF CarouselInv, Placed
<1>2. dom.noWrap => dom.center \in Carousels!Items
  BY CarouselRests DEF Carousels!InRange
<1>. QED
  BY <1>1, <1>2, SameNumber DEF Marks

-----------------------------------------------------------------------------
(* Select *)

SelectFields == {"multiple", "chosen", "valuesSelected", "ticked", "value", "selected", "open",
                 "optionsHover", "focus", "waiting", "filterQuery"}

(* What the form takes, the list of those chosen, the ticks and the input. *)
Agree(d) ==
    /\ DOMAIN d = SelectFields
    /\ d.chosen \cap DisabledOptions = {}
    /\ d.multiple => /\ d.chosen = ToSet(d.valuesSelected) /\ d.ticked = d.chosen
                     /\ d.value = SelectLists!Shown(d.valuesSelected)
                     /\ d.valuesSelected \in Seq(ToSet(d.valuesSelected))
    /\ ~d.multiple => d.chosen = ToSet(d.value)
SelectInv == Agree(dom)

(* Another state of the list that shows the same choices. *)
Same(d, e) ==
    /\ DOMAIN e = SelectFields
    /\ e.multiple = d.multiple /\ e.chosen = d.chosen /\ e.ticked = d.ticked
    /\ e.valuesSelected = d.valuesSelected /\ e.value = d.value

LEMMA SameAgree == \A d, e : Agree(d) /\ Same(d, e) => Agree(e)
  BY DEF Agree, Same

LEMMA SelectOperators ==
  /\ \A t, S : SelectLists!Without(t, S) = Without(t, S)
  /\ \A t : SelectLists!ToSet(t) = ToSet(t)
<1>1. \A t, S : SelectLists!Without(t, S) = Without(t, S)
  BY DEF Without, SelectLists!Without
<1>2. \A t : SelectLists!ToSet(t) = ToSet(t)
  BY DEF ToSet, SelectLists!ToSet
<1>. QED
  BY <1>1, <1>2

(* The first option is a placeholder, as it is in the lists of the page.   *)
Placeholder == 0 \in DisabledOptions

LEMMA SelectBegin == Placeholder /\ SelectLists!Init => SelectInv
<1>. SUFFICES ASSUME Placeholder, SelectLists!Init PROVE SelectInv
  OBVIOUS
<1>. DEFINE Free == OptionNumbers \ DisabledOptions
<1>1. PICK multiple \in BOOLEAN,
           entries \in SelectLists!BoundedSeq(Free, SelectLists!Cardinality(Free)) :
         dom = [multiple |-> multiple, chosen |-> SelectLists!ToSet(entries),
                valuesSelected |-> IF multiple THEN entries ELSE <<>>,
                ticked |-> IF multiple THEN SelectLists!ToSet(entries) ELSE {},
                value |-> IF multiple /\ entries = <<>> THEN <<0>> ELSE entries,
                selected |-> SelectLists!NoOption,
                open |-> FALSE, optionsHover |-> FALSE, focus |-> FALSE,
                waiting |-> FALSE, filterQuery |-> <<>>]
  BY DEF SelectLists!Init
<1>2. entries \in Seq(Free)
  BY Bounded DEF SelectLists!BoundedSeq, SelectLists!SeqOf
<1>3. ToSet(entries) \subseteq Free /\ entries \in Seq(ToSet(entries))
  BY <1>2 DEF ToSet
<1>4. SelectLists!Shown(<<>>) = <<0>>
  <2>1. DisabledOptions # {} /\ \A j \in DisabledOptions : j \in Int /\ 0 <= j
    BY WidgetConstants DEF Placeholder, OptionNumbers
  <2>2. (CHOOSE i \in DisabledOptions : \A j \in DisabledOptions : i <= j) = 0
    BY <2>1 DEF Placeholder
  <2>. QED
    BY <2>1, <2>2 DEF SelectLists!Shown
<1>5. entries # <<>> => SelectLists!Shown(entries) = entries
  BY DEF SelectLists!Shown
<1>6. /\ DOMAIN dom = SelectFields /\ dom.multiple = multiple /\ dom.chosen = ToSet(entries)
      /\ multiple => dom.ticked = ToSet(entries) /\ dom.valuesSelected = entries
      /\ multiple /\ entries = <<>> => dom.value = <<0>>
      /\ ~(multiple /\ entries = <<>>) => dom.value = entries
  BY <1>1, SelectOperators DEF SelectFields
<1>. QED
  BY <1>3, <1>4, <1>5, <1>6 DEF SelectInv, Agree

(* A choice that is made or taken back. *)
LEMMA ClickAgrees ==
  ASSUME NEW d, Agree(d), NEW i
  PROVE  Agree(SelectLists!Clicked(d, i))
<1>1. CASE i \in DisabledOptions
  BY <1>1 DEF SelectLists!Clicked
<1>2. CASE i \notin DisabledOptions /\ ~d.multiple
  <2>. DEFINE e == [d EXCEPT !.value = <<i>>, !.ticked = {i}, !.chosen = {i}, !.selected = i]
  <2>1. SelectLists!Clicked(d, i) = e
    BY <1>2 DEF SelectLists!Clicked
  <2>2. ToSet(<<i>>) = {i}
    BY DEF ToSet
  <2>3. /\ DOMAIN e = SelectFields /\ e.multiple = d.multiple /\ e.chosen = {i}
        /\ e.value = <<i>>
    BY DEF Agree, SelectFields
  <2>. HIDE DEF e
  <2>. QED
    BY <1>2, <2>1, <2>2, <2>3 DEF Agree
<1>3. CASE i \notin DisabledOptions /\ d.multiple
  <2>. DEFINE vs == d.valuesSelected
              T == ToSet(vs) \cup {i}
              new == i \notin ToSet(vs)
              entries == IF new THEN Append(vs, i) ELSE Without(vs, {i})
              e == SelectLists!Toggled(d, i)
  <2>1. /\ DOMAIN d = SelectFields /\ vs \in Seq(ToSet(vs)) /\ d.chosen = ToSet(vs)
        /\ d.ticked = d.chosen /\ d.chosen \cap DisabledOptions = {}
    BY <1>3 DEF Agree
  <2>2. /\ DOMAIN e = SelectFields /\ e.multiple = d.multiple /\ e.valuesSelected = entries
        /\ e.value = SelectLists!Shown(entries)
        /\ e.ticked = IF new THEN d.ticked \cup {i} ELSE d.ticked \ {i}
        /\ e.chosen = IF new THEN d.chosen \cup {i} ELSE d.chosen \ {i}
    BY <2>1, SelectOperators DEF SelectLists!Toggled, SelectFields
  <2>3. vs \in Seq(T) /\ i \in T
    BY <2>1
  <2>. HIDE DEF vs, T
  <2>4. /\ new => ToSet(entries) = ToSet(vs) \cup {i}
        /\ ~new => ToSet(entries) = ToSet(vs) \ {i}
        /\ entries \in Seq(T)
    <3>1. Append(vs, i) \in Seq(T) /\ ToSet(Append(vs, i)) = ToSet(vs) \cup {i}
      BY <2>3, AddedToSet, AppendProperties
    <3>2. Without(vs, {i}) \in Seq(T) /\ ToSet(Without(vs, {i})) = ToSet(vs) \ {i}
      BY <2>3, WhatIsLeft
    <3>. QED
      BY <3>1, <3>2
  <2>. HIDE DEF entries, e
  <2>5. entries \in Seq(ToSet(entries))
    BY <2>4 DEF ToSet
  <2>6. Agree(e)
    BY <1>3, <2>1, <2>2, <2>4, <2>5 DEF Agree
  <2>7. SelectLists!Clicked(d, i) = [SelectLists!Focused(e) EXCEPT !.selected = i]
    BY <1>3 DEF SelectLists!Clicked, e
  <2>8. Same(e, SelectLists!Clicked(d, i))
    BY <2>2, <2>7 DEF Same, SelectLists!Focused, SelectFields
  <2>. QED
    BY <2>6, <2>8, SameAgree
<1>. QED
  BY <1>1, <1>2, <1>3

LEMMA SelectStep == SelectInv /\ SelectLists!Next => SelectInv'
<1>. SUFFICES ASSUME SelectInv, SelectLists!Next PROVE SelectInv'
  OBVIOUS
<1>1. DOMAIN dom = SelectFields /\ Agree(dom)
  BY DEF SelectInv, Agree
<1>2. ASSUME Same(dom, dom') PROVE SelectInv'
  BY <1>1, <1>2, SameAgree DEF SelectInv
<1>3. Agree(SelectLists!Blurred(dom)) /\ DOMAIN SelectLists!Blurred(dom) = SelectFields
  <2>1. Same(dom, SelectLists!Blurred(dom))
    BY <1>1 DEF Same, SelectLists!Blurred, SelectFields
  <2>. QED
    BY <1>1, <2>1, SameAgree DEF Same
<1>4. CASE SelectLists!Focus
  BY <1>1, <1>2, <1>4 DEF SelectLists!Focus, SelectLists!Focused, Same, SelectFields
<1>5. CASE SelectLists!Blur
  BY <1>3, <1>5 DEF SelectLists!Blur, SelectInv
<1>6. CASE SelectLists!Hover \/ SelectLists!TabKey \/ SelectLists!OpenKey \/ SelectLists!EscapeKey
  BY <1>1, <1>2, <1>6 DEF SelectLists!Hover, SelectLists!TabKey, SelectLists!OpenKey,
     SelectLists!EscapeKey, SelectLists!Typed, Same, SelectFields
<1>7. CASE SelectLists!ClickWindow
  <2>1. PICK d \in {dom, SelectLists!Blurred(dom)} : \E open :
           dom' = [d EXCEPT !.waiting = FALSE, !.open = open]
    BY <1>7 DEF SelectLists!ClickWindow
  <2>2. Agree(d) /\ DOMAIN d = SelectFields
    BY <1>1, <1>3, <2>1
  <2>3. Same(d, dom')
    BY <2>1, <2>2 DEF Same, SelectFields
  <2>. QED
    BY <2>2, <2>3, SameAgree DEF SelectInv
<1>8. ASSUME NEW i, SelectLists!ClickOption(i) PROVE SelectInv'
  BY <1>1, <1>3, <1>8, ClickAgrees DEF SelectLists!ClickOption, SelectInv
<1>9. CASE SelectLists!EnterKey
  <2>. DEFINE d == SelectLists!Clicked(dom, dom.selected)
  <2>1. dom' = dom \/ dom' = [d EXCEPT !.open = dom.multiple]
    BY <1>9 DEF SelectLists!EnterKey, SelectLists!Typed
  <2>2. Agree(d)
    BY <1>1, ClickAgrees
  <2>. HIDE DEF d
  <2>3. Same(d, [d EXCEPT !.open = dom.multiple])
    BY <2>2 DEF Agree, Same, SelectFields
  <2>. QED
    BY <1>1, <2>1, <2>2, <2>3, SameAgree DEF SelectInv
<1>10. ASSUME NEW d, NEW S, Same(dom, d), dom' = SelectLists!Activated(d, S) PROVE SelectInv'
  BY <1>2, <1>10 DEF SelectLists!Activated, Same, SelectFields
<1>11. Same(dom, dom)
  BY <1>1 DEF Same
<1>12. CASE SelectLists!DownKey
  BY <1>10, <1>11, <1>12 DEF SelectLists!DownKey, SelectLists!Typed
<1>13. CASE SelectLists!UpKey
  BY <1>10, <1>11, <1>13 DEF SelectLists!UpKey, SelectLists!Typed
<1>14. ASSUME NEW letter, SelectLists!LetterKey(letter) PROVE SelectInv'
  <2>. DEFINE d == [dom EXCEPT !.filterQuery = Append(dom.filterQuery, letter)]
  <2>1. Same(dom, d)
    BY <1>1 DEF Same, SelectFields
  <2>2. \E S : dom' = SelectLists!Activated(d, S)
    BY <1>14 DEF SelectLists!LetterKey, SelectLists!Typed
  <2>. HIDE DEF d
  <2>. QED
    BY <1>10, <2>1, <2>2
<1>15. ASSUME NEW k, SelectLists!ClearQuery(k) PROVE SelectInv'
  BY <1>1, <1>2, <1>15 DEF SelectLists!ClearQuery, Same, SelectFields
<1>. QED
  BY <1>4, <1>5, <1>6, <1>7, <1>8, <1>9, <1>12, <1>13, <1>14, <1>15 DEF SelectLists!Next

(* Where the first option of a select element is a placeholder, what a     *)
(* form or a program reads from chips, list and completion is what is seen *)
(* (materialize.js, deleteChip(), toggleEntryFromArray(), keyup of the     *)
(* completion).                                                            *)
DataInv ==
    /\ widget = "chips" => ChipsInv
    /\ widget = "select" => SelectInv
    /\ widget = "autocomplete" => CompletionsInv

THEOREM DataIsSeen == Placeholder => (Spec => []DataMatchesView)
<1>. SUFFICES ASSUME Placeholder PROVE Spec => []DataMatchesView
  OBVIOUS
<1>1. Init => DataInv
  BY ChipsBegin, SelectBegin, CompletionsBegin DEF Init, DataInv
<1>2. DataInv /\ [Next]_vars => DataInv'
  <2>. SUFFICES ASSUME DataInv, [Next]_vars PROVE DataInv'
    OBVIOUS
  <2>1. CASE Next
    BY <2>1, WidgetsStep, ChipsStep, SelectStep, CompletionsStep DEF DataInv
  <2>2. CASE UNCHANGED vars
    BY <2>2 DEF vars, DataInv, ChipsInv, Line, AtMostOne, SelectInv, Agree, CompletionsInv,
       Completions!InRange, Completions!DataMatchesView
  <2>. QED
    BY <2>1, <2>2
<1>3. DataInv => DataMatchesView
  <2>1. ChipsInv => ChipLines!DataMatchesView
    BY DEF ChipsInv, Line, ChipLines!DataMatchesView
  <2>2. SelectInv => SelectLists!DataMatchesView
    BY SelectOperators DEF SelectInv, Agree, SelectLists!DataMatchesView
  <2>. QED
    BY <2>1, <2>2 DEF DataInv, CompletionsInv, DataMatchesView
<1>. QED
  BY <1>1, <1>2, <1>3, PTL DEF Spec

(* At rest a carousel that is on its track, not sent past the end of a     *)
(* line without wrap last and not resized with a padding at full width, is *)
(* at an item, in a line without wrap one of the line, and it is the one   *)
(* that was asked for last, at whatever frame of a movement clicks, drags  *)
(* and resizes came (materialize.js, cycleTo(), release(), autoScroll()).  *)
(* The line of the completion that is marked is one that is listed.        *)
RangeInv ==
    /\ widget = "carousel" => CarouselInv
    /\ widget = "autocomplete" => CompletionsInv

THEOREM IndexesInRange == Spec => []InRange
<1>1. Init => RangeInv
  BY CarouselBegin, CompletionsBegin DEF Init, RangeInv
<1>2. RangeInv /\ [Next]_vars => RangeInv'
  <2>. SUFFICES ASSUME RangeInv, [Next]_vars PROVE RangeInv'
    OBVIOUS
  <2>1. CASE Next
    BY <2>1, WidgetsStep, CarouselStep, CompletionsStep DEF RangeInv
  <2>2. CASE UNCHANGED vars
    BY <2>2 DEF vars, RangeInv, CarouselInv, Placed, Goal, Arrives, CompletionsInv,
       Completions!InRange, Completions!DataMatchesView
  <2>. QED
    BY <2>1, <2>2
<1>3. RangeInv => InRange
  BY CarouselRests DEF RangeInv, CompletionsInv, InRange
<1>. QED
  BY <1>1, <1>2, <1>3, PTL DEF Spec

-----------------------------------------------------------------------------
(* All of the widgets *)

(* The same of a slider, a carousel and tabs. *)
LEMMA NothingTurns ==
  ASSUME dom' = dom, calls' = calls
  PROVE  /\ SeenInv => SeenInv'
         /\ CarouselInv /\ Marks(dom) => CarouselInv' /\ Marks(dom')
         /\ TabsInv => TabsInv'
<1>1. SeenInv => SeenInv'
  BY DEF SeenInv
<1>2. CarouselInv /\ Marks(dom) => CarouselInv' /\ Marks(dom')
  BY DEF CarouselInv
<1>3. TabsInv => TabsInv'
  BY DEF TabsInv, TabBars!OneSelected
<1>. QED
  BY <1>1, <1>2, <1>3

(* Whenever everything has come to rest, the bodies, lists, modals, panes, *)
(* texts, links, slides and items that are seen are those that are marked  *)
(* as open or active, though an animation was stopped, overtaken or cut    *)
(* short, within the limits that the property of each widget names: a      *)
(* closed modal is hidden, an open one may be hidden too (materialize.js,  *)
(* the handlers and the complete functions of the eight widgets).          *)
ShownInv ==
    /\ widget = "collapsible" => CollapseInv
    /\ widget = "dropdown" => MenuInv
    /\ widget = "modal" => ModalInv
    /\ widget = "tabs" => TabsInv
    /\ widget = "tooltip" => TooltipInv
    /\ widget = "scrollspy" => SpyInv
    /\ widget = "slider" => SeenInv
    /\ widget = "carousel" => CarouselInv /\ Marks(dom)

THEOREM SeenIsMarked == Spec => []ShownAsMarked
<1>1. Init => ShownInv
  BY CollapseBegins, MenuBegins, ModalBegins, TabsBegin, TooltipBegins, SpyBegins, SeenBegins,
     CarouselBegin, MarksBegin DEF Init, ShownInv
<1>2. ShownInv /\ [Next]_vars => ShownInv'
  <2>. SUFFICES ASSUME ShownInv, [Next]_vars PROVE ShownInv'
    OBVIOUS
  <2>1. CASE Next
    BY <2>1, WidgetsStep, CollapseStep, MenuStep, ModalStep, TabsStep, TooltipStep, SpyStep,
       SeenStep, CarouselStep, MarksStep DEF ShownInv
  <2>2. CASE UNCHANGED vars
    BY <2>2, NothingMoves, NothingTurns DEF vars, ShownInv
  <2>. QED
    BY <2>1, <2>2
<1>3. ShownInv => ShownAsMarked
  <2>1. TabsInv => TabBars!ShownAsMarked
    BY DEF TabsInv, TabBars!ShownAsMarked
  <2>. QED
    BY <2>1, CollapseRests, MenuRests, ModalRests, TooltipRests, SpyRests, SeenRests, MarksRest
       DEF ShownInv, ShownAsMarked
<1>. QED
  BY <1>1, <1>2, <1>3, PTL DEF Spec
=============================================================================
