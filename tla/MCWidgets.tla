------------------------------ MODULE MCWidgets ------------------------------
(***************************************************************************)
(* The widgets of src/monitor/web/js/materialize.js.  They share no state: *)
(* `widget', chosen at the beginning, says whose dom, calls and events the *)
(* variables are.                                                          *)
(***************************************************************************)
EXTENDS Integers, Sequences, SequencesExt

CONSTANTS
    Events,                            \* how often somebody touches a widget
    Made,                              \* how many instances, toasts and overlays are made
    HeaderCount,                       \* of the collapsible
    ModalElements,
    TooltipDelays,
    ToastLengths,
    SectionCount,                      \* of the page that is spied on
    TabLinks,
    SlideCount, SlideTicks,
    ChipTags, ChipLimit,
    CarouselCount, CarouselDim, CarouselPaddings, Pull,
    Entries, TypedValues, ListLimit,   \* of the autocompletion
    OptionNames, DisabledOptions       \* of the select element

OptionNumbers == 0 .. Len(OptionNames) - 1

ASSUME WidgetConstants ==
    /\ HeaderCount \in Nat /\ SectionCount \in Nat
    /\ ToastLengths \subseteq Nat
    /\ SlideCount \in Nat \ {0}
    /\ CarouselCount \in Nat \ {0} /\ CarouselDim \in Nat \ {0} /\ Pull \in Nat
    /\ CarouselPaddings \subseteq Nat
    /\ Entries \in Seq(ToSet(Entries)) /\ ListLimit \in Nat
    /\ <<"undefined">> \notin TypedValues \cup ToSet(Entries)
    /\ DisabledOptions \subseteq OptionNumbers

VARIABLES widget, dom, calls, events
vars == <<widget, dom, calls, events>>

Collapsibles == INSTANCE Collapsible
    WITH Count <- HeaderCount, MaxEvents <- Events.collapsible
Dropdowns == INSTANCE Dropdown WITH MaxEvents <- Events.dropdown
ModalWindows == INSTANCE Modal
    WITH Modals <- ModalElements, MaxInstances <- Made.instances, MaxEvents <- Events.modal
Boxes == INSTANCE Materialbox WITH MaxEvents <- Events.materialbox
TabBars == INSTANCE Tabs WITH Links <- TabLinks, MaxEvents <- Events.tabs
Tooltips == INSTANCE Tooltip WITH Delays <- TooltipDelays, MaxEvents <- Events.tooltip
Messages == INSTANCE Toasts
    WITH Lengths <- ToastLengths, MaxToasts <- Made.toasts, MaxEvents <- Events.toasts
Menus == INSTANCE SideNav WITH MaxOverlays <- Made.overlays, MaxEvents <- Events.sidenav
Spies == INSTANCE ScrollSpy WITH Count <- SectionCount, MaxEvents <- Events.scrollspy
Sliders == INSTANCE Slider
    WITH Count <- SlideCount, MaxEvents <- Events.slider, MaxTicks <- SlideTicks
ChipLines == INSTANCE Chips
    WITH Tags <- ChipTags, MaxChips <- ChipLimit, MaxEvents <- Events.chips
Carousels == INSTANCE Carousel
    WITH Count <- CarouselCount, Dim <- CarouselDim, Paddings <- CarouselPaddings,
         MaxPull <- Pull, MaxEvents <- Events.carousel
Completions == INSTANCE Autocomplete
    WITH Data <- Entries, Values <- TypedValues, Limit <- ListLimit, MaxEvents <- Events.autocomplete

NameStarts(i, query) ==
    /\ Len(query) <= Len(OptionNames[i + 1])
    /\ SubSeq(OptionNames[i + 1], 1, Len(query)) = query
SelectLists == INSTANCE Select
    WITH Options <- OptionNumbers, Disabled <- DisabledOptions, StartsWith <- NameStarts,
         Letters <- {"x", "y", "z"}, MaxEvents <- Events.select

(* Values for model checking *)
SomeEvents ==
    [collapsible |-> 4, dropdown |-> 6, modal |-> 6, materialbox |-> 7, tabs |-> 4,
     tooltip |-> 7, toasts |-> 6, sidenav |-> 5, scrollspy |-> 4, slider |-> 3, chips |-> 5,
     carousel |-> 4, autocomplete |-> 6, select |-> 4]

SomeMade == [instances |-> 3, toasts |-> 3, overlays |-> 3]

(* More entries fit than are shown, and one of them fits what they become. *)
SomeEntries == <<<<"x">>, <<"x", "y">>, <<"y", "x", "y">>>>
SomeTyped == {<<>>, <<"x">>, <<"y">>, <<"x", "y">>}

(* A placeholder and three options, one of them disabled *)
SomeNames == <<<<"-">>, <<"x", "y">>, <<"y">>, <<"x", "z">>>>
-----------------------------------------------------------------------------
Init ==
    \/ widget = "collapsible" /\ Collapsibles!Init
    \/ widget = "dropdown" /\ Dropdowns!Init
    \/ widget = "modal" /\ ModalWindows!Init
    \/ widget = "materialbox" /\ Boxes!Init
    \/ widget = "tabs" /\ TabBars!Init
    \/ widget = "tooltip" /\ Tooltips!Init
    \/ widget = "toasts" /\ Messages!Init
    \/ widget = "sidenav" /\ Menus!Init
    \/ widget = "scrollspy" /\ Spies!Init
    \/ widget = "slider" /\ Sliders!Init
    \/ widget = "chips" /\ ChipLines!Init
    \/ widget = "carousel" /\ Carousels!Init
    \/ widget = "autocomplete" /\ Completions!Init
    \/ widget = "select" /\ SelectLists!Init

Next ==
    \/ widget = "collapsible" /\ Collapsibles!Next /\ UNCHANGED widget
    \/ widget = "dropdown" /\ Dropdowns!Next /\ UNCHANGED widget
    \/ widget = "modal" /\ ModalWindows!Next /\ UNCHANGED widget
    \/ widget = "materialbox" /\ Boxes!Next /\ UNCHANGED widget
    \/ widget = "tabs" /\ TabBars!Next /\ UNCHANGED widget
    \/ widget = "tooltip" /\ Tooltips!Next /\ UNCHANGED widget
    \/ widget = "toasts" /\ Messages!Next /\ UNCHANGED widget
    \/ widget = "sidenav" /\ Menus!Next /\ UNCHANGED widget
    \/ widget = "scrollspy" /\ Spies!Next /\ UNCHANGED widget
    \/ widget = "slider" /\ Sliders!Next /\ UNCHANGED widget
    \/ widget = "chips" /\ ChipLines!Next /\ UNCHANGED widget
    \/ widget = "carousel" /\ Carousels!Next /\ UNCHANGED widget
    \/ widget = "autocomplete" /\ Completions!Next /\ UNCHANGED widget
    \/ widget = "select" /\ SelectLists!Next /\ UNCHANGED widget

Spec == Init /\ [][Next]_vars
-----------------------------------------------------------------------------
(* Properties *)

(* When everything has come to rest, no overlay, listener, element or lock *)
(* of the page's scrolling is left of what is no longer there, within the  *)
(* limits each component states: a side menu touched while something moves *)
(* keeps no overlay without its pane only if nobody pans it, a modal       *)
(* destroyed while it is open stays open, and a drop-down closed before    *)
(* its time-out of 0 keeps its handler.                                    *)
NothingLeftBehind ==
    /\ widget = "modal" => ModalWindows!NothingLeftBehind
    /\ widget = "sidenav" => Menus!NothingLeftBehind
    /\ widget = "materialbox" => Boxes!NothingLeftBehind
    /\ widget = "toasts" => Messages!NothingLeftBehind
    /\ widget = "dropdown" => Dropdowns!NothingLeftBehind

(* Exactly one slide and at most one chip is the chosen one, and, besides  *)
(* those the page itself has marked, one tab, at every moment of every     *)
(* animation.                                                              *)
OneSelected ==
    /\ widget = "tabs" => TabBars!OneSelected
    /\ widget = "slider" => Sliders!OneSelected
    /\ widget = "chips" => ChipLines!OneSelected

(* When everything has come to rest, what is seen is what is marked as     *)
(* open or active, within the limits each component states.                *)
ShownAsMarked ==
    /\ widget = "collapsible" => Collapsibles!ShownAsMarked
    /\ widget = "dropdown" => Dropdowns!ShownAsMarked
    /\ widget = "modal" => ModalWindows!ShownAsMarked
    /\ widget = "tabs" => TabBars!ShownAsMarked
    /\ widget = "tooltip" => Tooltips!ShownAsMarked
    /\ widget = "scrollspy" => Spies!ShownAsMarked
    /\ widget = "slider" => Sliders!ShownAsMarked
    /\ widget = "carousel" => Carousels!ShownAsMarked

(* The page's callbacks and events have told of everything that opened and *)
(* closed, or came into view and left it.                                  *)
Told ==
    /\ widget = "collapsible" => Collapsibles!Told
    /\ widget = "scrollspy" => Spies!Told

(* The data that a form or a program reads are the ones that are seen.     *)
DataMatchesView ==
    /\ widget = "chips" => ChipLines!DataMatchesView
    /\ widget = "select" => SelectLists!DataMatchesView
    /\ widget = "autocomplete" => Completions!DataMatchesView

(* A carousel that is on its track rests on an item, the one that was      *)
(* asked for, and the completion's index stays that of an entry.           *)
InRange ==
    /\ widget = "carousel" => Carousels!InRange
    /\ widget = "autocomplete" => Completions!InRange
=============================================================================
