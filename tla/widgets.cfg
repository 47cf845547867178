SPECIFICATION Spec
CONSTANTS
    Events <- SomeEvents
    Made <- SomeMade
    HeaderCount = 3
    ModalElements = {1, 2}
    TooltipDelays = {50, 350}
    ToastLengths = {0, 1, 2}
    SectionCount = 3
    TabLinks = {0, 1, 2}
    SlideCount = 3
    SlideTicks = 2
    ChipTags = {red, blue}
    ChipLimit = 4
    CarouselCount = 3
    CarouselDim = 2
    CarouselPaddings = {0, 1}
    Pull = 3
    Entries <- SomeEntries
    TypedValues <- SomeTyped
    ListLimit = 2
    OptionNames <- SomeNames
    DisabledOptions = {0, 2}
INVARIANTS
    NothingLeftBehind
    OneSelected
    ShownAsMarked
    Told
    DataMatchesView
    InRange
CHECK_DEADLOCK FALSE
