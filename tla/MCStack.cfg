SPECIFICATION MCSpec
CONSTANTS
    Clients = {a, b, c}
    Compositors = {o1, o2, o3}
    Keys = {}
    Flags = {}
    PowerKeys = {}
    AnyKey = AnyKey
    ListenKeys = {}
    WildcardKey = WildcardKey
    AllClients = AllClients
    NoClient = NoClient
    NoCompositor = NoCompositor
    TopMode = TRUE
    PowerReleaseOnly = FALSE
    Ids = {1, 2, 3}
    ZOrders = {1, 2, 3}
    Pictures = {"p", "q"}
    SplashTimes = {0, 1, 2}
    MaxTime = 3
    Sizes = {1, 2}
    gForce720 = FALSE
    Size720 = 2
    HiddenSupport = FALSE
    Word = 64
    Far = 20
    Holes <- MCHoles
    MaxHoles = 2
    Contents <- Decoded
    PictureSizes <- MCPictureSizes
    ScreenHeights = {3, 4}
    ScreenWidth = 4
INVARIANTS
    FocusIsManaged
    ImagesAreShown
    PixelsAreShown
    HoleIsAroundAll
PROPERTIES
    ZOrderIsKept
    KilledCompositorReleased
    OutputFollows
