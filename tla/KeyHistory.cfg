SPECIFICATION HistorySpec
CONSTANTS
    Clients = {a, b}
    Compositors = {o1, o2}
    Keys = {k, j}
    Flags = {f}
    PowerKeys = {}
    AnyKey = AnyKey
    ListenKeys = {}
    WildcardKey = WildcardKey
    AllClients = AllClients
    NoClient = NoClient
    NoCompositor = NoCompositor
    TopMode = TRUE
    PowerReleaseOnly = FALSE
SYMMETRY Symmetry
PROPERTIES
    InterceptedKeyNotReleasedToFocused
