SPECIFICATION MCSpec
CONSTANTS
    Clients = {a, b}
    Compositors = {o1, o2, o3}
    Keys = {k}
    Flags = {f}
    PowerKeys = {}
    AnyKey = AnyKey
    ListenKeys = {k, AnyKey}
    WildcardKey = WildcardKey
    AllClients = AllClients
    NoClient = NoClient
    NoCompositor = NoCompositor
    TopMode = TRUE
    PowerReleaseOnly = FALSE
SYMMETRY Symmetry
PROPERTIES
    PressReachesSomeone
