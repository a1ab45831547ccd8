SPECIFICATION MCSpec
CONSTANTS
    Clients = {a, b, c, d}
    Compositors = {o1, o2, o3, o4}
    Keys = {k}
    Flags = {f}
    PowerKeys = {}
    AnyKey = AnyKey
    ListenKeys = {k}
    WildcardKey = WildcardKey
    AllClients = AllClients
    NoClient = NoClient
    NoCompositor = NoCompositor
    TopMode = TRUE
    PowerReleaseOnly = FALSE
PROPERTIES
    WalkIsOneStep
