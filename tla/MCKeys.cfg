SPECIFICATION MCSpec
CONSTANTS
    Clients = {a, b}
    Compositors = {o1, o2}
    Keys = {k, w, p}
    Flags = {f}
    PowerKeys = {p}
    AnyKey = AnyKey
    ListenKeys = {k, AnyKey}
    WildcardKey = w
    AllClients = AllClients
    NoClient = NoClient
    NoCompositor = NoCompositor
    TopMode = TRUE
    PowerReleaseOnly = FALSE
SYMMETRY Symmetry
PROPERTIES
    PressOnlyToManaged
    PowerKeyPaired
