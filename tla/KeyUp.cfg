SPECIFICATION MCSpec
CONSTANTS
    Clients = {a, b}
    Compositors = {o1, o2}
    Keys = {k, j}
    Flags = {f, g}
    PowerKeys = {}
    AnyKey = AnyKey
    ListenKeys = {AnyKey}
    WildcardKey = WildcardKey
    AllClients = AllClients
    NoClient = NoClient
    NoCompositor = NoCompositor
    TopMode = TRUE
    PowerReleaseOnly = FALSE
    MaxSettings = 2
SYMMETRY Symmetry
INVARIANTS
    NoStuckKey
    OwedRelease
