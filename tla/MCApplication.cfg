SPECIFICATION MCSpec
CONSTANTS
    Strangers = {"s1"}
    Modules = {m1, m2}
    PipeSize = 2
    MaxEvents = 3
    Environments <- MCEnvironments
    Force1080 = TRUE
    BoxResolution <- MCBoxResolution
    MaxStarts = 3
    Objects = {o1, o2, o3}
    Spellings = {"app", "App", "other"}
    LowerCase <- MCLowerCase
    NotText = NotText
    PermissionFiles <- MCPermissionFiles
    Unreadable = Unreadable
    Extensions = {"e1", "e2"}
    Outsiders = {p1, p2}
    DeviceFiles <- MCDeviceFiles
    Unread = Unread
    Devices <- MCDevices
    ExtendedIr = TRUE
INVARIANTS
    ToldTheState
    NothingLeftBehind
    OnlyTheApplicationIsKilled
    ToldModulesLive
    ClientsGetDisplays
    NothingBorrowed
PROPERTIES
    EarlySuspendTakesEffect
    KilledDisplayGoes
    PipesAreEmptied
    SplashOncePerBoot
CHECK_DEADLOCK FALSE
