SPECIFICATION SpacedFairSpec
CONSTANTS
    Names = {a, b}
    standardizeName <- Same
    Compositors = {o1, o2}
    NoCompositor = NoCompositor
    Targets <- MCTargets
    Screen = 1
    Between = Between
    Unspecified = Unspecified
    MaxDelay = 1
    MaxDuration = 1
INVARIANTS
    AnimationsAreLive
PROPERTIES
    EndsAtDestination
    Settles
