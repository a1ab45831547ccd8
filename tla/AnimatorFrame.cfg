SPECIFICATION Spec
CONSTANTS
    Names = {a, b, c}
    standardizeName <- Same
    Compositors = {o1, o2, o3}
    NoCompositor = NoCompositor
    Targets <- MCTargets
    Screen = 1
    Between = Between
    Unspecified = Unspecified
    MaxDelay = 1
    MaxDuration = 2
SYMMETRY Symmetry
PROPERTIES
    EndsAtDestination
