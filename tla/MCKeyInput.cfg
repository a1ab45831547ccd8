SPECIFICATION MCSpec
CONSTANTS
    Cap = 2
    ResolveDelay = 0
    ModifierCodes = {"CTRL"}
    EggSpecs <- MCEggs
    Files <- MCFiles
    Keys <- MCKeys
    Codes <- MCCodes
    Mapping <- MCMapping
    ModifierOf <- MCModifierOf
    Remapped <- MCRemapped
    RepeatConfigs <- MCRepeatConfigs
    Intervals = {0, 1}
    Durations = {0, 1}
    GeneratedCodes = {"G"}
    MaxGenerated = 1
    MaxTyped = 3
    KeyMapFiles <- MCKeyMapFiles
    VirtualFiles <- MCVirtualFiles
    MaxHeld = 2
INVARIANTS
    EggCompletes
    KeyArrives
PROPERTIES
    EggWasTyped
    LongestEggWins
    GeneratedComesUp
