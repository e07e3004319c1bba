SPECIFICATION CodeSpec
CONSTANTS
    Functions <- MCFunctions
    GpArguments <- MCGpArguments
    XmmArguments <- MCXmmArguments
    MaxBlocks = 5
INVARIANTS
    SameEffects
    SameDecisions
    DefinedBeforeRead
    DiesOnlyOnUnlowered
