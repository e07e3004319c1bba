SPECIFICATION Spec
CONSTANT Bits <- MCBits
CONSTANT Precision <- MCPrecision
CONSTANT Programs <- MCPrograms
CONSTANT Starts <- MCStarts
INVARIANTS
    ComputesOperation SelectionFollowsComparison NothingElseChanges TempsSuffice UpperHalfClear
