SPECIFICATION Spec
CONSTANTS
    Cases <- MCCases
    Filters <- MCFilters
    Hashes <- MCHashes
    ShardCount = 2
    JobVerdicts = {"pass", "fail", "crashed"}
INVARIANT TypeOK
INVARIANT ShardsPartition
INVARIANT DeclarationOrder
INVARIANT FilterSelectsAsDocumented
INVARIANT MergeGatesThePipeline
INVARIANT JUnitAddsUp
