\* A walk or a printed text ends.
CONSTANTS
    MaxNodes = 7
    bits_per_block = 3
SPECIFICATION Spec
INVARIANTS PathNamesNode PassesThroughWay ReadsBack AssembledReadsBack
CHECK_DEADLOCK FALSE
