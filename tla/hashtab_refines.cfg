\* An application calling every hashtab operation on one table.
CONSTANTS
    Keys <- MCKeys
    Hash <- MCHash
    Data = {d1, d2}
    Size = 2
    MaxNodes = 2
    Missing = Missing
    Null = Null
    NoIter = NoIter
SPECIFICATION Spec
INVARIANT TypeOK
INVARIANT RepInvariant
PROPERTY DictSpec
PROPERTY IterationComplete
PROPERTY StatCorrect
