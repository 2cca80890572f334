\* Two heads and three entries: enough for an entry between two others,
\* a move within a list and across lists, and a splice into the middle of
\* a non-empty list, and a safe loop that
\* deletes some entries and skips others.
CONSTANTS
    Heads = {h1, h2}
    Entries = {e1, e2, e3}
    Null = Null
SPECIFICATION Spec
INVARIANT TypeOK
INVARIANT WellFormed
INVARIANT SafeIterationSound
PROPERTY ListSpec
SYMMETRY Symm
