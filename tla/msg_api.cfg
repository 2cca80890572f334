\* Every call sequence of an application that names only its own keys: two
\* verbs, two values, one key, bodies of one and two bytes, up to three
\* unnamed headers, destroy and re-create.
CONSTANTS
    Verbs <- MCVerbs
    Values <- MCValues
    Keys <- UserKeys
    Bodies <- MCBodies
    MaxHeaders = 3
SPECIFICATION Spec
INVARIANT TypeOK
INVARIANT BodyLengthAgrees
INVARIANT NamedKeysUnique
INVARIANT CountersAgree
PROPERTY GetHeaderReturnsIndexed
PROPERTY HeaderMapSpec
