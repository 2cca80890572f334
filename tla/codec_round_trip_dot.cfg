\* Messages of the spec's round-trip domain, one verb ending in '.'.
CONSTANTS
    MaxHdr = 14
    Messages <- SpecMessages
    RawInputs <- NoInputs
    NoMsg = NoMsg
SPECIFICATION Spec
INVARIANT RoundTrip
\* hms_msg_parse returns once per stream.
CHECK_DEADLOCK FALSE
