\* Raw streams from a peer, among them Content-Length values -1 and -2.
CONSTANTS
    MaxHdr = 14
    Messages <- NoInputs
    RawInputs <- RawStreams
    NoMsg = NoMsg
SPECIFICATION Spec
INVARIANT ParseNeverAborts
\* hms_msg_parse returns once per stream.
CHECK_DEADLOCK FALSE
