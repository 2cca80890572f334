\* Well-formed messages whose tokens have a '.' inside but never before a
\* newline, and raw streams with every kind of Content-Length value.  A
\* header of up to 14 bytes fits (HERMES_MAX_HDR_SIZE is 1024): some clean
\* messages have exactly 14, some raw streams more.
CONSTANTS
    MaxHdr = 14
    Messages <- CleanMessages
    RawInputs <- RawStreams
    NoMsg = NoMsg
SPECIFICATION Spec
INVARIANT TypeOK
INVARIANT RoundTrip
INVARIANT ParsedBodySizeConsistent
\* hms_msg_parse returns once per stream.
CHECK_DEADLOCK FALSE
