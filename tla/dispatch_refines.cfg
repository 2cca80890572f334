\* The copy server's operations: its validate returns 0 for every message,
\* its accepts and handle are the user's.
CONSTANTS
    Requests <- MCRequests
    NoVerb = NoVerb
    Malformed = Malformed
    NoMsg = NoMsg
    UserReply = UserReply
    UserValidate = FALSE
    UserAccepts = TRUE
    UserHandle = TRUE
    MaxRequests = 3
SPECIFICATION Spec
INVARIANT TypeOK
PROPERTY ConnectionSpec
PROPERTY EndpointEventuallyClosed
\* The peer stops after MaxRequests requests and the server blocks in read().
CHECK_DEADLOCK FALSE
