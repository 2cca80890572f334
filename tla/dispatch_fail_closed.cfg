\* An application whose validator may reject a message.
CONSTANTS
    Requests <- MCRequests
    NoVerb = NoVerb
    Malformed = Malformed
    NoMsg = NoMsg
    UserReply = UserReply
    UserValidate = TRUE
    UserAccepts = FALSE
    UserHandle = FALSE
    MaxRequests = 2
SPECIFICATION Spec
PROPERTY ConnectionSpec
CHECK_DEADLOCK FALSE
