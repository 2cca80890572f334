-------------------------- MODULE MCHermesDispatch --------------------------
(* Model-checking instance of HermesDispatch: the verbs of the default    *)
(* handler, one verb it does not know (COPY, the copy server's), a        *)
(* message without a verb and unparsable bytes.                            *)
EXTENDS HermesDispatch

MCRequests == {"PING", "INFO", "BYE", "COPY", NoVerb, Malformed}
=============================================================================
