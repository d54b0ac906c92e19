---------------------------- MODULE MCMiddleware ----------------------------
(* A user who states a constraint and asks a question, then corrects it.    *)
EXTENDS Middleware

MCUserText == <<"first", "second">>
MCClaimsOf == [m \in {"first", "second"} |-> IF m = "first" THEN {"selfhosted", "which"} ELSE {"cheap"}]
MCTextOf == [t \in {"read", "recall"} |-> IF t = "read" THEN {"latency"} ELSE {"recalled"}]
=============================================================================
