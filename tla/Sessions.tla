------------------------------- MODULE Sessions -------------------------------
(***************************************************************************)
(* The pipeline of requests together with the tokens they bring: a request *)
(* by HTTP has the scopes of the client's token, if VerifyToken accepts    *)
(* it; the interceptor of gRPC takes them from a header as they are.       *)
(***************************************************************************)
EXTENDS Gateway, Login

VARIABLE late   \* history: requests that came in a lifetime after the scope was withdrawn

sessionVars == <<vars, loginVars, late>>

SessionsInit == Init /\ LoginInit /\ late = {}

-----------------------------------------------------------------------------
\* NewMiddleware: without a token that VerifyToken accepts the request ends there.
HttpRequest(r) ==
  /\ \E in \in Input :
       /\ ArriveHttp(r, in)
       /\ in.token => VerifyToken(in.scope)
  /\ late' = IF since = Lifetime THEN late \cup {r} ELSE late
  /\ UNCHANGED loginVars

\* UnaryAuthInterceptor: a header must be there, and lists the scopes.
GrpcRequest(r) ==
  /\ \E in \in Input : ArriveGrpc(r, in)
  /\ UNCHANGED <<loginVars, late>>

SessionsNext ==
  \/ \E r \in Request : HttpRequest(r) \/ GrpcRequest(r)
  \/ ((\E r \in Request : Handler(r)) \/ ControlPlane \/ Crash) /\ UNCHANGED <<loginVars, late>>
  \/ LoginNext /\ UNCHANGED <<vars, late>>

SessionsSpec == SessionsInit /\ [][SessionsNext]_sessionVars

-----------------------------------------------------------------------------
(* Taking a scope away works, if late: a request by HTTP that comes in when *)
(* the row has not granted the scope for the lifetime of a token, nor has a *)
(* login that read the row before been under way, gets nowhere, whatever    *)
(* old token its client has kept.                                           *)
RevocationStops == \A r \in late : Stopped(r)
=============================================================================
