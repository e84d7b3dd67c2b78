------------------------------- MODULE Gateway -------------------------------
(***************************************************************************)
(* The way of a request through the gateway: the middleware chain of the   *)
(* HTTP server (authentication, kill switch, sandbox mark) or the gRPC     *)
(* interceptor, and then ProcessAction (internal/engine/gateway.go), which *)
(* reads the policy, asks the risk analyzer, looks at the sandbox list and *)
(* simulates, holds back or executes the action.                           *)
(*                                                                         *)
(* Each stage reads a cache in RAM that other goroutines change meanwhile  *)
(* (modules StateSync and PolicyCache say how).  The caches are keyed by   *)
(* agent and capability, so one agent with one capability is modelled.     *)
(* Approvals and Reliability detail the states "held" and "calling".       *)
(***************************************************************************)
EXTENDS Naturals

CONSTANTS
  Request,  \* requests of the agent for the capability
  Effects,  \* effects policies have: those of the domain, or "" for none
  Vias      \* the ways requests come in, "http" and "grpc"

ASSUME EffectsAssumption == "DENY" \in Effects
ASSUME ViasAssumption    == Vias \subseteq {"http", "grpc"}

\* limit: a threshold for the risk field is given, which only ALLOW looks at.
Policy == {p \in [effect : Effects, limit : BOOLEAN] : p.limit => p.effect = "ALLOW"}

\* What a request brings along: a valid token, the scope of the capability,
\* the agent's id in the header the kill switch reads, a value above the limit.
Input == [via : Vias, token : BOOLEAN, scope : BOOLEAN, named : BOOLEAN, risky : BOOLEAN]

VARIABLES
  policy, blocked, sandboxed,  \* the caches: MemoEnforcer and two managers (nothing reads the third)
  pc,        \* where the goroutine of each request is
  input,     \* what the request brought along
  outcome,   \* how it ended
  marked,    \* the answer carries the header X-DevIT-Mode: Sandbox
  approved,  \* an operator approved it
  live,      \* the action was handed to the executor
  logged,    \* an audit event was handed to AgentFS
  policies,  \* history: the policies in force since the request came in
  off        \* history: the lists the agent has been off at some time since then

caches  == <<policy, blocked, sandboxed>>
reqVars == <<pc, input, outcome, marked, approved, live, logged>>
history == <<policies, off>>
vars    == <<caches, reqVars, history>>

\* The lists the agent is not on.
Off == {l \in {"blocked", "sandboxed"} : IF l = "blocked" THEN ~blocked ELSE ~sandboxed}

NoInput == [via |-> "none", token |-> FALSE, scope |-> FALSE, named |-> FALSE, risky |-> FALSE]

Init ==
  /\ policy \in Policy
  /\ blocked \in BOOLEAN /\ sandboxed \in BOOLEAN
  /\ pc = [r \in Request |-> "idle"]
  /\ input = [r \in Request |-> NoInput]
  /\ outcome = [r \in Request |-> "none"]
  /\ marked = [r \in Request |-> FALSE]
  /\ approved = [r \in Request |-> FALSE]
  /\ live = [r \in Request |-> FALSE]
  /\ logged = [r \in Request |-> FALSE]
  /\ policies = [r \in Request |-> {}] /\ off = [r \in Request |-> {}]

-----------------------------------------------------------------------------
(* Decisions *)

\* Policy.Decide: no effect is as good as none.
Decide(p) == IF p.effect = "" THEN "DENY" ELSE p.effect

\* Defect: the limit of the policy is not looked at.
IsRequiredNoLimit(p, risky) == p.effect = "QUARANTINE"

\* Analyzer.IsRequired.  A payload or a condition that cannot be read is not risky.
IsRequired(p, risky) == p.effect = "QUARANTINE" \/ (p.effect = "ALLOW" /\ p.limit /\ risky)

-----------------------------------------------------------------------------
(* A request *)

Goto(r, label) == pc' = [pc EXCEPT ![r] = label] /\ UNCHANGED outcome

End(r, how) == pc' = [pc EXCEPT ![r] = "ended"] /\ outcome' = [outcome EXCEPT ![r] = how]

\* Authentication; what comes next depends on the server.
Authenticate(r, in, next) ==
  /\ pc[r] = "idle"
  /\ input' = [input EXCEPT ![r] = in]
  /\ IF in.token THEN Goto(r, next) ELSE End(r, "unauthorized")
  /\ policies' = [policies EXCEPT ![r] = {policy}] /\ off' = [off EXCEPT ![r] = Off]
  /\ UNCHANGED <<caches, marked, approved, live, logged>>

ArriveHttp(r, in) == in.via = "http" /\ Authenticate(r, in, "killSwitch")

\* The interceptor leads straight to ProcessAction.
ArriveGrpc(r, in) == in.via = "grpc" /\ Authenticate(r, in, "process")

\* Defect: the kill switch lets every request pass.
KillSwitchOff(r) ==
  /\ pc[r] = "killSwitch"
  /\ Goto(r, "mark")
  /\ UNCHANGED <<caches, input, marked, approved, live, logged, history>>

KillSwitch(r) ==
  /\ pc[r] = "killSwitch"
  /\ IF input[r].named /\ blocked THEN End(r, "blocked") ELSE Goto(r, "mark")
  /\ UNCHANGED <<caches, input, marked, approved, live, logged, history>>

\* The sandbox middleware marks the answer; nobody reads what it puts into the context.
SandboxMark(r) ==
  /\ pc[r] = "mark"
  /\ marked' = [marked EXCEPT ![r] = sandboxed]
  /\ Goto(r, "process")
  /\ UNCHANGED <<caches, input, approved, live, logged, history>>

\* ProcessAction up to the risk analysis, all of it from one copy of the policy.
Process(r) ==
  /\ pc[r] = "process"
  /\ IF ~input[r].scope \/ Decide(policy) = "DENY" THEN End(r, "denied")
     ELSE Goto(r, IF IsRequired(policy, input[r].risky) THEN "held"
                  ELSE IF Decide(policy) = "SANDBOX" THEN "simulate" ELSE "mode")
  /\ UNCHANGED <<caches, input, marked, approved, live, logged, history>>

\* Defect: the mark of the middleware decides, read before the policy was.
ModeByMark(r) ==
  /\ pc[r] = "mode"
  /\ IF marked[r] THEN Goto(r, "simulate") /\ UNCHANGED live
     ELSE Goto(r, "calling") /\ live' = [live EXCEPT ![r] = TRUE]
  /\ UNCHANGED <<caches, input, marked, approved, logged, history>>

\* The sandbox list is read a second time.
Mode(r) ==
  /\ pc[r] = "mode"
  /\ IF sandboxed THEN Goto(r, "simulate") /\ UNCHANGED live
     ELSE Goto(r, "calling") /\ live' = [live EXCEPT ![r] = TRUE]
  /\ UNCHANGED <<caches, input, marked, approved, logged, history>>

\* Defect: the answer is sent and the event is left out.
SimulateUnlogged(r) ==
  /\ pc[r] = "simulate"
  /\ End(r, "simulated")
  /\ UNCHANGED <<caches, input, marked, approved, live, logged, history>>

\* executeSandbox hands the event to AgentFS and answers.
Simulate(r) ==
  /\ pc[r] = "simulate"
  /\ logged' = [logged EXCEPT ![r] = TRUE]
  /\ End(r, "simulated")
  /\ UNCHANGED <<caches, input, marked, approved, live, history>>

\* handleMandatoryApproval: an approved request goes to the executor at once.
Approve(r) ==
  /\ pc[r] = "held"
  /\ approved' = [approved EXCEPT ![r] = TRUE]
  /\ live' = [live EXCEPT ![r] = TRUE]
  /\ Goto(r, "calling")
  /\ UNCHANGED <<caches, input, marked, logged, history>>

\* Rejection, timeout, hang-up, or the row could not be created.
NotApproved(r) ==
  /\ pc[r] = "held"
  /\ End(r, "notApproved")
  /\ UNCHANGED <<caches, input, marked, approved, live, logged, history>>

\* The executor answers or fails.
Executed(r) ==
  /\ pc[r] = "calling"
  /\ \E how \in {"answered", "failed"} : End(r, how)
  /\ UNCHANGED <<caches, input, marked, approved, live, logged, history>>

-----------------------------------------------------------------------------
(* The caches, changed by the listeners *)

Under(r) == pc[r] \notin {"idle", "ended"}

Changed ==
  /\ caches' # caches
  /\ policies' = [r \in Request |-> IF Under(r) THEN policies[r] \cup {policy'} ELSE policies[r]]
  /\ off' = [r \in Request |-> IF Under(r) THEN off[r] \cup Off' ELSE off[r]]
  /\ UNCHANGED reqVars

ControlPlane ==
  \/ policy' \in Policy /\ UNCHANGED <<blocked, sandboxed>> /\ Changed
  \/ blocked' = ~blocked /\ UNCHANGED <<policy, sandboxed>> /\ Changed
  \/ sandboxed' = ~sandboxed /\ UNCHANGED <<policy, blocked>> /\ Changed

\* The process ends, and with it every request under way: nobody gets an answer,
\* an executor that was called may have acted.  The next process begins with
\* whatever its caches then hold.
Crash ==
  /\ \E r \in Request : Under(r)
  /\ pc' = [r \in Request |-> IF Under(r) THEN "ended" ELSE pc[r]]
  /\ outcome' = [r \in Request |-> IF Under(r) THEN "lost" ELSE outcome[r]]
  /\ policy' \in Policy /\ blocked' \in BOOLEAN /\ sandboxed' \in BOOLEAN
  /\ UNCHANGED <<input, marked, approved, live, logged, history>>

-----------------------------------------------------------------------------
Handler(r) ==
  \/ KillSwitch(r) \/ SandboxMark(r) \/ Process(r) \/ Mode(r) \/ Simulate(r)
  \/ Approve(r) \/ NotApproved(r) \/ Executed(r)

Next ==
  \/ \E r \in Request : (\E in \in Input : ArriveHttp(r, in) \/ ArriveGrpc(r, in)) \/ Handler(r)
  \/ ControlPlane \/ Crash

Spec == Init /\ [][Next]_vars

-----------------------------------------------------------------------------
(* Type invariant; a request has an outcome if and only if it has ended, and *)
(* AgentFS has the event of a request when its simulated answer is sent, and *)
(* of no other.                                                             *)
TypeOK ==
  /\ policy \in Policy
  /\ blocked \in BOOLEAN /\ sandboxed \in BOOLEAN
  /\ pc \in [Request -> {"idle", "killSwitch", "mark", "process", "mode", "simulate",
                         "held", "calling", "ended"}]
  /\ input \in [Request -> Input \cup {NoInput}]
  /\ outcome \in [Request -> {"none", "unauthorized", "blocked", "denied", "simulated",
                              "notApproved", "answered", "failed", "lost"}]
  /\ \A r \in Request : outcome[r] # "none" <=> pc[r] = "ended"
  /\ \A r \in Request : logged[r] <=> outcome[r] = "simulated"
  /\ marked \in [Request -> BOOLEAN] /\ approved \in [Request -> BOOLEAN]
  /\ live \in [Request -> BOOLEAN] /\ logged \in [Request -> BOOLEAN]
  /\ policies \in [Request -> SUBSET Policy]
  /\ off \in [Request -> SUBSET {"blocked", "sandboxed"}]

\* The policy lets the action pass without a human.
Permits(p, risky) == p.effect = "ALLOW" /\ ~(p.limit /\ risky)

(* Nothing is executed that no policy in force since the request came in    *)
(* lets pass: not without a human unless some policy permitted it, and not  *)
(* at all if every one denied it, however the policies were changed         *)
(* between the stages.                                                      *)
LiveIsCovered ==
  \A r \in Request : live[r] =>
    \/ \E p \in policies[r] : Permits(p, input[r].risky)
    \/ approved[r] /\ \E p \in policies[r] : IsRequired(p, input[r].risky)

(* An agent in the sandbox from the beginning of its request to the end     *)
(* reaches no real system unless an operator approves.                      *)
SandboxHolds ==
  \A r \in Request :
    live[r] /\ ~approved[r] => "sandboxed" \in off[r]

\* Nothing is executed, simulated or put before an operator for the request.
Stopped(r) == ~live[r] /\ pc[r] # "held" /\ outcome[r] \notin {"notApproved", "simulated"}

(* An agent blocked from the beginning of its HTTP request gets nowhere.    *)
KillSwitchHolds ==
  \A r \in Request :
    input[r].via = "http" /\ input[r].named /\ "blocked" \notin off[r] => Stopped(r)
=============================================================================
