------------------------------ MODULE Approvals ------------------------------
(***************************************************************************)
(* Human in the loop: a request the policy or the risk analysis holds back *)
(* (internal/engine/gateway.go, handleMandatoryApproval) and the operators *)
(* who decide about it in the console (AgentService.DecideApproval).       *)
(*                                                                         *)
(* Gateway and console meet in two places only: the row of the request in  *)
(* the table approvals, and a Redis Pub/Sub channel named after the        *)
(* execution id.  Pub/Sub keeps nothing: a message reaches a subscription  *)
(* that is active when it is published, or nobody.                         *)
(***************************************************************************)
EXTENDS Naturals, Sequences

CONSTANTS
  Request,     \* requests held back, each with its goroutine in the gateway
  Call,        \* calls of DecideApproval by operators
  RedisFaults  \* TRUE: connections break, publishing fails

ASSUME RedisFaultsAssumption == RedisFaults \in BOOLEAN

Decision == {"APPROVED", "REJECTED"}

VARIABLES
  row,      \* status column of the request's row, "none" before the INSERT
  reqPc,    \* where the goroutine of the request is, or how it ended
  sub,      \* its subscription: "none", "asked" for, or "active" in Redis
  inbox,    \* messages the subscription has received
  executed, \* how often the request was handed to the executor
  callPc,   \* where each DecideApproval call is, or how it ended
  target,   \* the request a call decided about, once it has
  decision  \* the decision it made

gatewayVars == <<reqPc, sub, inbox, executed>>
consoleVars == <<callPc, target, decision>>
vars == <<row, gatewayVars, consoleVars>>

Waiting == {"creating", "created", "waiting"}
Ended   == {"failed", "executing", "done", "rejected", "timedOut", "cancelled", "crashed"}

Init ==
  /\ row = [r \in Request |-> "none"]
  /\ reqPc = [r \in Request |-> "creating"]
  /\ sub = [r \in Request |-> "none"]
  /\ inbox = [r \in Request |-> <<>>]
  /\ executed = [r \in Request |-> 0]
  /\ callPc = [c \in Call |-> "idle"]
  /\ target = [c \in Call |-> "none"]
  /\ decision = [c \in Call |-> "none"]

-----------------------------------------------------------------------------
(* The gateway *)

CreateApproval(r) ==
  /\ reqPc[r] = "creating"
  /\ row' = [row EXCEPT ![r] = "PENDING"]
  /\ reqPc' = [reqPc EXCEPT ![r] = "created"]
  /\ UNCHANGED <<sub, inbox, executed, consoleVars>>

\* The INSERT reports an error, with or without having taken effect.
CreateFailed(r) ==
  /\ reqPc[r] = "creating"
  /\ row' \in {row, [row EXCEPT ![r] = "PENDING"]}
  /\ reqPc' = [reqPc EXCEPT ![r] = "failed"]
  /\ UNCHANGED <<sub, inbox, executed, consoleVars>>

\* rdb.Subscribe sends the command and does not wait for the confirmation.
Subscribe(r) ==
  /\ reqPc[r] = "created"
  /\ sub' = [sub EXCEPT ![r] = "asked"]
  /\ reqPc' = [reqPc EXCEPT ![r] = "waiting"]
  /\ UNCHANGED <<row, inbox, executed, consoleVars>>

\* handleMandatoryApproval ends in pc; the deferred pubsub.Close runs.
Leave(r, pc) ==
  /\ reqPc' = [reqPc EXCEPT ![r] = pc]
  /\ sub' = [sub EXCEPT ![r] = "none"]
  /\ inbox' = [inbox EXCEPT ![r] = <<>>]

\* The message APPROVED: the request goes to the executor, ...
WakeApproved(r) ==
  /\ reqPc[r] = "waiting" /\ inbox[r] # <<>> /\ Head(inbox[r]) = "APPROVED"
  /\ reqPc' = [reqPc EXCEPT ![r] = "executing"]
  /\ inbox' = [inbox EXCEPT ![r] = Tail(@)]
  /\ executed' = [executed EXCEPT ![r] = @ + 1]
  /\ UNCHANGED <<sub, row, consoleVars>>

\* ... and the executor's answer or error is the request's answer.
ExecutorAnswers(r) ==
  /\ reqPc[r] = "executing"
  /\ Leave(r, "done")
  /\ UNCHANGED <<row, executed, consoleVars>>

\* The message REJECTED, or any message that is not a decision.
WakeRejected(r) ==
  /\ reqPc[r] = "waiting" /\ inbox[r] # <<>> /\ Head(inbox[r]) # "APPROVED"
  /\ Leave(r, "rejected")
  /\ UNCHANGED <<row, executed, consoleVars>>

\* Defect: the timeout lets the request through.
TimeoutOpen(r) ==
  /\ reqPc[r] = "waiting"
  /\ Leave(r, "timedOut")
  /\ executed' = [executed EXCEPT ![r] = @ + 1]
  /\ UNCHANGED <<row, consoleVars>>

\* Defect: the timer only writes a warning, the wait goes on.
TimeoutLoops(r) == reqPc[r] = "waiting" /\ UNCHANGED vars

\* Five minutes are over.  If a message is there too, select takes either.
Timeout(r) ==
  /\ reqPc[r] = "waiting"
  /\ Leave(r, "timedOut")
  /\ UNCHANGED <<row, executed, consoleVars>>

\* The agent hangs up, the context of the request ends.
Cancel(r) ==
  /\ reqPc[r] = "waiting"
  /\ Leave(r, "cancelled")
  /\ UNCHANGED <<row, executed, consoleVars>>

\* The gateway process dies with every request it holds.
GatewayCrash ==
  /\ \E r \in Request : reqPc[r] \in Waiting \cup {"executing"}
  /\ reqPc' = [r \in Request |-> IF reqPc[r] \in Waiting \cup {"executing"} THEN "crashed" ELSE reqPc[r]]
  /\ sub' = [r \in Request |-> "none"]
  /\ inbox' = [r \in Request |-> <<>>]
  /\ UNCHANGED <<row, executed, consoleVars>>

-----------------------------------------------------------------------------
(* Redis *)

SubscribeConfirmed(r) ==
  /\ sub[r] = "asked"
  /\ sub' = [sub EXCEPT ![r] = "active"]
  /\ UNCHANGED <<row, reqPc, inbox, executed, consoleVars>>

\* The connection of the subscription breaks; the client asks again.
ConnectionLost(r) ==
  /\ RedisFaults /\ sub[r] = "active"
  /\ sub' = [sub EXCEPT ![r] = "asked"]
  /\ UNCHANGED <<row, reqPc, inbox, executed, consoleVars>>

-----------------------------------------------------------------------------
(* The console *)

\* Defect: the UPDATE is not conditional on PENDING.
DecideAnyStatus(c, r, d) ==
  /\ callPc[c] = "idle" /\ row[r] # "none"
  /\ row' = [row EXCEPT ![r] = d]
  /\ callPc' = [callPc EXCEPT ![c] = "decided"]
  /\ target' = [target EXCEPT ![c] = r]
  /\ decision' = [decision EXCEPT ![c] = d]
  /\ UNCHANGED gatewayVars

\* Defect: the UPDATE does not return the execution id.
DecideNoReturning(c, r, d) ==
  /\ callPc[c] = "idle" /\ row[r] = "PENDING"
  /\ row' = [row EXCEPT ![r] = d]
  /\ callPc' = [callPc EXCEPT ![c] = "decided"]
  /\ decision' = [decision EXCEPT ![c] = d]
  /\ UNCHANGED <<gatewayVars, target>>

\* UPDATE ... WHERE status = 'PENDING' RETURNING execution_id.
Decide(c, r, d) ==
  /\ callPc[c] = "idle" /\ row[r] = "PENDING"
  /\ row' = [row EXCEPT ![r] = d]
  /\ callPc' = [callPc EXCEPT ![c] = "decided"]
  /\ target' = [target EXCEPT ![c] = r]
  /\ decision' = [decision EXCEPT ![c] = d]
  /\ UNCHANGED gatewayVars

\* No row matches, or the database fails before anything is changed.
DecideRefused(c) ==
  /\ callPc[c] = "idle"
  /\ \E r \in Request : row[r] # "none"
  /\ callPc' = [callPc EXCEPT ![c] = "refused"]
  /\ UNCHANGED <<row, gatewayVars, target, decision>>

\* Defect: every execution listens on the same channel.
PublishToAll(c) ==
  /\ callPc[c] = "decided"
  /\ inbox' = [r \in Request |-> IF sub[r] = "active" THEN Append(inbox[r], decision[c]) ELSE inbox[r]]
  /\ callPc' = [callPc EXCEPT ![c] = "succeeded"]
  /\ UNCHANGED <<row, reqPc, sub, executed, target, decision>>

\* The status goes to the channel of the execution.  Publish succeeds also if
\* nobody is subscribed: the number of receivers is not looked at.
Publish(c) ==
  /\ callPc[c] = "decided"
  /\ LET r == target[c] IN
       inbox' = IF sub[r] = "active" THEN [inbox EXCEPT ![r] = Append(@, decision[c])] ELSE inbox
  /\ callPc' = [callPc EXCEPT ![c] = "succeeded"]
  /\ UNCHANGED <<row, reqPc, sub, executed, target, decision>>

\* Redis is not reachable, the answer of the UPDATE was lost, or the console
\* dies before it publishes: the row stays decided and nobody is told.
PublishFailed(c) ==
  /\ RedisFaults /\ callPc[c] = "decided"
  /\ callPc' = [callPc EXCEPT ![c] = "unsignalled"]
  /\ UNCHANGED <<row, gatewayVars, target, decision>>

-----------------------------------------------------------------------------
Gateway(r) ==
  \/ CreateApproval(r) \/ CreateFailed(r) \/ Subscribe(r)
  \/ WakeApproved(r) \/ ExecutorAnswers(r) \/ WakeRejected(r)
  \/ Timeout(r) \/ Cancel(r)

Redis(r) == SubscribeConfirmed(r) \/ ConnectionLost(r)

Console(c) ==
  \/ \E r \in Request, d \in Decision : Decide(c, r, d)
  \/ DecideRefused(c) \/ Publish(c) \/ PublishFailed(c)

\* Every request has its answer; nobody needs to decide about what is left.
Terminated == (\A r \in Request : reqPc[r] \in Ended \ {"executing"}) /\ UNCHANGED vars

Next ==
  \/ \E r \in Request : Gateway(r) \/ Redis(r)
  \/ \E c \in Call : Console(c)
  \/ GatewayCrash \/ Terminated

Spec == Init /\ [][Next]_vars

(***************************************************************************)
(* The goroutine of a request runs, its timer fires, and the executor      *)
(* answers (its three attempts have a deadline of 10 s each).  A DecideApproval  *)
(* call that has updated the row goes on.  Operators owe nothing.          *)
(***************************************************************************)
Fairness ==
  /\ \A r \in Request :
       /\ WF_vars(CreateApproval(r) \/ CreateFailed(r) \/ Subscribe(r) \/ ExecutorAnswers(r))
       /\ WF_vars(WakeApproved(r) \/ WakeRejected(r) \/ Timeout(r))
  /\ \A c \in Call : WF_vars(Publish(c) \/ PublishFailed(c))

FairSpec == Spec /\ Fairness

-----------------------------------------------------------------------------
(* Type invariant. *)
TypeOK ==
  /\ row \in [Request -> {"none", "PENDING"} \cup Decision]
  /\ reqPc \in [Request -> Waiting \cup Ended]
  /\ sub \in [Request -> {"none", "asked", "active"}]
  /\ inbox \in [Request -> Seq(Decision)]
  /\ executed \in [Request -> Nat]
  /\ \A c \in Call : callPc[c] = "decided" => target[c] \in Request /\ decision[c] \in Decision
  /\ callPc \in [Call -> {"idle", "decided", "refused", "succeeded", "unsignalled"}]
  /\ target \in [Call -> Request \cup {"none"}]
  /\ decision \in [Call -> Decision \cup {"none"}]

\* The call got its UPDATE through.
Decided(c) == callPc[c] \in {"decided", "succeeded", "unsignalled"}

(* Nothing is executed without the approval of an operator, which is still  *)
(* what the table says: timeout, hang-up, crash and the other requests'     *)
(* messages never let a request through, and it goes through once.          *)
ExecutedOnceApproved ==
  \A r \in Request : executed[r] > 0 =>
    /\ executed[r] = 1 /\ row[r] = "APPROVED"
    /\ \E c \in Call : Decided(c) /\ target[c] = r /\ decision[c] = "APPROVED"

(* A request told that an operator has rejected it was rejected.            *)
RejectedByOperator == \A r \in Request : reqPc[r] = "rejected" => row[r] = "REJECTED"

(* Of the calls that decide about a request at the same time one gets       *)
(* through, and the row keeps its decision (no Double Decision).            *)
OneDecision ==
  \A c, d \in Call : Decided(c) /\ Decided(d) /\ target[c] = target[d] => c = d

(* A decided row never changes again, whatever becomes of the request.      *)
DecisionIsFinal ==
  [][\A r \in Request : row[r] \in Decision => row'[r] = row[r]]_vars

(* A request that was created gets an answer, with or without an operator,  *)
(* with Redis or without.                                                   *)
EveryRequestAnswered ==
  \A r \in Request : reqPc[r] = "created" ~> reqPc[r] \in Ended \ {"executing"}

\* What has become of a request, as the agent and the operators see it.
Outcome(r) ==
  CASE executed[r] = 1 -> "executed"
    [] executed[r] > 1 -> "repeated"
    [] executed[r] = 0 /\ reqPc[r] = "rejected" -> "rejected"
    [] executed[r] = 0 /\ reqPc[r] \in {"failed", "timedOut", "cancelled", "crashed"} -> "dropped"
    [] OTHER -> "open"

\* The promise of holding a request back, refined by the protocol.
Held == INSTANCE HeldRequest WITH
  decision <- [r \in Request |-> IF row[r] \in Decision THEN row[r] ELSE "none"],
  outcome  <- [r \in Request |-> Outcome(r)]

(* The protocol implements HeldRequest: a request comes to one end and      *)
(* keeps it, so that nothing is executed after it was answered otherwise;   *)
(* it is executed or rejected only after that decision, and only once.      *)
ImplementsHeldRequest == Held!Spec

-----------------------------------------------------------------------------
(* What a comment says, checked by a run that refutes it.                   *)

(* agent_service.go:146: the status that is sent is read by the gateway     *)
(* that is waiting for it; a timeout instead is for a Redis that is down    *)
(* (line 149).  Stated for a Redis without faults.                          *)
WaiterGetsSignal ==
  \A c \in Call : callPc[c] = "succeeded" /\ reqPc[target[c]] \in {"created", "waiting"}
                    => inbox[target[c]] # <<>>
=============================================================================
