--------------------------- MODULE Approvals_proofs ---------------------------
(***************************************************************************)
(* The safety of the human-in-the-loop protocol for any number of requests *)
(* and operators, with a Redis that may lose any message.                  *)
(***************************************************************************)
EXTENDS Approvals, SequenceTheorems, TLAPS

\* A call that got its UPDATE through decided as the row says.
CallMatchesRow ==
  \A c \in Call : Decided(c) =>
    target[c] \in Request /\ decision[c] \in Decision /\ row[target[c]] = decision[c]

\* Some operator decided d about request r.
DecidedBy(r, d) == \E c \in Call : Decided(c) /\ target[c] = r /\ decision[c] = d

\* Every message in a subscription comes from a decision about its request.
MessagesFromCalls ==
  \A r \in Request : \A i \in DOMAIN inbox[r] : DecidedBy(r, inbox[r][i])

\* Only a request that has left the select was handed to the executor.
ExecutedHasLeft ==
  \A r \in Request : executed[r] > 0 => reqPc[r] \in {"executing", "done", "crashed"}

\* Before the INSERT there is no row.
NoRowYet == \A r \in Request : reqPc[r] = "creating" => row[r] = "none"

(* The inductive invariant of the protocol.                                 *)
IInv ==
  /\ TypeOK /\ NoRowYet /\ CallMatchesRow /\ MessagesFromCalls /\ ExecutedHasLeft
  /\ ExecutedOnceApproved /\ RejectedByOperator /\ OneDecision

-----------------------------------------------------------------------------
(* Initially the invariant holds: nobody has decided anything.              *)
LEMMA InitIInv == Init => IInv
<1> SUFFICES ASSUME Init PROVE IInv
  OBVIOUS
<1> USE DEF Init
<1>1. TypeOK
  BY DEF TypeOK, Decision, Waiting, Ended
<1>2. CallMatchesRow /\ OneDecision
  BY DEF CallMatchesRow, OneDecision, Decided
<1>3. MessagesFromCalls
  BY DEF MessagesFromCalls
<1>4. ExecutedHasLeft /\ ExecutedOnceApproved /\ RejectedByOperator
  BY DEF ExecutedHasLeft, ExecutedOnceApproved, RejectedByOperator
<1>5. NoRowYet
  BY DEF NoRowYet
<1> QED BY <1>1, <1>2, <1>3, <1>4, <1>5 DEF IInv

\* The first message of a subscription is a decision, and the row agrees.
LEMMA HeadMatchesRow ==
  ASSUME IInv, NEW r \in Request, inbox[r] # <<>>
  PROVE  /\ DecidedBy(r, Head(inbox[r])) /\ Head(inbox[r]) = row[r]
         /\ row[r] \in Decision
<1>1. inbox[r] \in Seq(Decision) BY DEF IInv, TypeOK
<1>2. Head(inbox[r]) = inbox[r][1] /\ 1 \in DOMAIN inbox[r]
  BY <1>1, HeadTailProperties, EmptySeq, LenProperties
<1>3. PICK c \in Call : Decided(c) /\ target[c] = r /\ decision[c] = inbox[r][1]
  BY <1>2 DEF IInv, MessagesFromCalls, DecidedBy
<1>4. row[r] = decision[c] /\ decision[c] \in Decision
  BY <1>3 DEF IInv, CallMatchesRow
<1> QED BY <1>2, <1>3, <1>4 DEF DecidedBy

\* A step that changes no decision and no row but a new one keeps what relates
\* the calls to the rows.
LEMMA RowsKept ==
  ASSUME IInv, UNCHANGED consoleVars,
         \A q \in Request : row[q] # "none" => row'[q] = row[q]
  PROVE  /\ CallMatchesRow' /\ OneDecision'
         /\ \A q \in Request, d \in Decision : DecidedBy(q, d) => DecidedBy(q, d)'
<1> USE DEF IInv, consoleVars, Decided
<1>1. CallMatchesRow'
  BY DEF CallMatchesRow, Decision
<1>2. OneDecision'
  BY DEF OneDecision
<1>3. \A q \in Request, d \in Decision : DecidedBy(q, d) => DecidedBy(q, d)'
  BY DEF DecidedBy
<1> QED BY <1>1, <1>2, <1>3

\* If every message was there before, messages still come from decisions.
LEMMA MessagesKept ==
  ASSUME IInv, UNCHANGED consoleVars, TypeOK',
         \A q \in Request : \A i \in DOMAIN inbox'[q] : \E j \in DOMAIN inbox[q] : inbox'[q][i] = inbox[q][j]
  PROVE  MessagesFromCalls'
BY DEF IInv, MessagesFromCalls, DecidedBy, Decided, consoleVars

\* A goroutine that leaves drops its messages; the others keep theirs.
LEMMA LeaveMessages ==
  ASSUME TypeOK, NEW r \in Request, NEW p, Leave(r, p), NEW q \in Request, NEW i \in DOMAIN inbox'[q]
  PROVE  i \in DOMAIN inbox[q] /\ inbox'[q][i] = inbox[q][i]
BY DEF TypeOK, Leave

(* Steps of a request's goroutine keep the invariant.                       *)
LEMMA GatewayIInv ==
  ASSUME IInv, NEW r \in Request, Gateway(r)
  PROVE  IInv'
<1> USE DEF IInv
<1>1. CASE CreateApproval(r) \/ CreateFailed(r)
  <2> USE <1>1 DEF CreateApproval, CreateFailed
  <2>1. \A q \in Request : row[q] # "none" => row'[q] = row[q]
    BY DEF NoRowYet, TypeOK
  <2>2. CallMatchesRow' /\ OneDecision'
    BY <2>1, RowsKept
  <2>3. TypeOK' BY DEF TypeOK, Waiting, Ended, consoleVars
  <2>4. MessagesFromCalls' BY <2>3, MessagesKept
  <2>5. NoRowYet' BY DEF NoRowYet, TypeOK
  <2>6. ExecutedHasLeft' BY DEF ExecutedHasLeft, TypeOK
  <2>7. ExecutedOnceApproved'
    BY <2>1 DEF ExecutedOnceApproved, Decided, consoleVars
  <2>8. RejectedByOperator' BY <2>1 DEF RejectedByOperator, TypeOK
  <2> QED BY <2>2, <2>3, <2>4, <2>5, <2>6, <2>7, <2>8
<1>2. CASE Subscribe(r)
  <2> USE <1>2 DEF Subscribe
  <2>1. CallMatchesRow' /\ OneDecision'
    BY RowsKept
  <2>2. TypeOK' BY DEF TypeOK, Waiting, Ended, consoleVars
  <2>3. MessagesFromCalls' BY <2>2, MessagesKept
  <2>4. NoRowYet' /\ ExecutedHasLeft' /\ RejectedByOperator'
    BY DEF NoRowYet, ExecutedHasLeft, RejectedByOperator, TypeOK
  <2>5. ExecutedOnceApproved'
    BY DEF ExecutedOnceApproved, Decided, consoleVars
  <2> QED BY <2>1, <2>2, <2>3, <2>4, <2>5
<1>3. CASE WakeApproved(r)
  <2> USE <1>3 DEF WakeApproved
  <2>1. DecidedBy(r, "APPROVED") /\ row[r] = "APPROVED"
    BY HeadMatchesRow
  <2>2. CallMatchesRow' /\ OneDecision'
    BY RowsKept
  <2>3. /\ Tail(inbox[r]) \in Seq(Decision)
        /\ \A i \in DOMAIN Tail(inbox[r]) : i + 1 \in DOMAIN inbox[r] /\ Tail(inbox[r])[i] = inbox[r][i + 1]
    BY HeadTailProperties, EmptySeq, LenProperties DEF TypeOK
  <2>4. TypeOK' BY <2>3 DEF TypeOK, Waiting, Ended, consoleVars
  <2>5. MessagesFromCalls'
    <3>1. ASSUME NEW q \in Request, NEW i \in DOMAIN inbox'[q]
          PROVE  \E j \in DOMAIN inbox[q] : inbox'[q][i] = inbox[q][j]
      BY <2>3 DEF TypeOK
    <3> QED BY <2>4, <3>1, MessagesKept
  <2>6. executed[r] = 0
    <3>1. reqPc[r] = "waiting" OBVIOUS
    <3>2. ~(executed[r] > 0) BY <3>1 DEF ExecutedHasLeft
    <3>3. executed[r] \in Nat BY DEF TypeOK
    <3> QED BY ONLY <3>2, <3>3
  <2>7. NoRowYet' /\ ExecutedHasLeft' /\ RejectedByOperator'
    BY DEF NoRowYet, ExecutedHasLeft, RejectedByOperator, TypeOK
  <2>8. ExecutedOnceApproved'
    BY <2>1, <2>6 DEF ExecutedOnceApproved, DecidedBy, Decided, consoleVars, TypeOK
  <2> QED BY <2>2, <2>4, <2>5, <2>7, <2>8
<1>4. CASE ExecutorAnswers(r) \/ WakeRejected(r) \/ Timeout(r) \/ Cancel(r)
  <2>1. PICK p \in {"done", "rejected", "timedOut", "cancelled"} :
          /\ Leave(r, p) /\ UNCHANGED <<row, executed, consoleVars>>
          /\ reqPc[r] \in {"executing", "waiting"}
          /\ p = "done" <=> reqPc[r] = "executing"
          /\ p = "rejected" => inbox[r] # <<>> /\ Head(inbox[r]) # "APPROVED"
    BY <1>4 DEF ExecutorAnswers, WakeRejected, Timeout, Cancel
  <2>2. CallMatchesRow' /\ OneDecision'
    BY <2>1, RowsKept
  <2>3. TypeOK' BY <2>1 DEF TypeOK, Waiting, Ended, consoleVars, Leave
  <2>4. MessagesFromCalls' BY <2>1, <2>3, LeaveMessages, MessagesKept
  <2>5. NoRowYet' /\ ExecutedHasLeft'
    BY <2>1 DEF NoRowYet, ExecutedHasLeft, TypeOK, Leave
  <2>6. ExecutedOnceApproved'
    BY <2>1 DEF ExecutedOnceApproved, Decided, consoleVars
  <2>7. p = "rejected" => row[r] = "REJECTED"
    BY <2>1, HeadMatchesRow DEF Decision
  <2>8. RejectedByOperator'
    BY <2>1, <2>7 DEF RejectedByOperator, TypeOK, Leave
  <2> QED BY <2>2, <2>3, <2>4, <2>5, <2>6, <2>8
<1> QED BY <1>1, <1>2, <1>3, <1>4 DEF Gateway

(* So do a crash of the gateway and what Redis does to subscriptions: they  *)
(* only take messages away.                                                 *)
LEMMA FaultIInv ==
  ASSUME IInv, GatewayCrash \/ \E r \in Request : Redis(r)
  PROVE  IInv'
<1> USE DEF IInv
<1>1. /\ UNCHANGED <<row, executed, consoleVars>> /\ TypeOK'
      /\ \A q \in Request : reqPc'[q] = reqPc[q] \/ reqPc'[q] = "crashed"
      /\ \A q \in Request : inbox'[q] = inbox[q] \/ inbox'[q] = <<>>
  <2>1. CASE GatewayCrash
    BY <2>1 DEF GatewayCrash, TypeOK, Waiting, Ended, consoleVars
  <2>2. CASE \E r \in Request : Redis(r)
    BY <2>2 DEF Redis, SubscribeConfirmed, ConnectionLost, TypeOK, consoleVars
  <2> QED BY <2>1, <2>2
<1>2. CallMatchesRow' /\ OneDecision'
  BY <1>1, RowsKept
<1>3. MessagesFromCalls'
  BY <1>1, MessagesKept
<1>4. NoRowYet' /\ ExecutedHasLeft' /\ RejectedByOperator'
  BY <1>1 DEF NoRowYet, ExecutedHasLeft, RejectedByOperator, TypeOK
<1>5. ExecutedOnceApproved'
  BY <1>1 DEF ExecutedOnceApproved, Decided, consoleVars
<1> QED BY <1>1, <1>2, <1>3, <1>4, <1>5

(* Steps of an operator's call keep the invariant: the condition on PENDING *)
(* means that no call has decided about the request before.                 *)
LEMMA ConsoleIInv ==
  ASSUME IInv, NEW c \in Call, Console(c)
  PROVE  IInv'
<1> USE DEF IInv
<1>1. ASSUME NEW r \in Request, NEW d \in Decision, Decide(c, r, d)
      PROVE  IInv'
  <2> USE <1>1 DEF Decide, gatewayVars
  <2>1. TypeOK' BY DEF TypeOK, Decision
  <2>2. ~Decided(c) /\ \A k \in Call : Decided(k) => target[k] # r
    BY DEF Decided, CallMatchesRow, Decision
  <2>3. /\ Decided(c)' /\ target'[c] = r /\ decision'[c] = d /\ row'[r] = d
        /\ \A k \in Call : k # c => (Decided(k)' <=> Decided(k)) /\ target'[k] = target[k] /\ decision'[k] = decision[k]
        /\ \A q \in Request : q # r => row'[q] = row[q]
    BY DEF Decided, TypeOK
  <2> HIDE <1>1 DEF Decide
  <2>4. CallMatchesRow' BY <2>2, <2>3 DEF CallMatchesRow
  <2>5. OneDecision' BY <2>2, <2>3 DEF OneDecision
  <2>6. MessagesFromCalls'
    BY <1>1, <2>2, <2>3 DEF MessagesFromCalls, DecidedBy, Decide
  <2>7. NoRowYet' /\ RejectedByOperator'
    BY <1>1, <2>3 DEF NoRowYet, RejectedByOperator, Decide
  <2>8. ExecutedHasLeft' BY <1>1 DEF ExecutedHasLeft, Decide
  <2>9. ExecutedOnceApproved'
    BY <1>1, <2>2, <2>3 DEF ExecutedOnceApproved, Decide
  <2> QED BY <2>1, <2>4, <2>5, <2>6, <2>7, <2>8, <2>9
<1>2. CASE DecideRefused(c) \/ PublishFailed(c) \/ Publish(c)
  <2>1. /\ UNCHANGED <<row, reqPc, sub, executed, target, decision>> /\ TypeOK'
        /\ \A k \in Call : Decided(k)' <=> Decided(k)
    <3>1. CASE Publish(c)
      <4>1. inbox' \in [Request -> Seq(Decision)]
        BY <3>1, AppendProperties DEF Publish, TypeOK
      <4> QED BY <3>1, <4>1 DEF Publish, TypeOK, Decided
    <3>2. CASE DecideRefused(c) \/ PublishFailed(c)
      BY <3>2 DEF DecideRefused, PublishFailed, TypeOK, Decided, gatewayVars
    <3> QED BY <1>2, <3>1, <3>2
  <2>2. CallMatchesRow' /\ OneDecision' /\ NoRowYet' /\ RejectedByOperator'
    BY <2>1 DEF CallMatchesRow, OneDecision, NoRowYet, RejectedByOperator
  <2>3. ExecutedHasLeft' /\ ExecutedOnceApproved'
    BY <2>1 DEF ExecutedHasLeft, ExecutedOnceApproved
  <2>4. MessagesFromCalls'
    <3>1. ASSUME NEW q \in Request, NEW i \in DOMAIN inbox'[q]
          PROVE  DecidedBy(q, inbox'[q][i])
      <4>1. CASE inbox'[q] = inbox[q]
        BY <4>1 DEF MessagesFromCalls
      <4>2. CASE inbox'[q] # inbox[q]
        <5>1. Publish(c) /\ target[c] = q /\ inbox'[q] = Append(inbox[q], decision[c])
          BY <1>2, <4>2 DEF Publish, DecideRefused, PublishFailed, gatewayVars, TypeOK
        <5>2. Decided(c) BY <5>1 DEF Publish, Decided
        <5>3. decision[c] \in Decision BY <5>2 DEF CallMatchesRow
        <5>4. \/ i \in DOMAIN inbox[q] /\ inbox'[q][i] = inbox[q][i]
              \/ inbox'[q][i] = decision[c]
          BY <5>1, <5>3, AppendProperties, LenProperties DEF TypeOK
        <5> QED BY <5>1, <5>2, <5>4 DEF MessagesFromCalls, DecidedBy
      <4> QED BY <4>1, <4>2
    <3> QED BY <2>1, <3>1 DEF MessagesFromCalls, DecidedBy
  <2> QED BY <2>1, <2>2, <2>3, <2>4
<1> QED BY <1>1, <1>2 DEF Console

(* Every step keeps the invariant.                                          *)
LEMMA NextIInv == IInv /\ [Next]_vars => IInv'
<1> SUFFICES ASSUME IInv, [Next]_vars PROVE IInv'
  OBVIOUS
<1>1. ASSUME UNCHANGED vars PROVE IInv'
  BY <1>1 DEF vars, gatewayVars, consoleVars, IInv, TypeOK, NoRowYet, CallMatchesRow, MessagesFromCalls,
              DecidedBy, Decided, ExecutedHasLeft, ExecutedOnceApproved, RejectedByOperator, OneDecision
<1> QED BY <1>1, GatewayIInv, FaultIInv, ConsoleIInv DEF Next, Terminated

(* The inductive invariant is an invariant.                                 *)
THEOREM Invariance == Spec => []IInv
<1> QED BY InitIInv, NextIInv, PTL DEF Spec

-----------------------------------------------------------------------------
(* The variables keep their types: a decided call knows its execution id.   *)
THEOREM TypeCorrect == Spec => []TypeOK
<1>1. IInv => TypeOK BY DEF IInv
<1> QED BY <1>1, Invariance, PTL

(* Nothing held back is executed but once, after an operator's approval     *)
(* that the table still shows.                                              *)
THEOREM ApprovalNeeded == Spec => []ExecutedOnceApproved
<1>1. IInv => ExecutedOnceApproved BY DEF IInv
<1> QED BY <1>1, Invariance, PTL

(* A request that is answered as rejected was rejected by an operator, and  *)
(* never do two calls decide about the same request.                        *)
THEOREM DecisionsRespected == Spec => [](RejectedByOperator /\ OneDecision)
<1>1. IInv => RejectedByOperator /\ OneDecision BY DEF IInv
<1> QED BY <1>1, Invariance, PTL

(* No step changes the row of a request that has been decided about.        *)
THEOREM Final == Spec => DecisionIsFinal
<1>1. IInv /\ [Next]_vars => [\A r \in Request : row[r] \in Decision => row'[r] = row[r]]_vars
  <2> SUFFICES ASSUME IInv, Next, NEW r \in Request, row[r] \in Decision PROVE row'[r] = row[r]
    BY DEF vars
  <2>1. ASSUME NEW q \in Request, Gateway(q) \/ Redis(q) PROVE row'[r] = row[r]
    BY <2>1 DEF Gateway, Redis, CreateApproval, CreateFailed, Subscribe, WakeApproved, ExecutorAnswers, WakeRejected,
                Timeout, Cancel, SubscribeConfirmed, ConnectionLost, IInv, NoRowYet, TypeOK, Decision
  <2>2. ASSUME NEW c \in Call, Console(c) PROVE row'[r] = row[r]
    BY <2>2 DEF Console, Decide, DecideRefused, Publish, PublishFailed, IInv, TypeOK, Decision
  <2>3. CASE GatewayCrash \/ Terminated
    BY <2>3 DEF GatewayCrash, Terminated, vars
  <2> QED BY <2>1, <2>2, <2>3 DEF Next
<1> QED BY <1>1, Invariance, PTL DEF Spec, DecisionIsFinal

-----------------------------------------------------------------------------
(* The protocol implements HeldRequest, step by step. *)

\* What the operators have decided about r, none while the row does not say.
Verdict(r) == IF row[r] \in Decision THEN row[r] ELSE "none"

\* A step that decides nothing and at most drops open requests is a Drop.
LEMMA DropSuffices ==
  ASSUME \A q \in Request : Verdict(q)' = Verdict(q),
         \A q \in Request : Outcome(q)' = Outcome(q) \/ (Outcome(q) = "open" /\ Outcome(q)' = "dropped")
  PROVE  Held!Next
<1> DEFINE R == {q \in Request : Outcome(q) = "open" /\ Outcome(q)' = "dropped"}
<1>1. [q \in Request |-> Outcome(q)]' = [q \in Request |-> IF q \in R THEN "dropped" ELSE Outcome(q)]
  OBVIOUS
<1>2. [q \in Request |-> Verdict(q)]' = [q \in Request |-> Verdict(q)]
  OBVIOUS
<1>3. R \in SUBSET {q \in Request : [p \in Request |-> Outcome(p)][q] = "open"}
  OBVIOUS
<1>4. Held!Drop
  BY <1>1, <1>2, <1>3 DEF Held!Drop, Verdict
<1> QED BY <1>4 DEF Held!Next

\* A step that ends one open request as its row says is an End.
LEMMA EndSuffices ==
  ASSUME NEW r \in Request, NEW d \in Decision, row[r] = d, UNCHANGED row,
         NEW o, d = "APPROVED" => o = "executed", d = "REJECTED" => o = "rejected",
         Outcome(r) = "open", Outcome(r)' = o,
         \A q \in Request : q # r => Outcome(q)' = Outcome(q)
  PROVE  Held!Next
<1>1. [q \in Request |-> Outcome(q)]' = [[q \in Request |-> Outcome(q)] EXCEPT ![r] = o]
  OBVIOUS
<1>2. Held!End(r, d, o)
  BY <1>1 DEF Held!End
<1> QED BY <1>2 DEF Held!Next, Decision

\* Where a goroutine that has not left may be, its request is open.
LEMMA WaitingIsOpen ==
  ASSUME IInv, NEW r \in Request, reqPc[r] \in Waiting
  PROVE  executed[r] = 0 /\ Outcome(r) = "open"
<1>1. ~(executed[r] > 0)
  BY DEF IInv, ExecutedHasLeft, Waiting
<1>2. executed[r] \in Nat
  BY DEF IInv, TypeOK
<1>3. executed[r] = 0
  BY <1>1, <1>2
<1> QED BY <1>3 DEF Outcome, Waiting

(* Every step is a step of HeldRequest or a stutter: only WakeApproved and  *)
(* WakeRejected end a request by decision, and HeadMatchesRow says which.   *)
LEMMA StepHeld == IInv /\ [Next]_vars => [Held!Next]_(Held!vars)
<1> SUFFICES ASSUME IInv, [Next]_vars PROVE Held!Next \/ UNCHANGED Held!vars
  OBVIOUS
<1> USE DEF IInv
<1>1. ASSUME NEW r \in Request, CreateApproval(r) \/ CreateFailed(r) PROVE Held!Next
  <2>1. Outcome(r) = "open" /\ executed[r] = 0
    BY <1>1, WaitingIsOpen DEF CreateApproval, CreateFailed, Waiting
  <2>2. \A q \in Request : Verdict(q)' = Verdict(q)
    BY <1>1 DEF CreateApproval, CreateFailed, NoRowYet, TypeOK, Verdict, Decision
  <2>3. ASSUME NEW q \in Request
        PROVE  Outcome(q)' = Outcome(q) \/ (Outcome(q) = "open" /\ Outcome(q)' = "dropped")
    BY <1>1, <2>1 DEF CreateApproval, CreateFailed, TypeOK, Outcome
  <2> QED BY <2>2, <2>3, DropSuffices
<1>2. ASSUME NEW r \in Request, Subscribe(r) PROVE Held!Next
  <2>1. \A q \in Request : Verdict(q)' = Verdict(q) /\ Outcome(q)' = Outcome(q)
    BY <1>2 DEF Subscribe, TypeOK, Verdict, Outcome
  <2> QED BY <2>1, DropSuffices
<1>3. ASSUME NEW r \in Request, WakeApproved(r) PROVE Held!Next
  <2>1. row[r] = "APPROVED"
    BY <1>3, HeadMatchesRow DEF WakeApproved
  <2>2. Outcome(r) = "open" /\ executed[r] = 0
    BY <1>3, WaitingIsOpen DEF WakeApproved, Waiting
  <2>3. Outcome(r)' = "executed" /\ UNCHANGED row
    BY <1>3, <2>2 DEF WakeApproved, Outcome, TypeOK
  <2>4. \A q \in Request : q # r => Outcome(q)' = Outcome(q)
    BY <1>3 DEF WakeApproved, Outcome, TypeOK
  <2> QED BY <2>1, <2>2, <2>3, <2>4, EndSuffices DEF Decision
<1>4. ASSUME NEW r \in Request, WakeRejected(r) PROVE Held!Next
  <2>1. row[r] = "REJECTED"
    BY <1>4, HeadMatchesRow DEF WakeRejected, Decision
  <2>2. Outcome(r) = "open" /\ executed[r] = 0
    BY <1>4, WaitingIsOpen DEF WakeRejected, Waiting
  <2>3. Outcome(r)' = "rejected" /\ UNCHANGED row
    BY <1>4, <2>2 DEF WakeRejected, Leave, Outcome, TypeOK
  <2>4. \A q \in Request : q # r => Outcome(q)' = Outcome(q)
    BY <1>4 DEF WakeRejected, Leave, Outcome, TypeOK
  <2> QED BY <2>1, <2>2, <2>3, <2>4, EndSuffices DEF Decision
<1>5. ASSUME NEW r \in Request, ExecutorAnswers(r) PROVE Held!Next
  <2>1. \A q \in Request : Verdict(q)' = Verdict(q) /\ Outcome(q)' = Outcome(q)
    BY <1>5 DEF ExecutorAnswers, Leave, TypeOK, Verdict, Outcome
  <2> QED BY <2>1, DropSuffices
<1>6. ASSUME NEW r \in Request, Timeout(r) \/ Cancel(r) PROVE Held!Next
  <2>1. Outcome(r) = "open" /\ executed[r] = 0
    BY <1>6, WaitingIsOpen DEF Timeout, Cancel, Waiting
  <2>2. \A q \in Request : Verdict(q)' = Verdict(q)
    BY <1>6 DEF Timeout, Cancel, Verdict
  <2>3. ASSUME NEW q \in Request
        PROVE  Outcome(q)' = Outcome(q) \/ (Outcome(q) = "open" /\ Outcome(q)' = "dropped")
    BY <1>6, <2>1 DEF Timeout, Cancel, Leave, TypeOK, Outcome
  <2> QED BY <2>2, <2>3, DropSuffices
<1>7. ASSUME GatewayCrash PROVE Held!Next
  <2>1. \A q \in Request : Verdict(q)' = Verdict(q)
    BY <1>7 DEF GatewayCrash, Verdict
  <2>2. ASSUME NEW q \in Request
        PROVE  Outcome(q)' = Outcome(q) \/ (Outcome(q) = "open" /\ Outcome(q)' = "dropped")
    BY <1>7 DEF GatewayCrash, Waiting, TypeOK, Outcome
  <2> QED BY <2>1, <2>2, DropSuffices
<1>8. ASSUME NEW c \in Call, NEW r \in Request, NEW d \in Decision, Decide(c, r, d) PROVE Held!Next
  <2>1. /\ [q \in Request |-> Verdict(q)]' = [[q \in Request |-> Verdict(q)] EXCEPT ![r] = d]
        /\ Verdict(r) = "none"
    BY <1>8 DEF Decide, Verdict, TypeOK, Decision
  <2>2. [q \in Request |-> Outcome(q)]' = [q \in Request |-> Outcome(q)]
    BY <1>8 DEF Decide, gatewayVars, Outcome
  <2>3. Held!Decide(r)
    BY <2>1, <2>2 DEF Held!Decide, Verdict, Decision
  <2> QED BY <2>3 DEF Held!Next
<1>9. ASSUME UNCHANGED <<row, reqPc, executed>> PROVE UNCHANGED Held!vars
  BY <1>9 DEF Held!vars, Outcome
<1>10. ASSUME \/ \E r \in Request : Redis(r)
              \/ \E c \in Call : DecideRefused(c) \/ Publish(c) \/ PublishFailed(c)
              \/ Terminated \/ UNCHANGED vars
       PROVE  UNCHANGED <<row, reqPc, executed>>
  BY <1>10 DEF Redis, SubscribeConfirmed, ConnectionLost, DecideRefused, Publish, PublishFailed, Terminated,
               vars, gatewayVars
<1> QED BY <1>1, <1>2, <1>3, <1>4, <1>5, <1>6, <1>7, <1>8, <1>9, <1>10 DEF Next, Gateway, Console

(* The protocol keeps the promise of HeldRequest: one decision, and one end *)
(* that agrees with it and is never taken back.                             *)
THEOREM ImplementsHeld == Spec => ImplementsHeldRequest
<1>1. Init => Held!Init
  BY DEF Init, Held!Init, Outcome, Decision
<1> QED BY <1>1, StepHeld, Invariance, PTL DEF Spec, ImplementsHeldRequest, Held!Spec
=============================================================================
