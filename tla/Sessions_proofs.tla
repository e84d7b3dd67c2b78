--------------------------- MODULE Sessions_proofs ---------------------------
(***************************************************************************)
(* The request pipeline for any number of requests, on its own and with    *)
(* the tokens that logins issue.                                           *)
(*                                                                         *)
(* First the safety of the pipeline as module Gateway specifies it, while  *)
(* the caches change between any two stages.  Then the tokens: withdrawn   *)
(* scopes stop requests by HTTP after a lifetime; the invariant there      *)
(* contains the one of the pipeline.                                       *)
(***************************************************************************)
EXTENDS Sessions, TLAPS

\* What the gateway knows now has been noted for each request under way.
Noted ==
  \A r \in Request : Under(r) => policy \in policies[r] /\ Off \subseteq off[r]

\* Nothing has happened for a request that has not come in.
Untouched ==
  \A r \in Request : pc[r] = "idle" => ~live[r] /\ ~approved[r] /\ input[r] = NoInput

\* A request that is held back was put there by a policy in force meanwhile.
HeldByPolicy ==
  \A r \in Request : pc[r] = "held" => \E p \in policies[r] : IsRequired(p, input[r].risky)

\* The effects of the domain, and none.
EffectsOfDomain == Effects \subseteq {"ALLOW", "DENY", "QUARANTINE", "SANDBOX", ""}

\* A request before the choice of the mode has been permitted.
Permitted ==
  \A r \in Request : pc[r] = "mode" => \E p \in policies[r] : Permits(p, input[r].risky)

Coverage == EffectsOfDomain => Permitted /\ LiveIsCovered

\* A request of an agent blocked all along gets no further than the kill switch.
StoppedAtSwitch ==
  \A r \in Request :
    input[r].via = "http" /\ input[r].named /\ "blocked" \notin off[r] =>
      /\ pc[r] \in {"killSwitch", "ended"} /\ ~live[r]
      /\ outcome[r] \in {"none", "unauthorized", "blocked", "lost"}

(* The inductive invariant of the pipeline.                                 *)
IInv ==
  /\ TypeOK /\ Noted /\ Untouched /\ HeldByPolicy
  /\ Coverage /\ SandboxHolds /\ StoppedAtSwitch

-----------------------------------------------------------------------------
\* What it means to be off a list.
LEMMA OffLists ==
  /\ "blocked" \in Off <=> ~blocked
  /\ "sandboxed" \in Off <=> ~sandboxed
BY DEF Off

\* A policy that calls for no human and decides neither way permits.
LEMMA NotRequiredPermits ==
  ASSUME EffectsOfDomain, NEW p \in Policy, NEW risky \in BOOLEAN,
         ~IsRequired(p, risky), Decide(p) \notin {"DENY", "SANDBOX"}
  PROVE  Permits(p, risky)
<1>1. p.effect \in {"ALLOW", "DENY", "QUARANTINE", "SANDBOX", ""}
  BY DEF Policy, EffectsOfDomain
<1> QED BY <1>1 DEF IsRequired, Decide, Permits

(* Initially the invariant holds: no request has come in.                   *)
LEMMA InitIInv == Init => IInv
<1> SUFFICES ASSUME Init PROVE IInv
  OBVIOUS
<1> USE DEF Init
<1>1. TypeOK BY DEF TypeOK
<1>2. Noted /\ Untouched BY DEF Noted, Untouched, Under
<1>3. HeldByPolicy BY DEF HeldByPolicy
<1>4. Coverage BY DEF Coverage, Permitted, LiveIsCovered
<1>5. SandboxHolds BY DEF SandboxHolds
<1>6. StoppedAtSwitch BY DEF StoppedAtSwitch, NoInput
<1> QED BY <1>1, <1>2, <1>3, <1>4, <1>5, <1>6 DEF IInv

(* A request that comes in has seen nothing but the present policy and      *)
(* lists.                                                                   *)
LEMMA ArriveIInv ==
  ASSUME IInv, NEW r \in Request, NEW in \in Input, ArriveHttp(r, in) \/ ArriveGrpc(r, in)
  PROVE  IInv'
<1> USE DEF IInv
<1>1. PICK next \in {"killSwitch", "process"} :
        Authenticate(r, in, next) /\ (next = "killSwitch" <=> in.via = "http")
  BY DEF ArriveHttp, ArriveGrpc
<1>2. pc[r] = "idle" /\ ~live[r] /\ ~approved[r] /\ UNCHANGED <<caches, marked, approved, live, logged>>
  BY <1>1 DEF Authenticate, Untouched
<1>3. /\ pc' = [pc EXCEPT ![r] = IF in.token THEN next ELSE "ended"]
      /\ outcome' = [outcome EXCEPT ![r] = IF in.token THEN @ ELSE "unauthorized"]
      /\ input' = [input EXCEPT ![r] = in]
      /\ policies' = [policies EXCEPT ![r] = {policy}] /\ off' = [off EXCEPT ![r] = Off]
  BY <1>1 DEF Authenticate, Goto, End, TypeOK
<1>4. TypeOK'
  BY <1>2, <1>3 DEF TypeOK, caches, Off
<1>5. Noted' /\ Untouched'
  BY <1>2, <1>3 DEF Noted, Untouched, TypeOK, caches, Under, Off
<1>6. HeldByPolicy'
  BY <1>2, <1>3 DEF HeldByPolicy, TypeOK
<1>7. Coverage'
  BY <1>2, <1>3 DEF Coverage, Permitted, LiveIsCovered, TypeOK
<1>8. SandboxHolds'
  BY <1>2, <1>3 DEF SandboxHolds, TypeOK
<1>9. StoppedAtSwitch'
  BY <1>1, <1>2, <1>3 DEF StoppedAtSwitch, TypeOK
<1> QED BY <1>4, <1>5, <1>6, <1>7, <1>8, <1>9

\* Most of the invariant survives a stage that keeps live and approved, unless it
\* holds the request back or comes to the choice of the mode without a reason.
LEMMA StageIInv ==
  ASSUME IInv, NEW r \in Request, TypeOK', Under(r),
         UNCHANGED <<caches, input, approved, live, history>>,
         \A q \in Request : q # r => pc'[q] = pc[q] /\ outcome'[q] = outcome[q],
         pc'[r] # "idle",
         pc'[r] = "held" => \E p \in policies[r] : IsRequired(p, input[r].risky),
         EffectsOfDomain /\ pc'[r] = "mode" => \E p \in policies[r] : Permits(p, input[r].risky),
         input[r].via = "http" /\ input[r].named /\ "blocked" \notin off[r] =>
           pc'[r] = "ended" /\ outcome'[r] = "blocked"
  PROVE  IInv'
<1> USE DEF IInv, history, caches
<1>1. Noted' /\ Untouched' BY DEF Noted, Untouched, Under, Off
<1>2. HeldByPolicy' BY DEF HeldByPolicy
<1>3. Coverage' BY DEF Coverage, Permitted, LiveIsCovered
<1>4. SandboxHolds' BY DEF SandboxHolds
<1>5. StoppedAtSwitch' BY DEF StoppedAtSwitch
<1> QED BY <1>1, <1>2, <1>3, <1>4, <1>5

\* A request that is past the kill switch was not blocked all along.
LEMMA PastSwitch ==
  ASSUME IInv, NEW r \in Request, pc[r] \notin {"killSwitch", "ended"}
  PROVE  ~ (input[r].via = "http" /\ input[r].named /\ "blocked" \notin off[r])
BY DEF IInv, StoppedAtSwitch

\* What a request brings is true or false.
LEMMA RiskyTyped ==
  ASSUME TypeOK, NEW r \in Request
  PROVE  input[r].risky \in BOOLEAN
<1>1. input[r] \in Input \/ input[r] = NoInput BY DEF TypeOK
<1>2. CASE input[r] \in Input BY <1>2 DEF Input
<1>3. CASE input[r] = NoInput BY <1>3 DEF NoInput
<1> QED BY <1>1, <1>2, <1>3

(* The stages before the executor.                                          *)
LEMMA CheckIInv ==
  ASSUME IInv, NEW r \in Request,
         KillSwitch(r) \/ SandboxMark(r) \/ Process(r) \/ Simulate(r) \/ NotApproved(r)
  PROVE  IInv'
<1> USE DEF IInv
<1>1. CASE KillSwitch(r)
  <2> USE <1>1 DEF KillSwitch, Goto, End, history
  <2>1. TypeOK' BY DEF TypeOK, caches
  <2>2. /\ Under(r) /\ pc'[r] \in {"mark", "ended"}
        /\ \A q \in Request : q # r => pc'[q] = pc[q] /\ outcome'[q] = outcome[q]
    BY DEF TypeOK, Under
  <2>3. input[r].via = "http" /\ input[r].named /\ "blocked" \notin off[r] =>
          pc'[r] = "ended" /\ outcome'[r] = "blocked"
    BY <2>2, OffLists DEF TypeOK, Noted
  <2> QED BY <2>1, <2>2, <2>3, StageIInv
<1>2. CASE SandboxMark(r)
  <2> USE <1>2 DEF SandboxMark, Goto, history
  <2>1. TypeOK' BY DEF TypeOK, caches
  <2>2. /\ Under(r) /\ pc'[r] = "process"
        /\ \A q \in Request : q # r => pc'[q] = pc[q] /\ outcome'[q] = outcome[q]
    BY DEF TypeOK, Under
  <2> QED BY <2>1, <2>2, PastSwitch, StageIInv
<1>3. CASE Process(r)
  <2> USE <1>3 DEF Process, Goto, End, history
  <2>1. TypeOK' BY DEF TypeOK, caches
  <2>2. /\ Under(r) /\ pc'[r] \in {"ended", "held", "simulate", "mode"}
        /\ \A q \in Request : q # r => pc'[q] = pc[q] /\ outcome'[q] = outcome[q]
    BY DEF TypeOK, Under
  <2>3. policy \in policies[r] /\ policy \in Policy /\ input[r].risky \in BOOLEAN
    <3>1. policy \in policies[r] /\ policy \in Policy BY <2>2 DEF TypeOK, Noted
    <3> QED BY <3>1, RiskyTyped
  <2>4. pc'[r] = "held" => IsRequired(policy, input[r].risky)
    BY DEF TypeOK
  <2>5. EffectsOfDomain /\ pc'[r] = "mode" => Permits(policy, input[r].risky)
    <3>1. pc'[r] = "mode" =>
            ~IsRequired(policy, input[r].risky) /\ Decide(policy) \notin {"DENY", "SANDBOX"}
      BY DEF TypeOK
    <3> QED BY <2>3, <3>1, NotRequiredPermits
  <2> QED BY <2>1, <2>2, <2>3, <2>4, <2>5, PastSwitch, StageIInv
<1>4. CASE Simulate(r)
  <2> USE <1>4 DEF Simulate, End, history
  <2>1. TypeOK' BY DEF TypeOK, caches
  <2>2. /\ Under(r) /\ pc'[r] = "ended"
        /\ \A q \in Request : q # r => pc'[q] = pc[q] /\ outcome'[q] = outcome[q]
    BY DEF TypeOK, Under
  <2> QED BY <2>1, <2>2, PastSwitch, StageIInv
<1>5. CASE NotApproved(r)
  <2> USE <1>5 DEF NotApproved, End, history
  <2>1. TypeOK' BY DEF TypeOK, caches
  <2>2. /\ Under(r) /\ pc'[r] = "ended"
        /\ \A q \in Request : q # r => pc'[q] = pc[q] /\ outcome'[q] = outcome[q]
    BY DEF TypeOK, Under
  <2> QED BY <2>1, <2>2, PastSwitch, StageIInv
<1> QED BY <1>1, <1>2, <1>3, <1>4, <1>5

(* The choice of the mode, the approval and the executor: here an action    *)
(* becomes live.                                                            *)
LEMMA LiveIInv ==
  ASSUME IInv, NEW r \in Request, Mode(r) \/ Approve(r) \/ Executed(r)
  PROVE  IInv'
<1> USE DEF IInv
<1>1. CASE Mode(r) /\ sandboxed
  <2> USE <1>1 DEF Mode, Goto, history
  <2>1. TypeOK' BY DEF TypeOK, caches
  <2>2. /\ Under(r) /\ pc'[r] = "simulate"
        /\ \A q \in Request : q # r => pc'[q] = pc[q] /\ outcome'[q] = outcome[q]
    BY DEF TypeOK, Under
  <2> QED BY <2>1, <2>2, PastSwitch, StageIInv
<1>2. CASE Mode(r) /\ ~sandboxed
  <2> USE <1>2 DEF Mode, Goto, history
  <2>1. TypeOK' BY DEF TypeOK, caches
  <2>2. /\ Under(r) /\ pc' = [pc EXCEPT ![r] = "calling"] /\ live' = [live EXCEPT ![r] = TRUE]
        /\ UNCHANGED <<caches, input, outcome, approved, policies, off>>
        /\ "sandboxed" \in off[r]
    BY OffLists DEF Under, Noted
  <2> HIDE <1>2 DEF Mode
  <2>3. Noted' /\ Untouched' /\ HeldByPolicy'
    BY <2>2 DEF Noted, Untouched, HeldByPolicy, TypeOK, Under, caches, Off
  <2>4. Coverage'
    BY <1>2, <2>2 DEF Coverage, Permitted, LiveIsCovered, TypeOK, Mode
  <2>5. SandboxHolds'
    BY <2>2 DEF SandboxHolds, TypeOK
  <2>6. StoppedAtSwitch'
    BY <1>2, <2>2, PastSwitch DEF StoppedAtSwitch, TypeOK, Mode
  <2> QED BY <2>1, <2>3, <2>4, <2>5, <2>6
<1>3. CASE Approve(r)
  <2> USE <1>3 DEF Approve, Goto, history
  <2>1. TypeOK' BY DEF TypeOK, caches
  <2>2. /\ pc[r] = "held" /\ Under(r) /\ pc' = [pc EXCEPT ![r] = "calling"]
        /\ live' = [live EXCEPT ![r] = TRUE] /\ approved' = [approved EXCEPT ![r] = TRUE]
        /\ UNCHANGED <<caches, input, outcome, policies, off>>
    BY DEF Under
  <2> HIDE <1>3 DEF Approve
  <2>3. Noted' /\ Untouched' /\ HeldByPolicy'
    BY <2>2 DEF Noted, Untouched, HeldByPolicy, TypeOK, Under, caches, Off
  <2>4. Coverage'
    BY <2>2 DEF Coverage, Permitted, LiveIsCovered, HeldByPolicy, TypeOK
  <2>5. SandboxHolds'
    BY <2>2 DEF SandboxHolds, TypeOK
  <2>6. StoppedAtSwitch'
    BY <2>2, PastSwitch DEF StoppedAtSwitch, TypeOK
  <2> QED BY <2>1, <2>3, <2>4, <2>5, <2>6
<1>4. CASE Executed(r)
  <2> USE <1>4 DEF Executed, End, history
  <2>1. TypeOK' BY DEF TypeOK, caches
  <2>2. /\ Under(r) /\ pc'[r] = "ended"
        /\ \A q \in Request : q # r => pc'[q] = pc[q] /\ outcome'[q] = outcome[q]
    BY DEF TypeOK, Under
  <2> QED BY <2>1, <2>2, PastSwitch, StageIInv
<1> QED BY <1>1, <1>2, <1>3, <1>4 DEF Mode

(* A change of the caches is noted for every request under way; what was    *)
(* noted before stays.                                                      *)
LEMMA ControlPlaneIInv ==
  ASSUME IInv, ControlPlane
  PROVE  IInv'
<1> USE DEF IInv
<1>1. /\ policy' \in Policy /\ blocked' \in BOOLEAN /\ sandboxed' \in BOOLEAN /\ UNCHANGED reqVars
      /\ policies' = [r \in Request |-> IF Under(r) THEN policies[r] \cup {policy'} ELSE policies[r]]
      /\ off' = [r \in Request |-> IF Under(r) THEN off[r] \cup Off' ELSE off[r]]
  BY DEF ControlPlane, Changed, TypeOK
<1>2. TypeOK'
  <2>1. Off' \subseteq {"blocked", "sandboxed"} BY DEF Off
  <2> QED BY <1>1, <2>1 DEF TypeOK, reqVars
<1>3. \A r \in Request : /\ policies[r] \subseteq policies'[r] /\ off[r] \subseteq off'[r]
                         /\ Under(r) => policy' \in policies'[r] /\ Off' \subseteq off'[r]
  BY <1>1
<1>4. Noted' /\ Untouched'
  BY <1>1, <1>3 DEF Noted, Untouched, Under, reqVars
<1>5. HeldByPolicy'
  BY <1>1, <1>3 DEF HeldByPolicy, reqVars
<1>6. Coverage'
  BY <1>1, <1>3 DEF Coverage, Permitted, LiveIsCovered, reqVars
<1>7. SandboxHolds'
  BY <1>1, <1>3 DEF SandboxHolds, reqVars
<1>8. StoppedAtSwitch'
  BY <1>1, <1>3 DEF StoppedAtSwitch, reqVars
<1> QED BY <1>2, <1>4, <1>5, <1>6, <1>7, <1>8

(* After a crash no request is under way; what is live was live before.     *)
LEMMA CrashIInv ==
  ASSUME IInv, Crash
  PROVE  IInv'
<1> USE DEF IInv
<1>1. /\ policy' \in Policy /\ blocked' \in BOOLEAN /\ sandboxed' \in BOOLEAN
      /\ UNCHANGED <<input, marked, approved, live, logged, policies, off>>
      /\ pc' = [r \in Request |-> IF Under(r) THEN "ended" ELSE pc[r]]
      /\ outcome' = [r \in Request |-> IF Under(r) THEN "lost" ELSE outcome[r]]
  BY DEF Crash, history
<1>2. \A r \in Request : pc'[r] \in {"idle", "ended"} /\ (pc'[r] = "idle" <=> pc[r] = "idle")
  BY <1>1 DEF Under
<1>3. TypeOK'
  <2>1. \A r \in Request : /\ outcome'[r] # "none" <=> pc'[r] = "ended"
                           /\ outcome'[r] = "simulated" <=> outcome[r] = "simulated"
    BY <1>1 DEF TypeOK, Under
  <2> QED BY <1>1, <1>2, <2>1 DEF TypeOK, Under
<1>4. Noted' /\ Untouched'
  BY <1>1, <1>2 DEF Noted, Untouched, Under
<1>5. HeldByPolicy' /\ Coverage'
  BY <1>1, <1>2 DEF HeldByPolicy, Coverage, Permitted, LiveIsCovered
<1>6. SandboxHolds'
  BY <1>1 DEF SandboxHolds
<1>7. StoppedAtSwitch'
  BY <1>1, <1>2 DEF StoppedAtSwitch, Under
<1> QED BY <1>3, <1>4, <1>5, <1>6, <1>7

(* Every step keeps the invariant.                                          *)
LEMMA NextIInv == IInv /\ [Next]_vars => IInv'
<1> SUFFICES ASSUME IInv, [Next]_vars PROVE IInv'
  OBVIOUS
<1>1. ASSUME UNCHANGED vars PROVE IInv'
  BY <1>1 DEF vars, caches, reqVars, history, IInv, TypeOK, Noted, Under, Off, Untouched, HeldByPolicy,
              Coverage, Permitted, LiveIsCovered, SandboxHolds, StoppedAtSwitch
<1> QED BY <1>1, ArriveIInv, CheckIInv, LiveIInv, ControlPlaneIInv, CrashIInv DEF Next, Handler

(* The inductive invariant is an invariant.                                 *)
THEOREM Invariance == Spec => []IInv
<1> QED BY InitIInv, NextIInv, PTL DEF Spec

-----------------------------------------------------------------------------
(* The variables keep their types, a request has an outcome when it has     *)
(* ended, and exactly the simulated ones are handed to the audit.           *)
THEOREM TypeCorrect == Spec => []TypeOK
<1>1. IInv => TypeOK BY DEF IInv
<1> QED BY <1>1, Invariance, PTL

(* With effects of the domain, nothing is executed without a policy in      *)
(* force meanwhile that lets it pass.                                       *)
THEOREM LiveCovered == EffectsOfDomain => (Spec => []LiveIsCovered)
<1> SUFFICES ASSUME EffectsOfDomain PROVE Spec => []LiveIsCovered
  OBVIOUS
<1>1. IInv => LiveIsCovered BY DEF IInv, Coverage
<1> QED BY <1>1, Invariance, PTL

(* An agent in the sandbox all along reaches a real system by approval only. *)
THEOREM SandboxRespected == Spec => []SandboxHolds
<1>1. IInv => SandboxHolds BY DEF IInv
<1> QED BY <1>1, Invariance, PTL

(* An agent blocked all along gets nowhere by HTTP.                         *)
THEOREM KillSwitchRespected == Spec => []KillSwitchHolds
<1>1. IInv => KillSwitchHolds BY DEF IInv, StoppedAtSwitch, KillSwitchHolds, Stopped
<1> QED BY <1>1, Invariance, PTL

-----------------------------------------------------------------------------
(* Requests with tokens *)

LoginTypeOK ==
  /\ row \in Rows /\ login \in Rows \cup {"none"}
  /\ token \in [scope : BOOLEAN, age : 0..Lifetime]
  /\ since \in 0..Lifetime

\* A token with the scope is at least as old as the withdrawal.
TokenIsOlder == token.scope => since <= token.age

GrantedIsNow == Granted => since = 0

LoginInv == LoginTypeOK /\ TokenIsOlder /\ GrantedIsNow

\* A late request carries no scope, if it has been let in at all.
LateWithoutScope ==
  \A r \in late :
    /\ pc[r] \in {"killSwitch", "mark", "process", "ended"}
    /\ pc[r] = "ended" \/ ~input[r].scope
    /\ ~live[r]
    /\ outcome[r] \in {"none", "unauthorized", "blocked", "denied", "lost"}

SessionsInv == IInv /\ LoginInv /\ late \subseteq Request /\ LateWithoutScope

-----------------------------------------------------------------------------
(* What is known of tokens holds at the start and is kept by every step.    *)
LEMMA LoginInitInv == LoginInit => LoginInv
<1> SUFFICES ASSUME LoginInit PROVE LoginInv
  OBVIOUS
<1>1. Lifetime \in Nat /\ Lifetime # 0 BY LifetimeAssumption
<1> QED BY <1>1 DEF LoginInit, LoginInv, LoginTypeOK, TokenIsOlder, GrantedIsNow, Granted, NoToken, Rows

LEMMA LoginNextInv == LoginInv /\ [LoginNext]_loginVars => LoginInv'
<1> SUFFICES ASSUME LoginInv, [LoginNext]_loginVars PROVE LoginInv'
  OBVIOUS
<1> USE DEF LoginInv, LoginTypeOK, TokenIsOlder, GrantedIsNow, Granted, Rows
<1>0. Lifetime \in Nat BY LifetimeAssumption
<1>1. CASE UserChanges BY <1>0, <1>1 DEF UserChanges, Note
<1>2. CASE GetUser BY <1>0, <1>2 DEF GetUser, Note
<1>3. CASE NoNewToken BY <1>0, <1>3 DEF NoNewToken, Note
<1>4. CASE Issue
  <2>1. UNCHANGED row /\ login' = "none" /\ since' = (IF Granted \/ Granted' THEN 0 ELSE since)
    BY <1>4 DEF Issue, Note
  <2>2. token' \in [scope : BOOLEAN, age : 0..Lifetime]
    <3>1. 0 \in 0..Lifetime BY <1>0
    <3> QED BY <1>4, <3>1, Zenon DEF Issue
  <2>3. token'.age = 0 /\ (token'.scope <=> login = "granted")
    BY <1>4, Zenon DEF Issue
  <2> QED BY <1>0, <2>1, <2>2, <2>3
<1>5. CASE Tick
  <2>1. /\ UNCHANGED <<row, login>> /\ token'.scope = token.scope
        /\ token'.age = IF token.age < Lifetime THEN token.age + 1 ELSE token.age
        /\ since' = IF Granted \/ since = Lifetime THEN since ELSE since + 1
    BY <1>5 DEF Tick
  <2>2. token' \in [scope : BOOLEAN, age : 0..Lifetime]
    BY <1>0, <1>5 DEF Tick
  <2> QED BY <1>0, <2>1, <2>2
<1>6. CASE UNCHANGED loginVars BY <1>6 DEF loginVars
<1> QED BY <1>1, <1>2, <1>3, <1>4, <1>5, <1>6 DEF LoginNext

(* When the scope has been withdrawn for a lifetime no valid token has it.  *)
LEMMA ExpiredByThen == LoginInv => NoLateScope
<1> SUFFICES ASSUME LoginInv, since = Lifetime, VerifyToken(TRUE) PROVE FALSE
  BY DEF NoLateScope
<1>1. token.scope /\ token.age < Lifetime BY DEF VerifyToken
<1> QED BY <1>1, LifetimeAssumption DEF LoginInv, LoginTypeOK, TokenIsOlder

-----------------------------------------------------------------------------
(* Every step is one of the pipeline, or leaves the pipeline alone.         *)
LEMMA StepMaps == [SessionsNext]_sessionVars => [Next]_vars /\ [LoginNext]_loginVars
<1> USE DEF SessionsNext, sessionVars
<1>1. ASSUME NEW r \in Request, HttpRequest(r) \/ GrpcRequest(r) PROVE Next /\ UNCHANGED loginVars
  BY <1>1 DEF HttpRequest, GrpcRequest, Next
<1> QED BY <1>1 DEF Next

(* Requests, late ones among them, keep the invariant.                      *)
LEMMA SessionsNextInv == SessionsInv /\ [SessionsNext]_sessionVars => SessionsInv'
<1> SUFFICES ASSUME SessionsInv, [SessionsNext]_sessionVars PROVE SessionsInv'
  OBVIOUS
<1> USE DEF SessionsInv
<1>1. IInv' BY StepMaps, NextIInv
<1>2. LoginInv' BY StepMaps, LoginNextInv
<1>3. TypeOK BY DEF IInv
<1>4. ASSUME NEW r \in Request, HttpRequest(r)
      PROVE  late' \subseteq Request /\ LateWithoutScope'
  <2>1. PICK in \in Input : /\ ArriveHttp(r, in) /\ (in.token => VerifyToken(in.scope))
                            /\ late' = IF since = Lifetime THEN late \cup {r} ELSE late
    BY <1>4 DEF HttpRequest
  <2>2. in.token \in BOOLEAN /\ in.scope \in BOOLEAN BY DEF Input
  <2>3. /\ pc[r] = "idle" /\ ~live[r] /\ r \notin late
        /\ pc' = [pc EXCEPT ![r] = IF in.token THEN "killSwitch" ELSE "ended"]
        /\ outcome' = [outcome EXCEPT ![r] = IF in.token THEN @ ELSE "unauthorized"]
        /\ input' = [input EXCEPT ![r] = in] /\ live' = live
        /\ outcome[r] = "none"
    BY <1>3, <2>1 DEF ArriveHttp, Authenticate, Goto, End, TypeOK, LateWithoutScope, IInv, Untouched
  <2>4. since = Lifetime /\ in.token => ~in.scope
    BY <2>1, <2>2, ExpiredByThen DEF NoLateScope
  <2> QED BY <1>3, <2>1, <2>2, <2>3, <2>4 DEF LateWithoutScope, TypeOK
<1>5. ASSUME NEW r \in Request, GrpcRequest(r)
      PROVE  late' \subseteq Request /\ LateWithoutScope'
  <2>1. PICK in \in Input : ArriveGrpc(r, in) /\ late' = late
    BY <1>5 DEF GrpcRequest
  <2>2. /\ r \notin late /\ live' = live
        /\ \A q \in Request : q # r => pc'[q] = pc[q] /\ outcome'[q] = outcome[q] /\ input'[q] = input[q]
    BY <1>3, <2>1 DEF ArriveGrpc, Authenticate, Goto, End, TypeOK, LateWithoutScope
  <2> QED BY <2>1, <2>2 DEF LateWithoutScope
<1>6. ASSUME NEW r \in Request, Handler(r), late' = late
      PROVE  late' \subseteq Request /\ LateWithoutScope'
  <2>1. \A q \in Request : q # r => pc'[q] = pc[q] /\ outcome'[q] = outcome[q] /\ live'[q] = live[q]
    BY <1>3, <1>6 DEF Handler, KillSwitch, SandboxMark, Process, Mode, Simulate, Approve, NotApproved,
                      Executed, Goto, End, TypeOK
  <2>2. input' = input
    BY <1>6 DEF Handler, KillSwitch, SandboxMark, Process, Mode, Simulate, Approve, NotApproved, Executed
  <2>3. ASSUME r \in late
        PROVE  /\ pc'[r] \in {"killSwitch", "mark", "process", "ended"}
               /\ pc'[r] = "ended" \/ ~input[r].scope
               /\ ~live'[r]
               /\ outcome'[r] \in {"none", "unauthorized", "blocked", "denied", "lost"}
    <3>1. pc[r] \in {"killSwitch", "mark", "process"} /\ ~input[r].scope
      BY <1>6, <2>3 DEF LateWithoutScope, Handler, KillSwitch, SandboxMark, Process, Mode, Simulate,
                        Approve, NotApproved, Executed
    <3>2. CASE KillSwitch(r)
      BY <1>3, <2>3, <3>1, <3>2 DEF LateWithoutScope, KillSwitch, Goto, End, TypeOK
    <3>3. CASE SandboxMark(r)
      BY <1>3, <2>3, <3>1, <3>3 DEF LateWithoutScope, SandboxMark, Goto, TypeOK
    <3>4. CASE Process(r)
      BY <1>3, <2>3, <3>1, <3>4 DEF LateWithoutScope, Process, End, TypeOK
    <3> QED BY <1>6, <3>1, <3>2, <3>3, <3>4 DEF Handler, Mode, Simulate, Approve, NotApproved, Executed
  <2> QED BY <1>6, <2>1, <2>2, <2>3 DEF LateWithoutScope
<1>7. ASSUME ControlPlane, late' = late
      PROVE  late' \subseteq Request /\ LateWithoutScope'
  BY <1>7 DEF ControlPlane, Changed, reqVars, LateWithoutScope
<1>8. ASSUME Crash, late' = late
      PROVE  late' \subseteq Request /\ LateWithoutScope'
  BY <1>8 DEF Crash, LateWithoutScope, Under
<1>9. ASSUME UNCHANGED <<vars, late>>
      PROVE  late' \subseteq Request /\ LateWithoutScope'
  BY <1>9 DEF vars, reqVars, LateWithoutScope
<1> QED BY <1>1, <1>2, <1>4, <1>5, <1>6, <1>7, <1>8, <1>9 DEF SessionsNext, sessionVars

LEMMA SessionsInvariance == SessionsSpec => []SessionsInv
<1>1. SessionsInit => SessionsInv
  BY InitIInv, LoginInitInv DEF SessionsInit, SessionsInv, LateWithoutScope
<1> QED BY <1>1, SessionsNextInv, PTL DEF SessionsSpec

-----------------------------------------------------------------------------
(* A request by HTTP that comes in a lifetime after the scope was last      *)
(* granted is neither executed, simulated nor put before an operator.       *)
THEOREM Revocation == SessionsSpec => []RevocationStops
<1>1. SessionsInv => RevocationStops
  BY DEF SessionsInv, LateWithoutScope, RevocationStops, Stopped
<1> QED BY <1>1, SessionsInvariance, PTL
=============================================================================
