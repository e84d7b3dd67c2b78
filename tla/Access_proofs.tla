---------------------------- MODULE Access_proofs ----------------------------
(***************************************************************************)
(* With one operator at a time a blocked agent is stopped at the gateway,  *)
(* for any number of agents, gateways, calls and requests.                 *)
(***************************************************************************)
EXTENDS Access, StateSync_proofs

\* A request that has not come in has done nothing; and the functions are functions.
RequestsTyped ==
  /\ DOMAIN reqPc = Request /\ DOMAIN outcome = Request
  /\ DOMAIN live = Request /\ DOMAIN input = Request
  /\ \A r \in Request : reqPc[r] = "idle" => ~live[r] /\ outcome[r] = "none"

\* No signal that waits at the gateway takes the block back.
NoUnblock == \A i \in 1..Len(queue[gate]) : queue[gate][i][1] = who => queue[gate][i][2]

\* The block is in force at the gateway and will stay so.
Closed == Serving /\ Blocked /\ NoUnblock

\* Such a request is before the closed kill switch, or has ended there.
Shield(r) ==
  /\ who \in db /\ input[r].named /\ ~live[r]
  /\ \/ reqPc[r] = "killSwitch" /\ Closed /\ outcome[r] = "none"
     \/ reqPc[r] = "ended" /\ outcome[r] \in {"blocked", "lost"}

(* The inductive invariant, beside the one of StateSync.                    *)
AInv ==
  /\ RequestsTyped
  /\ inForce => who \in db /\ Closed
  /\ shielded \subseteq Request /\ \A r \in shielded : Shield(r)

-----------------------------------------------------------------------------
(* The control plane alone behaves like StateSync.                          *)
LEMMA StepIsNext == [AccessNext]_accessVars => [Next]_vars
BY DEF AccessNext, ControlStep, Arrive, Handle, accessVars

LEMMA ImpliesSpec == AccessSpec => Spec
<1>1. AccessInit => Init BY DEF AccessInit
<1> QED BY <1>1, StepIsNext, PTL DEF AccessSpec, Spec

-----------------------------------------------------------------------------
(* As long as the agent stays listed and the process lives, nothing opens a *)
(* closed gateway.                                                          *)
LEMMA StaysClosed ==
  ASSUME IInv, Next, Closed, Serving', who \in db, who \in db'
  PROVE  Closed'
<1> USE GateAssumption, WhoAssumption
<1>t. /\ queue \in [Gateway -> Seq(Signal)] /\ cache \in [Gateway -> SUBSET Agent]
      /\ pc \in [Gateway -> [Proc -> {"subscribing", "reading", "applying", "warming", "ready", "ended"}]]
      /\ SignalTrue
      /\ \A o \in Op : opPc[o] = "publishing" => signal[o] \in Signal
      /\ Serving /\ Blocked /\ NoUnblock
  BY DEF IInv, Typed, TypeOK, Closed
<1>q. queue[gate] \in Seq(Signal) /\ Len(queue[gate]) \in Nat BY <1>t, LenProperties
<1>w. Blocked' /\ NoUnblock' => Closed' BY DEF Closed
<1>1. ASSUME UNCHANGED <<queue, cache>> PROVE Closed'
  <2>1. Blocked' BY <1>t, <1>1 DEF Blocked
  <2>2. NoUnblock' BY <1>t, <1>1 DEF NoUnblock
  <2> QED BY <2>1, <2>2, <1>w
<1>2. ASSUME NEW o \in Op, Publish(o) PROVE Closed'
  <2>1. signal[o] \in Signal /\ (signal[o][1] = who => signal[o][2]) BY <1>t, <1>w, <1>2 DEF SignalTrue, Publish
  <2>2. cache' = cache /\ (queue'[gate] = queue[gate] \/ queue'[gate] = Append(queue[gate], signal[o]))
    BY <1>2 DEF Publish
  <2>3. CASE queue'[gate] = queue[gate] BY <1>t, <1>w, <2>2, <2>3 DEF Blocked, NoUnblock
  <2>4. CASE queue'[gate] = Append(queue[gate], signal[o])
    <3>1. /\ Len(queue'[gate]) = Len(queue[gate]) + 1
          /\ \A i \in 1..Len(queue[gate]) : queue'[gate][i] = queue[gate][i]
          /\ queue'[gate][Len(queue[gate]) + 1] = signal[o]
      BY <1>q, <2>1, <2>4, AppendProperties
    <3>2. NoUnblock'
      <4> SUFFICES ASSUME NEW i \in 1..Len(queue'[gate])
                   PROVE  queue'[gate][i][1] = who => queue'[gate][i][2]
        BY DEF NoUnblock
      <4>1. i \in 1..Len(queue[gate]) \/ i = Len(queue[gate]) + 1 BY <1>q, <3>1
      <4>2. CASE i \in 1..Len(queue[gate])
        <5>1. queue'[gate][i] = queue[gate][i] BY <3>1, <4>2
        <5> QED BY <1>t, <4>2, <5>1 DEF NoUnblock
      <4>3. CASE i = Len(queue[gate]) + 1
        <5>1. queue'[gate][i] = signal[o] BY <3>1, <4>3
        <5> QED BY <2>1, <5>1
      <4> QED BY <4>1, <4>2, <4>3
    <3> QED BY <1>t, <1>w, <2>2, <3>2 DEF Blocked
  <2> QED BY <2>2, <2>3, <2>4
<1>3. ASSUME NEW o \in Op, Operator(o) PROVE Closed'
  BY <1>1, <1>2, <1>3 DEF Operator, Update, UpdateFailed, PublishFailed
<1>4. ASSUME NEW g \in Gateway, ProcessRestarts(g) PROVE Closed'
  <2>1. g # gate BY <1>t, <1>w, <1>4 DEF ProcessRestarts, Serving, Starting, Proc
  <2> QED BY <1>t, <1>w, <1>4, <2>1 DEF ProcessRestarts, Blocked, NoUnblock
<1>5. ASSUME NEW g \in Gateway, NEW p \in Proc, InitStep(g, p) PROVE Closed'
  <2>1. CASE UpdateL1(g, p)
    <3>1. Blocked' BY <1>t, <2>1 DEF UpdateL1, Blocked
    <3>2. queue' = queue BY <2>1 DEF UpdateL1
    <3>3. NoUnblock' BY <1>t, <3>2 DEF NoUnblock
    <3> QED BY <1>w, <3>1, <3>3
  <2> QED BY <1>1, <1>4, <1>5, <2>1 DEF InitStep, ReadList, WarmL2, InitFailed, WarmFailed, Restarted
<1>6. ASSUME NEW g \in Gateway, ApplySignal(g) PROVE Closed'
  <2>1. CASE g # gate BY <1>t, <1>w, <1>6, <2>1 DEF ApplySignal, Blocked, NoUnblock
  <2>2. CASE g = gate
    <3>1. queue[gate] # <<>> /\ queue'[gate] = Tail(queue[gate]) BY <1>t, <1>6, <2>2 DEF ApplySignal
    <3>2. /\ Head(queue[gate]) = queue[gate][1] /\ Head(queue[gate]) \in Signal
          /\ Len(queue[gate]) \in Nat \ {0} /\ Len(Tail(queue[gate])) = Len(queue[gate]) - 1
          /\ \A i \in 1..Len(queue[gate])-1 : Tail(queue[gate])[i] = queue[gate][i+1]
      BY <1>q, <3>1, HeadTailProperties, EmptySeq, LenProperties
    <3>3. NoUnblock' BY <1>t, <1>w, <3>1, <3>2 DEF NoUnblock
    <3>5. Head(queue[gate])[1] = who => Head(queue[gate])[2] BY <1>t, <3>2 DEF NoUnblock
    <3>6. Blocked' BY <1>t, <1>w, <1>6, <2>2, <3>5 DEF ApplySignal, Blocked
    <3> QED BY <1>w, <3>3, <3>6
  <2> QED BY <2>1, <2>2
<1>7. ASSUME NEW g \in Gateway, Drop(g) PROVE Closed'
  <2>1. PICK n \in 0..Len(queue[g]) : queue' = [queue EXCEPT ![g] = SubSeq(@, 1, n)]
    BY <1>7 DEF Drop
  <2>2. CASE g # gate BY <1>t, <1>w, <1>7, <2>1, <2>2 DEF Drop, Blocked, NoUnblock
  <2>3. CASE g = gate
    <3>1. \A i \in 1..n : queue[gate][i] \in Signal BY <1>q, <2>1, <2>3, ElementOfSeq
    <3>2. Len(SubSeq(queue[gate], 1, n)) = n /\ \A i \in 1..n : SubSeq(queue[gate], 1, n)[i] = queue[gate][i]
      BY <1>q, <2>1, <2>3, <3>1, SubSeqProperties
    <3>3. NoUnblock'
      <4>1. queue'[gate] = SubSeq(queue[gate], 1, n) /\ n <= Len(queue[gate]) /\ n \in Nat
        BY <1>t, <1>q, <2>1, <2>3
      <4> SUFFICES ASSUME NEW i \in 1..n PROVE queue[gate][i][1] = who => queue[gate][i][2]
        BY <3>2, <4>1 DEF NoUnblock
      <4>2. i \in 1..Len(queue[gate]) BY <1>q, <4>1
      <4> QED BY <1>t, <4>2 DEF NoUnblock
    <3> QED BY <1>t, <1>w, <1>7, <3>3 DEF Drop, Blocked
  <2> QED BY <2>2, <2>3
<1>8. ASSUME NEW g \in Gateway, ListenerEnds(g) PROVE Closed'
  <2>1. cache' = cache /\ (queue'[gate] = queue[gate] \/ queue'[gate] = <<>>) BY <1>t, <1>8 DEF ListenerEnds
  <2> QED BY <1>t, <1>w, <2>1 DEF Blocked, NoUnblock
<1>9. ASSUME NEW g \in Gateway,
             Listener(g) \/ Drop(g) \/ SilentReconnect(g) \/ ListenerEnds(g) \/ Restart(g)
      PROVE  Closed'
  BY <1>1, <1>4, <1>6, <1>7, <1>8, <1>9 DEF Listener, Subscribe, Resubscribe, SilentReconnect, Restart, Restarted
<1> QED BY <1>1, <1>3, <1>5, <1>9 DEF Next, LockExpires, Terminated, vars

\* A block that has arrived closes the gateway.
LEMMA ArrivedCloses ==
  ASSUME NoBlockMissed, BlockArrived
  PROVE  who \in db /\ Closed
<1>1. who \in db /\ who \in cache[gate] /\ queue[gate] = <<>> /\ Serving
  BY GateAssumption DEF BlockArrived, NoBlockMissed, AtRest, InService, Serving
<1> QED BY <1>1 DEF Closed, Blocked, NoUnblock

-----------------------------------------------------------------------------
(* What a step of the control plane does to the requests.                   *)
LEMMA ControlKeeps ==
  ASSUME IInv, NoBlockMissed, AInv, ControlStep
  PROVE  AInv'
<1> USE DEF AInv
<1>1. \/ /\ Serving /\ ~Serving'
         /\ reqPc' = [r \in Request |-> IF G!Under(r) THEN "ended" ELSE reqPc[r]]
         /\ outcome' = [r \in Request |-> IF G!Under(r) THEN "lost" ELSE outcome[r]]
      \/ /\ Serving /\ ~Serving' => \A r \in Request : ~G!Under(r)
         /\ UNCHANGED <<reqPc, outcome>>
  BY DEF ControlStep, G!Crash, G!ControlPlane, G!Changed, G!reqVars, gatewayVars
<1>2. UNCHANGED <<input, live>>
  BY DEF ControlStep, G!Crash, G!ControlPlane, G!Changed, G!reqVars, gatewayVars
<1>3. RequestsTyped'
  <2>1. DOMAIN reqPc' = Request /\ DOMAIN outcome' = Request
    BY <1>1 DEF RequestsTyped
  <2>2. ASSUME NEW r \in Request, reqPc'[r] = "idle" PROVE reqPc[r] = "idle" /\ outcome'[r] = outcome[r]
    BY <1>1, <2>2 DEF RequestsTyped, G!Under
  <2> QED BY <1>2, <2>1, <2>2 DEF RequestsTyped
<1>4. shielded' \subseteq Request /\ (who \in db' \/ shielded' = {}) /\ shielded' \subseteq shielded
  BY DEF ControlStep
<1>5. ASSUME NEW r \in shielded' PROVE Shield(r)'
  <2>1. r \in Request /\ Shield(r) /\ who \in db' BY <1>4, <1>5
  <2>2. input'[r].named /\ ~live'[r] BY <1>2, <2>1 DEF Shield
  <2>3. CASE reqPc[r] = "ended"
    <3>1. reqPc'[r] = "ended" /\ outcome'[r] = outcome[r] BY <1>1, <2>1, <2>3 DEF RequestsTyped, G!Under
    <3>2. outcome[r] \in {"blocked", "lost"} BY <2>1, <2>3 DEF Shield
    <3> QED BY <2>1, <2>2, <3>1, <3>2 DEF Shield
  <2>4. CASE reqPc[r] = "killSwitch" /\ Closed /\ outcome[r] = "none"
    <3>1. CASE Serving'
      <4>1. Closed' BY <2>1, <2>4, <3>1, StaysClosed DEF ControlStep, Shield
      <4>2. reqPc'[r] = reqPc[r] /\ outcome'[r] = outcome[r] BY <1>1, <3>1
      <4> QED BY <2>1, <2>2, <2>4, <4>1, <4>2 DEF Shield
    <3>2. CASE ~Serving'
      <4>1. reqPc'[r] = "ended" /\ outcome'[r] = "lost"
        BY <1>1, <2>1, <2>4, <3>2 DEF G!Under, Closed
      <4> QED BY <2>1, <2>2, <4>1 DEF Shield
    <3> QED BY <3>1, <3>2
  <2> QED BY <2>1, <2>3, <2>4 DEF Shield
<1>6. ASSUME inForce' PROVE who \in db' /\ Closed'
  <2>1. (inForce \/ BlockArrived) /\ Serving' /\ who \in db' /\ Next BY <1>6 DEF ControlStep
  <2>2. who \in db /\ Closed BY <2>1, ArrivedCloses
  <2> QED BY <2>1, <2>2, StaysClosed
<1> QED BY <1>3, <1>4, <1>5, <1>6

\* What a request that stays where it is needs to keep its shield.
LEMMA ShieldKept ==
  ASSUME NEW r, Shield(r), UNCHANGED vars,
         reqPc'[r] = reqPc[r], outcome'[r] = outcome[r], live'[r] = live[r], input'[r] = input[r]
  PROVE  Shield(r)'
BY DEF Shield, Closed, Serving, Blocked, NoUnblock, vars, opVars

(* A request that comes in finds a closed gateway when the block has arrived. *)
LEMMA ArriveKeeps ==
  ASSUME IInv, NoBlockMissed, AInv, NEW r \in Request, Arrive(r)
  PROVE  AInv'
<1> USE DEF AInv
<1> DEFINE in == [via |-> "http", token |-> TRUE, scope |-> TRUE, named |-> TRUE, risky |-> FALSE]
<1>1. /\ reqPc[r] = "idle" /\ reqPc' = [reqPc EXCEPT ![r] = "killSwitch"]
      /\ input' = [input EXCEPT ![r] = in]
      /\ UNCHANGED <<vars, inForce, outcome, live>>
  BY DEF Arrive, G!ArriveHttp, G!Authenticate, G!Goto
<1>2. RequestsTyped' BY <1>1 DEF RequestsTyped
<1>3. r \notin shielded BY <1>1 DEF Shield
<1>4. ASSUME NEW q \in shielded PROVE Shield(q)'
  <2>1. q \in Request /\ q # r BY <1>3, <1>4
  <2> QED BY <1>1, <1>4, <2>1, ShieldKept DEF RequestsTyped
<1>5. who \in db /\ Closed => (who \in db /\ Closed)'
  BY <1>1 DEF Closed, Serving, Blocked, NoUnblock, vars, opVars
<1>6. ASSUME inForce \/ BlockArrived PROVE Shield(r)'
  <2>1. (who \in db /\ Closed)' BY <1>5, <1>6, ArrivedCloses
  <2>2. /\ input'[r].named /\ reqPc'[r] = "killSwitch"
        /\ ~live'[r] /\ outcome'[r] = "none"
    BY <1>1 DEF RequestsTyped
  <2> QED BY <2>1, <2>2 DEF Shield
<1>7. shielded' = shielded \/ ((inForce \/ BlockArrived) /\ shielded' = shielded \cup {r}) BY DEF Arrive
<1> QED BY <1>1, <1>2, <1>4, <1>5, <1>6, <1>7

(* The handler of a shielded request can only refuse it.                    *)
LEMMA HandleKeeps ==
  ASSUME AInv, NEW r \in Request, Handle(r)
  PROVE  AInv'
<1> USE DEF AInv
<1>1. UNCHANGED <<vars, inForce, shielded, input>> /\ G!Handler(r)
  BY DEF Handle, G!Handler, G!KillSwitch, G!SandboxMark, G!Process, G!Mode, G!Simulate, G!Approve,
         G!NotApproved, G!Executed
<1>2. /\ DOMAIN reqPc' = Request /\ DOMAIN outcome' = Request /\ DOMAIN live' = Request
      /\ reqPc[r] # "idle" /\ reqPc'[r] # "idle"
      /\ \A q \in Request : q # r => reqPc'[q] = reqPc[q] /\ outcome'[q] = outcome[q] /\ live'[q] = live[q]
  BY <1>1 DEF RequestsTyped, G!Handler, G!KillSwitch, G!SandboxMark, G!Process, G!Mode, G!Simulate,
              G!Approve, G!NotApproved, G!Executed, G!Goto, G!End
<1>3. RequestsTyped' BY <1>1, <1>2 DEF RequestsTyped
<1>4. ASSUME NEW q \in shielded PROVE Shield(q)'
  <2>1. CASE q # r BY <1>1, <1>2, <1>4, <2>1, ShieldKept
  <2>2. CASE q = r
    <3>1. Shield(r) BY <1>4, <2>2
    <3>2. reqPc[r] # "ended"
      BY <1>1 DEF G!Handler, G!KillSwitch, G!SandboxMark, G!Process, G!Mode, G!Simulate, G!Approve,
                  G!NotApproved, G!Executed
    <3>3. reqPc[r] = "killSwitch" /\ input[r].named /\ Blocked BY <3>1, <3>2 DEF Shield, Closed
    <3>4. reqPc' = [reqPc EXCEPT ![r] = "ended"] /\ outcome' = [outcome EXCEPT ![r] = "blocked"]
          /\ live' = live
      BY <1>1, <3>3 DEF G!Handler, G!KillSwitch, G!SandboxMark, G!Process, G!Mode, G!Simulate, G!Approve,
                        G!NotApproved, G!Executed, G!End
    <3>5. reqPc'[r] = "ended" /\ outcome'[r] = "blocked" BY <3>4 DEF RequestsTyped
    <3> QED BY <1>1, <2>2, <3>1, <3>4, <3>5 DEF Shield, vars, opVars
  <2> QED BY <2>1, <2>2
<1>5. who \in db /\ Closed => (who \in db /\ Closed)'
  BY <1>1 DEF Closed, Serving, Blocked, NoUnblock, vars, opVars
<1> QED BY <1>1, <1>3, <1>4, <1>5

-----------------------------------------------------------------------------
(* With one operator at a time, a request that comes in while the block of  *)
(* its agent is in force is refused as long as the agent stays blocked,     *)
(* whatever else happens meanwhile: restarts, breaks and the end of the     *)
(* listener at SIGTERM included.                                            *)
THEOREM BlockIsEffective == OneOperator => (AccessSpec => []BlockStops)
<1> SUFFICES ASSUME OneOperator PROVE AccessSpec => []BlockStops
  OBVIOUS
<1>1. AccessInit => AInv
  BY DEF AccessInit, G!Init, AInv, RequestsTyped
<1>2. IInv /\ NoBlockMissed /\ AInv /\ [AccessNext]_accessVars => AInv'
  <2> SUFFICES ASSUME IInv, NoBlockMissed, AInv, [AccessNext]_accessVars PROVE AInv'
    OBVIOUS
  <2>1. CASE UNCHANGED accessVars
    <3>1. UNCHANGED <<vars, reqPc, outcome, live, input, inForce, shielded>> BY <2>1 DEF accessVars, gatewayVars
    <3>2. RequestsTyped' BY <3>1 DEF AInv, RequestsTyped
    <3>3. \A r \in shielded : Shield(r)' BY <3>1, ShieldKept DEF AInv
    <3>4. who \in db /\ Closed => (who \in db /\ Closed)'
      BY <3>1 DEF Closed, Serving, Blocked, NoUnblock, vars, opVars
    <3> QED BY <3>1, <3>2, <3>3, <3>4 DEF AInv
  <2> QED BY <2>1, ControlKeeps, ArriveKeeps, HandleKeeps DEF AccessNext
<1>3. AInv => BlockStops BY DEF AInv, BlockStops, Shield, G!Stopped
<1> QED BY <1>1, <1>2, <1>3, ImpliesSpec, Invariance, NoBlockOverlooked, PTL DEF AccessSpec
=============================================================================
