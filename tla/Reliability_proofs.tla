-------------------------- MODULE Reliability_proofs --------------------------
(***************************************************************************)
(* The circuit breaker and the tries of the execution layer, for any       *)
(* number of goroutines and any of the limits.                             *)
(***************************************************************************)
EXTENDS Reliability, FiniteSetTheorems, TLAPS

Breaker ==
  [state : {"closed", "open", "halfOpen"}, requests : 0..MaxRequests,
   successes : 0..MaxRequests, failures : 0..TripAfter, members : SUBSET Call, expiry : Nat]

\* What holds of a breaker b when f are the fresh calls and q of them failed in
\* a row.  Fresh calls are members, so none of their failures is overlooked; a
\* period that is over has no fresh calls; and a success of a trial call takes
\* the place of its membership.
Sound(b, f, q) ==
  /\ b \in Breaker /\ IsFiniteSet(b.members)
  /\ f \subseteq Call /\ q \in 0..TripAfter + 1
  /\ b.state # "halfOpen" /\ b.expiry = 0 => f = {} /\ q = 0
  /\ b.state = "open" => b.members = {}
  /\ b.state # "open" => f \subseteq b.members
  /\ b.state = "closed" => q <= b.failures
  /\ b.state = "halfOpen" => q = 0 /\ Cardinality(b.members) + b.successes <= b.requests

\* The tries of call c: never more effects than tries that have ended.
Tries(c) ==
  /\ pc[c] = "limiter" => effects[c] = 0
  /\ pc[c] = "calling" => effects[c] < attempt[c]
  /\ pc[c] = "backoff" => effects[c] <= attempt[c] /\ attempt[c] < Attempts

CallTypes ==
  /\ pc \in [Call -> {"idle", "limiter", "calling", "backoff"}]
  /\ attempt \in [Call -> 0..Attempts]
  /\ left \in [Call -> 0..CallTimeout]
  /\ effects \in [Call -> 0..Attempts]

(* The inductive invariant of the execution layer.                          *)
IInv == system \in Modes /\ Sound(cb, fresh, quick) /\ CallTypes /\ \A c \in Call : Tries(c)

-----------------------------------------------------------------------------
(* The breaker *)

\* The durations and limits are positive numbers.
LEMMA Limits ==
  /\ Attempts \in Nat \ {0} /\ MaxRequests \in Nat \ {0} /\ Interval \in Nat \ {0}
  /\ CallTimeout \in Nat \ {0} /\ OpenFor \in Nat \ {0} /\ TripAfter \in Nat
BY DurationAssumption DEF Durations

\* A new generation, with the fields it has.
LEMMA NewGeneration ==
  ASSUME NEW st \in {"closed", "open", "halfOpen"}
  PROVE  LET g == Generation(st) IN
         /\ g \in Breaker /\ g.state = st /\ g.members = {} /\ IsFiniteSet(g.members)
         /\ g.requests = 0 /\ g.successes = 0 /\ g.failures = 0
         /\ Cardinality(g.members) = 0
         /\ st # "halfOpen" => g.expiry > 0
BY Limits, FS_EmptySet DEF Generation, Breaker

\* Bringing the breaker up to date keeps it sound, and its period is not over.
LEMMA CurrentSound ==
  ASSUME NEW b, NEW f, NEW q, Sound(b, f, q)
  PROVE  /\ Sound(CurrentState(b), f, q)
         /\ CurrentState(b).state # "halfOpen" => CurrentState(b).expiry > 0
<1>1. b.expiry \in Nat /\ b.state \in {"closed", "open", "halfOpen"} BY DEF Sound, Breaker
<1>2. CASE b.state = "halfOpen" \/ b.expiry > 0
  BY <1>2, <1>1 DEF CurrentState
<1>3. CASE b.state # "halfOpen" /\ b.expiry = 0
  <2> DEFINE st == IF b.state = "closed" THEN "closed" ELSE "halfOpen"
  <2>1. CurrentState(b) = Generation(st) BY <1>3 DEF CurrentState
  <2>2. f = {} /\ q = 0 BY <1>3 DEF Sound
  <2>3. st \in {"closed", "halfOpen"} OBVIOUS
  <2> HIDE DEF st
  <2>4. Sound(Generation(st), f, q) BY <2>2, <2>3, NewGeneration, Limits DEF Sound
  <2> QED BY <2>1, <2>3, <2>4, NewGeneration
<1> QED BY <1>1, <1>2, <1>3

\* A call that is let through is a member, and while half open a trial call.
LEMMA AdmittedSound ==
  ASSUME NEW b, NEW f, NEW q, NEW c \in Call, Sound(b, f, q), Admits(b),
         b.state # "halfOpen" => b.expiry > 0
  PROVE  Sound(BeforeRequest(b, c), f \cup {c}, q)
<1> DEFINE d == BeforeRequest(b, c)
<1>1. /\ b \in Breaker /\ b.state # "open"
      /\ d = [b EXCEPT !.members = @ \cup {c}, !.requests = IF b.state = "halfOpen" THEN @ + 1 ELSE @]
  BY DEF Sound, Admits, BeforeRequest
<1>2. /\ d.state = b.state /\ d.expiry = b.expiry /\ d.failures = b.failures
      /\ d.successes = b.successes /\ d.members = b.members \cup {c}
      /\ d.requests = IF b.state = "halfOpen" THEN b.requests + 1 ELSE b.requests
  BY <1>1 DEF Breaker
<1>3. d \in Breaker
  <2>1. d.requests \in 0..MaxRequests BY <1>1, <1>2, Limits DEF Breaker, Admits
  <2>2. d.members \subseteq Call BY <1>1, <1>2 DEF Breaker
  <2> QED BY <1>1, <1>2, <2>1, <2>2 DEF Breaker
<1>f. IsFiniteSet(b.members) BY DEF Sound
<1>4. IsFiniteSet(d.members) /\ Cardinality(d.members) <= Cardinality(b.members) + 1
      /\ Cardinality(d.members) \in Nat /\ Cardinality(b.members) \in Nat
  <2>1. IsFiniteSet(b.members \cup {c}) BY <1>f, FS_AddElement
  <2>2. Cardinality(b.members \cup {c}) = IF c \in b.members THEN Cardinality(b.members) ELSE Cardinality(b.members) + 1
    BY <1>f, FS_AddElement
  <2>3. Cardinality(b.members) \in Nat BY <1>f, FS_CardinalityType
  <2> QED BY <1>2, <2>1, <2>2, <2>3
<1> HIDE DEF d
<1> SUFFICES Sound(d, f \cup {c}, q) BY DEF d
<1>5. CASE b.state = "halfOpen"
  <2>1. Cardinality(d.members) + d.successes <= d.requests
    BY <1>2, <1>4, <1>5, <1>1 DEF Sound, Breaker
  <2> QED BY <1>1, <1>2, <1>3, <1>4, <1>5, <2>1 DEF Sound
<1>6. CASE b.state # "halfOpen"
  BY <1>1, <1>2, <1>3, <1>4, <1>6 DEF Sound
<1> QED BY <1>5, <1>6

\* A result of a call that is no member changes nothing but the history.
LEMMA AfterSuccessSound ==
  ASSUME NEW b, NEW f, NEW q, NEW c \in Call, Sound(b, f, q)
  PROVE  Sound(AfterRequest(b, c, TRUE), f \ {c}, 0)
<1> DEFINE now == CurrentState(b)  rest == [now EXCEPT !.members = @ \ {c}]
<1>1. Sound(now, f, q) /\ (now.state # "halfOpen" => now.expiry > 0) BY CurrentSound
<1> HIDE DEF now
<1>2. now \in Breaker /\ now.members \subseteq Call BY <1>1 DEF Sound, Breaker
<1>3. CASE c \notin now.members
  <2>1. AfterRequest(b, c, TRUE) = now BY <1>3 DEF AfterRequest, now
  <2>2. Sound(now, f \ {c}, 0) BY <1>1, <1>2, Limits DEF Sound, Breaker
  <2> QED BY <2>1, <2>2
<1>4. CASE c \in now.members
  <2>1. AfterRequest(b, c, TRUE) = OnSuccess(rest) BY <1>4 DEF AfterRequest, now
  <2>2. /\ rest \in Breaker /\ rest.state = now.state /\ rest.expiry = now.expiry
        /\ rest.failures = now.failures /\ rest.requests = now.requests
        /\ rest.successes = now.successes /\ rest.members = now.members \ {c}
    BY <1>2 DEF Breaker
  <2>3. /\ IsFiniteSet(rest.members) /\ Cardinality(rest.members) = Cardinality(now.members) - 1
        /\ Cardinality(now.members) \in Nat /\ Cardinality(rest.members) \in Nat
    <3>1. IsFiniteSet(now.members) BY <1>1 DEF Sound
    <3>2. IsFiniteSet(now.members \ {c}) /\ Cardinality(now.members \ {c}) = Cardinality(now.members) - 1
      BY <3>1, <1>4, FS_RemoveElement
    <3>3. Cardinality(now.members) \in Nat /\ Cardinality(now.members \ {c}) \in Nat
      BY <3>1, <3>2, FS_CardinalityType
    <3> QED BY <2>2, <3>2, <3>3
  <2>4. now.state \in {"closed", "halfOpen"} BY <1>1, <1>4, <1>2 DEF Sound, Breaker
  <2> HIDE DEF rest
  <2>5. CASE now.state = "closed"
    <3> DEFINE d == [rest EXCEPT !.failures = 0]
    <3>1. OnSuccess(rest) = d BY <2>2, <2>5 DEF OnSuccess
    <3>2. /\ d \in Breaker /\ d.state = "closed" /\ d.expiry = now.expiry /\ d.failures = 0
          /\ d.members = now.members \ {c} /\ IsFiniteSet(d.members)
      BY <2>2, <2>3, <2>5, Limits DEF Breaker
    <3> HIDE DEF d
    <3>3. Sound(d, f \ {c}, 0) BY <1>1, <2>5, <3>2, Limits DEF Sound
    <3> QED BY <2>1, <3>1, <3>3
  <2>6. CASE now.state = "halfOpen" /\ now.successes + 1 >= MaxRequests
    <3>1. OnSuccess(rest) = Generation("closed") BY <2>2, <2>6 DEF OnSuccess
    <3>2. Cardinality(now.members) + now.successes <= MaxRequests
      BY <1>1, <1>2, <2>3, <2>6, Limits DEF Sound, Breaker
    <3>3. Cardinality(rest.members) = 0
      BY <2>3, <2>6, <3>2, <1>2, Limits DEF Breaker
    <3>4. rest.members = {} BY <2>3, <3>3, FS_EmptySet
    <3>5. f \ {c} = {} BY <1>1, <2>2, <2>6, <3>4 DEF Sound
    <3>6. Sound(Generation("closed"), f \ {c}, 0) BY <3>5, NewGeneration, Limits DEF Sound
    <3> QED BY <2>1, <3>1, <3>6
  <2>7. CASE now.state = "halfOpen" /\ ~(now.successes + 1 >= MaxRequests)
    <3> DEFINE d == [rest EXCEPT !.successes = @ + 1]
    <3>1. OnSuccess(rest) = d BY <2>2, <2>7 DEF OnSuccess
    <3>2. /\ d \in Breaker /\ d.state = "halfOpen" /\ d.successes = now.successes + 1
          /\ d.requests = now.requests /\ d.members = rest.members
      BY <2>2, <2>7, <1>2, Limits DEF Breaker
    <3> HIDE DEF d
    <3>3. Cardinality(d.members) + d.successes <= d.requests
      BY <1>1, <1>2, <2>3, <2>7, <3>2 DEF Sound, Breaker
    <3>4. Sound(d, f \ {c}, 0) BY <1>1, <2>2, <2>3, <2>7, <3>2, <3>3, Limits DEF Sound
    <3> QED BY <2>1, <3>1, <3>4
  <2> QED BY <2>4, <2>5, <2>6, <2>7
<1> QED BY <1>3, <1>4

\* A failure of a fresh call counts in the breaker, or has opened it.
LEMMA AfterFailureSound ==
  ASSUME NEW b, NEW f, NEW q, NEW c \in Call, Sound(b, f, q)
  PROVE  Sound(AfterRequest(b, c, FALSE), f \ {c}, IF c \in f THEN Failed(q) ELSE q)
<1> DEFINE now == CurrentState(b)  rest == [now EXCEPT !.members = @ \ {c}]
           p   == IF c \in f THEN Failed(q) ELSE q
<1>1. Sound(now, f, q) /\ (now.state # "halfOpen" => now.expiry > 0) BY CurrentSound
<1> HIDE DEF now
<1>2. now \in Breaker /\ now.members \subseteq Call BY <1>1 DEF Sound, Breaker
<1>3. p \in 0..TripAfter + 1 /\ p <= q + 1 /\ (c \notin f => p = q)
  BY <1>1, Limits DEF Sound, Failed
<1> HIDE DEF p
<1>4. CASE c \notin now.members
  <2>1. AfterRequest(b, c, FALSE) = now BY <1>4 DEF AfterRequest, now
  <2>2. CASE now.state = "open"
    BY <1>1, <1>2, <1>3, <2>1, <2>2 DEF Sound, p
  <2>3. CASE now.state # "open"
    <3>1. c \notin f BY <1>1, <1>4, <2>3 DEF Sound
    <3> QED BY <1>1, <1>3, <2>1, <3>1 DEF Sound, p
  <2> QED BY <2>2, <2>3
<1>5. CASE c \in now.members
  <2>1. AfterRequest(b, c, FALSE) = OnFailure(rest) BY <1>5 DEF AfterRequest, now
  <2>2. /\ rest \in Breaker /\ rest.state = now.state /\ rest.expiry = now.expiry
        /\ rest.failures = now.failures /\ rest.members = now.members \ {c}
    BY <1>2 DEF Breaker
  <2>3. IsFiniteSet(rest.members)
    <3>1. IsFiniteSet(now.members) BY <1>1 DEF Sound
    <3> QED BY <2>2, <3>1, FS_RemoveElement
  <2> HIDE DEF rest
  <2>4. CASE now.state = "halfOpen" \/ ReadyToTrip(now.failures + 1)
    <3>1. OnFailure(rest) = Generation("open") BY <2>2, <2>4 DEF OnFailure
    <3>2. f \ {c} \subseteq Call BY <1>1 DEF Sound
    <3>3. Sound(Generation("open"), f \ {c}, p) BY <1>3, <3>2, NewGeneration DEF Sound
    <3> QED BY <2>1, <3>1, <3>3 DEF p
  <2>5. CASE now.state # "halfOpen" /\ ~ReadyToTrip(now.failures + 1)
    <3> DEFINE d == [rest EXCEPT !.failures = @ + 1]
    <3>1. OnFailure(rest) = d BY <2>2, <2>5 DEF OnFailure
    <3>2. now.state = "closed" /\ now.expiry > 0 BY <1>1, <1>2, <1>5, <2>5 DEF Sound, Breaker
    <3>3. /\ d \in Breaker /\ d.state = "closed" /\ d.expiry = now.expiry
          /\ d.failures = now.failures + 1 /\ d.members = rest.members
      BY <2>2, <2>5, <3>2, <1>2, Limits DEF Breaker, ReadyToTrip
    <3> HIDE DEF d
    <3>4. p <= d.failures BY <1>1, <1>2, <1>3, <3>2, <3>3 DEF Sound, Breaker
    <3>5. Sound(d, f \ {c}, p) BY <1>1, <1>3, <2>2, <2>3, <3>2, <3>3, <3>4 DEF Sound
    <3> QED BY <2>1, <3>1, <3>5 DEF p
  <2> QED BY <2>4, <2>5
<1> QED BY <1>4, <1>5

\* A tick begins a new history; a period may be over.
LEMMA TickSound ==
  ASSUME NEW b, NEW f, NEW q, Sound(b, f, q)
  PROVE  Sound([b EXCEPT !.expiry = IF @ > 0 THEN @ - 1 ELSE 0], {}, 0)
<1> DEFINE d == [b EXCEPT !.expiry = IF @ > 0 THEN @ - 1 ELSE 0]
<1>1. b \in Breaker BY DEF Sound
<1>2. /\ d \in Breaker /\ d.state = b.state /\ d.members = b.members /\ d.failures = b.failures
      /\ d.successes = b.successes /\ d.requests = b.requests
  BY <1>1 DEF Breaker
<1> HIDE DEF d
<1>3. Sound(d, {}, 0) BY <1>1, <1>2, Limits DEF Sound, Breaker
<1> QED BY <1>3 DEF d

-----------------------------------------------------------------------------
(* The steps *)

(* Initially the breaker is closed and nobody calls.                        *)
LEMMA InitIInv == Init => IInv
<1> SUFFICES ASSUME Init PROVE IInv
  OBVIOUS
<1>1. Sound(cb, fresh, quick)
  BY NewGeneration, Limits DEF Init, Sound
<1>2. CallTypes /\ \A c \in Call : Tries(c)
  BY Limits DEF Init, CallTypes, Tries
<1> QED BY <1>1, <1>2 DEF Init, IInv

\* The end of a call keeps the breaker sound, whatever the call has been.
LEMMA FinishSound ==
  ASSUME Sound(cb, fresh, quick), NEW c \in Call, NEW ok \in BOOLEAN, Finish(c, ok)
  PROVE  Sound(cb, fresh, quick)'
<1>1. /\ cb' = AfterRequest(cb, c, ok) /\ fresh' = fresh \ {c}
      /\ quick' = IF ok THEN 0 ELSE IF c \in fresh THEN Failed(quick) ELSE quick
  BY DEF Finish
<1>2. CASE ok = TRUE
  <2>1. Sound(AfterRequest(cb, c, TRUE), fresh \ {c}, 0) BY AfterSuccessSound
  <2> QED BY <1>1, <1>2, <2>1
<1>3. CASE ok = FALSE
  <2>1. Sound(AfterRequest(cb, c, FALSE), fresh \ {c}, IF c \in fresh THEN Failed(quick) ELSE quick)
    BY AfterFailureSound
  <2> QED BY <1>1, <1>3, <2>1
<1> QED BY <1>2, <1>3

(* Every step keeps the breaker sound: calls are let through, end, or are   *)
(* turned away, and time passes.                                            *)
LEMMA NextSound ==
  ASSUME Sound(cb, fresh, quick), Next
  PROVE  Sound(cb, fresh, quick)'
<1>1. ASSUME UNCHANGED <<cb, fresh, quick>> PROVE Sound(cb, fresh, quick)'
  BY <1>1
<1>2. ASSUME NEW c \in Call, Begin(c) \/ Retry(c) \/ LeaveLimiter(c) PROVE Sound(cb, fresh, quick)'
  BY <1>1, <1>2 DEF Begin, Retry, LeaveLimiter, EndEarly, history
<1>3. ASSUME NEW c \in Call, Admit(c) PROVE Sound(cb, fresh, quick)'
  <2>1. /\ Admits(CurrentState(cb)) /\ cb' = BeforeRequest(CurrentState(cb), c)
        /\ fresh' = fresh \cup {c} /\ quick' = quick
    BY <1>3 DEF Admit
  <2>2. Sound(BeforeRequest(CurrentState(cb), c), fresh \cup {c}, quick)
    BY <2>1, CurrentSound, AdmittedSound
  <2> QED BY <2>1, <2>2
<1>4. ASSUME NEW c \in Call, Refuse(c) PROVE Sound(cb, fresh, quick)'
  <2>1. cb' = CurrentState(cb) /\ fresh' = fresh /\ quick' = quick
    BY <1>4 DEF Refuse, EndEarly, history
  <2> QED BY <2>1, CurrentSound
<1>5. ASSUME NEW c \in Call, TryEnds(c) PROVE Sound(cb, fresh, quick)'
  <2>1. Finish(c, TRUE) \/ Finish(c, FALSE) \/ UNCHANGED <<cb, fresh, quick>>
    BY <1>5 DEF TryEnds, AttemptSucceeds, AttemptErrs, AttemptTimesOut, Again, history
  <2> QED BY <1>1, <2>1, FinishSound
<1>6. ASSUME NEW c \in Call, HangUp(c) PROVE Sound(cb, fresh, quick)'
  BY <1>6, FinishSound DEF HangUp
<1>7. ASSUME NEW m \in Modes, Behave(m) PROVE Sound(cb, fresh, quick)'
  BY <1>1, <1>7 DEF Behave, history
<1>8. CASE Tick
  <2>1. cb' = [cb EXCEPT !.expiry = IF @ > 0 THEN @ - 1 ELSE 0] /\ fresh' = {} /\ quick' = 0
    BY <1>8 DEF Tick
  <2>2. Sound([cb EXCEPT !.expiry = IF @ > 0 THEN @ - 1 ELSE 0], {}, 0) BY TickSound
  <2> QED BY <2>1, <2>2
<1> QED BY <1>2, <1>3, <1>4, <1>5, <1>6, <1>7, <1>8 DEF Next, CallStep

(* Every step keeps the types of the calls and the count of their effects.  *)
LEMMA NextTries ==
  ASSUME CallTypes, \A c \in Call : Tries(c), Next
  PROVE  CallTypes' /\ \A c \in Call : Tries(c)'
<1> DEFINE Goal == CallTypes' /\ \A c \in Call : Tries(c)'
<1> USE Limits DEF CallTypes, Tries
<1>1. ASSUME NEW c \in Call, Begin(c) \/ Refuse(c) \/ LeaveLimiter(c) PROVE Goal
  BY <1>1 DEF Begin, Refuse, LeaveLimiter, EndEarly
<1>2. ASSUME NEW c \in Call, Admit(c) PROVE Goal
  BY <1>2 DEF Admit, StartTry
<1>3. ASSUME NEW c \in Call, Retry(c) PROVE Goal
  BY <1>3 DEF Retry, StartTry
<1>4. ASSUME NEW c \in Call, NEW ok \in BOOLEAN, Finish(c, ok), pc[c] # "idle",
             effects' \in {effects, [effects EXCEPT ![c] = @ + 1]},
             pc[c] # "calling" => effects' = effects
      PROVE  Goal
  BY <1>4 DEF Finish
<1>5. ASSUME NEW c \in Call, AttemptSucceeds(c) PROVE Goal
  BY <1>4, <1>5 DEF AttemptSucceeds
<1>6. ASSUME NEW c \in Call, AttemptErrs(c) \/ AttemptTimesOut(c) PROVE Goal
  <2>1. /\ pc[c] = "calling" /\ effects' \in {effects, [effects EXCEPT ![c] = @ + 1]}
        /\ \/ attempt[c] < Attempts /\ pc' = [pc EXCEPT ![c] = "backoff"] /\ UNCHANGED <<attempt, left>>
           \/ Finish(c, FALSE)
    BY <1>6 DEF AttemptErrs, AttemptTimesOut, Again
  <2>2. CASE Finish(c, FALSE) BY <1>4, <2>1, <2>2
  <2>3. CASE attempt[c] < Attempts /\ pc' = [pc EXCEPT ![c] = "backoff"] /\ UNCHANGED <<attempt, left>>
    BY <2>1, <2>3
  <2> QED BY <2>1, <2>2, <2>3
<1>7. ASSUME NEW c \in Call, HangUp(c) PROVE Goal
  BY <1>4, <1>7 DEF HangUp
<1>8. ASSUME NEW m \in Modes, Behave(m) PROVE Goal
  BY <1>8 DEF Behave, callVars
<1>9. CASE Tick
  <2>1. /\ UNCHANGED <<pc, attempt, effects>>
        /\ left' = [c \in Call |-> IF pc[c] = "calling" THEN left[c] - 1 ELSE left[c]]
        /\ \A c \in Call : pc[c] = "calling" => left[c] > 0
    BY <1>9 DEF Tick
  <2>2. left' \in [Call -> 0..CallTimeout] BY <2>1
  <2> QED BY <2>1, <2>2
<1> QED BY <1>1, <1>2, <1>3, <1>5, <1>6, <1>7, <1>8, <1>9 DEF Next, CallStep, TryEnds

LEMMA NextIInv == IInv /\ [Next]_vars => IInv'
<1> SUFFICES ASSUME IInv, [Next]_vars PROVE IInv'
  OBVIOUS
<1>1. CASE UNCHANGED vars
  BY <1>1 DEF vars, callVars, history, IInv, CallTypes, Tries
<1>2. CASE Next
  <2>1. system' \in Modes
    BY <1>2 DEF IInv, Next, Begin, CallStep, Admit, Refuse, TryEnds, AttemptSucceeds, AttemptErrs, AttemptTimesOut,
                Retry, LeaveLimiter, HangUp, EndEarly, Behave, Tick
  <2> QED BY <1>2, <2>1, NextSound, NextTries DEF IInv
<1> QED BY <1>1, <1>2

(* The inductive invariant is an invariant.                                 *)
THEOREM Invariance == Spec => []IInv
<1> QED BY InitIInv, NextIInv, PTL DEF Spec

-----------------------------------------------------------------------------
(* The variables have their types; a call has no more effects than tries.   *)
THEOREM TypeCorrect == Spec => []TypeOK
<1>1. IInv => TypeOK BY DEF IInv, CallTypes, Sound, Breaker, TypeOK
<1> QED BY <1>1, Invariance, PTL

(* When more calls than tolerated failed in a row within a tick the breaker *)
(* is not closed: every fresh call is a member of the present generation,   *)
(* so each of the failures has been counted.                                *)
THEOREM CutOff == Spec => []OpensOnQuickFailures
<1>1. IInv => OpensOnQuickFailures
  BY Limits DEF IInv, Sound, Breaker, OpensOnQuickFailures
<1> QED BY <1>1, Invariance, PTL

(* While half open, trial calls under way and successes together keep to    *)
(* the limit; results of older generations are not among them.              *)
THEOREM TrialsLimited == Spec => []ProbeLimit
<1>1. IInv => ProbeLimit
  <2> SUFFICES ASSUME IInv, cb.state = "halfOpen"
               PROVE  Cardinality(cb.members) + cb.successes <= MaxRequests
    BY DEF ProbeLimit
  <2>1. /\ IsFiniteSet(cb.members) /\ cb.successes \in Nat /\ cb.requests \in 0..MaxRequests
        /\ Cardinality(cb.members) + cb.successes <= cb.requests
    BY Limits DEF IInv, Sound, Breaker
  <2>2. Cardinality(cb.members) \in Nat BY <2>1, FS_CardinalityType
  <2> QED BY <2>1, <2>2, Limits
<1> QED BY <1>1, Invariance, PTL
=============================================================================
