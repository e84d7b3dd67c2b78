----------------------------- MODULE Reliability -----------------------------
(***************************************************************************)
(* The execution layer of the gateway, internal/engine/reliability.go: a   *)
(* call waits for the rate limiter, passes one circuit breaker that all    *)
(* capabilities share, and is tried up to three times inside it, each time *)
(* with a deadline of its own (internal/connectors/grpc_adapter.go).       *)
(*                                                                         *)
(* The breaker is the library sony/gobreaker, modelled as the settings in  *)
(* NewReliabilityWrapper use it.  Time is counted in ticks of five         *)
(* seconds; deadlines and periods are counted down.                        *)
(***************************************************************************)
EXTENDS Naturals, FiniteSets

CONSTANTS
  Call,         \* goroutines that execute calls, one call after the other
  MaxRequests,  \* calls let through while half open, 3 in the code
  TripAfter,    \* failures in a row that are still tolerated, 5 in the code
  Attempts,     \* tries of a call, 3 in the code
  Interval,     \* ticks after which a closed breaker forgets, 1 (5 s)
  CallTimeout,  \* ticks a try may last, 2 (10 s)
  OpenFor,      \* ticks the breaker stays open, 6 (30 s)
  Modes,        \* how the external system may behave
  Cancels       \* TRUE: agents hang up

Durations == {Attempts, MaxRequests, Interval, CallTimeout, OpenFor}

ASSUME DurationAssumption == Durations \subseteq Nat \ {0} /\ TripAfter \in Nat
ASSUME ModesAssumption    == Modes \subseteq {"up", "erring", "hanging"} /\ Modes # {}
ASSUME CancelsAssumption  == Cancels \in BOOLEAN

VARIABLES
  system,   \* how the external system behaves now
  cb,       \* the circuit breaker
  pc,       \* where each goroutine is
  attempt,  \* which try of the call it is, 0 before the first
  left,     \* ticks left for the try
  effects,  \* tries of the call that took effect in the external system
  fresh,    \* history: calls the breaker admitted since the last tick
  quick     \* history: of these, how many failed in a row

callVars == <<pc, attempt, left, effects>>
history  == <<fresh, quick>>
vars     == <<system, cb, callVars, history>>

-----------------------------------------------------------------------------
(* The circuit breaker *)

\* A new generation; results of calls that are not members do not count.
\* Requests and successes are only looked at while the breaker is half open.
Generation(st) ==
  [state |-> st, requests |-> 0, successes |-> 0, failures |-> 0, members |-> {},
   expiry |-> CASE st = "closed" -> Interval [] st = "open" -> OpenFor [] OTHER -> 0]

\* The state is brought up to date whenever the breaker is used.
CurrentState(b) ==
  IF b.state = "halfOpen" \/ b.expiry > 0 THEN b
  ELSE Generation(IF b.state = "closed" THEN "closed" ELSE "halfOpen")

\* Defect: all calls are let through while the breaker is half open.
AdmitsAll(b) == b.state # "open"

Admits(b) ==
  \/ b.state = "closed"
  \/ b.state = "halfOpen" /\ b.requests < MaxRequests

BeforeRequest(b, c) ==
  [b EXCEPT !.members = @ \cup {c}, !.requests = IF b.state = "halfOpen" THEN @ + 1 ELSE @]


OnSuccess(b) ==
  IF b.state = "closed" THEN [b EXCEPT !.failures = 0]
  ELSE IF b.successes + 1 >= MaxRequests THEN Generation("closed")
       ELSE [b EXCEPT !.successes = @ + 1]

\* Defect: one failure more is tolerated.
ReadyToTripLate(failures) == failures > TripAfter + 1

ReadyToTrip(failures) == failures > TripAfter

OnFailure(b) ==
  IF b.state = "halfOpen" \/ ReadyToTrip(b.failures + 1) THEN Generation("open")
  ELSE [b EXCEPT !.failures = @ + 1]

AfterRequest(b, c, ok) ==
  LET now  == CurrentState(b)
      rest == [now EXCEPT !.members = @ \ {c}]
  IN IF c \notin now.members THEN now ELSE IF ok THEN OnSuccess(rest) ELSE OnFailure(rest)

-----------------------------------------------------------------------------
Init ==
  /\ system \in Modes
  /\ cb = Generation("closed")
  /\ pc = [c \in Call |-> "idle"]
  /\ attempt = [c \in Call |-> 0]
  /\ left = [c \in Call |-> 0]
  /\ effects = [c \in Call |-> 0]
  /\ fresh = {} /\ quick = 0

\* The goroutine enters Call and waits for the rate limiter.
Begin(c) ==
  /\ pc[c] = "idle"
  /\ pc' = [pc EXCEPT ![c] = "limiter"]
  /\ effects' = [effects EXCEPT ![c] = 0]
  /\ UNCHANGED <<system, cb, attempt, left, history>>

\* A try starts, with a deadline.
StartTry(c, n) ==
  /\ pc' = [pc EXCEPT ![c] = "calling"]
  /\ attempt' = [attempt EXCEPT ![c] = n]
  /\ left' = [left EXCEPT ![c] = CallTimeout]

\* The breaker lets the call through, the first try starts.
Admit(c) ==
  /\ pc[c] = "limiter" /\ Admits(CurrentState(cb))
  /\ cb' = BeforeRequest(CurrentState(cb), c)
  /\ StartTry(c, 1)
  /\ fresh' = fresh \cup {c}
  /\ UNCHANGED <<system, effects, quick>>

\* The call ends before its first try, c is free for the next call.
EndEarly(c) == pc' = [pc EXCEPT ![c] = "idle"] /\ UNCHANGED <<system, attempt, left, effects, history>>

\* The breaker turns the call away.
Refuse(c) ==
  /\ pc[c] = "limiter" /\ ~Admits(CurrentState(cb))
  /\ cb' = CurrentState(cb)
  /\ EndEarly(c)

Failed(n) == IF n > TripAfter THEN n ELSE n + 1   \* counted up to the bound that matters

\* The call ends and the breaker learns how.
Finish(c, ok) ==
  /\ cb' = AfterRequest(cb, c, ok)
  /\ pc' = [pc EXCEPT ![c] = "idle"]
  /\ attempt' = [attempt EXCEPT ![c] = 0]
  /\ left' = [left EXCEPT ![c] = 0]
  /\ fresh' = fresh \ {c}
  /\ quick' = IF ok THEN 0 ELSE IF c \in fresh THEN Failed(quick) ELSE quick

AttemptSucceeds(c) ==
  /\ pc[c] = "calling" /\ system = "up"
  /\ effects' = [effects EXCEPT ![c] = @ + 1]
  /\ Finish(c, TRUE)
  /\ UNCHANGED system

\* Defect: one try more than configured.
AgainOnceMore(c) ==
  IF attempt[c] <= Attempts
  THEN pc' = [pc EXCEPT ![c] = "backoff"] /\ UNCHANGED <<cb, attempt, left, history>>
  ELSE Finish(c, FALSE)

\* After a failed try: another one, or the error is the call's.
Again(c) ==
  IF attempt[c] < Attempts
  THEN pc' = [pc EXCEPT ![c] = "backoff"] /\ UNCHANGED <<cb, attempt, left, history>>
  ELSE Finish(c, FALSE)

\* The try returns an error: the system's, or the adapter's, which cannot
\* convert the payload.  No error is exempt from retry.
AttemptErrs(c) ==
  /\ pc[c] = "calling" /\ system = "erring"
  /\ effects' \in {effects, [effects EXCEPT ![c] = @ + 1]}
  /\ Again(c)
  /\ UNCHANGED system

\* The deadline of the try passes; what was asked may have been done.
AttemptTimesOut(c) ==
  /\ pc[c] = "calling" /\ left[c] = 0
  /\ effects' \in {effects, [effects EXCEPT ![c] = @ + 1]}
  /\ Again(c)
  /\ UNCHANGED system

\* Defect: tries are not counted.
RetryUncounted(c) ==
  /\ pc[c] = "backoff"
  /\ StartTry(c, attempt[c])
  /\ UNCHANGED <<system, cb, effects, history>>

\* The backoff is over.
Retry(c) ==
  /\ pc[c] = "backoff"
  /\ StartTry(c, attempt[c] + 1)
  /\ UNCHANGED <<system, cb, effects, history>>

\* The agent's request ends while it waits for the limiter.
LeaveLimiter(c) ==
  /\ Cancels /\ pc[c] = "limiter"
  /\ EndEarly(c) /\ UNCHANGED cb

\* The agent's request ends later: for the breaker the call has failed.
HangUp(c) ==
  /\ Cancels /\ pc[c] \in {"calling", "backoff"}
  /\ Finish(c, FALSE)
  /\ UNCHANGED <<system, effects>>

-----------------------------------------------------------------------------
(* The surroundings *)

Behave(m) == system # m /\ system' = m /\ UNCHANGED <<cb, callVars, history>>

\* Time passes; a system that does not hang answers within the deadline.
Tick ==
  /\ \A c \in Call : pc[c] = "calling" => left[c] > IF system = "hanging" THEN 0 ELSE 1
  /\ left' = [c \in Call |-> IF pc[c] = "calling" THEN left[c] - 1 ELSE left[c]]
  /\ cb' = [cb EXCEPT !.expiry = IF @ > 0 THEN @ - 1 ELSE 0]
  /\ fresh' = {} /\ quick' = 0
  /\ UNCHANGED <<system, pc, attempt, effects>>

TryEnds(c)  == AttemptSucceeds(c) \/ AttemptErrs(c) \/ AttemptTimesOut(c)
CallStep(c) == Admit(c) \/ Refuse(c) \/ TryEnds(c) \/ Retry(c)

Next ==
  \/ \E c \in Call : Begin(c) \/ CallStep(c) \/ LeaveLimiter(c) \/ HangUp(c)
  \/ \E m \in Modes : Behave(m)
  \/ Tick

Spec == Init /\ [][Next]_vars

(***************************************************************************)
(* The goroutines run, the limiter lets a call pass (at most 100 a second, *)
(* so waiting is short), a system that does not hang answers, timers fire. *)
(* Time passes, however often the system changes its behaviour meanwhile:  *)
(* hence strong fairness.  Nobody needs to start a call.                   *)
(***************************************************************************)
Fairness == SF_vars(Tick) /\ \A c \in Call : WF_vars(CallStep(c))

FairSpec == Spec /\ Fairness

-----------------------------------------------------------------------------
(* Type invariant. *)
TypeOK ==
  /\ system \in Modes
  /\ cb \in [state : {"closed", "open", "halfOpen"}, requests : 0..MaxRequests,
             successes : 0..MaxRequests, failures : 0..TripAfter,
             members : SUBSET Call, expiry : Nat]
  /\ pc \in [Call -> {"idle", "limiter", "calling", "backoff"}]
  /\ attempt \in [Call -> 0..Attempts]
  /\ left \in [Call -> 0..CallTimeout]
  /\ effects \in [Call -> 0..Attempts]
  /\ fresh \subseteq Call
  /\ quick \in 0..TripAfter + 1

(* A system that fails fast is cut off: when more calls than tolerated      *)
(* failed in a row, all begun and ended within a tick, the breaker is not   *)
(* closed, whatever older calls were under way at the time.                 *)
OpensOnQuickFailures == quick > TripAfter => cb.state # "closed"

(* While half open, the calls let through and not yet answered and those    *)
(* answered with success are together no more than MaxRequests: late        *)
(* answers of older calls neither use up nor add to the trial calls.        *)
ProbeLimit ==
  cb.state = "halfOpen" => Cardinality(cb.members) + cb.successes <= MaxRequests


(* Every call ends, also against a system that hangs.                       *)
CallsEnd == \A c \in Call : pc[c] = "calling" ~> pc[c] = "idle"
=============================================================================
