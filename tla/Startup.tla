------------------------------- MODULE Startup -------------------------------
(***************************************************************************)
(* How the gateway process comes up: the lists of agents it loads before   *)
(* it serves (cmd/uag/main.go:77-112).  Three listeners start first, each  *)
(* subscribes and runs the Init of its manager; main runs the same Inits   *)
(* one after the other and takes any error as fatal.  An Init fetches the  *)
(* list, adds it to the RAM of the manager, and under a lock in Redis that *)
(* is left to expire fills an empty Redis set (WarmupState).  A panic in   *)
(* any goroutine ends the process.                                         *)
(*                                                                         *)
(* No operator changes the lists meanwhile (module StateSync has that);    *)
(* here each call of the warm-up is a step and may fail.                   *)
(***************************************************************************)
EXTENDS Naturals

CONSTANTS
  Agent, Gateway,
  Faults   \* TRUE: calls of the database and of Redis may fail

ASSUME FaultsAssumption == Faults \in BOOLEAN

List  == {"blocked", "sandbox", "quarantine"}
Order == <<"blocked", "sandbox", "quarantine">>   \* of the Inits in main

Goroutine == {"main"} \cup List   \* main and the listener of each list

VARIABLES
  db,      \* the agents each list has in the database
  running, \* gateways whose process runs
  step,    \* what each goroutine does next
  next,    \* the list main is at, an index of Order
  cache,   \* the agents each manager holds
  l2,      \* the Redis sets
  lock,    \* the lists whose warm-up lock is taken
  faulty   \* history: gateways a call has failed for, in their present life

redisVars == <<l2, lock>>
vars == <<db, running, step, next, cache, redisVars, faulty>>

Fresh    == [q \in Goroutine |-> IF q = "main" THEN "fetch" ELSE "subscribe"]
NoAgents == [l \in List |-> {}]

Init ==
  /\ db \in [List -> SUBSET Agent]
  /\ running = Gateway
  /\ step = [g \in Gateway |-> Fresh]
  /\ next = [g \in Gateway |-> 1]
  /\ cache = [g \in Gateway |-> NoAgents]
  /\ l2 = NoAgents /\ lock = {}
  /\ faulty = {}

-----------------------------------------------------------------------------
At(g, q, label) == g \in running /\ step[g][q] = label

\* The list whose Init goroutine q runs.
Of(g, q) == IF q = "main" THEN Order[next[g]] ELSE q

\* NewQuarantineManager leaves the logger out; a call of it panics.
HasLogger(l) == l # "quarantine"

Goto(g, q, label) == step' = [step EXCEPT ![g][q] = label] /\ UNCHANGED <<running, next>>

\* The process ends by log.Fatalf or by a panic.
Dies(g) == running' = running \ {g} /\ UNCHANGED <<step, next>>

\* Defect: main does not stop after its last list.
InitDoneOneMore(g, q) ==
  /\ IF q # "main" THEN step' = [step EXCEPT ![g][q] = "listening"] /\ UNCHANGED next
     ELSE IF next[g] <= 3 THEN /\ step' = [step EXCEPT ![g][q] = "fetch"]
                               /\ next' = [next EXCEPT ![g] = @ + 1]
     ELSE step' = [step EXCEPT ![g][q] = "refresh"] /\ UNCHANGED next
  /\ UNCHANGED running

\* The Init returns nil: a listener listens, main takes the next list.
InitDone(g, q) ==
  /\ IF q # "main" THEN step' = [step EXCEPT ![g][q] = "listening"] /\ UNCHANGED next
     ELSE IF next[g] < 3 THEN /\ step' = [step EXCEPT ![g][q] = "fetch"]
                              /\ next' = [next EXCEPT ![g] = @ + 1]
     ELSE step' = [step EXCEPT ![g][q] = "refresh"] /\ UNCHANGED next
  /\ UNCHANGED running

\* The Init returns an error: fatal for main, while a listener logs it.
InitFails(g, q) ==
  IF q # "main" /\ HasLogger(q) THEN Goto(g, q, "listening") ELSE Dies(g)

Fault(g) == Faults /\ faulty' = faulty \cup {g}

-----------------------------------------------------------------------------
Subscribe(g, l) ==
  /\ At(g, l, "subscribe")
  /\ Goto(g, l, "fetch")
  /\ UNCHANGED <<db, cache, redisVars, faulty>>

\* Redis does not confirm: logged, and tried again later.
SubscribeFails(g, l) ==
  /\ At(g, l, "subscribe") /\ Fault(g)
  /\ IF HasLogger(l) THEN UNCHANGED <<running, step, next>> ELSE Dies(g)
  /\ UNCHANGED <<db, cache, redisVars>>

\* GetSandboxAgents scans the id of a row into a slice, which is an error;
\* only without a row it reports an empty list.
Fetches(l) == l = "sandbox" => db[l] = {}

\* Defect: the list is added only by the one that has the lock.
FetchLeavesL1(g, q) ==
  /\ At(g, q, "fetch") /\ Fetches(Of(g, q))
  /\ cache' = IF Of(g, q) \in lock THEN cache ELSE [cache EXCEPT ![g][Of(g, q)] = @ \cup db[Of(g, q)]]
  /\ Goto(g, q, "lock")
  /\ UNCHANGED <<db, redisVars, faulty>>

\* The list is read and added to the RAM of the manager.
Fetch(g, q) ==
  /\ At(g, q, "fetch") /\ Fetches(Of(g, q))
  /\ cache' = [cache EXCEPT ![g][Of(g, q)] = @ \cup db[Of(g, q)]]
  /\ Goto(g, q, "lock")
  /\ UNCHANGED <<db, redisVars, faulty>>

\* It is not read: the rows cannot be scanned, or the database fails.
FetchFails(g, q) ==
  /\ At(g, q, "fetch")
  /\ \/ ~Fetches(Of(g, q)) /\ UNCHANGED faulty
     \/ Fault(g)
  /\ InitFails(g, q)
  /\ UNCHANGED <<db, cache, redisVars>>

\* Defect: an Init that does not get the lock waits for it.
TryLockWaits(g, q) ==
  LET l == Of(g, q) IN
  /\ At(g, q, "lock")
  /\ IF l \in lock THEN UNCHANGED <<running, step, next, lock>>
     ELSE Goto(g, q, "count") /\ lock' = lock \cup {l}
  /\ UNCHANGED <<db, cache, l2, faulty>>

\* Defect: not to get the lock is an error of the Init.
TryLockOrFail(g, q) ==
  LET l == Of(g, q) IN
  /\ At(g, q, "lock")
  /\ IF l \in lock THEN InitFails(g, q) /\ UNCHANGED lock
     ELSE Goto(g, q, "count") /\ lock' = lock \cup {l}
  /\ UNCHANGED <<db, cache, l2, faulty>>

\* SetNX: who does not get the lock is done.
TryLock(g, q) ==
  LET l == Of(g, q) IN
  /\ At(g, q, "lock")
  /\ IF l \in lock THEN InitDone(g, q) /\ UNCHANGED lock
     ELSE Goto(g, q, "count") /\ lock' = lock \cup {l}
  /\ UNCHANGED <<db, cache, l2, faulty>>

\* SetNX fails, before or after the lock was set: done as well.
TryLockFails(g, q) ==
  /\ At(g, q, "lock") /\ Fault(g)
  /\ InitDone(g, q)
  /\ lock' \in {lock, lock \cup {Of(g, q)}}
  /\ UNCHANGED <<db, cache, l2>>

\* SCard: a set with members is left as it is, and nothing is filled in for nobody.
\* With something to fill in, that is logged.
Count(g, q) ==
  LET l == Of(g, q) IN
  /\ At(g, q, "count")
  /\ IF l2[l] # {} \/ db[l] = {} THEN InitDone(g, q)
     ELSE IF HasLogger(l) THEN Goto(g, q, "fill") ELSE Dies(g)
  /\ UNCHANGED <<db, cache, redisVars, faulty>>

\* SCard fails: logged, and the set is taken for empty.
CountFails(g, q) ==
  LET l == Of(g, q) IN
  /\ At(g, q, "count") /\ Fault(g)
  /\ IF ~HasLogger(l) THEN Dies(g)
     ELSE IF db[l] = {} THEN InitDone(g, q) ELSE Goto(g, q, "fill")
  /\ UNCHANGED <<db, cache, redisVars>>

\* The pipeline of SADDs.
Fill(g, q) ==
  /\ At(g, q, "fill")
  /\ l2' = [l2 EXCEPT ![Of(g, q)] = @ \cup db[Of(g, q)]]
  /\ InitDone(g, q)
  /\ UNCHANGED <<db, cache, lock, faulty>>

\* The pipeline fails; it is no transaction, so any part may be done.
FillFails(g, q) ==
  /\ At(g, q, "fill") /\ Fault(g)
  /\ \E done \in SUBSET db[Of(g, q)] : l2' = [l2 EXCEPT ![Of(g, q)] = @ \cup done]
  /\ InitFails(g, q)
  /\ UNCHANGED <<db, cache, lock>>

\* main loads the policies and starts the servers.
Serve(g) ==
  /\ At(g, "main", "refresh")
  /\ Goto(g, "main", "serving")
  /\ UNCHANGED <<db, cache, redisVars, faulty>>

ServeFails(g) ==
  /\ At(g, "main", "refresh") /\ Fault(g)
  /\ Dies(g)
  /\ UNCHANGED <<db, cache, redisVars>>

\* Thirty seconds after it was taken.
LockExpires(l) ==
  /\ l \in lock /\ lock' = lock \ {l}
  /\ UNCHANGED <<db, running, step, next, cache, l2, faulty>>

\* A process that ended is started again.
Restart(g) ==
  /\ g \notin running
  /\ running' = running \cup {g}
  /\ step' = [step EXCEPT ![g] = Fresh] /\ next' = [next EXCEPT ![g] = 1]
  /\ cache' = [cache EXCEPT ![g] = NoAgents]
  /\ faulty' = faulty \ {g}
  /\ UNCHANGED <<db, redisVars>>

-----------------------------------------------------------------------------
InitStep(g, q) ==
  Fetch(g, q) \/ FetchFails(g, q) \/ TryLock(g, q) \/ Count(g, q) \/ Fill(g, q)

Main(g)        == InitStep(g, "main") \/ Serve(g)
Listener(g, l) == Subscribe(g, l) \/ InitStep(g, l)

\* The other ways a call ends when it fails.
CallFails(g) ==
  \/ ServeFails(g) \/ \E l \in List : SubscribeFails(g, l)
  \/ \E q \in Goroutine : TryLockFails(g, q) \/ CountFails(g, q) \/ FillFails(g, q)

Up(g) == At(g, "main", "serving") /\ \A l \in List : At(g, l, "listening")

Terminated == (\A g \in Gateway : Up(g)) /\ UNCHANGED vars

Next ==
  \/ \E g \in Gateway :
       Main(g) \/ (\E l \in List : Listener(g, l)) \/ CallFails(g) \/ Restart(g)
  \/ (\E l \in List : LockExpires(l)) \/ Terminated

Spec == Init /\ [][Next]_vars

(* The goroutines run, and a call may fail but is not bound to.  Nothing    *)
(* makes a lock expire or a process restart.                                *)
Fairness ==
  \A g \in Gateway : WF_vars(Main(g)) /\ \A l \in List : WF_vars(Listener(g, l))

FairSpec == Spec /\ Fairness

-----------------------------------------------------------------------------
(* Type invariant. *)
TypeOK ==
  /\ db \in [List -> SUBSET Agent]
  /\ running \subseteq Gateway /\ faulty \subseteq Gateway
  /\ step \in [Gateway -> [Goroutine -> {"subscribe", "fetch", "lock", "count", "fill",
                                         "listening", "refresh", "serving"}]]
  /\ next \in [Gateway -> DOMAIN Order]
  /\ cache \in [Gateway -> [List -> SUBSET Agent]]
  /\ l2 \in [List -> SUBSET Agent] /\ lock \subseteq List

(* A gateway that serves knows every listed agent, whoever held the locks   *)
(* when it started, in whatever order main and the listeners went, and      *)
(* whatever failed for it: it would rather end than serve without a list.   *)
ServingKnows ==
  \A g \in Gateway : At(g, "main", "serving") => \A l \in List : db[l] \subseteq cache[g][l]

(* With database and Redis in order a start ends in two cases only: an      *)
(* agent is in the sandbox, or one is in quarantine; in particular not      *)
(* because main, the listeners and earlier lives compete for the locks.     *)
(* And no gateway ever fills the set of the quarantined agents.             *)
DiesOnlyOfData ==
  /\ \A g \in Gateway \ running : g \notin faulty => db["sandbox"] # {} \/ db["quarantine"] # {}
  /\ l2["quarantine"] = {}

(* Without such agents and without faults the gateway comes to serve:       *)
(* nobody waits for the lock another goroutine or an earlier life holds.    *)
ComesUp ==
  \A g \in Gateway :
    db["sandbox"] = {} /\ db["quarantine"] = {} /\ g \in running
      ~> At(g, "main", "serving") \/ g \in faulty
=============================================================================
