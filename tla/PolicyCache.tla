----------------------------- MODULE PolicyCache -----------------------------
(***************************************************************************)
(* Policies: the table the console edits (PolicyService) and the map every *)
(* gateway decides from (MemoEnforcer).  A change is followed by a signal  *)
(* that carries nothing: a gateway that receives it reads the whole table  *)
(* again and swaps its map.                                                *)
(***************************************************************************)
EXTENDS Naturals, FiniteSets

CONSTANTS
  Agent, Capability, Effect, \* Effect contains "DENY"
  Id,           \* ids of rows, as many as the table may hold
  Gateway,
  Op,           \* operator calls
  Errors        \* TRUE: publishing or reading fails, connections break

ASSUME EffectAssumption == "DENY" \in Effect /\ "none" \notin Effect
ASSUME AgentAssumption  == "*" \notin Agent
ASSUME FlagsAssumption  == Errors \in BOOLEAN
ASSUME OpAssumption     == IsFiniteSet(Op)

Subject == Agent \cup {"*"}
Key     == Subject \X Capability
Rule    == Key \X Effect            \* a row of the table but its id
PolicyMap == [Key -> Effect \cup {"none"}]

VARIABLES
  table,      \* the table policies: a partial function from ids to rules
  opPc,       \* where each operator call is, or how it ended
  pc,         \* where the refreshing goroutine of each gateway is
  subscribed, \* gateways with an active subscription
  pending,    \* signals received and not yet looked at
  loaded,     \* the map a running Refresh has built
  policies,   \* the map in force
  told        \* history: a signal arrived after the last change, and no fault since

gatewayVars == <<pc, subscribed, pending, loaded, policies>>
vars == <<table, opPc, gatewayVars, told>>

NoPolicies == [k \in Key |-> "none"]

\* The table holds what was there before the gateways start.
Init ==
  /\ table \in {[i \in {} |-> <<>>]} \cup UNION {[{i} -> Rule] : i \in Id}
  /\ opPc = [o \in Op |-> "idle"]
  /\ pc = [g \in Gateway |-> "boot"]
  /\ subscribed = {}
  /\ pending = [g \in Gateway |-> 0]
  /\ loaded = [g \in Gateway |-> NoPolicies]
  /\ policies = [g \in Gateway |-> NoPolicies]
  /\ told = [g \in Gateway |-> FALSE]

Rows == {table[i] : i \in DOMAIN table}

-----------------------------------------------------------------------------
(* The decision *)

\* Defect: the global policy goes before the agent's own.
GetPolicyGlobalFirst(m, a, c) ==
  IF m[<<"*", c>>] # "none" THEN m[<<"*", c>>]
  ELSE IF m[<<a, c>>] # "none" THEN m[<<a, c>>] ELSE "DENY"

\* Hot path: the agent's own policy, else the global one, else denied.
GetPolicy(m, a, c) ==
  IF m[<<a, c>>] # "none" THEN m[<<a, c>>]
  ELSE IF m[<<"*", c>>] # "none" THEN m[<<"*", c>>] ELSE "DENY"

\* What the repository's query GetDecision may answer: rows for the agent come
\* before global rows, and of several rows any one is taken.  No row: denied.
GetDecision(a, c) ==
  LET own    == {r \in Rows : r[1] = <<a, c>>}
      global == {r \in Rows : r[1] = <<"*", c>>}
  IN IF own \cup global = {} THEN {"DENY"}
     ELSE {r[2] : r \in IF own # {} THEN own ELSE global}

\* The maps the loop in Refresh can build of some rows: where two rows have
\* the same key the later one stays, and the query fixes no order.
MapsOf(rows) ==
  {m \in PolicyMap : \A k \in Key :
     LET effects == {r[2] : r \in {q \in rows : q[1] = k}} IN
       IF effects = {} THEN m[k] = "none" ELSE m[k] \in effects}

-----------------------------------------------------------------------------
(* The console: Create, Update, Delete, each followed by notifyUpdate *)

Change(o, newTable) ==
  /\ opPc[o] = "idle"
  /\ table' = newTable
  /\ opPc' = [opPc EXCEPT ![o] = "notifying"]
  /\ told' = [g \in Gateway |-> FALSE]
  /\ UNCHANGED gatewayVars

\* A new row, also if its key has one already: the table has no such constraint.
Create(o, i, r) ==
  /\ i \in Id \ DOMAIN table
  /\ Change(o, [j \in DOMAIN table \cup {i} |-> IF j = i THEN r ELSE table[j]])

\* Defect: Update also writes the agent of the request body, which is empty.
UpdateEmptyAgent(o, i, e) ==
  /\ i \in DOMAIN table
  /\ Change(o, [table EXCEPT ![i] = <<<<"", @[1][2]>>, e>>])

\* Update sets effect and conditions; agent and capability stay.
Update(o, i, e) ==
  /\ i \in DOMAIN table
  /\ Change(o, [table EXCEPT ![i] = <<@[1], e>>])

Delete(o, i) ==
  /\ i \in DOMAIN table
  /\ Change(o, [j \in DOMAIN table \ {i} |-> table[j]])

\* No row has the id, or the database fails: nothing is published.
ChangeFailed(o) ==
  /\ opPc[o] = "idle"
  /\ opPc' = [opPc EXCEPT ![o] = "failed"]
  /\ UNCHANGED <<table, gatewayVars, told>>

Notify(o) ==
  /\ opPc[o] = "notifying"
  /\ opPc' = [opPc EXCEPT ![o] = "done"]
  /\ pending' = [g \in Gateway |-> IF g \in subscribed THEN pending[g] + 1 ELSE pending[g]]
  /\ told' = [g \in Gateway |-> g \in subscribed \/ told[g]]
  /\ UNCHANGED <<table, pc, subscribed, loaded, policies>>

\* Publishing fails, or the answer of the statement before was lost: the caller
\* gets an error although the row is changed.
NotifyFailed(o) ==
  /\ Errors /\ opPc[o] = "notifying"
  /\ opPc' = [opPc EXCEPT ![o] = "failed"]
  /\ UNCHANGED <<table, gatewayVars, told>>

-----------------------------------------------------------------------------
(* The gateway *)

\* main's Refresh at start, and the Refresh a signal causes, read the table.
ReadBegins(g) ==
  \/ pc[g] = "boot" /\ UNCHANGED pending
  \/ /\ pc[g] = "listening" /\ pending[g] > 0
     /\ pending' = [pending EXCEPT ![g] = @ - 1]

Loaded(g) == IF pc[g] = "boot" THEN "bootSwap" ELSE "swap"

\* Defect: a map that was read once is not read again.
ReadOnce(g) ==
  /\ ReadBegins(g)
  /\ \E m \in MapsOf(Rows) :
       loaded' = [loaded EXCEPT ![g] = IF pc[g] = "boot" THEN m ELSE policies[g]]
  /\ pc' = [pc EXCEPT ![g] = Loaded(g)]
  /\ UNCHANGED <<table, opPc, subscribed, policies, told>>

\* GetAllPolicies, one query.  After the loop over its rows rows.Err() is not
\* looked at: a connection that breaks in between just leaves rows out.
Read(g) ==
  /\ ReadBegins(g)
  /\ \E rows \in IF Errors THEN SUBSET Rows ELSE {Rows} :
       /\ \E m \in MapsOf(rows) : loaded' = [loaded EXCEPT ![g] = m]
       /\ told' = [told EXCEPT ![g] = @ /\ rows = Rows]
  /\ pc' = [pc EXCEPT ![g] = Loaded(g)]
  /\ UNCHANGED <<table, opPc, subscribed, policies>>

\* The query fails.  At start that is fatal; later it is logged and the old
\* map stays in force until the next signal.
ReadFailed(g) ==
  /\ Errors /\ pc[g] = "listening"
  /\ ReadBegins(g)
  /\ told' = [told EXCEPT ![g] = FALSE]
  /\ UNCHANGED <<table, opPc, pc, subscribed, loaded, policies>>

\* The map is swapped under the lock.
Swap(g) ==
  /\ pc[g] \in {"bootSwap", "swap"}
  /\ policies' = [policies EXCEPT ![g] = loaded[g]]
  /\ loaded' = [loaded EXCEPT ![g] = NoPolicies]
  /\ pc' = [pc EXCEPT ![g] = "listening"]
  /\ UNCHANGED <<table, opPc, subscribed, pending, told>>

\* The goroutine main starts after the first Refresh subscribes; nothing is
\* read after that.  A broken subscription is renewed by the client library.
Subscribed(g) ==
  /\ pc[g] \in {"listening", "swap"} /\ g \notin subscribed
  /\ subscribed' = subscribed \cup {g}
  /\ UNCHANGED <<table, opPc, pc, pending, loaded, policies, told>>

\* The connection breaks, with signals that are on their way.
Drop(g) ==
  /\ Errors /\ g \in subscribed
  /\ subscribed' = subscribed \ {g}
  /\ pending' \in {[pending EXCEPT ![g] = n] : n \in 0..pending[g]}
  /\ told' = [told EXCEPT ![g] = FALSE]
  /\ UNCHANGED <<table, opPc, pc, loaded, policies>>

\* The process ends and starts anew.
Restart(g) ==
  /\ Errors
  /\ pc' = [pc EXCEPT ![g] = "boot"]
  /\ subscribed' = subscribed \ {g}
  /\ pending' = [pending EXCEPT ![g] = 0]
  /\ loaded' = [loaded EXCEPT ![g] = NoPolicies]
  /\ policies' = [policies EXCEPT ![g] = NoPolicies]
  /\ told' = [told EXCEPT ![g] = FALSE]
  /\ UNCHANGED <<table, opPc>>

-----------------------------------------------------------------------------
Operator(o) ==
  \/ \E i \in Id : \/ \E r \in Rule : Create(o, i, r)
                   \/ \E e \in Effect : Update(o, i, e)
                   \/ Delete(o, i)
  \/ ChangeFailed(o) \/ Notify(o) \/ NotifyFailed(o)

Refresh(g) == Read(g) \/ ReadFailed(g) \/ Swap(g)

AtRest(g) ==
  /\ pc[g] = "listening" /\ g \in subscribed /\ pending[g] = 0
  /\ \A o \in Op : opPc[o] # "notifying"

Terminated ==
  /\ \A o \in Op : opPc[o] \in {"done", "failed"}
  /\ \A g \in Gateway : AtRest(g)
  /\ UNCHANGED vars

Next ==
  \/ \E o \in Op : Operator(o)
  \/ \E g \in Gateway : Refresh(g) \/ Subscribed(g) \/ Drop(g) \/ Restart(g)
  \/ Terminated

Spec == Init /\ [][Next]_vars

(* The goroutine of a gateway runs; operators and faults owe nothing.       *)
Fairness == \A g \in Gateway : WF_vars(Refresh(g))

FairSpec == Spec /\ Fairness

-----------------------------------------------------------------------------
(* Type invariant. *)
TypeOK ==
  /\ DOMAIN table \subseteq Id /\ Rows \subseteq Rule
  /\ opPc \in [Op -> {"idle", "notifying", "done", "failed"}]
  /\ pc \in [Gateway -> {"boot", "bootSwap", "listening", "swap"}]
  /\ subscribed \subseteq Gateway
  /\ pending \in [Gateway -> 0..Cardinality(Op)]
  /\ loaded \in [Gateway -> PolicyMap]
  /\ policies \in [Gateway -> PolicyMap]
  /\ told \in [Gateway -> BOOLEAN]

\* The gateway decides as the table says.
Current(g) ==
  \A a \in Agent, c \in Capability : GetPolicy(policies[g], a, c) \in GetDecision(a, c)

(* One signal after the last change repairs everything, also changes whose  *)
(* own signals were lost or came in another order: a gateway that has dealt *)
(* with it decides about every agent as the table says.                     *)
SignalRepairs == \A g \in Gateway : AtRest(g) /\ told[g] => Current(g)

(* A signal that reached a gateway takes effect if no other change or fault *)
(* comes in between.                                                        *)
SignalTakesEffect == \A g \in Gateway : told[g] ~> ~told[g] \/ Current(g)
=============================================================================
