-------------------------- MODULE PolicyCache_proofs --------------------------
(***************************************************************************)
(* One signal after the last change repairs a gateway, for any table, any  *)
(* number of gateways and calls, whatever was lost or failed before.       *)
(***************************************************************************)
EXTENDS PolicyCache, FiniteSetTheorems, TLAPS

-----------------------------------------------------------------------------
(* Every map that Refresh can build of the whole table decides like the     *)
(* repository's query.                                                      *)
LEMMA MapDecides ==
  ASSUME NEW m \in MapsOf(Rows), Rows \subseteq Rule, NEW a \in Agent, NEW c \in Capability
  PROVE  GetPolicy(m, a, c) \in GetDecision(a, c)
<1> DEFINE own    == {r \in Rows : r[1] = <<a, c>>}
           global == {r \in Rows : r[1] = <<"*", c>>}
<1>1. <<a, c>> \in Key /\ <<"*", c>> \in Key BY DEF Key, Subject
<1>2. ASSUME NEW k \in Key
      PROVE  LET at == {q \in Rows : q[1] = k} IN
             IF at = {} THEN m[k] = "none" ELSE m[k] # "none" /\ \E r \in at : m[k] = r[2]
  <2> DEFINE at == {q \in Rows : q[1] = k}
  <2>1. IF {r[2] : r \in at} = {} THEN m[k] = "none" ELSE m[k] \in {r[2] : r \in at} BY DEF MapsOf
  <2>2. \A r \in at : r[2] # "none" BY EffectAssumption DEF Rule
  <2> QED BY <2>1, <2>2
<1>3. CASE own # {}
  <2>1. m[<<a, c>>] # "none" /\ \E r \in own : m[<<a, c>>] = r[2] BY <1>1, <1>2, <1>3
  <2> QED BY <1>3, <2>1 DEF GetPolicy, GetDecision
<1>4. CASE own = {} /\ global # {}
  <2>1. m[<<a, c>>] = "none" BY <1>1, <1>2, <1>4
  <2>2. m[<<"*", c>>] # "none" /\ \E r \in global : m[<<"*", c>>] = r[2] BY <1>1, <1>2, <1>4
  <2> QED BY <1>4, <2>1, <2>2 DEF GetPolicy, GetDecision
<1>5. CASE own = {} /\ global = {}
  <2>1. m[<<a, c>>] = "none" /\ m[<<"*", c>>] = "none" BY <1>1, <1>2, <1>5
  <2> QED BY <1>5, <2>1 DEF GetPolicy, GetDecision
<1> QED BY <1>3, <1>4, <1>5

-----------------------------------------------------------------------------
\* Signals are not counted twice.
Done == {o \in Op : opPc[o] = "done"}

Counted == \A g \in Gateway : pending[g] <= Cardinality(Done)

Typed ==
  /\ DOMAIN table \subseteq Id /\ Rows \subseteq Rule
  /\ opPc \in [Op -> {"idle", "notifying", "done", "failed"}]
  /\ pc \in [Gateway -> {"boot", "bootSwap", "listening", "swap"}]
  /\ subscribed \subseteq Gateway
  /\ pending \in [Gateway -> Nat]
  /\ loaded \in [Gateway -> PolicyMap]
  /\ policies \in [Gateway -> PolicyMap]
  /\ told \in [Gateway -> BOOLEAN]

\* What was told is still to be read, or was read, or is in force.
Repairing(g) ==
  told[g] =>
    \/ pending[g] > 0
    \/ pc[g] = "swap" /\ loaded[g] \in MapsOf(Rows)
    \/ pc[g] = "listening" /\ policies[g] \in MapsOf(Rows)

Listening(g) == g \in subscribed \/ told[g] => pc[g] \in {"listening", "swap"}

(* The inductive invariant.                                                 *)
IInv == Typed /\ Counted /\ \A g \in Gateway : Listening(g) /\ Repairing(g)

LEMMA InitIInv == Init => IInv
<1> SUFFICES ASSUME Init PROVE IInv
  OBVIOUS
<1>1. DOMAIN table \subseteq Id /\ Rows \subseteq Rule
  <2>1. CASE table = [i \in {} |-> <<>>] BY <2>1 DEF Rows
  <2>2. CASE \E i \in Id : table \in [{i} -> Rule] BY <2>2 DEF Rows
  <2> QED BY <2>1, <2>2 DEF Init
<1>2. NoPolicies \in PolicyMap BY DEF NoPolicies, PolicyMap
<1>3. Typed BY <1>1, <1>2 DEF Init, Typed
<1>4. Counted
  <2>1. Done = {} BY DEF Init, Done
  <2> QED BY <2>1, FS_EmptySet DEF Init, Counted
<1> QED BY <1>3, <1>4 DEF Init, IInv, Listening, Repairing

\* The count of published calls never falls, and is bounded.
LEMMA DoneGrows ==
  ASSUME Done \subseteq Done'
  PROVE  Cardinality(Done) <= Cardinality(Done') /\ Cardinality(Done) \in Nat /\ Cardinality(Done') \in Nat
<1>1. IsFiniteSet(Done') BY OpAssumption, FS_Subset DEF Done
<1>2. IsFiniteSet(Done) BY OpAssumption, FS_Subset DEF Done
<1> QED BY <1>1, <1>2, FS_Subset, FS_CardinalityType

-----------------------------------------------------------------------------
(* The console.                                                             *)
LEMMA ChangeIInv ==
  ASSUME IInv, NEW o \in Op, NEW t, Change(o, t), DOMAIN t \subseteq Id, {t[i] : i \in DOMAIN t} \subseteq Rule
  PROVE  IInv'
<1>1. /\ table' = t /\ opPc[o] = "idle" /\ opPc' = [opPc EXCEPT ![o] = "notifying"]
      /\ told' = [g \in Gateway |-> FALSE] /\ UNCHANGED <<pc, subscribed, pending, loaded, policies>>
  BY DEF Change, gatewayVars
<1>2. Typed' BY <1>1 DEF IInv, Typed, Rows
<1>3. Done' = Done BY <1>1 DEF IInv, Typed, Done
<1>4. Counted' BY <1>1, <1>3 DEF IInv, Counted
<1> QED BY <1>1, <1>2, <1>4 DEF IInv, Listening, Repairing

LEMMA OperatorIInv ==
  ASSUME IInv, NEW o \in Op, Operator(o)
  PROVE  IInv'
<1>t. Typed BY DEF IInv
<1>1. ASSUME NEW i \in Id, NEW r \in Rule, Create(o, i, r) PROVE IInv'
  <2> DEFINE t == [j \in DOMAIN table \cup {i} |-> IF j = i THEN r ELSE table[j]]
  <2>1. DOMAIN t \subseteq Id /\ {t[j] : j \in DOMAIN t} \subseteq Rule BY <1>t DEF Typed, Rows
  <2>2. Change(o, t) BY <1>1 DEF Create
  <2> HIDE DEF t
  <2> QED BY <2>1, <2>2, ChangeIInv
<1>2. ASSUME NEW i \in Id, NEW e \in Effect, Update(o, i, e) PROVE IInv'
  <2> DEFINE t == [table EXCEPT ![i] = <<@[1], e>>]
  <2>1. i \in DOMAIN table /\ table[i] \in Rule BY <1>t, <1>2 DEF Update, Typed, Rows
  <2>2. <<table[i][1], e>> \in Rule BY <2>1 DEF Rule
  <2>3. DOMAIN t \subseteq Id /\ {t[j] : j \in DOMAIN t} \subseteq Rule BY <1>t, <2>2 DEF Typed, Rows
  <2>4. Change(o, t) BY <1>2 DEF Update
  <2> HIDE DEF t
  <2> QED BY <2>3, <2>4, ChangeIInv
<1>3. ASSUME NEW i \in Id, Delete(o, i) PROVE IInv'
  <2> DEFINE t == [j \in DOMAIN table \ {i} |-> table[j]]
  <2>1. DOMAIN t \subseteq Id /\ {t[j] : j \in DOMAIN t} \subseteq Rule BY <1>t DEF Typed, Rows
  <2>2. Change(o, t) BY <1>3 DEF Delete
  <2> HIDE DEF t
  <2> QED BY <2>1, <2>2, ChangeIInv
<1>4. CASE ChangeFailed(o) \/ NotifyFailed(o)
  <2>1. /\ opPc[o] # "done" /\ opPc' = [opPc EXCEPT ![o] = "failed"]
        /\ UNCHANGED <<table, pc, subscribed, pending, loaded, policies, told>>
    BY <1>4 DEF ChangeFailed, NotifyFailed, gatewayVars
  <2>2. Done' = Done BY <1>t, <2>1 DEF Typed, Done
  <2>3. Typed' BY <1>t, <2>1 DEF Typed, Rows
  <2>4. Counted' BY <2>1, <2>2 DEF IInv, Counted
  <2>5. Rows' = Rows BY <2>1 DEF Rows
  <2> QED BY <2>1, <2>3, <2>4, <2>5 DEF IInv, Listening, Repairing, MapsOf
<1>5. CASE Notify(o)
  <2>1. /\ opPc[o] = "notifying" /\ opPc' = [opPc EXCEPT ![o] = "done"]
        /\ pending' = [g \in Gateway |-> IF g \in subscribed THEN pending[g] + 1 ELSE pending[g]]
        /\ told' = [g \in Gateway |-> g \in subscribed \/ told[g]]
        /\ UNCHANGED <<table, pc, subscribed, loaded, policies>>
    BY <1>5 DEF Notify
  <2>2. Done' = Done \cup {o} /\ o \notin Done BY <1>t, <2>1 DEF Typed, Done
  <2>3. Typed' BY <1>t, <2>1 DEF Typed, Rows
  <2>4. Counted'
    <3>1. IsFiniteSet(Done) BY OpAssumption, FS_Subset DEF Done
    <3>2. Cardinality(Done') = Cardinality(Done) + 1 /\ Cardinality(Done) \in Nat
      BY <2>2, <3>1, FS_AddElement, FS_CardinalityType
    <3> QED BY <1>t, <2>1, <3>2 DEF IInv, Counted, Typed
  <2>5. Rows' = Rows BY <2>1 DEF Rows
  <2>6. ASSUME NEW g \in Gateway PROVE Listening(g)' /\ Repairing(g)'
    <3>1. Listening(g) /\ Repairing(g) /\ pending[g] \in Nat BY <1>t DEF IInv, Typed
    <3>2. CASE g \in subscribed
      <4>1. pending'[g] > 0 BY <2>1, <3>1, <3>2
      <4>2. pc[g] \in {"listening", "swap"} BY <3>1, <3>2 DEF Listening
      <4> QED BY <2>1, <4>1, <4>2 DEF Listening, Repairing
    <3>3. CASE g \notin subscribed
      <4>1. pending'[g] = pending[g] /\ (told'[g] <=> told[g]) BY <2>1, <3>3
      <4> QED BY <2>1, <2>5, <3>1, <4>1 DEF Listening, Repairing, MapsOf
    <3> QED BY <3>2, <3>3
  <2> QED BY <2>3, <2>4, <2>6 DEF IInv
<1> QED BY <1>1, <1>2, <1>3, <1>4, <1>5 DEF Operator

-----------------------------------------------------------------------------
(* The gateway.                                                             *)

\* A step of one gateway leaves the table, the calls and the other gateways alone,
\* and takes signals or loses them.
LEMMA GatewayStep ==
  ASSUME IInv, Typed', NEW g \in Gateway, UNCHANGED <<table, opPc>>,
         \A h \in Gateway : h # g =>
           /\ pc'[h] = pc[h] /\ pending'[h] = pending[h] /\ loaded'[h] = loaded[h]
           /\ policies'[h] = policies[h] /\ told'[h] = told[h] /\ (h \in subscribed' <=> h \in subscribed),
         pending'[g] <= pending[g], Listening(g)', Repairing(g)'
  PROVE  IInv'
<1>1. Rows' = Rows BY DEF Rows
<1>2. Done' = Done BY DEF Done
<1>3. Cardinality(Done) \in Nat BY <1>2, DoneGrows
<1>4. Counted' BY <1>2, <1>3 DEF IInv, Counted, Typed
<1>5. ASSUME NEW h \in Gateway, h # g PROVE Listening(h)' /\ Repairing(h)'
  BY <1>1, <1>5 DEF IInv, Listening, Repairing, MapsOf
<1> QED BY <1>4, <1>5 DEF IInv

LEMMA ReadIInv ==
  ASSUME IInv, NEW g \in Gateway, Read(g)
  PROVE  IInv'
<1>t. Typed /\ Listening(g) BY DEF IInv
<1>r. PICK rows \in SUBSET Rows :
        /\ \E m \in MapsOf(rows) : loaded' = [loaded EXCEPT ![g] = m]
        /\ told' = [told EXCEPT ![g] = @ /\ rows = Rows]
  BY DEF Read
<1>1. PICK m \in MapsOf(rows) : loaded' = [loaded EXCEPT ![g] = m] BY <1>r
<1>2. /\ pc' = [pc EXCEPT ![g] = Loaded(g)] /\ UNCHANGED <<table, opPc, subscribed, policies>>
      /\ \/ pc[g] = "boot" /\ UNCHANGED pending
         \/ pc[g] = "listening" /\ pending[g] > 0 /\ pending' = [pending EXCEPT ![g] = @ - 1]
  BY DEF Read, ReadBegins
<1>3. m \in PolicyMap /\ Rows' = Rows /\ MapsOf(rows) = MapsOf(rows)' BY <1>2 DEF MapsOf, Rows
<1>4. /\ pc'[g] \in {"bootSwap", "swap"} /\ (pc[g] = "listening" => pc'[g] = "swap")
      /\ pending'[g] \in Nat /\ pending'[g] <= pending[g]
  BY <1>t, <1>2 DEF Typed, Loaded
<1>5. Typed' BY <1>t, <1>r, <1>1, <1>2, <1>3, <1>4 DEF Typed, Loaded
<1>6. Listening(g)' BY <1>t, <1>r, <1>1, <1>2, <1>4 DEF Listening, Typed
<1>7. Repairing(g)'
  <2> SUFFICES ASSUME told'[g] PROVE (pc[g] = "swap" /\ loaded[g] \in MapsOf(Rows))'
    BY DEF Repairing
  <2>1. told[g] /\ rows = Rows BY <1>t, <1>r DEF Typed
  <2>2. pc'[g] = "swap" BY <1>t, <1>2, <1>4, <2>1 DEF Listening
  <2>3. loaded'[g] = m BY <1>t, <1>1 DEF Typed
  <2> QED BY <1>1, <1>3, <2>1, <2>2, <2>3
<1> QED BY <1>t, <1>r, <1>1, <1>2, <1>4, <1>5, <1>6, <1>7, GatewayStep DEF Typed

LEMMA SwapIInv ==
  ASSUME IInv, NEW g \in Gateway, Swap(g)
  PROVE  IInv'
<1>t. Typed /\ Listening(g) /\ Repairing(g) BY DEF IInv
<1>1. /\ pc[g] \in {"bootSwap", "swap"} /\ pc' = [pc EXCEPT ![g] = "listening"]
      /\ policies' = [policies EXCEPT ![g] = loaded[g]] /\ loaded' = [loaded EXCEPT ![g] = NoPolicies]
      /\ UNCHANGED <<table, opPc, subscribed, pending, told>>
  BY DEF Swap
<1>2. NoPolicies \in PolicyMap BY DEF NoPolicies, PolicyMap
<1>3. Typed' BY <1>t, <1>1, <1>2 DEF Typed, Rows
<1>4. Rows' = Rows BY <1>1 DEF Rows
<1>5. Listening(g)' BY <1>t, <1>1 DEF Listening, Typed
<1>6. Repairing(g)' BY <1>t, <1>1, <1>4 DEF Repairing, Typed, MapsOf
<1> QED BY <1>t, <1>1, <1>3, <1>5, <1>6, GatewayStep DEF Typed

\* Whoever is told nothing any more has nothing to keep.
LEMMA SilentIInv ==
  ASSUME IInv, NEW g \in Gateway, ReadFailed(g) \/ Drop(g) \/ Restart(g)
  PROVE  IInv'
<1>t. Typed /\ Listening(g) BY DEF IInv
<1>1. told' = [told EXCEPT ![g] = FALSE] /\ UNCHANGED <<table, opPc>>
  BY DEF ReadFailed, Drop, Restart
<1>p. PICK n \in 0..pending[g] : pending' = [pending EXCEPT ![g] = n]
  BY <1>t DEF ReadFailed, ReadBegins, Drop, Restart, Typed
<1>2. /\ pending' \in [Gateway -> Nat] /\ pending'[g] <= pending[g]
      /\ \A h \in Gateway : h # g => pending'[h] = pending[h]
  <2>1. n \in Nat /\ n <= pending[g] BY <1>t, <1>p DEF Typed
  <2> QED BY <1>t, <1>p, <2>1 DEF Typed
<1>3. /\ \A h \in Gateway : h # g =>
           /\ pc'[h] = pc[h] /\ loaded'[h] = loaded[h] /\ policies'[h] = policies[h]
           /\ (h \in subscribed' <=> h \in subscribed)
      /\ g \in subscribed' => g \in subscribed /\ pc'[g] = pc[g]
  BY <1>t DEF ReadFailed, Drop, Restart, Typed
<1>4. /\ pc' \in [Gateway -> {"boot", "bootSwap", "listening", "swap"}] /\ subscribed' \subseteq Gateway
      /\ loaded' \in [Gateway -> PolicyMap] /\ policies' \in [Gateway -> PolicyMap]
  <2>1. NoPolicies \in PolicyMap BY DEF NoPolicies, PolicyMap
  <2> QED BY <1>t, <2>1 DEF ReadFailed, Drop, Restart, Typed
<1>5. Typed' BY <1>t, <1>1, <1>2, <1>4 DEF Typed, Rows
<1>6. Listening(g)' /\ Repairing(g)' BY <1>t, <1>1, <1>3 DEF Listening, Repairing, Typed
<1> QED BY <1>t, <1>1, <1>2, <1>3, <1>5, <1>6, GatewayStep DEF Typed

LEMMA SubscribedIInv ==
  ASSUME IInv, NEW g \in Gateway, Subscribed(g)
  PROVE  IInv'
<1>t. Typed /\ Repairing(g) BY DEF IInv
<1>1. /\ pc[g] \in {"listening", "swap"} /\ subscribed' = subscribed \cup {g}
      /\ UNCHANGED <<table, opPc, pc, pending, loaded, policies, told>>
  BY DEF Subscribed
<1>2. Typed' BY <1>t, <1>1 DEF Typed, Rows
<1>3. Rows' = Rows BY <1>1 DEF Rows
<1>4. Listening(g)' /\ Repairing(g)' BY <1>t, <1>1, <1>3 DEF Listening, Repairing, MapsOf
<1> QED BY <1>t, <1>1, <1>2, <1>4, GatewayStep DEF Typed

-----------------------------------------------------------------------------
LEMMA NextIInv == IInv /\ [Next]_vars => IInv'
<1> SUFFICES ASSUME IInv, [Next]_vars PROVE IInv'
  OBVIOUS
<1>1. CASE UNCHANGED vars
  <2>1. UNCHANGED <<table, opPc, pc, subscribed, pending, loaded, policies, told>>
    BY <1>1 DEF vars, gatewayVars
  <2>2. Rows' = Rows /\ Done' = Done BY <2>1 DEF Rows, Done
  <2>3. Typed' /\ Counted' BY <2>1, <2>2 DEF IInv, Typed, Counted
  <2> QED BY <2>1, <2>2, <2>3 DEF IInv, Listening, Repairing, MapsOf
<1> QED BY <1>1, OperatorIInv, ReadIInv, SwapIInv, SilentIInv, SubscribedIInv DEF Next, Refresh, Terminated

LEMMA Invariance == Spec => []IInv
BY InitIInv, NextIInv, PTL DEF Spec

(* The variables have their types; no gateway has more signals to look at   *)
(* than calls were made.                                                    *)
THEOREM TypeCorrect == Spec => []TypeOK
<1>1. IInv => TypeOK
  <2> SUFFICES ASSUME IInv PROVE TypeOK
    OBVIOUS
  <2>1. Cardinality(Done) <= Cardinality(Op) /\ Cardinality(Done) \in Nat /\ Cardinality(Op) \in Nat
    BY OpAssumption, FS_Subset, FS_CardinalityType DEF Done
  <2>2. pending \in [Gateway -> 0..Cardinality(Op)] BY <2>1 DEF IInv, Typed, Counted
  <2> QED BY <2>2 DEF IInv, Typed, TypeOK
<1> QED BY <1>1, Invariance, PTL

(* A gateway that has dealt with a signal published after the last change   *)
(* decides as the table says, whatever it missed before.                    *)
THEOREM Repaired == Spec => []SignalRepairs
<1>1. IInv => SignalRepairs
  <2> SUFFICES ASSUME IInv, NEW g \in Gateway, AtRest(g), told[g] PROVE Current(g)
    BY DEF SignalRepairs
  <2>1. policies[g] \in MapsOf(Rows) BY DEF IInv, Repairing, AtRest
  <2> QED BY <2>1, MapDecides DEF Current, IInv, Typed
<1> QED BY <1>1, Invariance, PTL
=============================================================================
