---------------------------- MODULE Startup_proofs ----------------------------
(***************************************************************************)
(* The start of a gateway, for any lists, agents and gateways: what who    *)
(* serves knows, and what a start ends of.                                 *)
(***************************************************************************)
EXTENDS Startup, TLAPS

InInit == {"fetch", "lock", "count", "fill"}   \* within an Init

\* main and the listeners go different ways; main is past its Inits only
\* after the last list.
Places ==
  \A g \in Gateway :
    /\ \A l \in List : step[g][l] \in InInit \cup {"subscribe", "listening"}
    /\ step[g]["main"] \in InInit \cup {"refresh", "serving"}
    /\ step[g]["main"] \in {"refresh", "serving"} => next[g] = 3

\* A list main has read is in the cache.
Has(g, i) == db[Order[i]] \subseteq cache[g][Order[i]]

\* So are all lists before the one main is at, and that one after its fetch.
Loaded ==
  \A g \in Gateway : \A i \in DOMAIN Order :
    i < next[g] \/ (i = next[g] /\ step[g]["main"] # "fetch") => Has(g, i)

\* Nobody comes to fill in the list of a manager without a logger.
NoFill == \A g \in Gateway, q \in Goroutine : step[g][q] = "fill" => HasLogger(Of(g, q))

(* The inductive invariant of the start.                                    *)
IInv == TypeOK /\ Places /\ Loaded /\ NoFill /\ DiesOnlyOfData

-----------------------------------------------------------------------------
\* The lists in the order of main.
LEMMA Lists ==
  /\ DOMAIN Order = 1..3 /\ {Order[1], Order[2], Order[3]} = List
  /\ \A i \in DOMAIN Order : Order[i] \in List
  /\ "main" \in Goroutine /\ "main" \notin List /\ List \subseteq Goroutine
BY DEF Order, List, Goroutine

\* The list of a goroutine is one of the three.
LEMMA OfType ==
  ASSUME next \in [Gateway -> DOMAIN Order], NEW g \in Gateway, NEW q \in Goroutine
  PROVE  Of(g, q) \in List
BY Lists DEF Of, Goroutine

(* Initially every gateway runs and has read nothing.                       *)
LEMMA InitIInv == Init => IInv
<1> SUFFICES ASSUME Init PROVE IInv
  OBVIOUS
<1> USE Lists DEF Init
<1>1. TypeOK
  <2>1. Fresh \in [Goroutine -> {"fetch", "subscribe"}] BY DEF Fresh
  <2>2. NoAgents \in [List -> SUBSET Agent] BY DEF NoAgents
  <2> QED BY <2>1, <2>2 DEF TypeOK
<1>2. Places /\ Loaded /\ NoFill
  BY DEF Places, Loaded, NoFill, Fresh, InInit
<1>3. DiesOnlyOfData BY DEF DiesOnlyOfData, NoAgents, List
<1> QED BY <1>1, <1>2, <1>3 DEF IInv

-----------------------------------------------------------------------------
(* What a step of a gateway does to its goroutines and its cache *)

Label == InInit \cup {"subscribe", "listening", "refresh", "serving"}

\* Goroutine q of gateway g goes to a place it may be in.
Moves(g, q, label) ==
  /\ step' = [step EXCEPT ![g][q] = label] /\ next' = next
  /\ IF q = "main" THEN label \in Label \ {"subscribe", "listening", "fetch"}
                   ELSE label \in Label \ {"refresh", "serving"}
  /\ q = "main" /\ label \in {"refresh", "serving"} => next[g] = 3
  /\ label = "fill" => HasLogger(Of(g, q))

\* main takes the next list.
NextList(g) ==
  /\ step' = [step EXCEPT ![g]["main"] = "fetch"] /\ next' = [next EXCEPT ![g] = @ + 1]
  /\ next[g] < 3 /\ step[g]["main"] # "fetch"

\* One goroutine of g goes on or none does; caches only grow, and main goes on
\* from a fetch only with the list.
Step(g) ==
  /\ UNCHANGED <<step, next>> \/ NextList(g) \/ \E q \in Goroutine, label \in Label : Moves(g, q, label)
  /\ cache' \in [Gateway -> [List -> SUBSET Agent]]
  /\ \A h \in Gateway, l \in List : cache[h][l] \subseteq cache'[h][l]
  /\ db' = db
  /\ step[g]["main"] = "fetch" /\ step'[g]["main"] # "fetch"
       => db[Order[next[g]]] \subseteq cache'[g][Order[next[g]]]

\* An Init that ends leads on to the next list, to the listener's loop or to the servers.
LEMMA InitDoneMoves ==
  ASSUME IInv, NEW g \in Gateway, NEW q \in Goroutine, InitDone(g, q), step[g][q] \in {"lock", "count", "fill"}
  PROVE  NextList(g) \/ \E label \in Label : Moves(g, q, label)
<1>1. CASE q # "main"
  <2>1. Moves(g, q, "listening") BY <1>1 DEF InitDone, Moves, Label
  <2> QED BY <2>1 DEF Label
<1>2. CASE q = "main" /\ next[g] < 3
  BY <1>2 DEF InitDone, NextList
<1>3. CASE q = "main" /\ ~(next[g] < 3)
  <2>1. next[g] = 3 BY <1>3, Lists DEF IInv, TypeOK
  <2>2. Moves(g, q, "refresh") BY <1>3, <2>1 DEF InitDone, Moves, Label
  <2> QED BY <2>2 DEF Label
<1> QED BY <1>1, <1>2, <1>3

\* An Init that fails ends the process or is passed over by the listener.
LEMMA InitFailsMoves ==
  ASSUME NEW g \in Gateway, NEW q \in Goroutine, InitFails(g, q)
  PROVE  UNCHANGED <<step, next>> \/ \E label \in Label : Moves(g, q, label)
<1>1. CASE q # "main" /\ HasLogger(q)
  <2>1. Moves(g, q, "listening") BY <1>1 DEF InitFails, Goto, Moves, Label
  <2> QED BY <2>1 DEF Label
<1>2. CASE ~(q # "main" /\ HasLogger(q))
  BY <1>2 DEF InitFails, Dies
<1> QED BY <1>1, <1>2

\* Every action of a process that runs is such a step.
LEMMA ActionSteps ==
  ASSUME IInv, NEW g \in Gateway, Main(g) \/ (\E l \in List : Listener(g, l)) \/ CallFails(g)
  PROVE  Step(g)
<1> USE Lists
<1> DEFINE Shape == UNCHANGED <<step, next>> \/ NextList(g) \/ \E q \in Goroutine, label \in Label : Moves(g, q, label)
<1>t. TypeOK BY DEF IInv
<1>k. ASSUME UNCHANGED <<db, cache>>, Shape, step[g]["main"] # "fetch" \/ step'[g]["main"] = step[g]["main"]
      PROVE  Step(g)
  BY <1>k, <1>t DEF Step, TypeOK
<1>o. ASSUME NEW q \in Goroutine, NEW label, step' = [step EXCEPT ![g][q] = label], q # "main"
      PROVE  step'[g]["main"] = step[g]["main"]
  BY <1>o, <1>t DEF TypeOK
<1>f. ASSUME NEW q \in Goroutine, InitFails(g, q) PROVE step'[g]["main"] = step[g]["main"]
  BY <1>f, <1>t DEF InitFails, Goto, Dies, TypeOK
<1>1. ASSUME NEW q \in Goroutine, Fetch(g, q) PROVE Step(g)
  <2>1. Moves(g, q, "lock") BY <1>1 DEF Fetch, Goto, Moves, Label, InInit
  <2>2. cache' = [cache EXCEPT ![g][Of(g, q)] = @ \cup db[Of(g, q)]] /\ db' = db BY <1>1 DEF Fetch
  <2>3. Of(g, q) \in List BY OfType, <1>t DEF TypeOK
  <2>4. /\ cache' \in [Gateway -> [List -> SUBSET Agent]]
        /\ \A h \in Gateway, l \in List : cache[h][l] \subseteq cache'[h][l]
    BY <1>t, <2>2, <2>3 DEF TypeOK
  <2>5. step[g]["main"] = "fetch" /\ step'[g]["main"] # "fetch"
          => db[Order[next[g]]] \subseteq cache'[g][Order[next[g]]]
    <3>1. CASE q # "main" BY <1>1, <1>o, <3>1 DEF Fetch, Goto
    <3>2. CASE q = "main" BY <1>t, <2>2, <2>3, <3>2 DEF Of, TypeOK
    <3> QED BY <3>1, <3>2
  <2> QED BY <2>1, <2>2, <2>4, <2>5 DEF Step, Label, InInit
<1>2. ASSUME NEW q \in Goroutine, FetchFails(g, q) \/ FillFails(g, q) PROVE Step(g)
  BY <1>2, <1>k, <1>f, InitFailsMoves DEF FetchFails, FillFails
<1>3. ASSUME NEW q \in Goroutine, TryLock(g, q) \/ TryLockFails(g, q) \/ Count(g, q) \/ CountFails(g, q) \/ Fill(g, q)
      PROVE  Step(g)
  <2>1. /\ step[g][q] \in {"lock", "count", "fill"} /\ UNCHANGED <<db, cache>>
        /\ \/ InitDone(g, q) \/ Goto(g, q, "count") \/ Dies(g)
           \/ HasLogger(Of(g, q)) /\ Goto(g, q, "fill")
    BY <1>3 DEF TryLock, TryLockFails, Count, CountFails, Fill, At
  <2>2. Shape
    <3>1. CASE InitDone(g, q) BY <2>1, <3>1, InitDoneMoves
    <3>2. CASE Goto(g, q, "count")
      <4>1. Moves(g, q, "count") BY <3>2 DEF Goto, Moves, Label, InInit
      <4> QED BY <4>1 DEF Label, InInit
    <3>3. CASE HasLogger(Of(g, q)) /\ Goto(g, q, "fill")
      <4>1. Moves(g, q, "fill") BY <3>3 DEF Goto, Moves, Label, InInit
      <4> QED BY <4>1 DEF Label, InInit
    <3>4. CASE Dies(g) BY <3>4 DEF Dies
    <3> QED BY <2>1, <3>1, <3>2, <3>3, <3>4
  <2>3. CASE q = "main" BY <1>k, <2>1, <2>2, <2>3
  <2>4. CASE q # "main"
    <3>1. step'[g]["main"] = step[g]["main"]
      BY <1>o, <2>1, <2>4 DEF InitDone, Goto, Dies
    <3> QED BY <1>k, <2>1, <2>2, <3>1
  <2> QED BY <2>3, <2>4
<1>4. CASE Serve(g)
  <2>1. step[g]["main"] = "refresh" /\ Goto(g, "main", "serving") /\ UNCHANGED <<db, cache>>
    BY <1>4 DEF Serve, At
  <2>2. Moves(g, "main", "serving") BY <2>1 DEF Goto, Moves, Label, InInit, IInv, Places
  <2> QED BY <1>k, <2>1, <2>2 DEF Label
<1>5. ASSUME NEW l \in List, Subscribe(g, l) PROVE Step(g)
  <2>1. Moves(g, l, "fetch") BY <1>5 DEF Subscribe, Goto, Moves, Label, InInit
  <2>2. step'[g]["main"] = step[g]["main"] BY <1>5, <1>o DEF Subscribe, Goto
  <2> QED BY <1>5, <1>k, <2>1, <2>2 DEF Subscribe, Label, InInit
<1>6. ASSUME NEW l \in List, SubscribeFails(g, l) PROVE Step(g)
  BY <1>6, <1>k DEF SubscribeFails, Dies
<1>7. CASE ServeFails(g)
  BY <1>7, <1>k DEF ServeFails, Dies
<1> QED BY <1>1, <1>2, <1>3, <1>4, <1>5, <1>6, <1>7 DEF Main, Listener, InitStep, CallFails

-----------------------------------------------------------------------------
(* Such a step keeps the order of the start.                                *)
LEMMA StepKeeps ==
  ASSUME IInv, NEW g \in Gateway, Step(g)
  PROVE  /\ step' \in [Gateway -> [Goroutine -> Label]] /\ next' \in [Gateway -> DOMAIN Order]
         /\ Places' /\ Loaded' /\ NoFill'
<1> USE Lists
<1>t. /\ step \in [Gateway -> [Goroutine -> Label]] /\ next \in [Gateway -> 1..3]
      /\ cache \in [Gateway -> [List -> SUBSET Agent]]
  BY DEF IInv, TypeOK, Label, InInit
<1>1. ASSUME UNCHANGED <<step, next>>
      PROVE  step' \in [Gateway -> [Goroutine -> Label]] /\ next' \in [Gateway -> DOMAIN Order] /\ Places' /\ NoFill'
  BY <1>t, <1>1 DEF IInv, Places, NoFill, Of
<1>2. ASSUME NextList(g)
      PROVE  step' \in [Gateway -> [Goroutine -> Label]] /\ next' \in [Gateway -> DOMAIN Order] /\ Places' /\ NoFill'
  <2>1. step' \in [Gateway -> [Goroutine -> Label]] /\ next' \in [Gateway -> DOMAIN Order]
    BY <1>t, <1>2 DEF NextList, Label, InInit
  <2>2. \A h \in Gateway, q \in Goroutine :
          step'[h][q] = (IF h = g /\ q = "main" THEN "fetch" ELSE step[h][q])
    BY <1>t, <1>2 DEF NextList
  <2>3. \A h \in Gateway : h # g => next'[h] = next[h] BY <1>t, <1>2 DEF NextList
  <2>4. Places' BY <2>2, <2>3 DEF IInv, Places, InInit
  <2>5. NoFill' BY <2>2, <2>3 DEF IInv, NoFill, Of
  <2> QED BY <2>1, <2>4, <2>5
<1>3. ASSUME NEW q \in Goroutine, NEW label \in Label, Moves(g, q, label)
      PROVE  step' \in [Gateway -> [Goroutine -> Label]] /\ next' \in [Gateway -> DOMAIN Order] /\ Places' /\ NoFill'
  <2>1. step' \in [Gateway -> [Goroutine -> Label]] /\ next' \in [Gateway -> DOMAIN Order]
    BY <1>t, <1>3 DEF Moves
  <2>2. /\ next' = next
        /\ \A h \in Gateway, r \in Goroutine :
             step'[h][r] = (IF h = g /\ r = q THEN label ELSE step[h][r])
    BY <1>t, <1>3 DEF Moves
  <2>3. Places' BY <1>3, <2>2 DEF IInv, Places, InInit, Moves, Label
  <2>4. NoFill' BY <1>3, <2>2 DEF IInv, NoFill, Of, Moves
  <2> QED BY <2>1, <2>3, <2>4
<1>4. Loaded'
  <2> SUFFICES ASSUME NEW h \in Gateway, NEW i \in 1..3,
                      i < next'[h] \/ (i = next'[h] /\ step'[h]["main"] # "fetch")
               PROVE  Has(h, i)'
    BY DEF Loaded
  <2>0. db' = db /\ cache[h][Order[i]] \subseteq cache'[h][Order[i]] BY DEF Step
  <2>1. ASSUME Has(h, i) PROVE Has(h, i)' BY <2>0, <2>1 DEF Has
  <2>2. CASE h # g
    <3>1. next'[h] = next[h] /\ step'[h]["main"] = step[h]["main"]
      BY <1>t, <2>2 DEF Step, NextList, Moves
    <3> QED BY <2>1, <3>1 DEF IInv, Loaded
  <2>3. CASE h = g /\ NextList(g)
    <3>1. next'[g] = next[g] + 1 /\ step'[g]["main"] = "fetch" /\ step[g]["main"] # "fetch"
      BY <1>t, <2>3 DEF NextList
    <3>2. i <= next[g] BY <1>t, <2>3, <3>1
    <3> QED BY <1>t, <2>1, <2>3, <3>1, <3>2 DEF IInv, Loaded
  <2>4. CASE h = g /\ ~NextList(g)
    <3>1. next' = next BY <2>4 DEF Step, Moves
    <3>2. CASE i < next[g] \/ step[g]["main"] # "fetch"
      BY <2>1, <2>4, <3>1, <3>2 DEF IInv, Loaded
    <3>3. CASE i = next[g] /\ step[g]["main"] = "fetch"
      <4>1. step'[g]["main"] # "fetch" BY <1>t, <2>4, <3>1, <3>3
      <4> QED BY <2>4, <3>3, <4>1 DEF Step, Has
    <3> QED BY <2>4, <3>1, <3>2, <3>3
  <2> QED BY <2>2, <2>3, <2>4
<1> QED BY <1>1, <1>2, <1>3, <1>4 DEF Step

\* A process that ends without a fault does so because of what the lists hold,
\* and nobody fills the set of the quarantined agents.
LEMMA ActionData ==
  ASSUME IInv, NEW g \in Gateway, Main(g) \/ (\E l \in List : Listener(g, l)) \/ CallFails(g)
  PROVE  /\ running' \subseteq Gateway /\ faulty' \subseteq Gateway
         /\ l2' \in [List -> SUBSET Agent] /\ lock' \subseteq List
         /\ DiesOnlyOfData'
<1> DEFINE Data == db["sandbox"] # {} \/ db["quarantine"] # {}
           Fate == \/ running' = running
                   \/ running' = running \ {g} /\ (Data \/ g \in faulty')
<1> USE Lists
<1>t. TypeOK BY DEF IInv
<1>d. db' = db BY ActionSteps DEF Step
<1>e. /\ "quarantine" \in List /\ "sandbox" \in List
      /\ \A h \in Gateway \ running : h \notin faulty => Data
      /\ l2["quarantine"] = {}
  BY DEF IInv, DiesOnlyOfData, List
<1>g. \A q \in Goroutine : Of(g, q) \in List /\ db[Of(g, q)] \subseteq Agent
  BY <1>t, OfType DEF TypeOK
<1>n. \A q \in Goroutine : step[g][q] = "fill" => Of(g, q) # "quarantine"
  BY DEF IInv, NoFill, HasLogger
<1>k. ASSUME Fate, faulty' \in {faulty, faulty \cup {g}},
             l2' \in [List -> SUBSET Agent], l2'["quarantine"] = {}, lock' \subseteq List
      PROVE  /\ running' \subseteq Gateway /\ faulty' \subseteq Gateway
             /\ l2' \in [List -> SUBSET Agent] /\ lock' \subseteq List /\ DiesOnlyOfData'
  BY <1>t, <1>d, <1>e, <1>k DEF TypeOK, DiesOnlyOfData
<1>l. l2 \in [List -> SUBSET Agent] /\ lock \subseteq List BY <1>t DEF TypeOK
<1>i. ASSUME NEW q \in Goroutine, InitDone(g, q) PROVE running' = running
  BY <1>i DEF InitDone
<1>f. ASSUME NEW q \in Goroutine, InitFails(g, q) PROVE running' = running \/ running' = running \ {g}
  BY <1>f DEF InitFails, Goto, Dies
<1>1. ASSUME NEW q \in Goroutine, InitStep(g, q) PROVE DiesOnlyOfData' /\ running' \subseteq Gateway /\ faulty' \subseteq Gateway
                                                       /\ l2' \in [List -> SUBSET Agent] /\ lock' \subseteq List
  <2>1. CASE Fetch(g, q) BY <1>e, <1>k, <1>l, <2>1 DEF Fetch, Goto, redisVars
  <2>2. CASE FetchFails(g, q)
    <3>1. UNCHANGED redisVars /\ InitFails(g, q)
          /\ ((db["sandbox"] # {} /\ faulty' = faulty) \/ faulty' = faulty \cup {g})
      BY <2>2 DEF FetchFails, Fault, Fetches
    <3>2. Fate BY <1>f, <3>1
    <3> QED BY <1>e, <1>k, <1>l, <3>1, <3>2 DEF redisVars
  <2>3. CASE TryLock(g, q)
    <3>1. running' = running BY <1>i, <2>3 DEF TryLock, Goto
    <3>2. lock' \subseteq List /\ l2' = l2 /\ faulty' = faulty BY <1>g, <1>l, <2>3 DEF TryLock
    <3> QED BY <1>e, <1>k, <1>l, <3>1, <3>2
  <2>4. CASE Count(g, q)
    <3>1. UNCHANGED redisVars /\ faulty' = faulty BY <2>4 DEF Count
    <3>2. InitDone(g, q) \/ Goto(g, q, "fill") \/ (db[Of(g, q)] # {} /\ ~HasLogger(Of(g, q)) /\ Dies(g))
      BY <2>4 DEF Count
    <3>3. Fate BY <1>i, <3>2 DEF Goto, Dies, HasLogger
    <3> QED BY <1>e, <1>k, <1>l, <3>1, <3>3 DEF redisVars
  <2>5. CASE Fill(g, q)
    <3>1. step[g][q] = "fill" /\ l2' = [l2 EXCEPT ![Of(g, q)] = @ \cup db[Of(g, q)]]
          /\ InitDone(g, q) /\ lock' = lock /\ faulty' = faulty
      BY <2>5 DEF Fill, At
    <3>2. l2' \in [List -> SUBSET Agent] /\ l2'["quarantine"] = {} BY <1>e, <1>g, <1>l, <1>n, <3>1
    <3> QED BY <1>i, <1>k, <1>l, <3>1, <3>2
  <2> QED BY <1>1, <2>1, <2>2, <2>3, <2>4, <2>5 DEF InitStep
<1>2. CASE CallFails(g)
  <2>1. CASE ServeFails(g)
    BY <1>e, <1>k, <1>l, <2>1 DEF ServeFails, Dies, Fault, redisVars
  <2>2. ASSUME NEW l \in List, SubscribeFails(g, l)
        PROVE  Fate /\ faulty' = faulty \cup {g} /\ UNCHANGED redisVars
    BY <2>2 DEF SubscribeFails, Dies, Fault
  <2>3. ASSUME NEW q \in Goroutine, TryLockFails(g, q)
        PROVE  running' = running /\ faulty' = faulty \cup {g} /\ l2' = l2 /\ lock' \subseteq List
    BY <1>g, <1>i, <1>l, <2>3 DEF TryLockFails, Fault
  <2>4. ASSUME NEW q \in Goroutine, CountFails(g, q)
        PROVE  Fate /\ faulty' = faulty \cup {g} /\ UNCHANGED redisVars
    BY <1>i, <2>4 DEF CountFails, Dies, Goto, Fault
  <2>5. ASSUME NEW q \in Goroutine, FillFails(g, q)
        PROVE  /\ Fate /\ faulty' = faulty \cup {g} /\ lock' = lock
               /\ l2' \in [List -> SUBSET Agent] /\ l2'["quarantine"] = {}
    <3>1. /\ step[g][q] = "fill" /\ faulty' = faulty \cup {g} /\ InitFails(g, q) /\ lock' = lock
          /\ \E done \in SUBSET db[Of(g, q)] : l2' = [l2 EXCEPT ![Of(g, q)] = @ \cup done]
      BY <2>5 DEF FillFails, At, Fault
    <3>2. PICK done \in SUBSET db[Of(g, q)] : l2' = [l2 EXCEPT ![Of(g, q)] = @ \cup done] BY <3>1
    <3>3. l2' \in [List -> SUBSET Agent] /\ l2'["quarantine"] = {} BY <1>e, <1>g, <1>l, <1>n, <3>1, <3>2
    <3> QED BY <1>f, <3>1, <3>3
  <2> QED BY <1>2, <1>e, <1>k, <1>l, <2>1, <2>2, <2>3, <2>4, <2>5 DEF CallFails, redisVars
<1>3. ASSUME Serve(g) \/ \E l \in List : Subscribe(g, l)
      PROVE  running' = running /\ UNCHANGED <<redisVars, faulty>>
  BY <1>3 DEF Serve, Subscribe, Goto
<1> QED BY <1>1, <1>2, <1>3, <1>e, <1>k, <1>l DEF Main, Listener, redisVars

(* A process that is started again has read nothing, and forgets no more.   *)
LEMMA RestartIInv ==
  ASSUME IInv, NEW g \in Gateway, Restart(g)
  PROVE  IInv'
<1> USE Lists DEF IInv, Restart
<1>1. Fresh \in [Goroutine -> {"fetch", "subscribe"}] /\ NoAgents \in [List -> SUBSET Agent]
  BY DEF Fresh, NoAgents
<1>2. \A q \in Goroutine : Fresh[q] = IF q = "main" THEN "fetch" ELSE "subscribe" BY DEF Fresh
<1>3. TypeOK' BY <1>1 DEF TypeOK, redisVars
<1>4. /\ \A h \in Gateway : step'[h] = (IF h = g THEN Fresh ELSE step[h])
      /\ \A h \in Gateway : next'[h] = (IF h = g THEN 1 ELSE next[h])
      /\ \A h \in Gateway : h # g => cache'[h] = cache[h]
  BY DEF TypeOK
<1>5. Places' BY <1>2, <1>4 DEF Places, InInit
<1>6. Loaded'
  <2> SUFFICES ASSUME NEW h \in Gateway, NEW i \in 1..3,
                      i < next'[h] \/ (i = next'[h] /\ step'[h]["main"] # "fetch")
               PROVE  Has(h, i)'
    BY DEF Loaded
  <2>1. h # g BY <1>2, <1>4
  <2> QED BY <1>4, <2>1 DEF Loaded, Has
<1>7. NoFill' BY <1>2, <1>4 DEF NoFill, Of
<1>8. DiesOnlyOfData' BY DEF DiesOnlyOfData, redisVars
<1> QED BY <1>3, <1>5, <1>6, <1>7, <1>8

LEMMA NextIInv == IInv /\ [Next]_vars => IInv'
<1> SUFFICES ASSUME IInv, [Next]_vars PROVE IInv'
  OBVIOUS
<1>1. CASE UNCHANGED vars
  BY <1>1 DEF vars, redisVars, IInv, TypeOK, Places, Loaded, Has, NoFill, Of, DiesOnlyOfData
<1>2. ASSUME NEW g \in Gateway, Main(g) \/ (\E l \in List : Listener(g, l)) \/ CallFails(g) PROVE IInv'
  <2>1. Step(g) BY <1>2, ActionSteps
  <2>2. /\ step' \in [Gateway -> [Goroutine -> Label]] /\ next' \in [Gateway -> DOMAIN Order]
        /\ Places' /\ Loaded' /\ NoFill'
    BY <2>1, StepKeeps
  <2>3. /\ running' \subseteq Gateway /\ faulty' \subseteq Gateway
        /\ l2' \in [List -> SUBSET Agent] /\ lock' \subseteq List
        /\ DiesOnlyOfData'
    BY <1>2, ActionData
  <2>4. TypeOK' BY <2>1, <2>2, <2>3 DEF IInv, TypeOK, Step, Label, InInit
  <2> QED BY <2>2, <2>3, <2>4 DEF IInv
<1>3. ASSUME NEW l \in List, LockExpires(l) PROVE IInv'
  BY <1>3 DEF LockExpires, IInv, TypeOK, Places, Loaded, Has, NoFill, Of, DiesOnlyOfData
<1> QED BY <1>1, <1>2, <1>3, RestartIInv DEF Next, Terminated

(* The inductive invariant is an invariant.                                 *)
THEOREM Invariance == Spec => []IInv
<1> QED BY InitIInv, NextIInv, PTL DEF Spec

-----------------------------------------------------------------------------
(* The variables have their types.                                          *)
THEOREM TypeCorrect == Spec => []TypeOK
<1>1. IInv => TypeOK BY DEF IInv
<1> QED BY <1>1, Invariance, PTL

(* A gateway that serves knows every agent of every list, whoever held the  *)
(* locks and whatever failed: main comes to the servers only past all three *)
(* lists, and past a list only with what the list holds.                    *)
THEOREM ServesWithLists == Spec => []ServingKnows
<1>1. IInv => ServingKnows
  <2> SUFFICES ASSUME IInv, NEW g \in Gateway, step[g]["main"] = "serving", NEW l \in List
               PROVE  db[l] \subseteq cache[g][l]
    BY DEF ServingKnows, At
  <2>1. next[g] = 3 BY DEF IInv, Places
  <2>2. \A i \in 1..3 : Has(g, i) BY <2>1, Lists DEF IInv, Loaded
  <2>3. PICK i \in 1..3 : l = Order[i] BY Lists
  <2> QED BY <2>2, <2>3 DEF Has
<1> QED BY <1>1, Invariance, PTL

(* Without a fault a start ends only because of an agent in the sandbox or  *)
(* in quarantine, and the set of the quarantined agents stays empty.        *)
THEOREM EndsOnlyOfData == Spec => []DiesOnlyOfData
<1>1. IInv => DiesOnlyOfData BY DEF IInv
<1> QED BY <1>1, Invariance, PTL
=============================================================================
