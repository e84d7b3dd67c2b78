------------------------------ MODULE StateSync ------------------------------
(***************************************************************************)
(* How the state of the agents reaches the gateways.  The console changes  *)
(* a row of the table agents and publishes a signal (AgentService);  every *)
(* gateway keeps the listed agents in RAM (L1) and is fed by two           *)
(* goroutines: main runs Init once at start, and the listener subscribes,  *)
(* runs Init too, and then applies the signals (ListenStateResilient).     *)
(* Init reads the list from the database and adds it to L1 and, under a    *)
(* lock, to a Redis set (L2) if that is empty (WarmupState).               *)
(*                                                                         *)
(* The module follows KillSwitchManager; SandboxManager and                *)
(* QuarantineManager are the same code over other lists and channels.      *)
(***************************************************************************)
EXTENDS Naturals, Sequences

CONSTANTS
  Agent, Gateway,
  Op,            \* operator calls, each lists or unlists one agent
  OneOperator,   \* TRUE: a call starts only when the one before has published
  Drops,         \* TRUE: subscriptions break, gateways restart and are told to end
  Errors         \* TRUE: database and Redis may fail a call of the console or of Init

ASSUME FlagsAssumption == {OneOperator, Drops, Errors} \subseteq BOOLEAN

Proc == {"main", "listener"}   \* the goroutines of a gateway that run Init

VARIABLES
  db,       \* agents the database lists
  opPc,     \* where each operator call is
  signal,   \* the signal an operator call has still to publish
  pc,       \* where the goroutines of each gateway are
  snap,     \* what their Init has read from the database
  subscribed, \* gateways with an active subscription
  queue,    \* signals received and not yet applied
  cache,    \* L1: agents the gateway holds as listed
  l2,       \* L2: the Redis set
  lock,     \* the Redis lock of the warm-up is taken
  settled,  \* history: agents last changed, with a signal, while the gateway served
  missed    \* history: gateways that may lack a change, having read no list since

redisVars == <<l2, lock>>
opVars    == <<db, opPc, signal>>
history   == <<settled, missed>>
vars == <<opVars, pc, snap, subscribed, queue, cache, redisVars, history>>

Starting == [p \in Proc |-> IF p = "main" THEN "reading" ELSE "subscribing"]

Init ==
  /\ db \in SUBSET Agent
  /\ opPc = [o \in Op |-> "idle"]
  /\ signal = [o \in Op |-> <<>>]
  /\ pc = [g \in Gateway |-> Starting]
  /\ snap = [g \in Gateway |-> [p \in Proc |-> {}]]
  /\ subscribed = {}
  /\ queue = [g \in Gateway |-> <<>>]
  /\ cache = [g \in Gateway |-> {}]
  /\ l2 = {} /\ lock = FALSE
  /\ settled = [g \in Gateway |-> {}] /\ missed = {}

\* The gateway serves, and its listener takes signals.
InService(g) == pc[g]["main"] = "ready" /\ pc[g]["listener"] = "ready" /\ g \in subscribed

-----------------------------------------------------------------------------
(* The console: BlockAgent, UnblockAgent *)

\* Defect: the payload of the signal is not built.
UpdateNoPayload(o, a, on) ==
  /\ opPc[o] = "idle"
  /\ OneOperator => \A p \in Op : opPc[p] # "publishing"
  /\ db' = IF on THEN db \cup {a} ELSE db \ {a}
  /\ opPc' = [opPc EXCEPT ![o] = "publishing"]
  /\ UNCHANGED <<signal, pc, snap, subscribed, queue, cache, redisVars, history>>

\* The row is updated; nothing keeps other operators' calls apart.
Update(o, a, on) ==
  /\ opPc[o] = "idle"
  /\ OneOperator => \A p \in Op : opPc[p] # "publishing"
  /\ db' = IF on THEN db \cup {a} ELSE db \ {a}
  /\ opPc' = [opPc EXCEPT ![o] = "publishing"]
  /\ signal' = [signal EXCEPT ![o] = <<a, on>>]
  /\ settled' = [g \in Gateway |-> IF InService(g) THEN settled[g] \cup {a} ELSE settled[g] \ {a}]
  /\ UNCHANGED <<pc, snap, subscribed, queue, cache, redisVars, missed>>

\* UpdateAgentStatus returns an error, with or without having taken effect:
\* the call ends there and nothing is published.
UpdateFailed(o, a, on) ==
  /\ Errors /\ opPc[o] = "idle"
  /\ OneOperator => \A p \in Op : opPc[p] # "publishing"
  /\ db' \in {db, IF on THEN db \cup {a} ELSE db \ {a}}
  /\ opPc' = [opPc EXCEPT ![o] = "done"]
  /\ settled' = [g \in Gateway |-> settled[g] \ {a}]
  /\ missed' = IF db' = db THEN missed ELSE Gateway
  /\ UNCHANGED <<signal, pc, snap, subscribed, queue, cache, redisVars>>

\* Every active subscription receives the signal, in the order of publication.
Publish(o) ==
  /\ opPc[o] = "publishing"
  /\ queue' = [g \in Gateway |-> IF g \in subscribed THEN Append(queue[g], signal[o]) ELSE queue[g]]
  /\ opPc' = [opPc EXCEPT ![o] = "done"] /\ signal' = [signal EXCEPT ![o] = <<>>]
  /\ UNCHANGED <<db, pc, snap, subscribed, cache, redisVars, history>>

\* The failure is logged and the call reports success.
PublishFailed(o) ==
  /\ Errors /\ opPc[o] = "publishing"
  /\ opPc' = [opPc EXCEPT ![o] = "done"] /\ signal' = [signal EXCEPT ![o] = <<>>]
  /\ settled' = [g \in Gateway |-> settled[g] \ {signal[o][1]}]
  /\ missed' = Gateway
  /\ UNCHANGED <<db, pc, snap, subscribed, queue, cache, redisVars>>

-----------------------------------------------------------------------------
\* The process ends and starts anew; L1 is gone.
ProcessRestarts(g) ==
  /\ pc' = [pc EXCEPT ![g] = Starting]
  /\ snap' = [snap EXCEPT ![g] = [p \in Proc |-> {}]]
  /\ subscribed' = subscribed \ {g}
  /\ queue' = [queue EXCEPT ![g] = <<>>]
  /\ cache' = [cache EXCEPT ![g] = {}]
  /\ settled' = [settled EXCEPT ![g] = {}] /\ UNCHANGED missed

-----------------------------------------------------------------------------
(* Init, run by main and by the listener *)

Goto(g, p, label) == pc' = [pc EXCEPT ![g][p] = label]

\* Read under an active subscription, the list makes up for all that was missed,
\* unless an older signal that still waits takes back what the list says.
ReadList(g, p) ==
  /\ pc[g][p] = "reading"
  /\ snap' = [snap EXCEPT ![g][p] = db]
  /\ missed' = IF g \in subscribed /\ queue[g] = <<>> THEN missed \ {g} ELSE missed
  /\ Goto(g, p, "applying")
  /\ UNCHANGED <<opVars, subscribed, queue, cache, redisVars, settled>>

\* Defect: Init fills L2 only.
UpdateL1Skipped(g, p) ==
  /\ pc[g][p] = "applying"
  /\ Goto(g, p, "warming")
  /\ UNCHANGED <<opVars, snap, subscribed, queue, cache, redisVars, history>>

\* Defect: Init puts its list, which may be older than a signal, in the cache's place.
UpdateL1Replaces(g, p) ==
  /\ pc[g][p] = "applying"
  /\ cache' = [cache EXCEPT ![g] = snap[g][p]]
  /\ Goto(g, p, "warming")
  /\ UNCHANGED <<opVars, snap, subscribed, queue, redisVars, history>>

\* updateL1 only adds.
UpdateL1(g, p) ==
  /\ pc[g][p] = "applying"
  /\ cache' = [cache EXCEPT ![g] = @ \cup snap[g][p]]
  /\ Goto(g, p, "warming")
  /\ UNCHANGED <<opVars, snap, subscribed, queue, redisVars, history>>

\* Under the lock, which is left to expire, an empty L2 is filled.
WarmL2(g, p) ==
  /\ pc[g][p] = "warming"
  /\ IF lock THEN UNCHANGED redisVars
     ELSE lock' = TRUE /\ l2' = IF l2 = {} THEN snap[g][p] ELSE l2
  /\ Goto(g, p, "ready") /\ snap' = [snap EXCEPT ![g][p] = {}]
  /\ UNCHANGED <<opVars, subscribed, queue, cache, history>>

\* Redis does not answer, before or after the lock was taken.  The pipeline's
\* error is Init's: fatal for main, logged by the listener.
WarmFailed(g, p) ==
  /\ Errors /\ pc[g][p] = "warming"
  /\ lock' \in {lock, TRUE} /\ UNCHANGED l2
  /\ \/ /\ p = "main" /\ lock' # lock
        /\ ProcessRestarts(g)
     \/ /\ Goto(g, p, "ready") /\ snap' = [snap EXCEPT ![g][p] = {}]
        /\ UNCHANGED <<subscribed, queue, cache, history>>
  /\ UNCHANGED opVars

LockExpires ==
  /\ lock /\ lock' = FALSE
  /\ UNCHANGED <<opVars, pc, snap, subscribed, queue, cache, l2, history>>

-----------------------------------------------------------------------------
(* The listener *)

\* Subscribe, and Receive has seen the confirmation.
Subscribe(g) ==
  /\ pc[g]["listener"] = "subscribing"
  /\ subscribed' = subscribed \cup {g}
  /\ Goto(g, "listener", "reading")
  /\ UNCHANGED <<opVars, snap, queue, cache, redisVars, history>>

\* Defect: the signal "unlisted" is not applied.
ApplySignalAddOnly(g) ==
  /\ pc[g]["listener"] = "ready" /\ queue[g] # <<>>
  /\ cache' = [cache EXCEPT ![g] = @ \cup {Head(queue[g])[1]}]
  /\ queue' = [queue EXCEPT ![g] = Tail(@)]
  /\ UNCHANGED <<opVars, pc, snap, subscribed, redisVars, history>>

ApplySignal(g) ==
  /\ pc[g]["listener"] = "ready" /\ queue[g] # <<>>
  /\ LET a == Head(queue[g])[1] IN
       cache' = [cache EXCEPT ![g] = IF Head(queue[g])[2] THEN @ \cup {a} ELSE @ \ {a}]
  /\ queue' = [queue EXCEPT ![g] = Tail(@)]
  /\ UNCHANGED <<opVars, pc, snap, subscribed, redisVars, history>>

\* The subscription breaks: signals on their way and later ones are lost.
Drop(g) ==
  /\ Drops /\ g \in subscribed
  /\ subscribed' = subscribed \ {g}
  /\ \E n \in 0..Len(queue[g]) : queue' = [queue EXCEPT ![g] = SubSeq(@, 1, n)]
  /\ settled' = [settled EXCEPT ![g] = {}]
  /\ UNCHANGED <<opVars, pc, snap, cache, redisVars, missed>>

\* The library renews the subscription; the listener does not notice.
SilentReconnect(g) ==
  /\ pc[g]["listener"] \notin {"subscribing", "ended"} /\ g \notin subscribed
  /\ subscribed' = subscribed \cup {g}
  /\ missed' = missed \cup {g}
  /\ UNCHANGED <<opVars, pc, snap, queue, cache, redisVars, settled>>

\* Defect: after a reconnect the listener goes back to its loop at once.
ResubscribeNoInit(g) ==
  /\ pc[g]["listener"] = "ready" /\ g \notin subscribed /\ queue[g] = <<>>
  /\ subscribed' = subscribed \cup {g}
  /\ UNCHANGED <<opVars, pc, snap, queue, cache, redisVars, history>>

\* The library closed the channel, it is drained: close the subscription, start again.
Resubscribe(g) ==
  /\ pc[g]["listener"] = "ready" /\ g \notin subscribed /\ queue[g] = <<>>
  /\ Goto(g, "listener", "subscribing")
  /\ UNCHANGED <<opVars, snap, subscribed, queue, cache, redisVars, history>>

\* SIGTERM ends the context: the listener closes its subscription and returns,
\* signals that wait are dropped, while the servers go on until they are stopped.
ListenerEnds(g) ==
  /\ Drops /\ pc[g]["main"] = "ready" /\ pc[g]["listener"] \notin {"applying", "ended"}
  /\ Goto(g, "listener", "ended")
  /\ snap' = [snap EXCEPT ![g]["listener"] = {}]
  /\ subscribed' = subscribed \ {g}
  /\ queue' = [queue EXCEPT ![g] = <<>>]
  /\ settled' = [settled EXCEPT ![g] = {}]
  /\ UNCHANGED <<opVars, cache, redisVars, missed>>

-----------------------------------------------------------------------------
(* The gateway process *)

Restarted(g) == ProcessRestarts(g) /\ UNCHANGED <<opVars, redisVars>>

Restart(g) == Drops /\ Restarted(g)

\* The database does not answer Init: fatal for main, logged by the listener.
InitFailed(g, p) ==
  /\ Errors /\ pc[g][p] = "reading"
  /\ \/ p = "main" /\ Restarted(g)
     \/ /\ p = "listener" /\ Goto(g, p, "ready")
        /\ missed' = missed \cup {g}
        /\ UNCHANGED <<opVars, snap, subscribed, queue, cache, redisVars, settled>>

-----------------------------------------------------------------------------
Operator(o) ==
  \/ \E a \in Agent, on \in BOOLEAN : Update(o, a, on) \/ UpdateFailed(o, a, on)
  \/ Publish(o) \/ PublishFailed(o)

InitStep(g, p) == ReadList(g, p) \/ UpdateL1(g, p) \/ WarmL2(g, p) \/ InitFailed(g, p) \/ WarmFailed(g, p)

Listener(g) == Subscribe(g) \/ ApplySignal(g) \/ Resubscribe(g)

\* Nothing is under way.
AtRest(g) == InService(g) /\ queue[g] = <<>> /\ \A o \in Op : opPc[o] # "publishing"

\* The operators are done and every gateway is at rest.
Terminated == (\A o \in Op : opPc[o] = "done") /\ (\A g \in Gateway : AtRest(g)) /\ UNCHANGED vars

Next ==
  \/ \E o \in Op : Operator(o)
  \/ \E g \in Gateway :
       \/ \E p \in Proc : InitStep(g, p)
       \/ Listener(g) \/ Drop(g) \/ SilentReconnect(g) \/ ListenerEnds(g) \/ Restart(g)
  \/ LockExpires \/ Terminated

Spec == Init /\ [][Next]_vars

(***************************************************************************)
(* The goroutines of the gateways run and Redis accepts subscriptions; a   *)
(* call that has updated the row publishes.  Operators, breaks and         *)
(* restarts owe nothing.                                                   *)
(***************************************************************************)
Fairness ==
  /\ \A o \in Op : WF_vars(Publish(o) \/ PublishFailed(o))
  /\ \A g \in Gateway :
       /\ WF_vars(Listener(g))
       /\ \A p \in Proc : WF_vars(InitStep(g, p))

FairSpec == Spec /\ Fairness

-----------------------------------------------------------------------------
(* Type invariant. *)
Signal == Agent \X BOOLEAN

TypeOK ==
  /\ db \subseteq Agent
  /\ opPc \in [Op -> {"idle", "publishing", "done"}]
  /\ \A o \in Op : opPc[o] = "publishing" => signal[o] \in Signal
  /\ pc \in [Gateway -> [Proc -> {"subscribing", "reading", "applying", "warming", "ready", "ended"}]]
  /\ snap \in [Gateway -> [Proc -> SUBSET Agent]]
  /\ subscribed \subseteq Gateway
  /\ queue \in [Gateway -> Seq(Signal)]
  /\ cache \in [Gateway -> SUBSET Agent]
  /\ l2 \subseteq Agent /\ lock \in BOOLEAN
  /\ settled \in [Gateway -> SUBSET Agent] /\ missed \subseteq Gateway

(* With one operator at a time, no blocked agent is overlooked: a gateway   *)
(* at rest holds every agent the database lists, whatever the order of its  *)
(* start, of breaks and of the operator's calls, unless a signal failed or  *)
(* a break went unnoticed and the gateway, subscribed and with no signal    *)
(* waiting, has read no list since.                                         *)
NoBlockMissed == \A g \in Gateway \ missed : AtRest(g) => db \subseteq cache[g]

(* For an agent changed while the gateway was in service, both ways: it is  *)
(* held as listed exactly if the database lists it (an unblock works too),  *)
(* unless publishing failed or the subscription broke since.                *)
LiveChangesArrive ==
  \A g \in Gateway : AtRest(g) => \A a \in settled[g] : a \in cache[g] <=> a \in db

(* A block is in force in the end: if an agent stays listed, a gateway that *)
(* keeps its subscription and has missed nothing holds it.                  *)
BlockInForce ==
  \A g \in Gateway, a \in Agent :
    <>[](a \in db /\ g \in subscribed \ missed) => <>[](a \in cache[g])

-----------------------------------------------------------------------------
(* What a comment says, checked by a run that refutes it.                   *)

(* killswitch_manager.go:14-15: Pub/Sub guarantees that the signal of a     *)
(* block reaches every gateway, so each of them blocks the agent.  Stated   *)
(* for Redis without faults and operators who work at the same time.        *)
SignalsBlockEverywhere == \A g \in Gateway : AtRest(g) => db \subseteq cache[g]
=============================================================================
