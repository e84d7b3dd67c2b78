------------------------------- MODULE Access -------------------------------
(***************************************************************************)
(* From the operator's call to the request that is refused: a gateway of   *)
(* StateSync serves requests of one agent, whose kill switch reads the     *)
(* cache that Init and the listener keep.                                  *)
(*                                                                         *)
(* Only the list of the kill switch changes here; policy and sandbox list  *)
(* stay as they are, and the policy lets every request pass or holds every *)
(* one back.  The requests come by HTTP with a good token and name the     *)
(* agent: what they might lack is for Gateway and Sessions.                *)
(***************************************************************************)
EXTENDS StateSync

CONSTANTS
  Request,
  gate, who   \* the gateway the requests go to, the agent they come from

ASSUME GateAssumption == gate \in Gateway
ASSUME WhoAssumption  == who \in Agent

VARIABLES
  policy, sandboxed,                                         \* of Gateway: caches,
  reqPc, input, outcome, marked, approved, live, logged,     \* requests,
  policies, off,                                             \* and histories
  inForce,   \* history: the block has been in force since, in this process
  shielded   \* history: requests that found the block in force, and the agent listed since

Blocked == who \in cache[gate]

G == INSTANCE Gateway WITH
       blocked <- Blocked, pc <- reqPc, Effects <- {"ALLOW", "DENY", "QUARANTINE"}, Vias <- {"http"}

gatewayVars == <<policy, sandboxed, reqPc, input, outcome, marked, approved, live, logged, policies, off>>
accessVars  == <<vars, gatewayVars, inForce, shielded>>

AccessInit ==
  /\ Init
  /\ policy \in [effect : {"ALLOW", "QUARANTINE"}, limit : {FALSE}] /\ sandboxed = FALSE
  /\ G!Init
  /\ inForce = FALSE /\ shielded = {}

-----------------------------------------------------------------------------
\* The servers are started when main has run Init, and end with the process.
Serving == pc[gate]["main"] = "ready"

\* The list in the database says the agent is blocked, and every signal has arrived.
BlockArrived == who \in db /\ AtRest(gate) /\ gate \notin missed

\* A step of StateSync: the caches follow, and requests end with their process.
ControlStep ==
  /\ Next
  /\ UNCHANGED <<policy, sandboxed>>
  /\ IF Serving /\ ~Serving' /\ \E r \in Request : G!Under(r) THEN G!Crash
     ELSE IF Blocked' # Blocked THEN G!ControlPlane ELSE UNCHANGED gatewayVars
  /\ inForce' = ((inForce \/ BlockArrived) /\ Serving' /\ who \in db')
  /\ shielded' = IF who \in db' THEN shielded ELSE {}

Arrive(r) ==
  /\ Serving /\ UNCHANGED <<vars, inForce>>
  /\ G!ArriveHttp(r, [via |-> "http", token |-> TRUE, scope |-> TRUE, named |-> TRUE, risky |-> FALSE])
  /\ shielded' = IF inForce \/ BlockArrived THEN shielded \cup {r} ELSE shielded

Handle(r) == UNCHANGED <<vars, inForce, shielded>> /\ G!Handler(r)

AccessNext == ControlStep \/ \E r \in Request : Arrive(r) \/ Handle(r)

AccessSpec == AccessInit /\ [][AccessNext]_accessVars

AccessFairSpec == AccessSpec /\ Fairness

-----------------------------------------------------------------------------
(* What blocking an agent is for.  Once the agent is blocked, nothing about *)
(* that is still on its way and no signal failed unnoticed, the block is in *)
(* force for as long as the agent stays blocked and the process serves,     *)
(* after SIGTERM too, when the listener is gone and requests still come in. *)
(* A request that comes in while it is gets nowhere as long as the agent    *)
(* stays blocked, whatever operators, restarts, breaks and Inits do.        *)
BlockStops == \A r \in shielded : G!Stopped(r)
=============================================================================
