------------------------------ MODULE AuditTrail ------------------------------
(***************************************************************************)
(* What the audit pipeline promises its callers, without channel, batches  *)
(* and flags: an event that was accepted is later either stored or lost,   *)
(* in groups of at most GroupMax events, and once the trail is shut        *)
(* nothing is accepted and nothing changes any more.                       *)
(***************************************************************************)
EXTENDS Naturals, FiniteSets

CONSTANTS Event, GroupMax

VARIABLES status, shut

vars == <<status, shut>>

Init == status = [e \in Event |-> "new"] /\ shut = FALSE

Become(E, st) == status' = [e \in Event |-> IF e \in E THEN st ELSE status[e]]

\* An event is accepted or turned away; a shut trail only turns away.
Accept(e) == status[e] = "new" /\ ~shut /\ Become({e}, "accepted") /\ UNCHANGED shut
Refuse(e) == status[e] = "new" /\ Become({e}, "refused") /\ UNCHANGED shut

\* A group of accepted events is stored as a whole or lost as a whole.
Settle ==
  \E E \in SUBSET {e \in Event : status[e] = "accepted"}, st \in {"stored", "lost"} :
    E # {} /\ Cardinality(E) <= GroupMax /\ ~shut /\ Become(E, st) /\ UNCHANGED shut

\* The trail is shut when no accepted event is waiting, with the last group.
Shut ==
  /\ ~shut /\ shut' = TRUE
  /\ \E E \in SUBSET {e \in Event : status[e] = "accepted"}, st \in {"stored", "lost"} :
       Cardinality(E) <= GroupMax /\ Become(E, st)
  /\ \A e \in Event : status'[e] # "accepted"

Next == (\E e \in Event : Accept(e) \/ Refuse(e)) \/ Settle \/ Shut

Safety == Init /\ [][Next]_vars

Spec == Safety /\ WF_vars(Settle)
=============================================================================
