----------------------------- MODULE HeldRequest -----------------------------
(***************************************************************************)
(* What holding a request back promises, without rows, messages and        *)
(* subscriptions: an operator decides at most once, a request is executed  *)
(* only after the decision to approve and turned away only after the       *)
(* decision to reject, and it comes to one end, which is final.  A request *)
(* may end without either at any time, decided or not.                     *)
(***************************************************************************)
CONSTANT Request

VARIABLES decision, outcome

vars == <<decision, outcome>>

Init ==
  /\ decision = [r \in Request |-> "none"]
  /\ outcome = [r \in Request |-> "open"]

Decide(r) ==
  /\ decision[r] = "none"
  /\ \E d \in {"APPROVED", "REJECTED"} : decision' = [decision EXCEPT ![r] = d]
  /\ UNCHANGED outcome

\* The request ends as its decision says, ...
End(r, d, o) ==
  /\ outcome[r] = "open" /\ decision[r] = d
  /\ outcome' = [outcome EXCEPT ![r] = o]
  /\ UNCHANGED decision

\* ... or with others and without being executed: timeout, hang-up, crash.
Drop ==
  /\ \E R \in SUBSET {r \in Request : outcome[r] = "open"} :
       outcome' = [r \in Request |-> IF r \in R THEN "dropped" ELSE outcome[r]]
  /\ UNCHANGED decision

Next ==
  \/ \E r \in Request : Decide(r) \/ End(r, "APPROVED", "executed") \/ End(r, "REJECTED", "rejected")
  \/ Drop

Spec == Init /\ [][Next]_vars
=============================================================================
