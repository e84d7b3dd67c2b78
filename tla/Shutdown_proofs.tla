--------------------------- MODULE Shutdown_proofs ---------------------------
(***************************************************************************)
(* The audit pipeline for any number of events, any capacities and any     *)
(* number of calls of Stop, and the gateway process around it.             *)
(*                                                                         *)
(* First the pipeline on its own, as module AgentFS specifies it: its      *)
(* safety properties and the refinement of AuditTrail.  Then the process,  *)
(* which uses the pipeline, so that all this holds in it, and adds the     *)
(* order in which main stops things.                                       *)
(***************************************************************************)
EXTENDS Shutdown, SequenceTheorems, FiniteSetTheorems, TLAPS

\* The goroutines agree on how far the shutdown has come.
ShutdownOrder ==
  /\ chClosed => isClosed
  /\ \A s \in Stopper : stopPc[s] # "idle" => isClosed
  /\ \A s \in Stopper : stopPc[s] \in {"waiting", "returned"} => chClosed
  /\ \A s \in Stopper : stopPc[s] = "returned" => workerPc = "done"
  /\ workerPc \in {"lastWrite", "done"} => chClosed /\ ch = <<>>
  /\ workerPc = "done" => batch = <<>>
  /\ workerPc = "select" => Len(batch) < BatchCap

\* With a pause long enough no Log call is under way when the channel closes.
PauseWorks == PauseOutlastsLog => NoLogPanic /\ (chClosed => \A e \in Event : logPc[e] # "checked")

NoDup(s) == \A i, j \in DOMAIN s : s[i] = s[j] => i = j

(* The inductive invariant of the pipeline.                                 *)
IInv == TypeOK /\ InOnePlace /\ AtMostOneRow /\ NoDup(ch) /\ ShutdownOrder /\ PauseWorks

-----------------------------------------------------------------------------
(* Sequences as queues *)

\* Appending a new element adds it to the elements and keeps them distinct.
LEMMA AppendLemma ==
  ASSUME NEW S, NEW s \in Seq(S), NEW x \in S
  PROVE  /\ Append(s, x) \in Seq(S) /\ Len(Append(s, x)) = Len(s) + 1
         /\ InSeq(Append(s, x)) = InSeq(s) \cup {x}
         /\ NoDup(s) /\ x \notin InSeq(s) => NoDup(Append(s, x))
<1> DEFINE t == Append(s, x)
<1>1. /\ t \in Seq(S) /\ Len(t) = Len(s) + 1 /\ Len(s) \in Nat
      /\ DOMAIN s = 1..Len(s) /\ DOMAIN t = 1..(Len(s) + 1)
      /\ \A i \in 1..Len(s) : t[i] = s[i]
      /\ t[Len(s) + 1] = x
  BY AppendProperties, LenProperties
<1> HIDE DEF t
<1>2. InSeq(t) = InSeq(s) \cup {x}
  <2>1. ASSUME NEW y \in InSeq(t) PROVE y \in InSeq(s) \cup {x}
    BY <1>1 DEF InSeq
  <2>2. ASSUME NEW y \in InSeq(s) PROVE y \in InSeq(t)
    BY <1>1 DEF InSeq
  <2>3. x \in InSeq(t)
    BY <1>1 DEF InSeq
  <2> QED BY <2>1, <2>2, <2>3
<1>3. NoDup(s) /\ x \notin InSeq(s) => NoDup(t)
  BY <1>1 DEF NoDup, InSeq
<1> QED BY <1>1, <1>2, <1>3 DEF t

\* Taking the head of a sequence without duplicates removes just that element.
LEMMA TailLemma ==
  ASSUME NEW S, NEW s \in Seq(S), s # <<>>
  PROVE  /\ Tail(s) \in Seq(S) /\ Len(Tail(s)) = Len(s) - 1
         /\ Head(s) \in S /\ Head(s) \in InSeq(s)
         /\ InSeq(s) = InSeq(Tail(s)) \cup {Head(s)}
         /\ NoDup(s) => NoDup(Tail(s)) /\ Head(s) \notin InSeq(Tail(s))
<1> DEFINE t == Tail(s)  h == Head(s)
<1>1. /\ t \in Seq(S) /\ Len(t) = Len(s) - 1 /\ Len(s) \in Nat \ {0}
      /\ DOMAIN s = 1..Len(s) /\ DOMAIN t = 1..(Len(s) - 1)
      /\ \A i \in 1..(Len(s) - 1) : t[i] = s[i + 1]
      /\ h = s[1] /\ h \in S
  BY HeadTailProperties, EmptySeq, LenProperties
<1> HIDE DEF t, h
<1>2. InSeq(s) = InSeq(t) \cup {h}
  <2>1. ASSUME NEW i \in DOMAIN s PROVE s[i] \in InSeq(t) \cup {h}
    <3>1. CASE i = 1 BY <3>1, <1>1
    <3>2. CASE i # 1
      <4>1. i - 1 \in DOMAIN t /\ t[i - 1] = s[i] BY <3>2, <1>1
      <4> QED BY <4>1 DEF InSeq
    <3> QED BY <3>1, <3>2
  <2>2. ASSUME NEW i \in DOMAIN t PROVE t[i] \in InSeq(s)
    <3>1. i + 1 \in DOMAIN s /\ t[i] = s[i + 1] BY <1>1
    <3> QED BY <3>1 DEF InSeq
  <2>3. h \in InSeq(s)
    BY <1>1 DEF InSeq
  <2> QED BY <2>1, <2>2, <2>3 DEF InSeq
<1>3. ASSUME NoDup(s) PROVE NoDup(t) /\ h \notin InSeq(t)
  <2>1. ASSUME NEW i \in DOMAIN t, NEW j \in DOMAIN t, t[i] = t[j] PROVE i = j
    <3>1. i + 1 \in DOMAIN s /\ j + 1 \in DOMAIN s /\ s[i + 1] = s[j + 1] BY <2>1, <1>1
    <3>2. i + 1 = j + 1 BY <3>1, <1>3 DEF NoDup
    <3> QED BY <3>2, <1>1
  <2>2. ASSUME NEW i \in DOMAIN t PROVE t[i] # h
    <3>1. 1 \in DOMAIN s /\ i + 1 \in DOMAIN s /\ t[i] = s[i + 1] /\ i + 1 # 1 BY <1>1
    <3> QED BY <3>1, <1>1, <1>3 DEF NoDup
  <2> QED BY <2>1, <2>2 DEF NoDup, InSeq
<1> QED BY <1>1, <1>2, <1>3 DEF t, h

\* An empty sequence has no elements.
LEMMA EmptyLemma == InSeq(<<>>) = {} /\ NoDup(<<>>) /\ Len(<<>>) = 0
  BY DEF InSeq, NoDup

-----------------------------------------------------------------------------
(* Initially the invariant holds: nothing has been logged.                  *)
LEMMA InitIInv == Init => IInv
<1> SUFFICES ASSUME Init PROVE IInv
  OBVIOUS
<1> USE EmptyLemma DEF Init
<1>1. TypeOK
  <2>1. /\ ch \in Seq(Event) /\ Len(ch) <= ChanCap
        /\ batch \in Seq(Event) /\ Len(batch) <= BatchCap
    BY ChanCapAssumption, BatchCapAssumption
  <2>2. logPc \in [Event -> {"idle", "checked", "refused", "sent", "overflow", "panicked"}]
    OBVIOUS
  <2>3. stopPc \in [Stopper -> {"idle", "paused", "waiting", "returned", "panicked"}]
    OBVIOUS
  <2>4. audit_logs \in [Event -> Nat] /\ failed \subseteq Event
    OBVIOUS
  <2> QED BY <2>1, <2>2, <2>3, <2>4 DEF TypeOK
<1>2. InOnePlace /\ AtMostOneRow
  BY DEF InOnePlace, AtMostOneRow, InMemory, Settled
<1>3. NoDup(ch) /\ ShutdownOrder
  BY BatchCapAssumption DEF ShutdownOrder
<1>4. PauseWorks
  BY DEF PauseWorks, NoLogPanic
<1> QED BY <1>1, <1>2, <1>3, <1>4 DEF IInv

(* Log calls keep the invariant: one that is refused, sheds its event or    *)
(* panics leaves the pipeline alone, and one that sends adds a new event.   *)
LEMMA LogIInv ==
  ASSUME IInv, NEW e \in Event, LogStep(e)
  PROVE  IInv'
<1> USE DEF IInv
<1>1. CASE LogCheck(e)
  <2> USE <1>1 DEF LogCheck, chanVars, workerVars
  <2>1. TypeOK' BY DEF TypeOK
  <2>2. InOnePlace' BY DEF InOnePlace, InMemory, Settled, TypeOK
  <2>3. AtMostOneRow' /\ NoDup(ch)' BY DEF AtMostOneRow, NoDup
  <2>4. ShutdownOrder' BY DEF ShutdownOrder
  <2>5. PauseWorks' BY DEF PauseWorks, NoLogPanic, ShutdownOrder, TypeOK
  <2> QED BY <2>1, <2>2, <2>3, <2>4, <2>5
<1>2. CASE LogSend(e)
  <2> USE <1>2 DEF LogSend, workerVars
  <2>1. /\ ch' \in Seq(Event) /\ Len(ch') = Len(ch) + 1 /\ Len(ch) \in Nat
        /\ InSeq(ch') = InSeq(ch) \cup {e}
        /\ e \notin InSeq(ch) => NoDup(ch')
    BY AppendLemma, LenProperties DEF TypeOK
  <2>2. ~InMemory(e) /\ ~Settled(e)
    BY DEF InOnePlace
  <2>3. TypeOK'
    BY <2>1, ChanCapAssumption DEF TypeOK
  <2>4. InOnePlace'
    BY <2>1, <2>2 DEF InOnePlace, InMemory, Settled, TypeOK
  <2>5. AtMostOneRow' /\ NoDup(ch)'
    BY <2>1, <2>2 DEF AtMostOneRow, InMemory, NoDup
  <2>6. ShutdownOrder' BY DEF ShutdownOrder
  <2>7. PauseWorks' BY DEF PauseWorks, NoLogPanic, TypeOK
  <2> QED BY <2>3, <2>4, <2>5, <2>6, <2>7
<1>3. CASE LogOverflow(e) \/ LogPanic(e)
  <2> USE <1>3 DEF LogOverflow, LogPanic, chanVars, workerVars
  <2>1. TypeOK' BY DEF TypeOK
  <2>2. InOnePlace' BY DEF InOnePlace, InMemory, Settled, TypeOK
  <2>3. AtMostOneRow' /\ NoDup(ch)' BY DEF AtMostOneRow, NoDup
  <2>4. ShutdownOrder' BY DEF ShutdownOrder
  <2>5. PauseWorks' BY DEF PauseWorks, NoLogPanic, TypeOK
  <2> QED BY <2>1, <2>2, <2>3, <2>4, <2>5
<1> QED BY <1>1, <1>2, <1>3 DEF LogStep

(* Stop keeps the invariant: it touches only the flag and the channel's     *)
(* closing, which the worker and the Log calls see in that order.           *)
LEMMA StopIInv ==
  ASSUME IInv, NEW s \in Stopper, StopStep(s)
  PROVE  IInv'
<1> USE DEF IInv
<1>1. /\ UNCHANGED <<ch, batch, workerPc, logPc, audit_logs, failed>>
      /\ TypeOK'
  BY DEF StopStep, StopFlag, StopClose, StopPanic, StopReturn, chanVars, workerVars, TypeOK
<1>2. InOnePlace' /\ AtMostOneRow' /\ NoDup(ch)'
  BY <1>1 DEF InOnePlace, InMemory, Settled, AtMostOneRow, NoDup
<1>3. ShutdownOrder'
  BY <1>1 DEF StopStep, StopFlag, StopClose, StopPanic, StopReturn, chanVars, workerVars, ShutdownOrder, TypeOK
<1>4. PauseWorks'
  BY <1>1 DEF StopStep, StopFlag, StopClose, StopPanic, StopReturn, chanVars, workerVars, PauseWorks, NoLogPanic, PauseOver
<1> QED BY <1>1, <1>2, <1>3, <1>4

(* The worker keeps the invariant: an event goes from the channel into the  *)
(* batch and with the whole batch out of memory.                            *)
LEMMA WorkerIInv ==
  ASSUME IInv, Worker
  PROVE  IInv'
<1> USE DEF IInv
<1>1. CASE Receive
  <2> USE <1>1 DEF Receive
  <2>1. /\ ch' \in Seq(Event) /\ Len(ch') = Len(ch) - 1 /\ Len(ch) \in Nat
        /\ Head(ch) \in Event
        /\ InSeq(ch) = InSeq(ch') \cup {Head(ch)} /\ Head(ch) \notin InSeq(ch')
        /\ NoDup(ch')
    BY TailLemma, LenProperties DEF TypeOK
  <2>2. /\ batch' \in Seq(Event) /\ Len(batch') = Len(batch) + 1 /\ Len(batch) \in Nat
        /\ InSeq(batch') = InSeq(batch) \cup {Head(ch)}
    BY <2>1, AppendLemma, LenProperties DEF TypeOK
  <2>3. TypeOK'
    BY <2>1, <2>2, ChanCapAssumption, BatchCapAssumption DEF TypeOK, ShutdownOrder
  <2>4. InOnePlace'
    BY <2>1, <2>2 DEF InOnePlace, InMemory, Settled
  <2>5. AtMostOneRow' /\ NoDup(ch)'
    BY <2>1 DEF AtMostOneRow, NoDup
  <2>6. ShutdownOrder'
    BY <2>2, BatchCapAssumption DEF ShutdownOrder, TypeOK
  <2>7. PauseWorks' BY DEF PauseWorks, NoLogPanic
  <2> QED BY <2>3, <2>4, <2>5, <2>6, <2>7
<1>2. CASE Tick \/ Drained
  <2> USE <1>2 DEF Tick, Drained, chanVars
  <2>1. TypeOK' BY DEF TypeOK
  <2>2. InOnePlace' /\ AtMostOneRow' /\ NoDup(ch)'
    BY DEF InOnePlace, InMemory, Settled, AtMostOneRow, NoDup
  <2>3. ShutdownOrder' BY DEF ShutdownOrder
  <2>4. PauseWorks' BY DEF PauseWorks, NoLogPanic
  <2> QED BY <2>1, <2>2, <2>3, <2>4
<1>3. CASE WriteEnd
  <2>1. /\ workerPc \in {"writing", "lastWrite"} /\ workerPc' = AfterWrite
        /\ UNCHANGED <<ch, chClosed, isClosed, logPc, stopPc>> /\ batch' = <<>>
        /\ \/ audit_logs' = Insert(batch) /\ failed' = failed
           \/ audit_logs' = Insert(batch) /\ failed' = failed \cup InSeq(batch)
           \/ audit_logs' = audit_logs /\ failed' = failed \cup InSeq(batch)
    BY <1>3 DEF WriteEnd, WriteStored, WriteFailed, chanVars
  <2>2. InSeq(batch) \subseteq Event
    BY ElementOfSeq DEF InSeq, TypeOK
  <2>3. \A e \in Event : e \in InSeq(batch) => audit_logs[e] = 0 /\ e \notin failed /\ e \notin InSeq(ch)
    BY DEF InOnePlace, InMemory, Settled, TypeOK
  <2>4. TypeOK'
    <3>1. Insert(batch) \in [Event -> Nat] BY DEF Insert, TypeOK
    <3> QED BY <2>1, <2>2, <3>1, EmptyLemma, BatchCapAssumption DEF TypeOK, AfterWrite
  <2>5. InOnePlace'
    <3> SUFFICES ASSUME NEW e \in Event
                 PROVE  /\ logPc[e] = "sent" <=> InMemory(e)' \/ Settled(e)'
                        /\ ~ (InMemory(e)' /\ Settled(e)')
                        /\ ~ (e \in InSeq(ch)' /\ e \in InSeq(batch)')
      BY <2>1 DEF InOnePlace
    <3>1. InMemory(e)' <=> e \in InSeq(ch)
      BY <2>1, EmptyLemma DEF InMemory
    <3>2. Settled(e)' <=> Settled(e) \/ e \in InSeq(batch)
      BY <2>1, <2>3 DEF Settled, Insert, TypeOK
    <3> QED BY <3>1, <3>2, <2>1, EmptyLemma DEF InOnePlace, InMemory
  <2>6. AtMostOneRow'
    BY <2>1, <2>3 DEF AtMostOneRow, Insert, TypeOK
  <2>7. NoDup(ch)' BY <2>1 DEF NoDup
  <2>8. ShutdownOrder'
    BY <2>1, EmptyLemma, BatchCapAssumption DEF ShutdownOrder, AfterWrite
  <2>9. PauseWorks' BY <2>1 DEF PauseWorks, NoLogPanic
  <2> QED BY <2>4, <2>5, <2>6, <2>7, <2>8, <2>9
<1> QED BY <1>1, <1>2, <1>3 DEF Worker

(* Every step keeps the invariant.                                          *)
LEMMA NextIInv == IInv /\ [Next]_vars => IInv'
<1> SUFFICES ASSUME IInv, [Next]_vars PROVE IInv'
  OBVIOUS
<1>1. ASSUME UNCHANGED vars PROVE IInv'
  BY <1>1 DEF vars, IInv, TypeOK, InOnePlace, InMemory, Settled, AtMostOneRow, NoDup, ShutdownOrder, PauseWorks, NoLogPanic
<1> QED BY <1>1, LogIInv, StopIInv, WorkerIInv DEF Next, Terminated

(* The inductive invariant is an invariant.                                 *)
THEOREM Invariance == Spec => []IInv
<1> QED BY InitIInv, NextIInv, PTL DEF Spec

-----------------------------------------------------------------------------
(* The variables keep their types, and channel and batch their capacities,  *)
(* although nothing but the worker's position bounds the batch.             *)
THEOREM TypeCorrect == Spec => []TypeOK
<1>1. IInv => TypeOK BY DEF IInv
<1> QED BY <1>1, Invariance, PTL

(* No accepted event is lost or copied on its way from the channel to the   *)
(* table, and none has two rows.                                            *)
THEOREM NothingLostOrCopied == Spec => []HandedOn
<1>1. IInv => HandedOn BY DEF IInv, HandedOn
<1> QED BY <1>1, Invariance, PTL

(* The Drain Pattern: after Stop has returned, every accepted event has     *)
(* been in a batch that was written.                                        *)
THEOREM DrainPattern == Spec => []DrainedWhenStopped
<1>1. IInv => DrainedWhenStopped
  BY EmptyLemma DEF IInv, ShutdownOrder, InOnePlace, DrainedWhenStopped, InMemory
<1> QED BY <1>1, Invariance, PTL

(* If Stop's pause outlasts the Log calls in progress, none of them sends   *)
(* on the closed channel.                                                   *)
THEOREM PauseSuffices == PauseOutlastsLog => (Spec => []NoLogPanic)
<1> SUFFICES ASSUME PauseOutlastsLog PROVE Spec => []NoLogPanic
  OBVIOUS
<1>1. IInv => NoLogPanic BY DEF IInv, PauseWorks
<1> QED BY <1>1, Invariance, PTL

(* After Stop has returned no row is written and no event is accepted.      *)
THEOREM Quiet == Spec => QuietAfterStop
<1> DEFINE Stopped == \E s \in Stopper : stopPc[s] = "returned"
           Rest    == UNCHANGED <<ch, batch, audit_logs, failed>>
<1>1. IInv /\ [Next]_vars => [Stopped => Rest]_vars
  <2> SUFFICES ASSUME IInv, Next, Stopped PROVE Rest
    BY DEF vars
  <2>1. chClosed /\ workerPc = "done"
    BY DEF IInv, ShutdownOrder
  <2>2. ASSUME NEW e \in Event, LogStep(e) PROVE Rest
    BY <2>1, <2>2 DEF LogStep, LogCheck, LogSend, LogOverflow, LogPanic, chanVars, workerVars
  <2>3. ASSUME NEW s \in Stopper, StopStep(s) PROVE Rest
    BY <2>3 DEF StopStep, StopFlag, StopClose, StopPanic, StopReturn, chanVars, workerVars
  <2>4. ~Worker
    BY <2>1 DEF Worker, WriteEnd, Receive, Tick, Drained, WriteStored, WriteFailed
  <2> QED BY <2>2, <2>3, <2>4 DEF Next, Terminated, vars
<1> QED BY <1>1, Invariance, PTL DEF Spec, QuietAfterStop

-----------------------------------------------------------------------------
(* The refinement of AuditTrail *)

\* What the invariant says of an event, in the words of AuditTrail.
LEMMA StatusIs ==
  ASSUME IInv, NEW e \in Event
  PROVE  Status(e) = IF audit_logs[e] > 0 THEN "stored"
                     ELSE IF e \in failed THEN "lost"
                     ELSE IF logPc[e] = "sent" THEN "accepted"
                     ELSE IF logPc[e] \in {"idle", "checked"} THEN "new" ELSE "refused"
BY DEF IInv, TypeOK, InOnePlace, Settled, Status

\* An event that Log has not decided on is new, one in memory is accepted.
LEMMA StatusOfUnsettled ==
  ASSUME IInv, NEW e \in Event
  PROVE  /\ logPc[e] \in {"idle", "checked"} <=> Status(e) = "new"
         /\ InMemory(e) <=> Status(e) = "accepted"
BY StatusIs DEF IInv, InOnePlace, Settled, TypeOK

\* If the events of E change to st and the others stay, so does the status.
LEMMA Becomes ==
  ASSUME NEW E \in SUBSET Event, NEW st,
         \A e \in Event : Status(e)' = IF e \in E THEN st ELSE Status(e)
  PROVE  Trail!Become(E, st)
BY DEF Trail!Become

\* A step that keeps row, failure and result of every event keeps its status.
LEMMA StatusKept ==
  ASSUME UNCHANGED <<audit_logs, failed, logPc>>
  PROVE  /\ \A e \in Event : Status(e)' = Status(e)
         /\ workerPc' = workerPc => UNCHANGED Trail!vars
<1>1. \A e \in Event : Status(e)' = Status(e) BY DEF Status, Settled
<1> QED BY <1>1 DEF Trail!vars

\* AuditTrail's sets have the size they have here.
LEMMA SameCardinality == \A S : Trail!Cardinality(S) = Cardinality(S)
BY DEF Trail!Cardinality, Cardinality

\* A batch holds no more events than its length.
LEMMA BatchIsGroup ==
  ASSUME IInv
  PROVE  Cardinality(InSeq(batch)) <= BatchCap
<1>1. /\ batch \in Seq(Event) /\ Len(batch) <= BatchCap /\ Len(batch) \in Nat
      /\ DOMAIN batch = 1..Len(batch) /\ batch \in [1..Len(batch) -> Event]
  BY LenProperties DEF IInv, TypeOK
<1>2. batch \in Surjection(1..Len(batch), InSeq(batch))
  BY <1>1 DEF Surjection, InSeq
<1>3. InSeq(batch) \in SUBSET Event /\ ExistsSurjection(1..Len(batch), InSeq(batch))
  BY <1>1, <1>2 DEF ExistsSurjection, InSeq
<1>4. Cardinality(InSeq(batch)) <= Len(batch)
  BY <1>1, <1>3, FS_SurjCardinalityBound
<1>5. IsFiniteSet(InSeq(batch)) BY <1>1, <1>3, FS_NatSurjection
<1>6. Cardinality(InSeq(batch)) \in Nat BY <1>5, FS_CardinalityType
<1> QED BY <1>1, <1>4, <1>6, BatchCapAssumption

(* A call of Log accepts or refuses its event, or has only looked.          *)
LEMMA LogRefines ==
  ASSUME IInv, IInv', NEW e \in Event, LogStep(e)
  PROVE  Trail!Accept(e) \/ Trail!Refuse(e) \/ UNCHANGED Trail!vars
<1>1. /\ logPc[e] \in {"idle", "checked"} /\ UNCHANGED <<audit_logs, failed, workerPc>>
      /\ \A f \in Event : f # e => logPc'[f] = logPc[f]
      /\ \/ logPc'[e] \in {"checked", "refused", "overflow", "panicked"}
         \/ logPc'[e] = "sent" /\ ~chClosed
  BY DEF LogStep, LogCheck, LogSend, LogOverflow, LogPanic, workerVars, IInv, TypeOK
<1>2. \A f \in Event : f # e => Status(f)' = Status(f)
  BY <1>1 DEF Status, Settled
<1>3. Status(e) = "new" BY <1>1, StatusOfUnsettled
<1>4. audit_logs[e] = 0 /\ e \notin failed
  BY <1>1 DEF IInv, InOnePlace, Settled, TypeOK
<1>5. CASE logPc'[e] = "checked"
  <2>1. Status(e)' = "new" BY <1>1, <1>4, <1>5 DEF Status, Settled
  <2> QED BY <1>1, <1>2, <1>3, <2>1 DEF Trail!vars
<1>6. CASE logPc'[e] \in {"refused", "overflow", "panicked"}
  <2>1. Status(e)' = "refused" BY <1>1, <1>4, <1>6 DEF Status, Settled
  <2>2. Trail!Become({e}, "refused") BY <1>2, <2>1, Becomes
  <2> QED BY <1>1, <1>3, <2>2 DEF Trail!Refuse
<1>7. CASE logPc'[e] = "sent"
  <2>1. Status(e)' = "accepted" BY <1>1, <1>4, <1>7 DEF Status, Settled
  <2>2. Trail!Become({e}, "accepted") BY <1>2, <2>1, Becomes
  <2>3. workerPc # "done" BY <1>1, <1>7 DEF IInv, ShutdownOrder
  <2> QED BY <1>1, <1>3, <2>2, <2>3 DEF Trail!Accept
<1> QED BY <1>1, <1>5, <1>6, <1>7

(* The worker settles the events of a batch as one group, and is done only  *)
(* when no accepted event is left.                                          *)
LEMMA WorkerRefines ==
  ASSUME IInv, IInv', Worker
  PROVE  Trail!Settle \/ Trail!Shut \/ UNCHANGED Trail!vars
<1> DEFINE E == InSeq(batch)
<1>e. \A e \in Event : e \in E => Status(e) = "accepted"
  BY StatusOfUnsettled DEF InMemory
<1>p. \A e \in Event : e \in E => logPc[e] = "sent"
  BY DEF IInv, InOnePlace, InMemory
<1>s. E \subseteq Event BY ElementOfSeq DEF InSeq, IInv, TypeOK
<1>c. Trail!Cardinality(E) <= BatchCap BY BatchIsGroup, SameCardinality
<1>d. ASSUME workerPc' = "done", NEW e \in Event PROVE Status(e)' # "accepted"
  <2>1. ch' = <<>> /\ batch' = <<>> BY <1>d DEF IInv, ShutdownOrder
  <2>2. ~InMemory(e)' BY <2>1, EmptyLemma DEF InMemory
  <2>3. InMemory(e)' <=> Status(e)' = "accepted"
    <3>1. Status(e)' = IF audit_logs'[e] > 0 THEN "stored"
                     ELSE IF e \in failed' THEN "lost"
                     ELSE IF logPc'[e] = "sent" THEN "accepted"
                     ELSE IF logPc'[e] \in {"idle", "checked"} THEN "new" ELSE "refused"
      BY DEF IInv, TypeOK, InOnePlace, Settled, Status
    <3> QED BY <3>1 DEF IInv, InOnePlace, Settled, TypeOK
  <2> QED BY <2>2, <2>3
<1>1. CASE Receive \/ Tick \/ (Drained /\ batch # <<>>)
  <2>1. UNCHANGED <<audit_logs, failed, logPc>> BY <1>1 DEF Receive, Tick, Drained
  <2>2. workerPc # "done" /\ workerPc' # "done" BY <1>1 DEF Receive, Tick, Drained
  <2>3. \A e \in Event : Status(e)' = Status(e) BY <2>1, StatusKept
  <2> QED BY <2>2, <2>3 DEF Trail!vars
<1>2. CASE Drained /\ batch = <<>>
  <2>1. UNCHANGED <<audit_logs, failed, logPc>> /\ workerPc # "done" /\ workerPc' = "done"
    BY <1>2 DEF Drained
  <2>2. E = {} BY <1>2, EmptyLemma
  <2>3. Trail!Become(E, "stored") BY <2>1, <2>2, StatusKept, Becomes
  <2>4. Trail!Shut BY <1>c, <1>d, <1>e, <1>s, <2>1, <2>3, <2>2, Zenon DEF Trail!Shut
  <2> QED BY <2>4
<1>3. CASE WriteEnd
  <2>1. /\ workerPc \in {"writing", "lastWrite"} /\ workerPc' = AfterWrite
        /\ UNCHANGED <<ch, chClosed, isClosed, logPc, stopPc>> /\ batch' = <<>>
        /\ \/ audit_logs' = Insert(batch) /\ failed' = failed
           \/ audit_logs' = Insert(batch) /\ failed' = failed \cup E
           \/ audit_logs' = audit_logs /\ failed' = failed \cup E
    BY <1>3 DEF WriteEnd, WriteStored, WriteFailed, chanVars
  <2>2. \A e \in Event : e \in E => audit_logs[e] = 0 /\ e \notin failed
    BY DEF IInv, InOnePlace, InMemory, Settled, TypeOK
  <2>3. PICK st \in {"stored", "lost"} : Trail!Become(E, st)
    <3>1. CASE audit_logs' = Insert(batch) /\ (failed' = failed \/ failed' = failed \cup E)
      <4>1. ASSUME NEW e \in Event, e \in E PROVE Status(e)' = "stored"
        <5>1. audit_logs'[e] = 1 /\ logPc'[e] = "sent" BY <1>p, <2>1, <2>2, <3>1, <4>1 DEF Insert
        <5> QED BY <5>1 DEF Status, Settled
      <4>2. ASSUME NEW e \in Event, e \notin E PROVE Status(e)' = Status(e)
        <5>1. audit_logs'[e] = audit_logs[e] /\ (e \in failed' <=> e \in failed) /\ logPc'[e] = logPc[e]
          BY <2>1, <3>1, <4>2 DEF Insert
        <5> QED BY <5>1 DEF Status, Settled
      <4>3. \A e \in Event : Status(e)' = IF e \in E THEN "stored" ELSE Status(e) BY <4>1, <4>2
      <4> QED BY <1>s, <4>3, Becomes
    <3>2. CASE audit_logs' = audit_logs /\ failed' = failed \cup E
      <4>1. ASSUME NEW e \in Event, e \in E PROVE Status(e)' = "lost"
        <5>1. audit_logs'[e] = 0 /\ e \in failed' /\ logPc'[e] = "sent" BY <1>p, <2>1, <2>2, <3>2, <4>1
        <5> QED BY <5>1 DEF Status, Settled
      <4>2. ASSUME NEW e \in Event, e \notin E PROVE Status(e)' = Status(e)
        <5>1. audit_logs'[e] = audit_logs[e] /\ (e \in failed' <=> e \in failed) /\ logPc'[e] = logPc[e]
          BY <2>1, <3>2, <4>2
        <5> QED BY <5>1 DEF Status, Settled
      <4>3. \A e \in Event : Status(e)' = IF e \in E THEN "lost" ELSE Status(e) BY <4>1, <4>2
      <4> QED BY <1>s, <4>3, Becomes
    <3> QED BY <2>1, <3>1, <3>2
  <2>4. CASE workerPc = "lastWrite"
    <3>1. workerPc # "done" /\ workerPc' = "done" BY <2>1, <2>4 DEF AfterWrite
    <3>2. Trail!Shut BY <1>c, <1>d, <1>e, <1>s, <2>3, <3>1 DEF Trail!Shut
    <3> QED BY <3>2
  <2>5. CASE workerPc = "writing"
    <3>1. workerPc # "done" /\ workerPc' # "done" BY <2>1, <2>5 DEF AfterWrite
    <3>2. CASE E = {}
      <4>1. \A e \in Event : Status(e)' = Status(e)
        BY <2>3, <3>2 DEF Trail!Become
      <4> QED BY <3>1, <4>1 DEF Trail!vars
    <3>3. CASE E # {}
      <4>1. Trail!Settle BY <1>c, <1>e, <1>s, <2>3, <3>1, <3>3 DEF Trail!Settle
      <4> QED BY <4>1
    <3> QED BY <3>2, <3>3
  <2> QED BY <2>1, <2>4, <2>5
<1> QED BY <1>1, <1>2, <1>3 DEF Worker

(* Every step of the pipeline is one of AuditTrail or leaves it alone.      *)
LEMMA StepRefines == IInv /\ IInv' /\ [Next]_vars => [Trail!Next]_(Trail!vars)
<1> SUFFICES ASSUME IInv, IInv', [Next]_vars PROVE Trail!Next \/ UNCHANGED Trail!vars
  OBVIOUS
<1>1. ASSUME NEW e \in Event, LogStep(e) PROVE Trail!Next \/ UNCHANGED Trail!vars
  BY <1>1, LogRefines DEF Trail!Next
<1>2. ASSUME NEW s \in Stopper, StopStep(s) PROVE UNCHANGED Trail!vars
  <2>1. UNCHANGED <<audit_logs, failed, logPc, workerPc>>
    BY <1>2 DEF StopStep, StopFlag, StopClose, StopPanic, StopReturn, chanVars, workerVars
  <2> QED BY <2>1, StatusKept
<1>3. ASSUME Worker PROVE Trail!Next \/ UNCHANGED Trail!vars
  BY <1>3, WorkerRefines DEF Trail!Next
<1>4. ASSUME UNCHANGED vars PROVE UNCHANGED Trail!vars
  BY <1>4, StatusKept DEF vars
<1> QED BY <1>1, <1>2, <1>3, <1>4 DEF Next, Terminated

(* The pipeline refines AuditTrail: events are accepted or refused once,    *)
(* settled in groups of at most a batch, and nothing moves after the last.  *)
THEOREM RefinesAuditTrail == Spec => Trail!Safety
<1>1. Init => Trail!Init
  BY DEF Init, Trail!Init, Status, Settled
<1> QED BY <1>1, StepRefines, Invariance, PTL DEF Spec, Trail!Safety

-----------------------------------------------------------------------------
(* The gateway process *)

Late == {"explicit", "deferred", "closePool", "exited"}   \* main has stopped the servers

\* How far the calls of Stop are when main is at some place.
StopOrder ==
  /\ mainPc \notin Late => ~isClosed /\ ~chClosed /\ \A s \in Stopper : stopPc[s] = "idle"
  /\ mainPc = "explicit" =>
       /\ stopPc["deferred"] = "idle" /\ stopPc["explicit"] # "panicked"
       /\ chClosed => stopPc["explicit"] \in {"waiting", "returned"}
  /\ mainPc \in {"deferred", "closePool", "exited"} => stopPc["explicit"] = "returned"

\* Which handlers main can have left behind.
HandlerOrder ==
  /\ mainPc \notin Late => ~overdue
  /\ mainPc \in Late \cup {"httpStop"} => \A e \in Grpc : handler[e] # "running"
  /\ mainPc \in Late /\ ~overdue => \A e \in Event : handler[e] # "running"

(* The invariant main adds, inductive given the types of the pipeline.      *)
SInv == ShutdownTypeOK /\ StopOrder /\ HandlerOrder /\ RefusedOnlyIfOverdue /\ PanicOnlyIfOverdue

-----------------------------------------------------------------------------
(* Every step is a step of the pipeline or leaves the pipeline alone *)

LEMMA StepMaps == [ShutdownNext]_allVars => [Next]_vars
<1> SUFFICES ASSUME [ShutdownNext]_allVars PROVE [Next]_vars
  OBVIOUS
<1>1. ASSUME NEW e \in Event, HandlerBegins(e) \/ HandlerEnds(e) PROVE UNCHANGED vars
  BY <1>1 DEF HandlerBegins, HandlerEnds
<1>2. ASSUME NEW e \in Event, HandlerLogs(e) PROVE Next
  BY <1>2 DEF HandlerLogs, Next
<1>3. CASE Main
  <2>1. CASE Signal \/ GrpcStopped \/ HttpStopped \/ StopCalled \/ ClosePool
    BY <2>1 DEF Signal, GrpcStopped, HttpStopped, StopCalled, ClosePool, MainGoes
  <2>2. ASSUME NEW s \in Stopper, StopCall(s) PROVE Next
    BY <2>2 DEF StopCall, Next
  <2> QED BY <1>3, <2>1, <2>2 DEF Main
<1>4. CASE WorkerRuns
  BY <1>4 DEF WorkerRuns, Next
<1>5. CASE Exited \/ UNCHANGED allVars
  BY <1>5 DEF Exited, allVars
<1> QED BY <1>1, <1>2, <1>3, <1>4, <1>5 DEF ShutdownNext

(* The process uses the pipeline as module AgentFS says, by the way it is   *)
(* composed, so what is proved of the pipeline holds in it.                 *)
LEMMA UsesPipeline == ShutdownSpec => Spec
<1>1. ShutdownInit => Init
  BY DEF ShutdownInit
<1> QED BY <1>1, StepMaps, PTL DEF ShutdownSpec, Spec

-----------------------------------------------------------------------------
(* The invariant of main *)

LEMMA InitSInv == ShutdownInit => SInv
BY StoppersAssumption
DEF ShutdownInit, Init, SInv, ShutdownTypeOK, StopOrder, HandlerOrder, RefusedOnlyIfOverdue, PanicOnlyIfOverdue, Late

\* The steps of the handlers.
LEMMA HandlerSInv ==
  ASSUME TypeOK, SInv, NEW e \in Event, HandlerBegins(e) \/ HandlerLogs(e) \/ HandlerEnds(e)
  PROVE  SInv'
<1> USE DEF SInv
<1>1. CASE HandlerBegins(e)
  <2>1. ShutdownTypeOK' /\ StopOrder' /\ RefusedOnlyIfOverdue' /\ PanicOnlyIfOverdue'
    BY <1>1 DEF HandlerBegins, vars, ShutdownTypeOK, StopOrder, RefusedOnlyIfOverdue, PanicOnlyIfOverdue, Http
  <2>2. HandlerOrder'
    BY <1>1, GrpcAssumption DEF HandlerBegins, Accepting, Http, Late, ShutdownTypeOK, HandlerOrder
  <2> QED BY <2>1, <2>2
<1>2. CASE HandlerEnds(e)
  BY <1>2, GrpcAssumption
  DEF HandlerEnds, vars, ShutdownTypeOK, StopOrder, HandlerOrder, RefusedOnlyIfOverdue, PanicOnlyIfOverdue, Http
<1>3. CASE HandlerLogs(e)
  <2> USE DEF HandlerLogs, processVars
  <2>1. /\ UNCHANGED <<isClosed, chClosed, stopPc>>
        /\ \A f \in Event : f # e => logPc'[f] = logPc[f]
    BY <1>3 DEF TypeOK, LogStep, LogCheck, LogSend, LogOverflow, LogPanic, chanVars
  <2>2. logPc'[e] = "refused" => isClosed
    BY <1>3 DEF TypeOK, LogStep, LogCheck, LogSend, LogOverflow, LogPanic
  <2>3. ShutdownTypeOK'
    <3>1. \A f \in Event : handler[f] = "none" => logPc'[f] = "idle"
      BY <1>3, <2>1 DEF ShutdownTypeOK
    <3> QED BY <1>3, <3>1 DEF ShutdownTypeOK
  <2>4. StopOrder' /\ HandlerOrder'
    BY <1>3, <2>1 DEF StopOrder, HandlerOrder
  <2>5. RefusedOnlyIfOverdue'
    BY <1>3, <2>1, <2>2 DEF RefusedOnlyIfOverdue, StopOrder, HandlerOrder
  <2>6. logPc'[e] = "panicked" => logPc[e] = "panicked" \/ chClosed
    BY <1>3 DEF TypeOK, LogStep, LogCheck, LogSend, LogOverflow, LogPanic
  <2>7. PanicOnlyIfOverdue'
    BY <1>3, <2>1, <2>6 DEF PanicOnlyIfOverdue, StopOrder, HandlerOrder, Http
  <2> QED BY <2>3, <2>4, <2>5, <2>7
<1> QED BY <1>1, <1>2, <1>3

\* The steps of main.
LEMMA MainSInv == TypeOK /\ SInv /\ Main => SInv'
<1> SUFFICES ASSUME TypeOK, SInv, Main PROVE SInv'
  OBVIOUS
<1> USE DEF SInv, Late
<1>1. CASE HttpStopped
  <2> USE <1>1 DEF HttpStopped, MainGoes, vars
  <2>1. ShutdownTypeOK' /\ RefusedOnlyIfOverdue' /\ PanicOnlyIfOverdue'
    BY DEF ShutdownTypeOK, RefusedOnlyIfOverdue, PanicOnlyIfOverdue, HandlerOrder, Http
  <2>2. StopOrder'
    BY StoppersAssumption DEF StopOrder
  <2>3. HandlerOrder'
    BY GrpcAssumption DEF HandlerOrder, Http
  <2> QED BY <2>1, <2>2, <2>3
<1>2. CASE Signal \/ GrpcStopped \/ StopCalled \/ ClosePool
  <2> USE DEF MainGoes, vars, ShutdownTypeOK, RefusedOnlyIfOverdue, PanicOnlyIfOverdue, HandlerOrder, Http
  <2>1. CASE Signal      BY <2>1 DEF Signal, StopOrder
  <2>2. CASE GrpcStopped BY <2>2 DEF GrpcStopped, StopOrder
  <2>3. CASE StopCalled
    <3>1. CASE mainPc = "explicit" BY <2>3, <3>1 DEF StopCalled, StopOrder
    <3>2. CASE mainPc = "deferred" BY <2>3, <3>2 DEF StopCalled, StopOrder
    <3> QED BY <2>3, <3>1, <3>2, StoppersAssumption DEF StopCalled
  <2>4. CASE ClosePool   BY <2>4 DEF ClosePool, StopOrder
  <2> QED BY <1>2, <2>1, <2>2, <2>3, <2>4
<1>3. ASSUME NEW s \in Stopper, StopCall(s) PROVE SInv'
  <2> USE <1>3, StoppersAssumption DEF StopCall, processVars
  <2>1. mainPc = s /\ UNCHANGED <<mainPc, handler, overdue, logPc>>
    BY DEF StopStep, StopFlag, StopClose, StopPanic, StopReturn
  <2>2. ShutdownTypeOK' /\ HandlerOrder' /\ RefusedOnlyIfOverdue' /\ PanicOnlyIfOverdue'
    BY <2>1 DEF ShutdownTypeOK, HandlerOrder, RefusedOnlyIfOverdue, PanicOnlyIfOverdue, Http
  <2>3. \A t \in Stopper : t # s => stopPc'[t] = stopPc[t]
    BY DEF TypeOK, StopStep, StopFlag, StopClose, StopPanic, StopReturn
  <2>4. CASE s = "deferred"
    BY <2>1, <2>2, <2>3, <2>4 DEF StopOrder
  <2>5. CASE s = "explicit"
    <3>1. stopPc'["deferred"] = "idle" BY <2>1, <2>3, <2>5 DEF StopOrder
    <3>2. stopPc'["explicit"] # "panicked" /\ (chClosed' => stopPc'["explicit"] \in {"waiting", "returned"})
      BY <2>1, <2>5 DEF TypeOK, StopOrder, StopStep, StopFlag, StopClose, StopPanic, StopReturn, chanVars
    <3> QED BY <2>1, <2>2, <2>5, <3>1, <3>2 DEF StopOrder
  <2> QED BY <2>2, <2>4, <2>5
<1> QED BY <1>1, <1>2, <1>3 DEF Main

LEMMA NextSInv == TypeOK /\ SInv /\ [ShutdownNext]_allVars => SInv'
<1> SUFFICES ASSUME TypeOK, SInv, [ShutdownNext]_allVars PROVE SInv'
  OBVIOUS
<1>1. CASE WorkerRuns
  <2>1. UNCHANGED <<isClosed, chClosed, logPc, stopPc, processVars>>
    BY <1>1 DEF WorkerRuns, Worker, WriteEnd, Receive, Tick, Drained, WriteStored, WriteFailed, chanVars
  <2> QED BY <2>1
    DEF SInv, ShutdownTypeOK, StopOrder, HandlerOrder, RefusedOnlyIfOverdue, PanicOnlyIfOverdue, Http, processVars
<1>2. CASE Exited \/ UNCHANGED allVars
  BY <1>2 DEF Exited, allVars, vars, processVars,
    SInv, ShutdownTypeOK, StopOrder, HandlerOrder, RefusedOnlyIfOverdue, PanicOnlyIfOverdue, Http
<1> QED BY <1>1, <1>2, HandlerSInv, MainSInv DEF ShutdownNext

LEMMA ShutdownInvariance == ShutdownSpec => []SInv
<1>1. ShutdownSpec => []TypeOK
  BY UsesPipeline, TypeCorrect, PTL
<1> QED BY <1>1, InitSInv, NextSInv, PTL DEF ShutdownSpec

-----------------------------------------------------------------------------
(* The variables of main and the handlers have their types, and a handler   *)
(* that has not begun has not logged.                                       *)
THEOREM ShutdownTypeCorrect == ShutdownSpec => []ShutdownTypeOK
<1>1. SInv => ShutdownTypeOK
  BY DEF SInv
<1> QED BY <1>1, ShutdownInvariance, PTL

(* RefusedOnlyIfOverdue: a handler main has waited for is not refused by    *)
(* the auditor.                                                             *)
THEOREM ServersFirst == ShutdownSpec => []RefusedOnlyIfOverdue
<1>1. SInv => RefusedOnlyIfOverdue
  BY DEF SInv
<1> QED BY <1>1, ShutdownInvariance, PTL

(* PanicOnlyIfOverdue: a panic in Log needs a closed channel and a handler  *)
(* that still runs, which main has left behind.                             *)
THEOREM RaceNeedsOverdue == ShutdownSpec => []PanicOnlyIfOverdue
<1>1. SInv => PanicOnlyIfOverdue
  BY DEF SInv
<1> QED BY <1>1, ShutdownInvariance, PTL

(* NothingLeftAtExit: no accepted event waits for its row when the pool is  *)
(* closed, from the drain pattern of the pipeline and the order of main.    *)
THEOREM DrainedBeforeExit == ShutdownSpec => []NothingLeftAtExit
<1>1. SInv /\ DrainedWhenStopped => NothingLeftAtExit
  BY StoppersAssumption DEF SInv, StopOrder, DrainedWhenStopped, NothingLeftAtExit
<1>2. ShutdownSpec => []DrainedWhenStopped
  BY UsesPipeline, DrainPattern, PTL
<1> QED BY <1>1, <1>2, ShutdownInvariance, PTL

(* The process keeps the promise AuditTrail makes to those who call Log.    *)
THEOREM ProcessKeepsTrail == ShutdownSpec => Trail!Safety
<1> QED BY UsesPipeline, RefinesAuditTrail
=============================================================================
