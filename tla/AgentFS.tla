------------------------------- MODULE AgentFS -------------------------------
(***************************************************************************)
(* The audit pipeline of the gateway, internal/audit/agentfs.go.           *)
(*                                                                         *)
(* Request handlers call Log, which never blocks: it looks at the atomic   *)
(* flag isClosed and then tries to send the event into the buffered        *)
(* channel ch.  One worker goroutine receives events into batch and        *)
(* writes the batch to the table audit_logs when it is full or when the    *)
(* 500 ms ticker fires.  Stop raises the flag, sleeps for 10 ms, closes    *)
(* the channel and waits until the worker has drained it.                  *)
(*                                                                         *)
(* Every event is logged once (it has a fresh uuid), so an event stands    *)
(* also for the goroutine that logs it.                                    *)
(***************************************************************************)
EXTENDS Naturals, Sequences

CONSTANTS
  Event,            \* audit events, one Log call each
  BadRow,           \* events whose row the table refuses (agent_id, trace_id no UUID)
  Stopper,          \* the calls of Stop
  ChanCap,          \* capacity of the channel, 10000 in the code
  BatchCap,         \* batch size that forces a write, 100 in the code
  PauseOutlastsLog  \* TRUE: Stop's pause is longer than any Log call in progress

ASSUME BadRowAssumption   == BadRow \subseteq Event
ASSUME ChanCapAssumption  == ChanCap \in Nat \ {0}
ASSUME BatchCapAssumption == BatchCap \in Nat \ {0}
ASSUME PauseAssumption    == PauseOutlastsLog \in BOOLEAN

VARIABLES
  ch,         \* content of the channel, oldest event first
  chClosed,   \* close(ch) has happened
  isClosed,   \* the atomic flag
  batch,      \* events the worker holds
  workerPc,   \* where the worker goroutine is
  logPc,      \* where the Log call of each event is, or how it ended
  stopPc,     \* where each call of Stop is, or how it ended
  audit_logs, \* how many rows of the table hold the event
  failed      \* events of batches whose WriteBatch returned an error

vars == <<ch, chClosed, isClosed, batch, workerPc, logPc, stopPc, audit_logs, failed>>

chanVars   == <<ch, chClosed>>
workerVars == <<batch, workerPc, audit_logs, failed>>

InSeq(s) == {s[i] : i \in DOMAIN s}

Init ==
  /\ ch = <<>> /\ chClosed = FALSE /\ isClosed = FALSE
  /\ batch = <<>> /\ workerPc = "select"
  /\ logPc  = [e \in Event |-> "idle"]
  /\ stopPc = [s \in Stopper |-> "idle"]
  /\ audit_logs = [e \in Event |-> 0]
  /\ failed = {}

-----------------------------------------------------------------------------
(* Log *)

\* The flag is read; once Stop has raised it the event is dropped.
LogCheck(e) ==
  /\ logPc[e] = "idle"
  /\ logPc' = [logPc EXCEPT ![e] = IF isClosed THEN "refused" ELSE "checked"]
  /\ UNCHANGED <<chanVars, isClosed, workerVars, stopPc>>

\* The send case of the select: the channel is open and has room.
LogSend(e) ==
  /\ logPc[e] = "checked" /\ ~chClosed
  /\ Len(ch) < ChanCap
  /\ ch' = Append(ch, e)
  /\ logPc' = [logPc EXCEPT ![e] = "sent"]
  /\ UNCHANGED <<chClosed, isClosed, workerVars, stopPc>>

\* The default case: the channel is full and the event is shed.
LogOverflow(e) ==
  /\ logPc[e] = "checked" /\ ~chClosed
  /\ Len(ch) = ChanCap
  /\ logPc' = [logPc EXCEPT ![e] = "overflow"]
  /\ UNCHANGED <<chanVars, isClosed, workerVars, stopPc>>

\* A send on a closed channel panics in the goroutine that called Log (a
\* select with a default case panics too); net/http recovers it there.
LogPanic(e) ==
  /\ logPc[e] = "checked" /\ chClosed
  /\ logPc' = [logPc EXCEPT ![e] = "panicked"]
  /\ UNCHANGED <<chanVars, isClosed, workerVars, stopPc>>

-----------------------------------------------------------------------------
(* Stop *)

StopFlag(s) ==
  /\ stopPc[s] = "idle"
  /\ isClosed' = TRUE
  /\ stopPc' = [stopPc EXCEPT ![s] = "paused"]
  /\ UNCHANGED <<chanVars, workerVars, logPc>>

\* The sleep is over; with PauseOutlastsLog no Log call is past its check.
PauseOver == PauseOutlastsLog => \A e \in Event : logPc[e] # "checked"

StopClose(s) ==
  /\ stopPc[s] = "paused" /\ PauseOver /\ ~chClosed
  /\ chClosed' = TRUE
  /\ stopPc' = [stopPc EXCEPT ![s] = "waiting"]
  /\ UNCHANGED <<ch, isClosed, workerVars, logPc>>

\* close of a closed channel panics.
StopPanic(s) ==
  /\ stopPc[s] = "paused" /\ PauseOver /\ chClosed
  /\ stopPc' = [stopPc EXCEPT ![s] = "panicked"]
  /\ UNCHANGED <<chanVars, isClosed, workerVars, logPc>>

\* Defect: wg.Wait is left out.
StopReturnNoWait(s) ==
  /\ stopPc[s] = "waiting"
  /\ stopPc' = [stopPc EXCEPT ![s] = "returned"]
  /\ UNCHANGED <<chanVars, isClosed, workerVars, logPc>>

\* wg.Wait returns when the worker has called wg.Done.
StopReturn(s) ==
  /\ stopPc[s] = "waiting" /\ workerPc = "done"
  /\ stopPc' = [stopPc EXCEPT ![s] = "returned"]
  /\ UNCHANGED <<chanVars, isClosed, workerVars, logPc>>

-----------------------------------------------------------------------------
(* The worker *)

\* Defect: a full batch is not written, the batch grows on.
ReceiveNoCap ==
  /\ workerPc = "select" /\ ch # <<>>
  /\ ch' = Tail(ch) /\ batch' = Append(batch, Head(ch))
  /\ UNCHANGED <<chClosed, isClosed, logPc, stopPc, workerPc, audit_logs, failed>>

Receive ==
  /\ workerPc = "select" /\ ch # <<>>
  /\ ch' = Tail(ch) /\ batch' = Append(batch, Head(ch))
  /\ workerPc' = IF Len(batch) + 1 >= BatchCap THEN "writing" ELSE "select"
  /\ UNCHANGED <<chClosed, isClosed, logPc, stopPc, audit_logs, failed>>

\* The ticker fires; with an empty batch flush does nothing.
Tick ==
  /\ workerPc = "select" /\ batch # <<>>
  /\ workerPc' = "writing"
  /\ UNCHANGED <<chanVars, isClosed, logPc, stopPc, batch, audit_logs, failed>>

\* Defect: the worker ends without its last flush.
DrainedNoFlush ==
  /\ workerPc = "select" /\ chClosed /\ ch = <<>>
  /\ workerPc' = "done"
  /\ UNCHANGED <<chanVars, isClosed, logPc, stopPc, batch, audit_logs, failed>>

\* Defect: after the last flush a break leaves the select, not the loop.
DrainedLoops ==
  /\ workerPc = "select" /\ chClosed /\ ch = <<>>
  /\ workerPc' = IF batch = <<>> THEN "select" ELSE "writing"
  /\ UNCHANGED <<chanVars, isClosed, logPc, stopPc, batch, audit_logs, failed>>

\* The receive reports a channel that is closed and empty: the last flush.
Drained ==
  /\ workerPc = "select" /\ chClosed /\ ch = <<>>
  /\ workerPc' = IF batch = <<>> THEN "done" ELSE "lastWrite"
  /\ UNCHANGED <<chanVars, isClosed, logPc, stopPc, batch, audit_logs, failed>>

AfterWrite == IF workerPc = "lastWrite" THEN "done" ELSE "select"

\* The rows of a batch are inserted by one statement: all of them or none.
Insert(b) == [e \in Event |-> IF e \in InSeq(b) THEN audit_logs[e] + 1 ELSE audit_logs[e]]

\* Defect: after a write the batch is not emptied.
WriteStoredNoReset ==
  /\ workerPc \in {"writing", "lastWrite"}
  /\ InSeq(batch) \cap BadRow = {}
  /\ audit_logs' = Insert(batch)
  /\ workerPc' = AfterWrite
  /\ UNCHANGED <<chanVars, isClosed, logPc, stopPc, failed, batch>>

WriteStored ==
  /\ workerPc \in {"writing", "lastWrite"}
  /\ InSeq(batch) \cap BadRow = {}
  /\ audit_logs' = Insert(batch) /\ batch' = <<>>
  /\ workerPc' = AfterWrite
  /\ UNCHANGED <<chanVars, isClosed, logPc, stopPc, failed>>

\* Defect: a failed write ends the worker.
WriteFailedGivesUp ==
  /\ workerPc \in {"writing", "lastWrite"}
  /\ audit_logs' = audit_logs
  /\ failed' = failed \cup InSeq(batch) /\ batch' = <<>>
  /\ workerPc' = "done"
  /\ UNCHANGED <<chanVars, isClosed, logPc, stopPc>>

\* WriteBatch returns an error.  The rows are not there, or they are and only
\* the answer got lost.  The error is logged and the batch is emptied as well.
WriteFailed ==
  /\ workerPc \in {"writing", "lastWrite"}
  /\ \/ audit_logs' = audit_logs
     \/ InSeq(batch) \cap BadRow = {} /\ audit_logs' = Insert(batch)
  /\ failed' = failed \cup InSeq(batch) /\ batch' = <<>>
  /\ workerPc' = AfterWrite
  /\ UNCHANGED <<chanVars, isClosed, logPc, stopPc>>

-----------------------------------------------------------------------------
LogStep(e)  == LogCheck(e) \/ LogSend(e) \/ LogOverflow(e) \/ LogPanic(e)
StopStep(s) == StopFlag(s) \/ StopClose(s) \/ StopPanic(s) \/ StopReturn(s)
WriteEnd    == WriteStored \/ WriteFailed
Worker      == Receive \/ Tick \/ Drained \/ WriteEnd

\* Every call has ended and the worker is gone.
Terminated ==
  /\ \A e \in Event : logPc[e] \notin {"idle", "checked"}
  /\ \A s \in Stopper : stopPc[s] \in {"returned", "panicked"}
  /\ workerPc = "done"
  /\ UNCHANGED vars

Next ==
  \/ \E e \in Event : LogStep(e)
  \/ \E s \in Stopper : StopStep(s)
  \/ Worker
  \/ Terminated

Spec == Init /\ [][Next]_vars

(***************************************************************************)
(* Go runs every runnable goroutine, the ticker fires again and again, and *)
(* the database answers (WriteBatch has no deadline of its own, so this is *)
(* what Stop relies on).  Nothing makes a handler call Log or makes main   *)
(* call Stop.                                                              *)
(***************************************************************************)
Fairness ==
  /\ \A e \in Event : WF_vars(LogSend(e) \/ LogOverflow(e) \/ LogPanic(e))
  /\ \A s \in Stopper : WF_vars(StopClose(s) \/ StopPanic(s) \/ StopReturn(s))
  /\ WF_vars(Receive \/ Tick \/ Drained) /\ WF_vars(WriteEnd)

FairSpec == Spec /\ Fairness

-----------------------------------------------------------------------------
(* Type invariant: the variables keep their types, channel and batch stay   *)
(* within their capacities.                                                 *)
TypeOK ==
  /\ ch \in Seq(Event) /\ Len(ch) <= ChanCap
  /\ batch \in Seq(Event) /\ Len(batch) <= BatchCap
  /\ chClosed \in BOOLEAN /\ isClosed \in BOOLEAN
  /\ workerPc \in {"select", "writing", "lastWrite", "done"}
  /\ logPc \in [Event -> {"idle", "checked", "refused", "sent", "overflow", "panicked"}]
  /\ stopPc \in [Stopper -> {"idle", "paused", "waiting", "returned", "panicked"}]
  /\ audit_logs \in [Event -> Nat]
  /\ failed \subseteq Event

\* The event has been in a batch that was written, with or without success.
Settled(e) == audit_logs[e] > 0 \/ e \in failed

InMemory(e) == e \in InSeq(ch) \/ e \in InSeq(batch)

(* Every event Log accepted is on its way in memory or settled, never both, *)
(* and an event Log did not accept is in neither: the channel, the batch    *)
(* and the table hand an event on without losing or copying it.             *)
InOnePlace ==
  \A e \in Event :
    /\ logPc[e] = "sent" <=> InMemory(e) \/ Settled(e)
    /\ ~ (InMemory(e) /\ Settled(e))
    /\ ~ (e \in InSeq(ch) /\ e \in InSeq(batch))

(* No event has two rows, whatever writes failed in between.                *)
AtMostOneRow == \A e \in Event : audit_logs[e] <= 1

(* Events are handed on by Log, worker and table without loss or copy.      *)
HandedOn == InOnePlace /\ AtMostOneRow

(* The Drain Pattern of the file comment: when a call of Stop returns, no   *)
(* accepted event is left in memory and no Log call can add one.            *)
DrainedWhenStopped ==
  \A s \in Stopper : stopPc[s] = "returned" =>
    \A e \in Event : ~InMemory(e) /\ (logPc[e] = "sent" => Settled(e))

(* What the pause in Stop is for: if it outlasts the Log calls in progress, *)
(* none of them sends on the closed channel.                                *)
NoLogPanic == \A e \in Event : logPc[e] # "panicked"

(* After a Stop has returned the pipeline is at rest: no row is written and *)
(* no event enters the channel (main closes the pool of the database next). *)
QuietAfterStop ==
  [][(\E s \in Stopper : stopPc[s] = "returned") => UNCHANGED <<ch, batch, audit_logs, failed>>]_vars

(* Every accepted event is settled in the end, without any call of Stop:    *)
(* the ticker sees to it, and a failed write does not stop the worker.      *)
EventuallySettled == \A e \in Event : logPc[e] = "sent" ~> Settled(e)

(* Every call of Stop ends; the closed channel is drained even if writes    *)
(* fail on the way.                                                         *)
StopEnds == \A s \in Stopper : stopPc[s] = "paused" ~> stopPc[s] \in {"returned", "panicked"}

\* What has become of an event, as a caller of Log sees it.
Status(e) ==
  CASE audit_logs[e] > 0 -> "stored"
    [] audit_logs[e] = 0 /\ e \in failed -> "lost"
    [] logPc[e] = "sent" /\ ~Settled(e) -> "accepted"
    [] logPc[e] \in {"refused", "overflow", "panicked"} -> "refused"
    [] OTHER -> "new"

\* The promise of the pipeline to its callers, refined by it.
Trail == INSTANCE AuditTrail WITH
  GroupMax <- BatchCap,
  shut     <- workerPc = "done",
  status   <- [e \in Event |-> Status(e)]

(* The pipeline implements AuditTrail: events are accepted or refused once, *)
(* settled in groups of at most one batch, and shut only when none waits.   *)
ImplementsAuditTrail == Trail!Spec
=============================================================================
