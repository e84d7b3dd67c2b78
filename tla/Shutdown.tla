------------------------------ MODULE Shutdown ------------------------------
(***************************************************************************)
(* The life of the gateway process around the audit pipeline: request      *)
(* handlers of two servers that log events, and main (cmd/uag/main.go),    *)
(* which on SIGTERM stops the gRPC server, then the HTTP server, then the  *)
(* auditor, and whose deferred calls stop the auditor once more and close  *)
(* the pool of the database.                                               *)
(*                                                                         *)
(* The pipeline is module AgentFS; its events stand for the requests whose *)
(* handlers log them.                                                      *)
(***************************************************************************)
EXTENDS AgentFS

CONSTANT Grpc   \* the requests that come in by gRPC

ASSUME GrpcAssumption     == Grpc \subseteq Event
ASSUME StoppersAssumption == Stopper = {"explicit", "deferred"}

VARIABLES
  mainPc,   \* where the goroutine of main is
  handler,  \* the handlers: "none", "running", "ended"
  overdue   \* the HTTP server was left with handlers under way

processVars == <<mainPc, handler, overdue>>
allVars     == <<vars, processVars>>

Http == Event \ Grpc

ShutdownInit ==
  /\ Init
  /\ mainPc = "serving"
  /\ handler = [e \in Event |-> "none"]
  /\ overdue = FALSE

Alive == mainPc # "exited"

-----------------------------------------------------------------------------
(* The handlers *)

\* The HTTP server takes requests until its Shutdown, that is also while main
\* waits for the gRPC server.
Accepting(e) == mainPc = "serving" \/ (e \in Http /\ mainPc = "grpcStop")

HandlerBegins(e) ==
  /\ handler[e] = "none" /\ Accepting(e)
  /\ handler' = [handler EXCEPT ![e] = "running"]
  /\ UNCHANGED <<vars, mainPc, overdue>>

\* Defect: the event is logged before the request is there.
HandlerLogsEarly(e) ==
  /\ Alive
  /\ LogStep(e)
  /\ UNCHANGED processVars

\* The handler calls Log, if the request is simulated.
HandlerLogs(e) ==
  /\ Alive /\ handler[e] = "running"
  /\ LogStep(e)
  /\ UNCHANGED processVars

\* It ends outside of Log, with or without having called it.  A panic in Log
\* ends it, too.
HandlerEnds(e) ==
  /\ Alive /\ handler[e] = "running" /\ logPc[e] # "checked"
  /\ handler' = [handler EXCEPT ![e] = "ended"]
  /\ UNCHANGED <<vars, mainPc, overdue>>

-----------------------------------------------------------------------------
(* main *)

MainGoes(label) == mainPc' = label /\ UNCHANGED <<vars, handler>>

\* Defect: the auditor is stopped before the servers.
SignalStopsAuditor ==
  /\ mainPc = "serving"
  /\ MainGoes("explicit") /\ UNCHANGED overdue

Signal ==
  /\ mainPc = "serving"
  /\ MainGoes("grpcStop") /\ UNCHANGED overdue

\* Defect: main goes on only when each gRPC client has had its request.
GrpcStoppedWhenIdle ==
  /\ mainPc = "grpcStop"
  /\ IF \A e \in Grpc : handler[e] = "ended" THEN MainGoes("httpStop") /\ UNCHANGED overdue
     ELSE UNCHANGED allVars

\* Defect: Stop instead of GracefulStop, which does not wait for the handlers.
GrpcStoppedAtOnce ==
  /\ mainPc = "grpcStop"
  /\ MainGoes("httpStop") /\ UNCHANGED overdue

\* GracefulStop waits for every gRPC handler, as long as it takes.
GrpcStopped ==
  /\ mainPc = "grpcStop" /\ \A e \in Grpc : handler[e] # "running"
  /\ MainGoes("httpStop") /\ UNCHANGED overdue

\* Defect: main returns without stopping the auditor.
HttpStoppedLast ==
  /\ mainPc = "httpStop"
  /\ overdue' = \E e \in Http : handler[e] = "running"
  /\ MainGoes("closePool")

\* Shutdown waits for the HTTP handlers or for the end of its five seconds,
\* which began before GracefulStop.
HttpStopped ==
  /\ mainPc = "httpStop"
  /\ overdue' = \E e \in Http : handler[e] = "running"
  /\ MainGoes("explicit")

\* auditor.Stop, called in place and by the deferred call.
StopCall(s) ==
  /\ mainPc = s
  /\ StopStep(s)
  /\ UNCHANGED processVars

StopCalled ==
  /\ mainPc \in Stopper /\ stopPc[mainPc] \in {"returned", "panicked"}
  /\ MainGoes(IF mainPc = "explicit" THEN "deferred" ELSE "closePool") /\ UNCHANGED overdue

\* The last deferred calls run, after a panic as well, and the process ends.
ClosePool ==
  /\ mainPc = "closePool"
  /\ MainGoes("exited") /\ UNCHANGED overdue

Main == Signal \/ GrpcStopped \/ HttpStopped \/ (\E s \in Stopper : StopCall(s)) \/ StopCalled \/ ClosePool

WorkerRuns == Alive /\ Worker /\ UNCHANGED processVars

Exited == ~Alive /\ UNCHANGED allVars

ShutdownNext ==
  \/ \E e \in Event : HandlerBegins(e) \/ HandlerLogs(e) \/ HandlerEnds(e)
  \/ Main \/ WorkerRuns \/ Exited

ShutdownSpec == ShutdownInit /\ [][ShutdownNext]_allVars

(***************************************************************************)
(* As in AgentFS; and every handler ends (one that waits for an operator   *)
(* does so after five minutes).  Nobody needs to send the signal.          *)
(***************************************************************************)
ShutdownFairness ==
  /\ WF_allVars(GrpcStopped \/ HttpStopped \/ StopCalled \/ ClosePool)
  /\ \A s \in Stopper : WF_allVars(StopCall(s))
  /\ \A e \in Event : WF_allVars(HandlerLogs(e) /\ logPc[e] = "checked") /\ WF_allVars(HandlerEnds(e))
  /\ WF_allVars(Alive /\ (Receive \/ Tick \/ Drained) /\ UNCHANGED processVars)
  /\ WF_allVars(Alive /\ WriteEnd /\ UNCHANGED processVars)

FairShutdownSpec == ShutdownSpec /\ ShutdownFairness

-----------------------------------------------------------------------------
(* Type invariant of the variables this module adds.                        *)
ShutdownTypeOK ==
  /\ mainPc \in {"serving", "grpcStop", "httpStop", "explicit", "deferred", "closePool", "exited"}
  /\ handler \in [Event -> {"none", "running", "ended"}]
  /\ \A e \in Event : handler[e] = "none" => logPc[e] = "idle"
  /\ overdue \in BOOLEAN

(* When the pool is closed no accepted event waits for its row: events are  *)
(* not lost by the order in which main closes things, not even when the     *)
(* second Stop panics.                                                      *)
NothingLeftAtExit ==
  mainPc \in {"closePool", "exited"} => \A e \in Event : logPc[e] = "sent" => Settled(e)

(* An event is refused only if the HTTP server ran out of time: a handler   *)
(* main has waited for finds the auditor open (it is stopped after the      *)
(* servers).                                                                *)
RefusedOnlyIfOverdue == \A e \in Event : logPc[e] = "refused" => overdue

(* The race of Log with the close of the channel, however short the pause   *)
(* in Stop, is lost only by HTTP handlers that main has left behind; never  *)
(* by a gRPC handler, whose panic nothing would recover.                    *)
PanicOnlyIfOverdue == \A e \in Event : logPc[e] = "panicked" => overdue /\ e \in Http

(* After the signal the process ends, with handlers, full channel and       *)
(* failing writes on the way.                                               *)
ShutdownEnds == mainPc = "grpcStop" ~> mainPc = "exited"

-----------------------------------------------------------------------------
(* What the docs say, checked by a run that refutes it.                     *)

(* docs/README.md:155: all services handle SIGTERM correctly, so a gateway  *)
(* that is told to stop does not panic.                                     *)
ExitsGracefully == \A s \in Stopper : stopPc[s] # "panicked"
=============================================================================
