--------------------------- MODULE StateSync_proofs ---------------------------
(***************************************************************************)
(* With one operator at a time no block is overlooked and changes made in  *)
(* service arrive, for any number of agents, gateways and calls, through   *)
(* restarts, breaks and faults.                                            *)
(***************************************************************************)
EXTENDS StateSync, SequenceTheorems, TLAPS

\* No signal of the queue is about the agent; the last one about it says on.
Silent(q, a) == \A i \in 1..Len(q) : q[i][1] # a

LastSays(q, a, on) ==
  \E i \in 1..Len(q) : q[i] = <<a, on>> /\ \A j \in i+1..Len(q) : q[j][1] # a

Typed == TypeOK /\ signal \in [Op -> Signal \cup {<<>>}]

\* With one operator at a time one call at most has a signal to publish, and it
\* says what the database says.
OneCall == \A o, p \in Op : opPc[o] = "publishing" /\ opPc[p] = "publishing" => o = p

SignalTrue == \A o \in Op : opPc[o] = "publishing" => (signal[o][1] \in db <=> signal[o][2])

Pending(a) == \E o \in Op : opPc[o] = "publishing" /\ signal[o][1] = a

\* An Init has still to read the list or to put this agent into the cache.
Loading(g, a) == \E p \in Proc : pc[g][p] = "reading" \/ (pc[g][p] = "applying" /\ a \in snap[g][p])

FreshAt(g) == pc[g]["listener"] = "subscribing" => g \notin subscribed /\ queue[g] = <<>>

\* A gateway that missed nothing has every blocked agent, or will have it.
BlockAt(g) ==
  g \in subscribed \ missed => \A a \in db :
    \/ Pending(a)
    \/ LastSays(queue[g], a, TRUE)
    \/ Silent(queue[g], a) /\ (a \in cache[g] \/ Loading(g, a))

SettledAt(g) == settled[g] # {} => InService(g)

\* The last news of an agent changed in service is under way, or has arrived.
ChangeAt(g) ==
  \A a \in settled[g] :
    \/ Pending(a)
    \/ \E on \in BOOLEAN : LastSays(queue[g], a, on) /\ (on <=> a \in db)
    \/ Silent(queue[g], a) /\ (a \in cache[g] <=> a \in db)

AtGateway(g) == FreshAt(g) /\ BlockAt(g) /\ SettledAt(g) /\ ChangeAt(g)

(* The inductive invariant.                                                 *)
IInv == Typed /\ OneCall /\ SignalTrue /\ \A g \in Gateway : AtGateway(g)

-----------------------------------------------------------------------------
\* What a new signal makes of a queue.
LEMMA AppendSays ==
  ASSUME NEW q \in Seq(Signal), NEW s \in Signal, NEW a \in Agent, NEW on \in BOOLEAN
  PROVE  /\ Append(q, s) \in Seq(Signal)
         /\ s = <<a, on>> => LastSays(Append(q, s), a, on)
         /\ s[1] # a /\ LastSays(q, a, on) => LastSays(Append(q, s), a, on)
         /\ s[1] # a /\ Silent(q, a) => Silent(Append(q, s), a)
<1>1. /\ Append(q, s) \in Seq(Signal) /\ Len(Append(q, s)) = Len(q) + 1
      /\ \A i \in 1..Len(q) : Append(q, s)[i] = q[i]
      /\ Append(q, s)[Len(q) + 1] = s
      /\ Len(q) \in Nat
  BY AppendProperties, LenProperties
<1>2. ASSUME s = <<a, on>> PROVE LastSays(Append(q, s), a, on)
  BY <1>1, <1>2 DEF LastSays
<1>3. ASSUME s[1] # a, LastSays(q, a, on) PROVE LastSays(Append(q, s), a, on)
  <2>1. PICK i \in 1..Len(q) : q[i] = <<a, on>> /\ \A j \in i+1..Len(q) : q[j][1] # a
    BY <1>3 DEF LastSays
  <2>2. i \in 1..Len(q)+1 /\ Append(q, s)[i] = <<a, on>> BY <1>1, <2>1
  <2>3. \A j \in i+1..Len(q)+1 : Append(q, s)[j][1] # a
    <3> TAKE j \in i+1..Len(q)+1
    <3>1. j \in i+1..Len(q) \/ j = Len(q) + 1 BY <1>1, <2>1
    <3> QED BY <1>1, <1>3, <2>1, <3>1
  <2> QED BY <1>1, <2>2, <2>3 DEF LastSays
<1>4. ASSUME s[1] # a, Silent(q, a) PROVE Silent(Append(q, s), a)
  BY <1>1, <1>4 DEF Silent
<1> QED BY <1>1, <1>2, <1>3, <1>4

\* What taking the head makes of it.
LEMMA TailSays ==
  ASSUME NEW q \in Seq(Signal), q # <<>>, NEW a \in Agent, NEW on \in BOOLEAN
  PROVE  /\ Head(q) \in Signal /\ Tail(q) \in Seq(Signal)
         /\ LastSays(q, a, on) => LastSays(Tail(q), a, on) \/ (Head(q) = <<a, on>> /\ Silent(Tail(q), a))
         /\ Silent(q, a) => Head(q)[1] # a /\ Silent(Tail(q), a)
<1>1. /\ Head(q) = q[1] /\ Head(q) \in Signal /\ Tail(q) \in Seq(Signal)
      /\ Len(q) \in Nat \ {0} /\ Len(Tail(q)) = Len(q) - 1
      /\ \A i \in 1..Len(q)-1 : Tail(q)[i] = q[i+1]
  BY HeadTailProperties, EmptySeq, LenProperties, ElementOfSeq
<1>2. ASSUME LastSays(q, a, on)
      PROVE  LastSays(Tail(q), a, on) \/ (Head(q) = <<a, on>> /\ Silent(Tail(q), a))
  <2>1. PICK i \in 1..Len(q) : q[i] = <<a, on>> /\ \A j \in i+1..Len(q) : q[j][1] # a
    BY <1>2 DEF LastSays
  <2>2. CASE i = 1 BY <1>1, <2>1, <2>2 DEF Silent
  <2>3. CASE i # 1
    <3>1. i-1 \in 1..Len(q)-1 /\ Tail(q)[i-1] = <<a, on>> BY <1>1, <2>1, <2>3
    <3>2. \A j \in (i-1)+1..Len(q)-1 : Tail(q)[j][1] # a BY <1>1, <2>1, <2>3
    <3> QED BY <1>1, <3>1, <3>2 DEF LastSays
  <2> QED BY <2>2, <2>3
<1>3. ASSUME Silent(q, a) PROVE Head(q)[1] # a /\ Silent(Tail(q), a)
  BY <1>1, <1>3 DEF Silent
<1> QED BY <1>1, <1>2, <1>3

LEMMA NothingSays ==
  ASSUME NEW a
  PROVE  Silent(<<>>, a)
BY DEF Silent

-----------------------------------------------------------------------------
(* The types.                                                               *)
LEMMA InitTyped == Init => Typed
<1> SUFFICES ASSUME Init PROVE Typed
  OBVIOUS
<1>1. <<>> \in Seq(Signal) BY EmptySeq
<1> QED BY <1>1 DEF Init, Typed, TypeOK, Starting, Proc

LEMMA RestartTyped ==
  ASSUME Typed, NEW g \in Gateway, ProcessRestarts(g), UNCHANGED opVars, l2' \subseteq Agent, lock' \in BOOLEAN
  PROVE  Typed'
<1>1. <<>> \in Seq(Signal) BY EmptySeq
<1>2. Starting \in [Proc -> {"subscribing", "reading", "applying", "warming", "ready", "ended"}]
  BY DEF Starting
<1> QED BY <1>1, <1>2 DEF Typed, TypeOK, ProcessRestarts, opVars

LEMMA OperatorTyped ==
  ASSUME Typed, NEW o \in Op, Operator(o)
  PROVE  Typed'
<1> USE DEF Typed, TypeOK, redisVars, history
<1>1. ASSUME NEW a \in Agent, NEW on \in BOOLEAN, Update(o, a, on) PROVE Typed'
  <2>1. <<a, on>> \in Signal BY DEF Signal
  <2> QED BY <1>1, <2>1 DEF Update
<1>2. ASSUME NEW a \in Agent, NEW on \in BOOLEAN, UpdateFailed(o, a, on) PROVE Typed'
  BY <1>2 DEF UpdateFailed
<1>3. CASE Publish(o)
  <2>1. signal[o] \in Signal BY <1>3 DEF Publish
  <2>2. \A g \in Gateway : Append(queue[g], signal[o]) \in Seq(Signal)
    BY <2>1, AppendProperties
  <2>3. queue' \in [Gateway -> Seq(Signal)] BY <1>3, <2>2 DEF Publish
  <2> QED BY <1>3, <2>3 DEF Publish
<1>4. CASE PublishFailed(o)
  BY <1>4 DEF PublishFailed
<1> QED BY <1>1, <1>2, <1>3, <1>4 DEF Operator

LEMMA GatewayTyped ==
  ASSUME Typed, NEW g \in Gateway,
         \/ \E p \in Proc : InitStep(g, p)
         \/ Listener(g) \/ Drop(g) \/ SilentReconnect(g) \/ ListenerEnds(g) \/ Restart(g)
  PROVE  Typed'
<1> USE DEF Typed, TypeOK, redisVars, history, opVars, Goto
<1>1. ASSUME NEW p \in Proc, ReadList(g, p) PROVE Typed'
  BY <1>1 DEF ReadList
<1>2. ASSUME NEW p \in Proc, UpdateL1(g, p) PROVE Typed'
  BY <1>2 DEF UpdateL1
<1>3. ASSUME NEW p \in Proc, WarmL2(g, p) PROVE Typed'
  <2>1. l2' \subseteq Agent /\ lock' \in BOOLEAN
    <3>1. snap[g][p] \subseteq Agent OBVIOUS
    <3> QED BY <1>3, <3>1 DEF WarmL2
  <2>2. /\ pc' = [pc EXCEPT ![g][p] = "ready"] /\ snap' = [snap EXCEPT ![g][p] = {}]
        /\ UNCHANGED <<db, opPc, signal, subscribed, queue, cache, settled, missed>>
    BY <1>3 DEF WarmL2
  <2> QED BY <2>1, <2>2
<1>4. ASSUME NEW p \in Proc, InitFailed(g, p) PROVE Typed'
  <2>1. CASE Restarted(g) BY <2>1, RestartTyped DEF Restarted
  <2>2. CASE ~Restarted(g)
    <3>1. /\ pc' = [pc EXCEPT ![g][p] = "ready"] /\ missed' = missed \cup {g}
          /\ UNCHANGED <<db, opPc, signal, snap, subscribed, queue, cache, l2, lock, settled>>
      BY <1>4, <2>2 DEF InitFailed
    <3> HIDE <2>2
    <3> QED BY <3>1
  <2> QED BY <2>1, <2>2
<1>5. ASSUME NEW p \in Proc, WarmFailed(g, p) PROVE Typed'
  <2>1. lock' \in BOOLEAN /\ UNCHANGED l2 /\ UNCHANGED opVars BY <1>5 DEF WarmFailed
  <2>2. CASE ProcessRestarts(g)
    <3>1. l2' \subseteq Agent BY <2>1
    <3> QED BY <2>1, <2>2, <3>1, RestartTyped
  <2>3. CASE ~ProcessRestarts(g)
    <3>1. /\ pc' = [pc EXCEPT ![g][p] = "ready"] /\ snap' = [snap EXCEPT ![g][p] = {}]
          /\ UNCHANGED <<db, opPc, signal, subscribed, queue, cache, settled, missed>>
      BY <1>5, <2>3 DEF WarmFailed
    <3> QED BY <2>1, <3>1
  <2> QED BY <2>2, <2>3
<1>6. CASE Subscribe(g) BY <1>6 DEF Subscribe, Proc
<1>7. CASE ApplySignal(g)
  <2>1. Head(queue[g]) \in Signal /\ Tail(queue[g]) \in Seq(Signal)
    BY <1>7, HeadTailProperties DEF ApplySignal
  <2>2. Head(queue[g])[1] \in Agent BY <2>1 DEF Signal
  <2> QED BY <1>7, <2>1, <2>2 DEF ApplySignal
<1>8. CASE Resubscribe(g) BY <1>8 DEF Resubscribe, Proc
<1>9. CASE Drop(g)
  <2>1. PICK n \in 0..Len(queue[g]) : queue' = [queue EXCEPT ![g] = SubSeq(@, 1, n)]
    BY <1>9 DEF Drop
  <2>2. SubSeq(queue[g], 1, n) \in Seq(Signal)
    <3>1. queue[g] \in Seq(Signal) /\ Len(queue[g]) \in Nat BY LenProperties
    <3>2. \A i \in 1..n : queue[g][i] \in Signal BY <3>1, ElementOfSeq
    <3> QED BY <3>1, <3>2, SubSeqProperties
  <2> QED BY <1>9, <2>1, <2>2 DEF Drop
<1>10. CASE SilentReconnect(g) BY <1>10 DEF SilentReconnect
<1>11. CASE Restart(g) BY <1>11, RestartTyped DEF Restart, Restarted
<1>12. CASE ListenerEnds(g)
  <2>1. <<>> \in Seq(Signal) BY EmptySeq
  <2> QED BY <1>12, <2>1 DEF ListenerEnds, Proc
<1> QED BY <1>1, <1>2, <1>3, <1>4, <1>5, <1>6, <1>7, <1>8, <1>9, <1>10, <1>11, <1>12 DEF InitStep, Listener

LEMMA NextTyped == Typed /\ [Next]_vars => Typed'
<1> SUFFICES ASSUME Typed, [Next]_vars PROVE Typed'
  OBVIOUS
<1>1. CASE LockExpires
  BY <1>1 DEF LockExpires, Typed, TypeOK, opVars, history
<1>2. CASE UNCHANGED vars
  BY <1>2 DEF vars, Typed, TypeOK, opVars, history, redisVars
<1> QED BY <1>1, <1>2, OperatorTyped, GatewayTyped DEF Next, Terminated

(* The variables keep their types, whatever the flags.                      *)
THEOREM TypeCorrect == Spec => []TypeOK
<1>1. Init => Typed BY InitTyped
<1>2. Typed => TypeOK BY DEF Typed
<1> QED BY <1>1, <1>2, NextTyped, PTL DEF Spec

-----------------------------------------------------------------------------
(* Initially nothing is subscribed and nothing is under way.                *)
LEMMA InitIInv == Init => IInv
<1> SUFFICES ASSUME Init PROVE IInv
  OBVIOUS
<1>1. OneCall /\ SignalTrue BY DEF Init, OneCall, SignalTrue
<1>2. \A g \in Gateway : AtGateway(g)
  BY DEF Init, AtGateway, FreshAt, BlockAt, SettledAt, ChangeAt
<1> QED BY <1>1, <1>2, InitTyped DEF IInv

\* Where nobody is publishing nothing is pending.
LEMMA NobodyPending ==
  ASSUME \A o \in Op : opPc[o] # "publishing", NEW a
  PROVE  ~Pending(a)
BY DEF Pending

(* Row, signal and their failures.                                          *)
LEMMA UpdateIInv ==
  ASSUME OneOperator, IInv, NEW o \in Op, NEW a \in Agent, NEW on \in BOOLEAN, Update(o, a, on), Typed'
  PROVE  IInv'
<1> USE DEF IInv, Typed, TypeOK
<1>1. \A p \in Op : opPc[p] # "publishing" BY DEF Update
<1>2. /\ db' = IF on THEN db \cup {a} ELSE db \ {a}
      /\ opPc' = [opPc EXCEPT ![o] = "publishing"] /\ signal' = [signal EXCEPT ![o] = <<a, on>>]
      /\ settled' = [g \in Gateway |-> IF InService(g) THEN settled[g] \cup {a} ELSE settled[g] \ {a}]
      /\ UNCHANGED <<pc, snap, subscribed, queue, cache, missed>>
  BY DEF Update
<1>3. OneCall' BY <1>1, <1>2 DEF OneCall
<1>4. SignalTrue' BY <1>1, <1>2 DEF SignalTrue
<1>5. Pending(a)' BY <1>2 DEF Pending
<1>6. ASSUME NEW g \in Gateway PROVE AtGateway(g)'
  <2>1. FreshAt(g)' BY <1>2 DEF AtGateway, FreshAt
  <2>2. BlockAt(g)'
    <3> SUFFICES ASSUME g \in subscribed' \ missed', NEW b \in db', b # a
                 PROVE  (LastSays(queue[g], b, TRUE) \/ (Silent(queue[g], b) /\ (b \in cache[g] \/ Loading(g, b))))'
      BY <1>5 DEF BlockAt
    <3>1. LastSays(queue[g], b, TRUE) \/ (Silent(queue[g], b) /\ (b \in cache[g] \/ Loading(g, b)))
      BY <1>1, <1>2, NobodyPending DEF AtGateway, BlockAt
    <3> QED BY <1>2, <3>1 DEF Loading
  <2>3. SettledAt(g)' BY <1>2 DEF AtGateway, SettledAt, InService
  <2>4. ChangeAt(g)'
    <3> SUFFICES ASSUME NEW b \in settled'[g], b # a
                 PROVE  ( \/ \E v \in BOOLEAN : LastSays(queue[g], b, v) /\ (v <=> b \in db)
                          \/ Silent(queue[g], b) /\ (b \in cache[g] <=> b \in db))'
      BY <1>5 DEF ChangeAt
    <3>1. b \in settled[g] /\ (b \in db' <=> b \in db) BY <1>2
    <3>2. \/ \E v \in BOOLEAN : LastSays(queue[g], b, v) /\ (v <=> b \in db)
          \/ Silent(queue[g], b) /\ (b \in cache[g] <=> b \in db)
      BY <1>1, <3>1, NobodyPending DEF AtGateway, ChangeAt
    <3> QED BY <1>2, <3>1, <3>2
  <2> QED BY <2>1, <2>2, <2>3, <2>4 DEF AtGateway
<1> QED BY <1>3, <1>4, <1>6

LEMMA UpdateFailedIInv ==
  ASSUME OneOperator, IInv, NEW o \in Op, NEW a \in Agent, NEW on \in BOOLEAN, UpdateFailed(o, a, on), Typed'
  PROVE  IInv'
<1> USE DEF IInv, Typed, TypeOK
<1>1. \A p \in Op : opPc[p] # "publishing" BY DEF UpdateFailed
<1>2. /\ \A b \in Agent : b # a => (b \in db' <=> b \in db)
      /\ opPc' = [opPc EXCEPT ![o] = "done"] /\ signal' = signal
      /\ settled' = [g \in Gateway |-> settled[g] \ {a}]
      /\ missed' = IF db' = db THEN missed ELSE Gateway
      /\ UNCHANGED <<pc, snap, subscribed, queue, cache>>
  BY DEF UpdateFailed
<1>3. OneCall' /\ SignalTrue' BY <1>1, <1>2 DEF OneCall, SignalTrue
<1>4. ASSUME NEW g \in Gateway PROVE AtGateway(g)'
  <2>1. FreshAt(g)' BY <1>2 DEF AtGateway, FreshAt
  <2>2. BlockAt(g)'
    <3> SUFFICES ASSUME g \in subscribed' \ missed', NEW b \in db'
                 PROVE  (LastSays(queue[g], b, TRUE) \/ (Silent(queue[g], b) /\ (b \in cache[g] \/ Loading(g, b))))'
      BY DEF BlockAt
    <3>0. db' = db BY <1>2
    <3>1. LastSays(queue[g], b, TRUE) \/ (Silent(queue[g], b) /\ (b \in cache[g] \/ Loading(g, b)))
      BY <1>1, <1>2, <3>0, NobodyPending DEF AtGateway, BlockAt
    <3> QED BY <1>2, <3>1 DEF Loading
  <2>3. SettledAt(g)' BY <1>2 DEF AtGateway, SettledAt, InService
  <2>4. ChangeAt(g)'
    <3> SUFFICES ASSUME NEW b \in settled'[g]
                 PROVE  ( \/ \E v \in BOOLEAN : LastSays(queue[g], b, v) /\ (v <=> b \in db)
                          \/ Silent(queue[g], b) /\ (b \in cache[g] <=> b \in db))'
      BY DEF ChangeAt
    <3>1. b \in settled[g] /\ (b \in db' <=> b \in db) BY <1>2
    <3>2. \/ \E v \in BOOLEAN : LastSays(queue[g], b, v) /\ (v <=> b \in db)
          \/ Silent(queue[g], b) /\ (b \in cache[g] <=> b \in db)
      BY <1>1, <3>1, NobodyPending DEF AtGateway, ChangeAt
    <3> QED BY <1>2, <3>1, <3>2
  <2> QED BY <2>1, <2>2, <2>3, <2>4 DEF AtGateway
<1> QED BY <1>3, <1>4

LEMMA PublishIInv ==
  ASSUME IInv, NEW o \in Op, Publish(o), Typed'
  PROVE  IInv'
<1> USE DEF IInv, Typed, TypeOK
<1> DEFINE s == signal[o]
<1>1. /\ opPc[o] = "publishing" /\ s \in Signal /\ s[1] \in Agent /\ s[2] \in BOOLEAN
      /\ s = <<s[1], s[2]>> /\ (s[1] \in db <=> s[2])
      /\ \A p \in Op : opPc[p] = "publishing" => p = o
  BY DEF Publish, OneCall, SignalTrue, Signal
<1>2. /\ queue' = [g \in Gateway |-> IF g \in subscribed THEN Append(queue[g], s) ELSE queue[g]]
      /\ opPc' = [opPc EXCEPT ![o] = "done"] /\ signal' = [signal EXCEPT ![o] = <<>>]
      /\ UNCHANGED <<db, pc, snap, subscribed, cache, settled, missed>>
  BY DEF Publish, history
<1>3. \A p \in Op : opPc'[p] # "publishing" BY <1>1, <1>2
<1>4. OneCall' /\ SignalTrue' BY <1>3 DEF OneCall, SignalTrue
<1>5. ASSUME NEW b, b # s[1] PROVE ~Pending(b) BY <1>1, <1>5 DEF Pending
<1> HIDE DEF s
<1>6. ASSUME NEW g \in Gateway PROVE AtGateway(g)'
  <2>1. FreshAt(g)' BY <1>2 DEF AtGateway, FreshAt
  <2>2. BlockAt(g)'
    <3> SUFFICES ASSUME g \in subscribed \ missed, NEW b \in db
                 PROVE  (LastSays(queue[g], b, TRUE) \/ (Silent(queue[g], b) /\ (b \in cache[g] \/ Loading(g, b))))'
      BY <1>2 DEF BlockAt
    <3>1. queue'[g] = Append(queue[g], s) /\ queue[g] \in Seq(Signal) /\ b \in Agent BY <1>2
    <3>2. /\ s = <<b, TRUE>> => LastSays(Append(queue[g], s), b, TRUE)
          /\ s[1] # b /\ LastSays(queue[g], b, TRUE) => LastSays(Append(queue[g], s), b, TRUE)
          /\ s[1] # b /\ Silent(queue[g], b) => Silent(Append(queue[g], s), b)
      <4>1. TRUE \in BOOLEAN OBVIOUS
      <4> QED BY <1>1, <3>1, <4>1, AppendSays, Zenon
    <3>3. CASE b = s[1]
      <4>1. s = <<b, TRUE>> BY <1>1, <3>3
      <4> QED BY <3>2, <3>1, <4>1
    <3>4. CASE b # s[1]
      <4>1. LastSays(queue[g], b, TRUE) \/ (Silent(queue[g], b) /\ (b \in cache[g] \/ Loading(g, b)))
        BY <1>5, <3>4 DEF AtGateway, BlockAt
      <4>2. LastSays(queue'[g], b, TRUE) \/ (Silent(queue'[g], b) /\ (b \in cache[g] \/ Loading(g, b)))
        BY <3>2, <3>1, <3>4, <4>1
      <4> QED BY <1>2, <4>2 DEF Loading
    <3> QED BY <3>3, <3>4
  <2>3. SettledAt(g)' BY <1>2 DEF AtGateway, SettledAt, InService
  <2>4. ChangeAt(g)'
    <3> SUFFICES ASSUME NEW b \in settled[g]
                 PROVE  ( \/ \E v \in BOOLEAN : LastSays(queue[g], b, v) /\ (v <=> b \in db)
                          \/ Silent(queue[g], b) /\ (b \in cache[g] <=> b \in db))'
      BY <1>2 DEF ChangeAt
    <3>1. g \in subscribed BY DEF AtGateway, SettledAt, InService
    <3>2. queue'[g] = Append(queue[g], s) /\ queue[g] \in Seq(Signal) /\ b \in Agent BY <1>2, <3>1
    <3>3. CASE b = s[1]
      <4>1. s = <<b, s[2]>> BY <1>1, <3>3
      <4>2. LastSays(queue'[g], b, s[2]) BY <1>1, <3>2, <4>1, AppendSays
      <4> QED BY <1>1, <1>2, <3>3, <4>2
    <3>4. CASE b # s[1]
      <4>1. \/ \E v \in BOOLEAN : LastSays(queue[g], b, v) /\ (v <=> b \in db)
            \/ Silent(queue[g], b) /\ (b \in cache[g] <=> b \in db)
        BY <1>5, <3>4 DEF AtGateway, ChangeAt
      <4>2. \/ \E v \in BOOLEAN : LastSays(queue'[g], b, v) /\ (v <=> b \in db)
            \/ Silent(queue'[g], b) /\ (b \in cache[g] <=> b \in db)
        BY <1>1, <3>2, <3>4, <4>1, AppendSays
      <4> QED BY <1>2, <4>2
    <3> QED BY <3>3, <3>4
  <2> QED BY <2>1, <2>2, <2>3, <2>4 DEF AtGateway
<1> QED BY <1>4, <1>6

LEMMA PublishFailedIInv ==
  ASSUME IInv, NEW o \in Op, PublishFailed(o), Typed'
  PROVE  IInv'
<1> USE DEF IInv, Typed, TypeOK
<1> DEFINE x == signal[o][1]
<1>1. /\ opPc[o] = "publishing" /\ \A p \in Op : opPc[p] = "publishing" => p = o
  BY DEF PublishFailed, OneCall
<1>2. /\ opPc' = [opPc EXCEPT ![o] = "done"] /\ missed' = Gateway
      /\ settled' = [g \in Gateway |-> settled[g] \ {x}]
      /\ UNCHANGED <<db, pc, snap, subscribed, queue, cache>>
  BY DEF PublishFailed
<1>3. \A p \in Op : opPc'[p] # "publishing" BY <1>1, <1>2
<1>4. OneCall' /\ SignalTrue' BY <1>3 DEF OneCall, SignalTrue
<1>5. ASSUME NEW b, b # x PROVE ~Pending(b) BY <1>1, <1>5 DEF Pending
<1> HIDE DEF x
<1>6. ASSUME NEW g \in Gateway PROVE AtGateway(g)'
  <2>1. FreshAt(g)' BY <1>2 DEF AtGateway, FreshAt
  <2>2. BlockAt(g)' BY <1>2 DEF BlockAt
  <2>3. SettledAt(g)' BY <1>2 DEF AtGateway, SettledAt, InService
  <2>4. ChangeAt(g)'
    <3> SUFFICES ASSUME NEW b \in settled'[g]
                 PROVE  ( \/ \E v \in BOOLEAN : LastSays(queue[g], b, v) /\ (v <=> b \in db)
                          \/ Silent(queue[g], b) /\ (b \in cache[g] <=> b \in db))'
      BY DEF ChangeAt
    <3>1. b \in settled[g] /\ b # x BY <1>2
    <3>2. \/ \E v \in BOOLEAN : LastSays(queue[g], b, v) /\ (v <=> b \in db)
          \/ Silent(queue[g], b) /\ (b \in cache[g] <=> b \in db)
      BY <1>5, <3>1 DEF AtGateway, ChangeAt
    <3> QED BY <1>2, <3>2
  <2> QED BY <2>1, <2>2, <2>3, <2>4 DEF AtGateway
<1> QED BY <1>4, <1>6

-----------------------------------------------------------------------------
(* A step of one gateway leaves the console and the other gateways alone.   *)
LEMMA GatewayStep ==
  ASSUME IInv, Typed', NEW g \in Gateway, UNCHANGED opVars,
         \A h \in Gateway : h # g =>
           /\ pc'[h] = pc[h] /\ snap'[h] = snap[h] /\ queue'[h] = queue[h] /\ cache'[h] = cache[h]
           /\ settled'[h] = settled[h]
           /\ (h \in subscribed' <=> h \in subscribed) /\ (h \in missed' <=> h \in missed),
         AtGateway(g)'
  PROVE  IInv'
<1> USE DEF IInv, opVars
<1>1. OneCall' /\ SignalTrue' BY DEF OneCall, SignalTrue
<1>2. ASSUME NEW h \in Gateway, h # g PROVE AtGateway(h)'
  <2>1. /\ pc'[h] = pc[h] /\ snap'[h] = snap[h] /\ queue'[h] = queue[h] /\ cache'[h] = cache[h]
        /\ settled'[h] = settled[h] /\ db' = db
        /\ (h \in subscribed' <=> h \in subscribed) /\ (h \in missed' <=> h \in missed)
    BY <1>2
  <2>2. \A a : Pending(a)' <=> Pending(a) BY DEF Pending
  <2>3. \A a : Loading(h, a)' <=> Loading(h, a) BY <2>1 DEF Loading
  <2>4. AtGateway(h) BY <1>2
  <2> QED BY <2>1, <2>2, <2>3, <2>4 DEF AtGateway, FreshAt, BlockAt, SettledAt, InService, ChangeAt
<1> QED BY <1>1, <1>2

\* A gateway that is not in service has nothing settled.
LEMMA NotInService ==
  ASSUME IInv, NEW g \in Gateway, ~InService(g)
  PROVE  settled[g] = {}
BY DEF IInv, AtGateway, SettledAt

\* A gateway without subscription, or which missed something, promises nothing of blocks.
LEMMA Promises ==
  ASSUME NEW g \in Gateway, g \notin subscribed' \/ g \in missed', settled'[g] = {}, FreshAt(g)'
  PROVE  AtGateway(g)'
BY DEF AtGateway, BlockAt, SettledAt, ChangeAt

(* A process that starts anew.                                              *)
LEMMA RestartIInv ==
  ASSUME IInv, Typed', NEW g \in Gateway, ProcessRestarts(g), UNCHANGED opVars
  PROVE  IInv'
<1> USE DEF IInv, Typed, TypeOK
<1>1. /\ pc' = [pc EXCEPT ![g] = Starting] /\ snap' = [snap EXCEPT ![g] = [p \in Proc |-> {}]]
      /\ subscribed' = subscribed \ {g} /\ queue' = [queue EXCEPT ![g] = <<>>]
      /\ cache' = [cache EXCEPT ![g] = {}] /\ settled' = [settled EXCEPT ![g] = {}] /\ missed' = missed
  BY DEF ProcessRestarts
<1>2. FreshAt(g)' BY <1>1 DEF FreshAt
<1>3. AtGateway(g)' BY <1>1, <1>2, Promises
<1> QED BY <1>1, <1>3, GatewayStep

(* The steps of Init.                                                       *)
LEMMA ReadListIInv ==
  ASSUME IInv, Typed', NEW g \in Gateway, NEW p \in Proc, ReadList(g, p)
  PROVE  IInv'
<1> USE DEF IInv, Typed, TypeOK
<1>1. /\ pc[g][p] = "reading" /\ pc' = [pc EXCEPT ![g][p] = "applying"]
      /\ snap' = [snap EXCEPT ![g][p] = db]
      /\ missed' = IF g \in subscribed /\ queue[g] = <<>> THEN missed \ {g} ELSE missed
      /\ UNCHANGED <<db, opPc, signal, subscribed, queue, cache, settled>>
  BY DEF ReadList, Goto, opVars
<1>2. settled[g] = {} BY <1>1, NotInService DEF InService, Proc
<1>3. FreshAt(g)' BY <1>1 DEF AtGateway, FreshAt, Proc
<1>4. BlockAt(g)'
  <2> SUFFICES ASSUME g \in subscribed \ missed', NEW a \in db
               PROVE  (Pending(a) \/ LastSays(queue[g], a, TRUE) \/ (Silent(queue[g], a) /\ Loading(g, a)))'
    BY <1>1 DEF BlockAt
  <2>1. Loading(g, a)' BY <1>1 DEF Loading
  <2>2. CASE queue[g] = <<>>
    <3>1. Silent(<<>>, a) /\ queue'[g] = <<>> BY <1>1, <2>2, NothingSays
    <3> QED BY <2>1, <3>1
  <2>3. CASE g \notin missed
    <3>1. Pending(a) \/ LastSays(queue[g], a, TRUE) \/ Silent(queue[g], a)
      BY <2>3 DEF AtGateway, BlockAt
    <3> QED BY <1>1, <2>1, <3>1 DEF Pending
  <2> QED BY <1>1, <2>2, <2>3
<1>5. AtGateway(g)' BY <1>1, <1>2, <1>3, <1>4 DEF AtGateway, SettledAt, ChangeAt
<1> QED BY <1>1, <1>5, GatewayStep DEF opVars

LEMMA UpdateL1IInv ==
  ASSUME IInv, Typed', NEW g \in Gateway, NEW p \in Proc, UpdateL1(g, p)
  PROVE  IInv'
<1> USE DEF IInv, Typed, TypeOK
<1>1. /\ pc[g][p] = "applying" /\ pc' = [pc EXCEPT ![g][p] = "warming"]
      /\ cache' = [cache EXCEPT ![g] = @ \cup snap[g][p]]
      /\ UNCHANGED <<db, opPc, signal, snap, subscribed, queue, settled, missed>>
  BY DEF UpdateL1, Goto, opVars, history
<1>2. settled[g] = {} BY <1>1, NotInService DEF InService, Proc
<1>3. FreshAt(g)' BY <1>1 DEF AtGateway, FreshAt, Proc
<1>4. BlockAt(g)'
  <2> SUFFICES ASSUME g \in subscribed \ missed, NEW a \in db
               PROVE  ( \/ Pending(a) \/ LastSays(queue[g], a, TRUE)
                        \/ Silent(queue[g], a) /\ (a \in cache[g] \/ Loading(g, a)))'
    BY <1>1 DEF BlockAt
  <2>1. \/ Pending(a) \/ LastSays(queue[g], a, TRUE)
        \/ Silent(queue[g], a) /\ (a \in cache[g] \/ Loading(g, a))
    BY DEF AtGateway, BlockAt
  <2>2. a \in cache[g] \/ Loading(g, a) => (a \in cache[g] \/ Loading(g, a))'
    BY <1>1 DEF Loading
  <2>3. Pending(a)' <=> Pending(a) BY <1>1 DEF Pending
  <2> QED BY <1>1, <2>1, <2>2, <2>3
<1>5. AtGateway(g)' BY <1>1, <1>2, <1>3, <1>4 DEF AtGateway, SettledAt, ChangeAt
<1> QED BY <1>1, <1>5, GatewayStep DEF opVars

\* A goroutine that has put its list into the cache finishes its Init.
LEMMA WarmIInv ==
  ASSUME IInv, Typed', NEW g \in Gateway, NEW p \in Proc, pc[g][p] = "warming",
         pc' = [pc EXCEPT ![g][p] = "ready"], snap' = [snap EXCEPT ![g][p] = {}],
         UNCHANGED <<opVars, subscribed, queue, cache, history>>
  PROVE  IInv'
<1> USE DEF IInv, Typed, TypeOK, opVars, history
<1>1. settled[g] = {} BY NotInService DEF InService, Proc
<1>2. FreshAt(g)' BY DEF AtGateway, FreshAt, Proc
<1>3. BlockAt(g)'
  <2> SUFFICES ASSUME g \in subscribed \ missed, NEW a \in db
               PROVE  ( \/ Pending(a) \/ LastSays(queue[g], a, TRUE)
                        \/ Silent(queue[g], a) /\ (a \in cache[g] \/ Loading(g, a)))'
    BY DEF BlockAt
  <2>1. \/ Pending(a) \/ LastSays(queue[g], a, TRUE)
        \/ Silent(queue[g], a) /\ (a \in cache[g] \/ Loading(g, a))
    BY DEF AtGateway, BlockAt
  <2>2. Loading(g, a) => Loading(g, a)' BY DEF Loading
  <2>3. Pending(a)' <=> Pending(a) BY DEF Pending
  <2> QED BY <2>1, <2>2, <2>3
<1>4. AtGateway(g)' BY <1>1, <1>2, <1>3 DEF AtGateway, SettledAt, ChangeAt
<1> QED BY <1>4, GatewayStep

\* A listener whose Init failed goes on without the list.
LEMMA ListenerFailedIInv ==
  ASSUME IInv, Typed', NEW g \in Gateway, pc[g]["listener"] = "reading",
         pc' = [pc EXCEPT ![g]["listener"] = "ready"], missed' = missed \cup {g},
         UNCHANGED <<opVars, snap, subscribed, queue, cache, settled>>
  PROVE  IInv'
<1> USE DEF IInv, Typed, TypeOK
<1>1. settled[g] = {} BY NotInService DEF InService
<1>2. FreshAt(g)' BY DEF FreshAt, Proc
<1>3. AtGateway(g)' BY <1>1, <1>2, Promises
<1> QED BY <1>3, GatewayStep

LEMMA InitStepIInv ==
  ASSUME IInv, Typed', NEW g \in Gateway, NEW p \in Proc, InitStep(g, p)
  PROVE  IInv'
<1>1. CASE WarmL2(g, p) BY <1>1, WarmIInv DEF WarmL2, Goto
<1>2. CASE InitFailed(g, p)
  <2>1. CASE Restarted(g) BY <2>1, RestartIInv DEF Restarted
  <2>2. CASE ~Restarted(g) BY <1>2, <2>2, ListenerFailedIInv DEF InitFailed, Goto
  <2> QED BY <2>1, <2>2
<1>3. CASE WarmFailed(g, p)
  <2>1. CASE ProcessRestarts(g) BY <1>3, <2>1, RestartIInv DEF WarmFailed
  <2>2. CASE ~ProcessRestarts(g) BY <1>3, <2>2, WarmIInv DEF WarmFailed, Goto
  <2> QED BY <2>1, <2>2
<1> QED BY <1>1, <1>2, <1>3, ReadListIInv, UpdateL1IInv DEF InitStep

-----------------------------------------------------------------------------
(* The listener.                                                            *)
LEMMA SubscribeIInv ==
  ASSUME IInv, Typed', NEW g \in Gateway, Subscribe(g)
  PROVE  IInv'
<1> USE DEF IInv, Typed, TypeOK
<1>1. /\ pc[g]["listener"] = "subscribing" /\ pc' = [pc EXCEPT ![g]["listener"] = "reading"]
      /\ subscribed' = subscribed \cup {g}
      /\ UNCHANGED <<db, opPc, signal, snap, queue, cache, settled, missed>>
  BY DEF Subscribe, Goto, opVars, history
<1>2. queue[g] = <<>> BY <1>1 DEF AtGateway, FreshAt
<1>3. settled[g] = {} BY <1>1, NotInService DEF InService
<1>4. FreshAt(g)' BY <1>1 DEF FreshAt, Proc
<1>5. BlockAt(g)'
  <2>1. \A a : Silent(queue[g], a)' BY <1>1, <1>2, NothingSays
  <2>2. \A a : Loading(g, a)' BY <1>1 DEF Loading, Proc
  <2> QED BY <2>1, <2>2 DEF BlockAt
<1>6. AtGateway(g)' BY <1>1, <1>3, <1>4, <1>5 DEF AtGateway, SettledAt, ChangeAt
<1> QED BY <1>1, <1>6, GatewayStep DEF opVars

LEMMA ApplySignalIInv ==
  ASSUME IInv, Typed', NEW g \in Gateway, ApplySignal(g)
  PROVE  IInv'
<1> USE DEF IInv, Typed, TypeOK
<1> DEFINE q == queue[g]
           s == Head(q)
<1>1. q \in Seq(Signal) /\ q # <<>> /\ pc[g]["listener"] = "ready" BY DEF ApplySignal
<1>2. s \in Signal /\ s[1] \in Agent /\ s[2] \in BOOLEAN
  <2>1. s \in Signal BY <1>1, HeadTailProperties
  <2> QED BY <2>1 DEF Signal
<1>3. /\ cache' = [cache EXCEPT ![g] = IF s[2] THEN @ \cup {s[1]} ELSE @ \ {s[1]}]
      /\ queue' = [queue EXCEPT ![g] = Tail(q)]
      /\ UNCHANGED <<db, opPc, signal, pc, snap, subscribed, settled, missed>>
  BY DEF ApplySignal, opVars, history
<1>4. queue'[g] = Tail(q) /\ cache'[g] = IF s[2] THEN cache[g] \cup {s[1]} ELSE cache[g] \ {s[1]}
  BY <1>3
\* The last news of an agent is still waiting, or the cache has it now.
<1>5. ASSUME NEW a \in Agent, NEW on \in BOOLEAN, LastSays(q, a, on)
      PROVE  LastSays(queue'[g], a, on) \/ (Silent(queue'[g], a) /\ (a \in cache'[g] <=> on))
  <2>1. LastSays(Tail(q), a, on) \/ (s = <<a, on>> /\ Silent(Tail(q), a)) BY <1>1, <1>5, TailSays
  <2>2. CASE LastSays(Tail(q), a, on) BY <1>4, <2>2
  <2>3. CASE s = <<a, on>> /\ Silent(Tail(q), a) BY <1>4, <2>3
  <2> QED BY <2>1, <2>2, <2>3
<1>6. ASSUME NEW a \in Agent, Silent(q, a)
      PROVE  Silent(queue'[g], a) /\ (a \in cache'[g] <=> a \in cache[g])
  <2>1. s[1] # a /\ Silent(Tail(q), a)
    <3>1. TRUE \in BOOLEAN OBVIOUS
    <3> QED BY <1>1, <1>6, <3>1, TailSays
  <2> QED BY <1>4, <2>1
<1> HIDE DEF q, s
<1>7. \A a : Pending(a)' <=> Pending(a) BY <1>3 DEF Pending
<1>8. \A a : Loading(g, a)' <=> Loading(g, a) BY <1>3 DEF Loading
<1>9. FreshAt(g)' /\ SettledAt(g)'
  BY <1>1, <1>3 DEF AtGateway, FreshAt, SettledAt, InService
<1>10. BlockAt(g)'
  <2> SUFFICES ASSUME g \in subscribed \ missed, NEW a \in db
               PROVE  ( \/ Pending(a) \/ LastSays(queue[g], a, TRUE)
                        \/ Silent(queue[g], a) /\ (a \in cache[g] \/ Loading(g, a)))'
    BY <1>3 DEF BlockAt
  <2>1. \/ Pending(a) \/ LastSays(q, a, TRUE)
        \/ Silent(q, a) /\ (a \in cache[g] \/ Loading(g, a))
    BY DEF AtGateway, BlockAt, q
  <2>2. CASE LastSays(q, a, TRUE)
    <3>1. a \in Agent /\ TRUE \in BOOLEAN OBVIOUS
    <3>2. LastSays(queue'[g], a, TRUE) \/ (Silent(queue'[g], a) /\ (a \in cache'[g] <=> TRUE))
      BY <1>5, <2>2, <3>1, Zenon
    <3> QED BY <3>2
  <2>3. CASE Silent(q, a) /\ (a \in cache[g] \/ Loading(g, a))
    BY <1>6, <1>8, <2>3
  <2> QED BY <1>7, <2>1, <2>2, <2>3
<1>11. ChangeAt(g)'
  <2> SUFFICES ASSUME NEW a \in settled[g]
               PROVE  ( \/ Pending(a)
                        \/ \E on \in BOOLEAN : LastSays(queue[g], a, on) /\ (on <=> a \in db)
                        \/ Silent(queue[g], a) /\ (a \in cache[g] <=> a \in db))'
    BY <1>3 DEF ChangeAt
  <2>1. a \in Agent OBVIOUS
  <2>2. \/ Pending(a)
        \/ \E on \in BOOLEAN : LastSays(q, a, on) /\ (on <=> a \in db)
        \/ Silent(q, a) /\ (a \in cache[g] <=> a \in db)
    BY DEF AtGateway, ChangeAt, q
  <2>3. ASSUME NEW on \in BOOLEAN, LastSays(q, a, on), on <=> a \in db
        PROVE  \/ LastSays(queue'[g], a, on) /\ (on <=> a \in db')
               \/ Silent(queue'[g], a) /\ (a \in cache'[g] <=> a \in db')
    BY <1>3, <1>5, <2>1, <2>3
  <2>4. CASE Silent(q, a) /\ (a \in cache[g] <=> a \in db) BY <1>3, <1>6, <2>1, <2>4
  <2> QED BY <1>7, <2>2, <2>3, <2>4
<1>12. AtGateway(g)' BY <1>9, <1>10, <1>11 DEF AtGateway
<1> QED BY <1>3, <1>12, GatewayStep DEF opVars

(* Breaks, noticed and unnoticed.                                           *)
LEMMA BreakIInv ==
  ASSUME IInv, Typed', NEW g \in Gateway, Drop(g) \/ SilentReconnect(g) \/ Resubscribe(g) \/ ListenerEnds(g)
  PROVE  IInv'
<1> USE DEF IInv, Typed, TypeOK
<1>1. CASE Drop(g)
  <2>1. /\ g \in subscribed /\ subscribed' = subscribed \ {g}
        /\ \E n \in 0..Len(queue[g]) : queue' = [queue EXCEPT ![g] = SubSeq(@, 1, n)]
        /\ settled' = [settled EXCEPT ![g] = {}]
        /\ UNCHANGED <<db, opPc, signal, pc, snap, cache, missed>>
    BY <1>1 DEF Drop, opVars
  <2>2. FreshAt(g)' BY <2>1 DEF AtGateway, FreshAt
  <2>3. AtGateway(g)' BY <2>1, <2>2, Promises
  <2> QED BY <2>1, <2>3, GatewayStep DEF opVars
<1>2. CASE SilentReconnect(g)
  <2>1. /\ pc[g]["listener"] # "subscribing" /\ g \notin subscribed
        /\ subscribed' = subscribed \cup {g} /\ missed' = missed \cup {g}
        /\ UNCHANGED <<db, opPc, signal, pc, snap, queue, cache, settled>>
    BY <1>2 DEF SilentReconnect, opVars
  <2>2. settled'[g] = {} BY <2>1, NotInService DEF InService
  <2>3. FreshAt(g)' BY <2>1 DEF FreshAt
  <2>4. AtGateway(g)' BY <2>1, <2>2, <2>3, Promises
  <2> QED BY <2>1, <2>4, GatewayStep DEF opVars
<1>3. CASE Resubscribe(g)
  <2>1. /\ g \notin subscribed /\ queue[g] = <<>> /\ pc' = [pc EXCEPT ![g]["listener"] = "subscribing"]
        /\ UNCHANGED <<db, opPc, signal, snap, subscribed, queue, cache, settled, missed>>
    BY <1>3 DEF Resubscribe, Goto, opVars, history
  <2>2. settled'[g] = {} BY <2>1, NotInService DEF InService
  <2>3. FreshAt(g)' BY <2>1 DEF FreshAt
  <2>4. AtGateway(g)' BY <2>1, <2>2, <2>3, Promises
  <2> QED BY <2>1, <2>4, GatewayStep DEF opVars
<1>4. CASE ListenerEnds(g)
  <2>1. /\ pc' = [pc EXCEPT ![g]["listener"] = "ended"] /\ snap' = [snap EXCEPT ![g]["listener"] = {}]
        /\ subscribed' = subscribed \ {g} /\ queue' = [queue EXCEPT ![g] = <<>>]
        /\ settled' = [settled EXCEPT ![g] = {}]
        /\ UNCHANGED <<db, opPc, signal, cache, missed>>
    BY <1>4 DEF ListenerEnds, Goto, opVars
  <2>2. FreshAt(g)' BY <2>1 DEF FreshAt
  <2>3. AtGateway(g)' BY <2>1, <2>2, Promises
  <2> QED BY <2>1, <2>3, GatewayStep DEF opVars
<1> QED BY <1>1, <1>2, <1>3, <1>4

-----------------------------------------------------------------------------
(* Every step keeps the invariant.                                          *)
LEMMA NextIInv == OneOperator /\ IInv /\ [Next]_vars => IInv'
<1> SUFFICES ASSUME OneOperator, IInv, [Next]_vars PROVE IInv'
  OBVIOUS
<1>1. Typed' BY NextTyped DEF IInv
<1>2. ASSUME NEW o \in Op, Operator(o) PROVE IInv'
  BY <1>1, <1>2, UpdateIInv, UpdateFailedIInv, PublishIInv, PublishFailedIInv DEF Operator
<1>3. ASSUME NEW g \in Gateway,
             \/ \E p \in Proc : InitStep(g, p)
             \/ Listener(g) \/ Drop(g) \/ SilentReconnect(g) \/ ListenerEnds(g) \/ Restart(g)
      PROVE  IInv'
  <2>1. CASE Restart(g) BY <1>1, <2>1, RestartIInv DEF Restart, Restarted
  <2> QED BY <1>1, <1>3, <2>1, InitStepIInv, SubscribeIInv, ApplySignalIInv, BreakIInv DEF Listener
<1>4. CASE LockExpires \/ UNCHANGED vars
  <2>1. UNCHANGED <<db, opPc, signal, pc, snap, subscribed, queue, cache, settled, missed>>
    BY <1>4 DEF LockExpires, vars, opVars, history
  <2>2. OneCall' /\ SignalTrue' BY <2>1 DEF IInv, OneCall, SignalTrue
  <2>3. ASSUME NEW g \in Gateway PROVE AtGateway(g)'
    <3>1. \A a : Pending(a)' <=> Pending(a) BY <2>1 DEF Pending
    <3>2. \A a : Loading(g, a)' <=> Loading(g, a) BY <2>1 DEF Loading
    <3>3. /\ db' = db /\ pc'[g] = pc[g] /\ queue'[g] = queue[g] /\ cache'[g] = cache[g]
          /\ settled'[g] = settled[g]
          /\ (g \in subscribed' <=> g \in subscribed) /\ (g \in missed' <=> g \in missed)
      BY <2>1
    <3>4. AtGateway(g) BY DEF IInv
    <3> QED BY <3>1, <3>2, <3>3, <3>4 DEF AtGateway, FreshAt, BlockAt, SettledAt, InService, ChangeAt
  <2> QED BY <1>1, <2>2, <2>3 DEF IInv
<1> QED BY <1>2, <1>3, <1>4 DEF Next, Terminated

LEMMA Invariance == OneOperator => (Spec => []IInv)
<1> SUFFICES ASSUME OneOperator PROVE Spec => []IInv
  OBVIOUS
<1>1. Init => IInv BY InitIInv
<1>2. IInv /\ [Next]_vars => IInv' BY NextIInv
<1> QED BY <1>1, <1>2, PTL DEF Spec

\* At rest nothing is under way.
LEMMA RestIsQuiet ==
  ASSUME NEW g \in Gateway, AtRest(g), NEW a
  PROVE  ~Pending(a) /\ ~Loading(g, a) /\ \A on : ~LastSays(queue[g], a, on)
BY DEF AtRest, InService, Pending, Loading, LastSays, Proc

(* With one operator at a time a gateway at rest that has missed nothing    *)
(* holds every agent the database lists.                                    *)
THEOREM NoBlockOverlooked == OneOperator => (Spec => []NoBlockMissed)
<1>1. IInv => NoBlockMissed
  <2> SUFFICES ASSUME IInv, NEW g \in Gateway \ missed, AtRest(g), NEW a \in db
               PROVE  a \in cache[g]
    BY DEF NoBlockMissed
  <2>1. g \in subscribed \ missed BY DEF AtRest, InService
  <2>2. Pending(a) \/ LastSays(queue[g], a, TRUE) \/ a \in cache[g] \/ Loading(g, a)
    BY <2>1 DEF IInv, AtGateway, BlockAt
  <2>3. ~LastSays(queue[g], a, TRUE)
    <3>1. queue[g] = <<>> BY DEF AtRest
    <3> QED BY <3>1 DEF LastSays
  <2> QED BY <2>2, <2>3, RestIsQuiet
<1> QED BY <1>1, Invariance, PTL

(* With one operator at a time what was changed in service is in the cache  *)
(* as it is in the database.                                                *)
THEOREM ChangesArrive == OneOperator => (Spec => []LiveChangesArrive)
<1>1. IInv => LiveChangesArrive
  <2> SUFFICES ASSUME IInv, NEW g \in Gateway, AtRest(g), NEW a \in settled[g]
               PROVE  a \in cache[g] <=> a \in db
    BY DEF LiveChangesArrive
  <2> QED BY RestIsQuiet DEF IInv, AtGateway, ChangeAt
<1> QED BY <1>1, Invariance, PTL
=============================================================================
