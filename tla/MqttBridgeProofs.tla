-------------------------- MODULE MqttBridgeProofs --------------------------
(***************************************************************************)
(* Theorems about MqttBridge, for any number of message goroutines, any    *)
(* capacity of the trigger channel and any number of retries.              *)
(***************************************************************************)
EXTENDS MqttBridge, TLAPS

\* A Stop that came after Run had reached wg.Add, or given up, finds no Run that
\* could still start a worker; once it has waited, the worker is gone.
WorkerIsGone ==
    ~early => /\ Done => run \notin {"connect", "connected"}
              /\ stop \in {"disconnect", "stopped"} => worker \in {"none", "exited"}

Booleans == {broker, will, subscribed, early, owed} \subseteq BOOLEAN

BridgeInv == TypeOK /\ NoLostTrigger /\ WorkerIsGone

LEMMA BridgeInit == Init => BridgeInv
<1> SUFFICES ASSUME Init PROVE BridgeInv
  OBVIOUS
<1>1. Booleans
  BY Zenon DEF Init, Booleans
<1>2. TypeOK
  BY <1>1, BridgeAssumption DEF Init, TypeOK, Booleans
<1>3. NoLostTrigger /\ WorkerIsGone
  BY DEF Init, NoLostTrigger, WorkerIsGone, Done
<1> QED BY <1>2, <1>3 DEF BridgeInv

\* The steps of onMessage: each leaves the channel filled, or another call of it
\* about to fill it.
LEMMA OnMessageKeepsTrigger ==
    ASSUME BridgeInv, NEW h \in Handlers, Arrive(h) \/ OnMessage(h)
    PROVE  BridgeInv'
<1> USE BridgeAssumption DEF BridgeInv, link
<1>1. CASE Arrive(h)
  <2>1. TypeOK'
    BY <1>1 DEF Arrive, TypeOK
  <2>2. handler'[h] = "arrived"
    BY <1>1 DEF Arrive, TypeOK
  <2>3. NoLostTrigger'
    BY <2>2 DEF NoLostTrigger
  <2>4. WorkerIsGone'
    BY <1>1 DEF Arrive, WorkerIsGone, Done
  <2> QED BY <2>1, <2>3, <2>4
<1>2. CASE TryEnqueue(h)
  <2>1. TypeOK'
    BY <1>2 DEF TryEnqueue, TypeOK
  <2>2. queue' > 0
    BY <1>2 DEF TryEnqueue, TypeOK
  <2>3. NoLostTrigger'
    BY <2>2 DEF NoLostTrigger
  <2>4. WorkerIsGone'
    BY <1>2 DEF TryEnqueue, WorkerIsGone, Done
  <2> QED BY <2>1, <2>3, <2>4
<1>3. CASE DropOldest(h)
  <2>1. TypeOK'
    BY <1>3 DEF DropOldest, TypeOK
  <2>2. NoLostTrigger'
    <3>1. CASE queue > 0
      <4>1. handler'[h] = "dropped"
        BY <1>3, <3>1 DEF DropOldest, TypeOK
      <4> QED BY <4>1 DEF NoLostTrigger
    <3>2. CASE ~(queue > 0)
      <4>1. \A g \in Handlers : handler[g] \in {"arrived", "dropped"} => handler'[g] = handler[g]
        BY <1>3, <3>2 DEF DropOldest, TypeOK
      <4>2. owed' = owed /\ queue' = queue
        BY <1>3, <3>2 DEF DropOldest
      <4> QED BY <3>2, <4>1, <4>2 DEF NoLostTrigger
    <3> QED BY <3>1, <3>2
  <2>3. WorkerIsGone'
    BY <1>3 DEF DropOldest, WorkerIsGone, Done
  <2> QED BY <2>1, <2>2, <2>3
<1>4. CASE Requeue(h)
  <2>1. TypeOK'
    BY <1>4 DEF Requeue, TypeOK
  <2>2. queue' > 0
    BY <1>4 DEF Requeue, TypeOK
  <2>3. NoLostTrigger'
    BY <2>2 DEF NoLostTrigger
  <2>4. WorkerIsGone'
    BY <1>4 DEF Requeue, WorkerIsGone, Done
  <2> QED BY <2>1, <2>3, <2>4
<1> QED BY <1>1, <1>2, <1>3, <1>4 DEF OnMessage

\* The worker: a check that starts answers every trigger so far.
LEMMA WorkerKeepsInv ==
    ASSUME BridgeInv, Worker
    PROVE  BridgeInv'
<1> USE BridgeAssumption DEF BridgeInv, link
<1>1. CASE StartCheck
  <2>1. Booleans'
    BY <1>1, Zenon DEF StartCheck, TypeOK, Booleans
  <2>2. TypeOK'
    BY <1>1, <2>1 DEF StartCheck, TypeOK, Booleans
  <2>3. NoLostTrigger' /\ WorkerIsGone'
    BY <1>1 DEF StartCheck, TypeOK, NoLostTrigger, WorkerIsGone, Done
  <2> QED BY <2>2, <2>3
<1>2. CASE FinishCheck
  BY <1>2 DEF FinishCheck, TypeOK, NoLostTrigger, WorkerIsGone, Done
<1>3. CASE SeeDone
  BY <1>3 DEF SeeDone, TypeOK, NoLostTrigger, WorkerIsGone, Done
<1> QED BY <1>1, <1>2, <1>3 DEF Worker

\* Run and Stop: a worker is started by a Run that had not reached wg.Add, and
\* Stop gets past wg.Wait only without a worker.
LEMMA RunAndStopKeepInv ==
    ASSUME BridgeInv, Run \/ BeginStop \/ Stop
    PROVE  BridgeInv'
<1> USE BridgeAssumption DEF BridgeInv, link
<1>1. CASE Connect
  BY <1>1 DEF Connect, Connected, TypeOK, NoLostTrigger, WorkerIsGone, Done
<1>2. CASE ConnectFails
  BY <1>2 DEF ConnectFails, TypeOK, NoLostTrigger, WorkerIsGone, Done
<1>7. CASE StartWorker
  BY <1>7 DEF StartWorker, TypeOK, NoLostTrigger, WorkerIsGone, Done
<1>3. CASE ReturnFromRun
  BY <1>3 DEF ReturnFromRun, TypeOK, NoLostTrigger, WorkerIsGone, Done
<1>4. CASE BeginStop
  <2>0. early' \in BOOLEAN
    BY <1>4 DEF BeginStop
  <2>1. Booleans'
    BY <1>4, <2>0, Zenon DEF BeginStop, TypeOK, Booleans
  <2>2. TypeOK'
    BY <1>4, <2>1 DEF BeginStop, TypeOK, Booleans
  <2>3. NoLostTrigger' /\ WorkerIsGone'
    BY <1>4 DEF BeginStop, TypeOK, NoLostTrigger, WorkerIsGone, Done
  <2> QED BY <2>2, <2>3
<1>5. CASE PublishOffline
  BY <1>5 DEF PublishOffline, TypeOK, NoLostTrigger, WorkerIsGone, Done
<1>6. CASE Disconnect
  <2>1. TypeOK'
    BY <1>6 DEF Disconnect, TypeOK
  <2>2. NoLostTrigger' /\ WorkerIsGone'
    BY <1>6 DEF Disconnect, NoLostTrigger, WorkerIsGone, Done
  <2> QED BY <2>1, <2>2
<1> QED BY <1>1, <1>2, <1>3, <1>4, <1>5, <1>6, <1>7 DEF Run, Stop

\* The connection comes and goes without touching channel or worker.
LEMMA LinkKeepsInv ==
    ASSUME BridgeInv, OnConnect \/ Lose \/ Reconnect \/ PublishWill \/ BrokerChanges
    PROVE  BridgeInv'
<1> USE BridgeAssumption DEF BridgeInv
<1>1. CASE Announce
  BY <1>1 DEF Announce, TypeOK, NoLostTrigger, WorkerIsGone, Done
<1>2. CASE Subscribe
  BY <1>2 DEF Subscribe, TypeOK, NoLostTrigger, WorkerIsGone, Done
<1>3. CASE Lose
  <2>1. Booleans'
    BY <1>3, Zenon DEF Lose, TypeOK, Booleans
  <2>2. TypeOK'
    BY <1>3, <2>1 DEF Lose, TypeOK, Booleans
  <2>3. NoLostTrigger' /\ WorkerIsGone'
    BY <1>3 DEF Lose, TypeOK, NoLostTrigger, WorkerIsGone, Done
  <2> QED BY <2>2, <2>3
<1>4. CASE Reconnect
  <2>1. TypeOK'
    BY <1>4 DEF Reconnect, Connected, TypeOK
  <2>2. NoLostTrigger' /\ WorkerIsGone'
    BY <1>4 DEF Reconnect, Connected, NoLostTrigger, WorkerIsGone, Done
  <2> QED BY <2>1, <2>2
<1>5. CASE PublishWill
  <2>1. Booleans'
    BY <1>5, Zenon DEF PublishWill, TypeOK, Booleans
  <2>2. TypeOK'
    BY <1>5, <2>1 DEF PublishWill, TypeOK, Booleans
  <2>3. NoLostTrigger' /\ WorkerIsGone'
    BY <1>5 DEF PublishWill, TypeOK, NoLostTrigger, WorkerIsGone, Done
  <2> QED BY <2>2, <2>3
<1>6. CASE BrokerChanges
  BY <1>6 DEF BrokerChanges, TypeOK, NoLostTrigger, WorkerIsGone, Done
<1> QED BY <1>1, <1>2, <1>3, <1>4, <1>5, <1>6 DEF OnConnect

LEMMA BridgeStep == BridgeInv /\ [Next]_vars => BridgeInv'
<1> SUFFICES ASSUME BridgeInv, [Next]_vars PROVE BridgeInv'
  OBVIOUS
<1>1. CASE UNCHANGED vars
  BY <1>1 DEF vars, BridgeInv, TypeOK, NoLostTrigger, WorkerIsGone, Done
<1>2. CASE Next
  BY <1>2, OnMessageKeepsTrigger, WorkerKeepsInv, RunAndStopKeepInv, LinkKeepsInv DEF Next
<1> QED BY <1>1, <1>2

LEMMA BridgeInvariance == Spec => []BridgeInv
  BY BridgeInit, BridgeStep, PTL DEF Spec

\* Every variable keeps its type; in particular the channel is never taken from
\* when empty, nor filled above its capacity.
THEOREM BridgeTypes == Spec => []TypeOK
  BY BridgeInvariance, PTL DEF BridgeInv

\* The three selects of onMessage, in any number of goroutines, never drop the
\* last trigger that no check has answered.
THEOREM LastTriggerSurvives == Spec => []NoLostTrigger
  BY BridgeInvariance, PTL DEF BridgeInv

\* No check runs while, or after, Stop publishes "offline", unless Stop was called
\* before Run had reached wg.Add(1).
THEOREM NoCheckOutlivesStop == Spec => []NoCheckAfterStop
<1>1. BridgeInv => NoCheckAfterStop
  BY DEF BridgeInv, WorkerIsGone, NoCheckAfterStop
<1> QED BY <1>1, BridgeInvariance, PTL

\* Whoever reads the availability topic is told "online" only of a client that is
\* connected, or lost so recently that the broker still has to publish its will;
\* the exception is a bridge that Stop has disconnected after an OnConnect call
\* that was late published "online" once more.
OnlineIsConnected == avail = "online" => conn = "up" \/ will \/ stop = "stopped"

THEOREM AvailabilityIsTrue == Spec => []OnlineIsConnected
<1> DEFINE I == OnlineIsConnected
<1>1. Init => I
  BY DEF Init, OnlineIsConnected
<1>2. I /\ [Next]_vars => I'
  <2> SUFFICES ASSUME I, [Next]_vars PROVE I'
    OBVIOUS
  <2>1. UNCHANGED <<avail, conn, will, stop>> => I'
    BY DEF OnlineIsConnected
  <2>2. CASE Connect \/ Reconnect
    BY <2>2 DEF Connect, Reconnect, Connected, OnlineIsConnected
  <2>3. CASE OnConnect
    BY <2>3 DEF OnConnect, Announce, Subscribe, OnlineIsConnected
  <2>4. CASE BeginStop \/ Stop
    BY <2>4 DEF BeginStop, Stop, PublishOffline, Disconnect, link, OnlineIsConnected
  <2>5. CASE Lose \/ PublishWill \/ BrokerChanges
    BY <2>5 DEF Lose, PublishWill, BrokerChanges, OnlineIsConnected
  <2>6. CASE Worker \/ ConnectFails \/ StartWorker \/ ReturnFromRun
    BY <2>1, <2>6 DEF Worker, StartCheck, FinishCheck, SeeDone, ConnectFails, StartWorker,
                     ReturnFromRun, link
  <2>7. ASSUME NEW h \in Handlers, Arrive(h) \/ OnMessage(h) PROVE I'
    BY <2>1, <2>7 DEF Arrive, OnMessage, TryEnqueue, DropOldest, Requeue, link
  <2> QED BY <2>1, <2>2, <2>3, <2>4, <2>5, <2>6, <2>7 DEF Next, Run, vars
<1> QED BY <1>1, <1>2, PTL DEF Spec
=============================================================================
