----------------------------- MODULE MqttBridge -----------------------------
(***************************************************************************)
(* The MQTT bridge: Run connects and starts the worker, onMessage puts     *)
(* triggers into a bounded channel, the worker runs one stream check per   *)
(* element, OnConnect announces and subscribes, Stop shuts all of it down. *)
(*                                                                         *)
(* Triggers carry nothing, so the channel is its length.  Each channel     *)
(* operation is one step; every message has a goroutine of its own         *)
(* (SetOrderMatters(false)), and so has each OnConnect call.  The broker   *)
(* and the paho client are external: the connection may break at any time, *)
(* and paho then reconnects by itself, which it does not do after a        *)
(* Connect that failed.                                                    *)
(***************************************************************************)
EXTENDS Integers

CONSTANTS
    Handlers,     \* goroutines running onMessage
    QueueDepth,   \* capacity of the trigger channel
    Retries       \* how often Run repeats a failed Connect (10)

ASSUME BridgeAssumption ==
    /\ QueueDepth \in Nat \ {0}
    /\ Retries \in Nat

VARIABLES
    broker,      \* does the broker accept connections?
    conn,        \* the paho client: "closed", "up" or "lost" (reconnecting)
    will,        \* the broker still has to publish the client's will
    avail,       \* the retained message of <base>/availability
    onConnect,   \* where the OnConnect call is
    subscribed,  \* the broker delivers triggers on this connection
    run,         \* where Run is
    tries,       \* loop counter of Run's retries
    queue,       \* length of the trigger channel
    handler,     \* where each onMessage call is
    worker,      \* where the worker goroutine is
    stop,        \* where Stop is; done is closed from "wait" on
    early,       \* history: Stop came before Run had reached wg.Add
    owed         \* history: no check has started since the last trigger

vars == <<broker, conn, will, avail, onConnect, subscribed, run, tries, queue,
          handler, worker, stop, early, owed>>
link == <<broker, conn, will, avail, onConnect, subscribed>>

Done == stop # "idle"   \* b.done is closed and b.ctx cancelled

Init ==
    /\ broker \in BOOLEAN
    /\ conn = "closed"
    /\ will = FALSE
    /\ avail = "offline"
    /\ onConnect = "none"
    /\ subscribed = FALSE
    /\ run = "connect"
    /\ tries = 0
    /\ queue = 0
    /\ handler = [h \in Handlers |-> "idle"]
    /\ worker = "none"
    /\ stop = "idle"
    /\ early = FALSE
    /\ owed = FALSE
-----------------------------------------------------------------------------
\* The client has a connection: the broker ends the old one first, publishing
\* its will, and paho calls OnConnect in a new goroutine.
Connected ==
    /\ broker
    /\ conn' = "up"
    /\ will' = FALSE
    /\ avail' = IF will THEN "offline" ELSE avail
    /\ onConnect' = "publish"
    /\ UNCHANGED <<broker, subscribed>>

\* Run: client.Connect() succeeds.
Connect ==
    /\ run = "connect"
    /\ Connected
    /\ run' = "connected"
    /\ UNCHANGED <<tries, queue, handler, worker, stop, early, owed>>

\* Run: wg.Add(1) and go worker(), whatever has become of the connection and of
\* a Stop meanwhile; then Run blocks.
StartWorker ==
    /\ run = "connected"
    /\ run' = "blocked"
    /\ worker' = "select"
    /\ UNCHANGED <<link, tries, queue, handler, stop, early, owed>>

\* Mutant of ConnectFails: one retry too many.
ConnectFails_OneMore ==
    /\ run = "connect"
    /\ ~broker
    /\ IF tries <= Retries
         THEN tries' = tries + 1 /\ UNCHANGED run
         ELSE run' = "failed" /\ UNCHANGED tries
    /\ UNCHANGED <<link, queue, handler, worker, stop, early, owed>>

\* Run: Connect fails; after the last retry Run returns the error and nothing
\* connects again.  Neither this loop nor its sleeps look at b.ctx.
ConnectFails ==
    /\ run = "connect"
    /\ ~broker
    /\ IF tries < Retries
         THEN tries' = tries + 1 /\ UNCHANGED run
         ELSE run' = "failed" /\ UNCHANGED tries
    /\ UNCHANGED <<link, queue, handler, worker, stop, early, owed>>

\* Mutant of Announce: OnConnect leaves subscribing to somebody else.
Announce_Only ==
    /\ onConnect = "publish"
    /\ avail' = IF conn = "up" THEN "online" ELSE avail
    /\ onConnect' = "none"
    /\ UNCHANGED <<broker, conn, will, subscribed, run, tries, queue, handler,
                   worker, stop, early, owed>>

\* OnConnect: Publish "online" (dropped when the connection is gone again), ...
Announce ==
    /\ onConnect = "publish"
    /\ avail' = IF conn = "up" THEN "online" ELSE avail
    /\ onConnect' = "subscribe"
    /\ UNCHANGED <<broker, conn, will, subscribed, run, tries, queue, handler,
                   worker, stop, early, owed>>

\* ... then Subscribe to the trigger topic.
Subscribe ==
    /\ onConnect = "subscribe"
    /\ subscribed' = (conn = "up")
    /\ onConnect' = "none"
    /\ UNCHANGED <<broker, conn, will, avail, run, tries, queue, handler,
                   worker, stop, early, owed>>
-----------------------------------------------------------------------------
\* onMessage is called with a trigger; one with an empty payload is skipped.
Arrive(h) ==
    /\ handler[h] = "idle"
    /\ conn = "up"
    /\ subscribed
    /\ handler' = [handler EXCEPT ![h] = "arrived"]
    /\ owed' = TRUE
    /\ UNCHANGED <<link, run, tries, queue, worker, stop, early>>

\* The first select: enqueue, or find the channel full.
TryEnqueue(h) ==
    /\ handler[h] = "arrived"
    /\ IF queue < QueueDepth
         THEN queue' = queue + 1 /\ handler' = [handler EXCEPT ![h] = "idle"]
         ELSE UNCHANGED queue /\ handler' = [handler EXCEPT ![h] = "full"]
    /\ UNCHANGED <<link, run, tries, worker, stop, early, owed>>

\* Mutant of DropOldest: the new trigger is dropped with the oldest one.
DropOldest_Both(h) ==
    /\ handler[h] = "full"
    /\ queue' = IF queue > 0 THEN queue - 1 ELSE queue
    /\ handler' = [handler EXCEPT ![h] = "idle"]
    /\ UNCHANGED <<link, run, tries, worker, stop, early, owed>>

\* The second select: drop the oldest trigger; if the channel has been emptied
\* meanwhile, the new one is dropped instead.
DropOldest(h) ==
    /\ handler[h] = "full"
    /\ IF queue > 0
         THEN queue' = queue - 1 /\ handler' = [handler EXCEPT ![h] = "dropped"]
         ELSE UNCHANGED queue /\ handler' = [handler EXCEPT ![h] = "idle"]
    /\ UNCHANGED <<link, run, tries, worker, stop, early, owed>>

\* The third select: enqueue, or give up when others have filled the channel.
Requeue(h) ==
    /\ handler[h] = "dropped"
    /\ queue' = IF queue < QueueDepth THEN queue + 1 ELSE queue
    /\ handler' = [handler EXCEPT ![h] = "idle"]
    /\ UNCHANGED <<link, run, tries, worker, stop, early, owed>>

\* The worker's select takes a trigger and the check begins.
StartCheck ==
    /\ worker = "select"
    /\ queue > 0
    /\ queue' = queue - 1
    /\ worker' = "check"
    /\ owed' = FALSE
    /\ UNCHANGED <<link, run, tries, handler, stop, early>>

\* Mutant of FinishCheck: a check that fails ends the worker.
FinishCheck_ExitsOnError ==
    /\ worker = "check"
    /\ worker' \in {"select", "exited"}
    /\ UNCHANGED <<link, run, tries, queue, handler, stop, early, owed>>

\* The check returns, with a result or an error; either is published.
FinishCheck ==
    /\ worker = "check"
    /\ worker' = "select"
    /\ UNCHANGED <<link, run, tries, queue, handler, stop, early, owed>>

\* Mutant of SeeDone: triggers come first.
SeeDone_AfterQueue ==
    /\ worker = "select"
    /\ Done
    /\ queue = 0
    /\ worker' = "exited"
    /\ UNCHANGED <<link, run, tries, queue, handler, stop, early, owed>>

\* The worker's select takes the closed b.done, even if triggers are waiting.
SeeDone ==
    /\ worker = "select"
    /\ Done
    /\ worker' = "exited"
    /\ UNCHANGED <<link, run, tries, queue, handler, stop, early, owed>>
-----------------------------------------------------------------------------
\* main calls Stop on SIGINT or SIGTERM: cancel, close(done).
BeginStop ==
    /\ stop = "idle"
    /\ stop' = "wait"
    /\ early' = (run \in {"connect", "connected"})
    /\ UNCHANGED <<link, run, tries, queue, handler, worker, owed>>

\* Run's <-b.ctx.Done().
ReturnFromRun ==
    /\ run = "blocked"
    /\ Done
    /\ run' = "returned"
    /\ UNCHANGED <<link, tries, queue, handler, worker, stop, early, owed>>

\* Mutant of PublishOffline: without wg.Wait.
PublishOffline_NoWait ==
    /\ stop = "wait"
    /\ avail' = IF conn = "up" THEN "offline" ELSE avail
    /\ stop' = "disconnect"
    /\ UNCHANGED <<broker, conn, will, onConnect, subscribed, run, tries, queue,
                   handler, worker, early, owed>>

\* Stop: wg.Wait() has returned, "offline" is published.
PublishOffline ==
    /\ stop = "wait"
    /\ worker \in {"none", "exited"}
    /\ avail' = IF conn = "up" THEN "offline" ELSE avail
    /\ stop' = "disconnect"
    /\ UNCHANGED <<broker, conn, will, onConnect, subscribed, run, tries, queue,
                   handler, worker, early, owed>>

\* Stop: client.Disconnect; the broker drops the will and paho stops trying.
Disconnect ==
    /\ stop = "disconnect"
    /\ conn' = "closed"
    /\ subscribed' = FALSE
    /\ stop' = "stopped"
    /\ UNCHANGED <<broker, will, avail, onConnect, run, tries, queue, handler,
                   worker, early, owed>>
-----------------------------------------------------------------------------
\* The connection breaks; the broker may have become unreachable.
Lose ==
    /\ conn = "up"
    /\ conn' = "lost"
    /\ will' = TRUE
    /\ subscribed' = FALSE
    /\ broker' \in BOOLEAN
    /\ UNCHANGED <<avail, onConnect, run, tries, queue, handler, worker, stop,
                   early, owed>>

\* paho's automatic reconnect, after a connection that was lost.
Reconnect ==
    /\ conn = "lost"
    /\ Connected
    /\ UNCHANGED <<run, tries, queue, handler, worker, stop, early, owed>>

\* The broker notices the broken connection and publishes the will.
PublishWill ==
    /\ will
    /\ avail' = "offline"
    /\ will' = FALSE
    /\ UNCHANGED <<broker, conn, onConnect, subscribed, run, tries, queue,
                   handler, worker, stop, early, owed>>

\* The broker goes away or comes back while nobody is connected to it.
BrokerChanges ==
    /\ conn # "up"
    /\ broker' = ~broker
    /\ UNCHANGED <<conn, will, avail, onConnect, subscribed, run, tries, queue,
                   handler, worker, stop, early, owed>>

OnMessage(h) == TryEnqueue(h) \/ DropOldest(h) \/ Requeue(h)
OnConnect == Announce \/ Subscribe
Worker == StartCheck \/ FinishCheck \/ SeeDone
Run == Connect \/ ConnectFails \/ StartWorker \/ ReturnFromRun
Stop == PublishOffline \/ Disconnect

Next ==
    \/ \E h \in Handlers : Arrive(h) \/ OnMessage(h)
    \/ OnConnect
    \/ Worker
    \/ Run
    \/ BeginStop
    \/ Stop
    \/ Lose \/ Reconnect \/ PublishWill \/ BrokerChanges

Spec == Init /\ [][Next]_vars

\* Goroutines keep running and a check returns.  A select with several ready
\* cases takes each of them infinitely often if it is reached infinitely often,
\* and a receiver that waits gets the next element sent.
Fairness ==
    /\ \A h \in Handlers : WF_vars(OnMessage(h))
    /\ WF_vars(OnConnect)
    /\ SF_vars(StartCheck) /\ WF_vars(FinishCheck) /\ SF_vars(SeeDone)
    /\ WF_vars(Run)
    /\ WF_vars(Stop)
    /\ SF_vars(Reconnect) /\ WF_vars(PublishWill)

LiveSpec == Spec /\ Fairness
-----------------------------------------------------------------------------
TypeOK ==
    /\ broker \in BOOLEAN
    /\ conn \in {"closed", "up", "lost"}
    /\ will \in BOOLEAN
    /\ avail \in {"online", "offline"}
    /\ onConnect \in {"none", "publish", "subscribe"}
    /\ subscribed \in BOOLEAN
    /\ run \in {"connect", "connected", "blocked", "failed", "returned"}
    /\ tries \in 0..Retries
    /\ queue \in 0..QueueDepth
    /\ handler \in [Handlers -> {"idle", "arrived", "full", "dropped"}]
    /\ worker \in {"none", "select", "check", "exited"}
    /\ stop \in {"idle", "wait", "disconnect", "stopped"}
    /\ early \in BOOLEAN
    /\ owed \in BOOLEAN

\* Every trigger is followed by a check that starts after it came: the three
\* selects of onMessage, run by several goroutines against the worker, may drop
\* triggers but never the last one that is still unanswered.
NoLostTrigger ==
    owed => \/ queue > 0
            \/ \E h \in Handlers : handler[h] \in {"arrived", "dropped"}

\* That check does start, unless the bridge is stopped.
TriggersAnswered == owed ~> (~owed \/ Done)

\* Stop waits for the worker: once it publishes "offline" no check is running
\* and none will be, unless Stop was called before Run had reached wg.Add(1): a
\* wg.Wait before that returns at once, and Run starts the worker all the same.
NoCheckAfterStop ==
    stop \in {"disconnect", "stopped"} /\ ~early => worker # "check"

\* Stop returns however many triggers keep coming.
StopReturns == stop = "wait" ~> stop = "stopped"

\* A connection that lasts is announced and listened on, also after the broker
\* was away and published the will.
ConnectedIsListening ==
    (conn = "up" /\ ~Done) ~>
       (avail = "online" /\ subscribed) \/ conn # "up" \/ Done
=============================================================================
