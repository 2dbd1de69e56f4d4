----------------------------- MODULE EtlService -----------------------------
(***************************************************************************)
(* The life of realtime-etl.Processor: Start, the goroutines it starts,    *)
(* the connection to the chain, the health check that renews it, and Stop. *)
(* What the event loops do with events is in Etl.                          *)
(*                                                                         *)
(* Start and Stop hold p.mu, Start also while it connects; the health      *)
(* check does not.  A subscription is one of the connection it was made    *)
(* on.  (SolanaClient's own connection is never lost; performHealthCheck   *)
(* is written for one that is.)                                            *)
(***************************************************************************)
EXTENDS Naturals, FiniteSets

CONSTANTS
    MaxStarts     \* bound: successful calls of Start

ASSUME EtlServiceAssumption == MaxStarts \in Nat \ {0}

VARIABLES
    isRunning,
    stopClosed,   \* p.stopChan is closed
    panicked,     \* it was closed again, which ends the process
    connected,    \* chainClient.IsConnected()
    reported,     \* the metric chain_connection
    subscribed,   \* the subscriptions on the connection there is
    starts,       \* successful calls of Start so far
    starting,     \* where a call of Start is, which holds p.mu, or "idle"
    subscriber,   \* each start's subscribeToEvents: what it subscribes to next
    monitor,      \* each start's monitorHealth
    loops         \* the starts whose event loops run

goroutines == <<subscriber, monitor, loops>>
serviceVars == <<isRunning, stopClosed, panicked, connected, reported, subscribed, starts,
                 starting, goroutines>>

Kinds == {"margin", "liquidity"}
Nth == 1..MaxStarts
Alive == ~panicked

\* What became of a connection that connectToChain has not reported yet.
Answers == {"connected", "refused"}

\* Types; the processor runs with the goroutines of its last start, whose event
\* loops end only once stopChan is closed, or while it starts.
ServiceTypeOK ==
    /\ {isRunning, stopClosed, panicked, connected} \subseteq BOOLEAN
    /\ reported \in {"none", "healthy", "unhealthy"}
    /\ subscribed \subseteq Kinds
    /\ starts \in 0..MaxStarts
    /\ starting \in {"idle", "connecting"} \union Answers
    /\ starting # "idle" => isRunning
    /\ subscriber \in [Nth -> Kinds \union {"off"}]
    /\ monitor \in [Nth -> {"off", "waiting", "lost", "reconnecting"} \union Answers]
    /\ loops \subseteq 1..starts
    /\ subscribed # {} => connected
    /\ (starts > 0 /\ ~stopClosed) => isRunning /\ starts \in loops

ServiceInit ==
    /\ isRunning = FALSE /\ stopClosed = FALSE /\ panicked = FALSE
    /\ connected = FALSE /\ reported = "none" /\ subscribed = {}
    /\ starts = 0 /\ starting = "idle" /\ loops = {}
    /\ subscriber = [k \in Nth |-> "off"]
    /\ monitor = [k \in Nth |-> "off"]

-----------------------------------------------------------------------------
\* chainClient.Connect, in connectToChain.
Connects(answer) ==
    \/ answer = "connected" /\ connected' = TRUE
    \/ answer = "refused" /\ UNCHANGED connected

\* A mutant of Reports: a success is not reported.
ReportsFailure(answer) == reported' = IF answer = "refused" THEN "unhealthy" ELSE reported

\* connectToChain then tells the metrics.
Reports(answer) == reported' = IF answer = "refused" THEN "unhealthy" ELSE "healthy"

\* Start takes the lock, which it keeps until it returns.
Start ==
    /\ Alive /\ starting = "idle" /\ ~isRunning /\ starts < MaxStarts
    /\ isRunning' = TRUE /\ starting' = "connecting"
    /\ UNCHANGED <<stopClosed, panicked, connected, reported, subscribed, starts, goroutines>>

StartConnects ==
    /\ Alive /\ starting = "connecting"
    /\ starting' \in Answers /\ Connects(starting')
    /\ UNCHANGED <<isRunning, stopClosed, panicked, reported, subscribed, starts, goroutines>>

\* It returns: connected, with its goroutines started, or with an error.
StartReturns ==
    /\ Alive /\ starting \in Answers /\ Reports(starting) /\ starting' = "idle"
    /\ \/ /\ starting = "refused" /\ isRunning' = FALSE
          /\ UNCHANGED <<starts, goroutines>>
       \/ /\ starting = "connected" /\ starts' = starts + 1
          /\ subscriber' = [subscriber EXCEPT ![starts'] = "margin"]
          /\ monitor' = [monitor EXCEPT ![starts'] = "waiting"]
          /\ loops' = loops \union {starts'}
          /\ UNCHANGED isRunning
    /\ UNCHANGED <<stopClosed, panicked, connected, subscribed>>

\* subscribeToEvents, one subscription after the other; each needs a connection.
SubscribeToEvents(k) ==
    /\ Alive /\ subscriber[k] # "off"
    /\ subscribed' = IF connected THEN subscribed \union {subscriber[k]} ELSE subscribed
    /\ subscriber' = [subscriber EXCEPT ![k] = IF @ = "margin" THEN "liquidity" ELSE "off"]
    /\ UNCHANGED <<isRunning, stopClosed, panicked, connected, reported, starts, starting,
                   monitor, loops>>

ConnectionLost ==
    /\ Alive /\ connected /\ connected' = FALSE /\ subscribed' = {}
    /\ UNCHANGED <<isRunning, stopClosed, panicked, reported, starts, starting, goroutines>>

\* What a step of a health check leaves alone.
CheckOnly == UNCHANGED <<isRunning, stopClosed, panicked, subscribed, starts, starting,
                         subscriber, loops>>

\* performHealthCheck finds no connection.  (If it finds one, nothing changes.)
\* The ticker may win over a closed stopChan.
PerformHealthCheck(k) ==
    /\ Alive /\ monitor[k] = "waiting" /\ ~connected
    /\ monitor' = [monitor EXCEPT ![k] = "lost"]
    /\ CheckOnly /\ UNCHANGED <<connected, reported>>

\* A mutant of ReportLoss: the lost connection is reported, not renewed.
ReportLossOnly(k) ==
    /\ Alive /\ monitor[k] = "lost" /\ reported' = "unhealthy"
    /\ monitor' = [monitor EXCEPT ![k] = "waiting"]
    /\ CheckOnly /\ UNCHANGED connected

\* It reports that,
ReportLoss(k) ==
    /\ Alive /\ monitor[k] = "lost" /\ reported' = "unhealthy"
    /\ monitor' = [monitor EXCEPT ![k] = "reconnecting"]
    /\ CheckOnly /\ UNCHANGED connected

\* tries to renew it,
Reconnect(k) ==
    /\ Alive /\ monitor[k] = "reconnecting"
    /\ \E answer \in Answers :
          Connects(answer) /\ monitor' = [monitor EXCEPT ![k] = answer]
    /\ CheckOnly /\ UNCHANGED reported

\* and reports whether it did.
ReportReconnection(k) ==
    /\ Alive /\ monitor[k] \in Answers /\ Reports(monitor[k])
    /\ monitor' = [monitor EXCEPT ![k] = "waiting"]
    /\ CheckOnly /\ UNCHANGED connected

\* Stop, which waits for the lock: closing a closed channel panics.
StopService ==
    /\ Alive /\ starting = "idle" /\ isRunning /\ isRunning' = FALSE
    /\ panicked' = stopClosed /\ stopClosed' = TRUE
    /\ connected' = FALSE /\ subscribed' = {}
    /\ UNCHANGED <<reported, starts, starting, goroutines>>

\* The goroutines see that stopChan is closed.
MonitorExits(k) ==
    /\ Alive /\ stopClosed /\ monitor[k] = "waiting"
    /\ monitor' = [monitor EXCEPT ![k] = "off"]
    /\ UNCHANGED <<isRunning, stopClosed, panicked, connected, reported, subscribed,
                   starts, starting, subscriber, loops>>
LoopsExit(k) ==
    /\ Alive /\ stopClosed /\ k \in loops
    /\ loops' = loops \ {k}
    /\ UNCHANGED <<isRunning, stopClosed, panicked, connected, reported, subscribed,
                   starts, starting, subscriber, monitor>>

ServiceNext ==
    \/ Start \/ StartConnects \/ StartReturns \/ StopService \/ ConnectionLost
    \/ \E k \in Nth : \/ SubscribeToEvents(k) \/ MonitorExits(k) \/ LoopsExit(k)
                      \/ PerformHealthCheck(k) \/ ReportLoss(k)
                      \/ Reconnect(k) \/ ReportReconnection(k)

ServiceSpec == ServiceInit /\ [][ServiceNext]_serviceVars

\* Goroutines run, and Connect answers or times out; a select that finds stopChan
\* closed again and again takes it some day; the chain can be reached again and again.
FairSpec ==
    /\ ServiceSpec
    /\ WF_serviceVars(StartConnects) /\ WF_serviceVars(StartReturns)
    /\ \A k \in Nth :
          /\ WF_serviceVars(SubscribeToEvents(k))
          /\ WF_serviceVars(PerformHealthCheck(k))
          /\ WF_serviceVars(ReportLoss(k))
          /\ WF_serviceVars(Reconnect(k))
          /\ WF_serviceVars(ReportReconnection(k))
          /\ SF_serviceVars(Reconnect(k) /\ connected')
          /\ SF_serviceVars(MonitorExits(k))
          /\ WF_serviceVars(LoopsExit(k))

-----------------------------------------------------------------------------
\* Until a second start, a running processor that is connected is reported healthy,
\* or its health check has just connected it and is about to report it: nothing else
\* leaves a connection reported as lost (processor.go:171-186, :257-269).  The first
\* start's health check may fail to connect after the second start did.
ConnectedIsReported ==
    (connected /\ isRunning /\ starting = "idle" /\ starts = 1)
        => reported = "healthy" \/ monitor[1] = "connected"

\* The state has its type, and the health that is reported is the connection's.
ServiceInv == ServiceTypeOK /\ ConnectedIsReported

\* A running processor that lost its connection gets another (processor.go:257-269),
\* unless it was stopped before: then its health check ends as soon as it starts.
LostIsRenewed == (isRunning /\ ~connected /\ ~stopClosed) ~> (connected \/ ~isRunning)

\* Once stopped, all goroutines end, whatever the health check was doing
\* (processor.go:104).
StopEndsGoroutines ==
    stopClosed ~> (panicked \/ isRunning \/
                   (loops = {} /\ \A k \in Nth : monitor[k] = "off" /\ subscriber[k] = "off"))

\* A running processor gets its connection back, and a stopped one ends.
ServiceLiveness == LostIsRenewed /\ StopEndsGoroutines

\* A connected processor that has nothing under way gets events: processor.go:123
\* "GetStatus returns the current status of the ETL processor", a status whose
\* Subscriptions are "margin_offers", "liquidity", "interest_rates".
ConnectedIsSubscribed ==
    (/\ isRunning /\ starting = "idle" /\ connected
     /\ \A k \in Nth : subscriber[k] = "off" /\ monitor[k] \in {"off", "waiting"})
        => subscribed = Kinds

\* A stopped processor has no connection: processor.go:107 "Disconnect from
\* blockchain".
StoppedIsDisconnected == (stopClosed /\ ~isRunning) => ~connected

\* Stop does not end the process: processor.go:92 "Stop gracefully stops the ETL
\* pipeline".
StopIsGraceful == ~panicked
=============================================================================
