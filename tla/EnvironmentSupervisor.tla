----------------------- MODULE EnvironmentSupervisor -----------------------
(***************************************************************************)
(* The per-environment connection supervisor of                            *)
(* packages/client-runtime/src/connection/supervisor.ts: one run loop that *)
(* owns the connection of a saved environment, the fibers that feed it     *)
(* (callers, connectivity, wakeups, the better-route checker) and the      *)
(* driver it starts attempts on.                                           *)
(*                                                                         *)
(* Time is abstract: a timer (setup timeout, probe deadline, backoff,      *)
(* cooldown, the 30 s after which a session is stable) may fire at any     *)
(* step at which it is armed.  A route is the number of its rank in the    *)
(* user's order, 1 the preferred one.  A session is the generation it was  *)
(* published under.                                                        *)
(***************************************************************************)
EXTENDS Integers, Sequences, FiniteSets

CONSTANTS
  SavedRoutes,       \* routes the user saved, by rank
  LearnableRoutes,   \* direct routes the server may report while connected
  UncheckedRoutes,   \* T3 Connect and SSH: no cheap preflight
  RelayRoutes,       \* the T3 Connect route, if any
  NetworkStatuses,   \* what the platform reports: "offline" and others
  WakeupReasons,     \* the ConnectionWakeup reasons a run enables
  MaxDisturbances,   \* bound: calls, network changes, wakeups and faults
  MaxSignals         \* bound: queue length up to which the checker signals

Routes == SavedRoutes \cup LearnableRoutes

ASSUME ConstantsAssumption ==
  /\ SavedRoutes # {}
  /\ Routes \subseteq Nat \ {0}
  /\ UncheckedRoutes \subseteq SavedRoutes
  /\ RelayRoutes \subseteq UncheckedRoutes
  /\ NetworkStatuses \subseteq {"unknown", "offline", "online"}
  /\ WakeupReasons \subseteq {"application-active", "application-active-probe",
                             "application-active-reconnect", "credentials-changed",
                             "network-changed"}
  /\ MaxDisturbances \in Nat
  /\ MaxSignals \in Nat

NoRoute == 0
NoSession == 0
Lease(generation, route) == [generation |-> generation, route |-> route]
NoLease == Lease(0, NoRoute)
NoCheck == [lease |-> NoLease, better |-> {}]
NoOutcome == [established |-> FALSE, stable |-> FALSE, resetRetry |-> FALSE, error |-> "none"]

ConnectRequested == [tag |-> "ConnectRequested"]
DisconnectRequested == [tag |-> "DisconnectRequested"]
RetryRequested == [tag |-> "RetryRequested"]
NetworkChanged(status) == [tag |-> "NetworkChanged", network |-> status]
Wakeup(reason) == [tag |-> "Wakeup", reason |-> reason]
BetterRouteAvailable(route) == [tag |-> "BetterRouteAvailable", routeId |-> route]

VARIABLES
  desired, network,    \* intent: what the user wants, what the platform reports
  posting,             \* signals whose intent is set but which are not queued yet
  signals,             \* the unbounded queue the run loop takes from
  resetRetryState,     \* an explicit retry asks for a fresh ladder
  probeUnanswered,     \* a probe of the live session is running or failed
  preferredRouteId,    \* route the replacement attempt tries first
  routeCooldowns,      \* routes whose cooldown has not expired
  routes,              \* currentEntry: the routes saved now
  state,               \* published SupervisorConnectionState
  session, prepared,   \* published session (its generation) and route
  pc,                  \* where the run loop is
  failureCount, generation, latestFailure, replacing,  \* locals of run()
  switchingTo, backlog, tried, opened, lease, outcome, \* locals of one attempt
  learning,            \* the learnRoutes fiber of the live session is running
  checkQueue,          \* betterRouteChecks, a dropping queue of capacity one
  checking,            \* the check in progress and its candidate routes
  shutdown,            \* the supervisor's scope is closing
  disturbances,        \* spent share of MaxDisturbances
  issued,              \* history: newest generation published as a session
  losses, excused      \* history: failures since the last reason to start over

intentVars == <<desired, network, posting>>
markerVars == <<resetRetryState, probeUnanswered>>
routeVars == <<preferredRouteId, routeCooldowns, routes>>
publishedVars == <<state, session, prepared, issued>>
ladderVars == <<failureCount, latestFailure, losses, excused>>
driverVars == <<switchingTo, backlog, tried, opened>>
attemptVars == <<generation, replacing, driverVars, lease, outcome, learning>>
checkerVars == <<checkQueue, checking>>
envVars == <<shutdown, disturbances>>
vars == <<intentVars, signals, markerVars, routeVars, publishedVars, pc, ladderVars,
          attemptVars, checkerVars, envVars>>

UsesRelay == RelayRoutes # {}

ResetsRetryBackoff(s) ==
  s.tag = "Wakeup" /\ s.reason # "credentials-changed"

Pending(s) == s \in posting \/ \E i \in 1..Len(signals) : signals[i] = s

\* Routes ranked above the one a lease uses; none when that route is gone.
RoutesAbove(l) == IF l.route \in routes THEN {r \in routes : r < l.route} ELSE {}

-----------------------------------------------------------------------------
(* Published states                                                        *)

Published(wanted, phase, stage, attempt, gen, lastFailure) ==
  [desired |-> wanted, network |-> network, phase |-> phase, stage |-> stage,
   attempt |-> attempt, generation |-> gen, lastFailure |-> lastFailure]

(* Plausible bugs, each of a definition below with the same parameters: the *)
(* runs are repeated with one of them in its place.                        *)

BugAvailableDesired(gen) == Published(desired, "offline", "preparing", 0, gen, "none")
BugForgetsFailure(gen, attempt, lastFailure, stage) ==
  Published(TRUE, "connecting", stage, attempt, gen, "none")
BugIgnoresOffline(s) ==
  \/ s \in {DisconnectRequested, RetryRequested, Wakeup("application-active-reconnect")}
  \/ s = Wakeup("credentials-changed") /\ UsesRelay
BugKeepsRetryFlag == resetRetryState
BugKeepsProbeMarker == probeUnanswered
BugLeavesSession(established, stable, resetRetry, error) ==
  /\ outcome' = [established |-> established, stable |-> stable,
                 resetRetry |-> resetRetry, error |-> error]
  /\ prepared' = NoRoute /\ pc' = "releasing" /\ UNCHANGED session
BugGenerationOnSuccess ==
  IF outcome.established /\ outcome.error = "none" THEN generation + 1 ELSE generation
BugSkipsLiveCheck(l) == TRUE
BugLandsAnyway == network # "offline" \/ replacing
BugSleepsThroughNetwork(s) == s.tag \notin {"BetterRouteAvailable", "NetworkChanged"}
BugIgnoresDisconnect(s) ==
  s = Wakeup("application-active-reconnect") \/ s.tag = "BetterRouteAvailable"

-----------------------------------------------------------------------------
AvailableState(gen) == Published(FALSE, "available", "none", 0, gen, "none")
OfflineState(gen, attempt, lastFailure) ==
  Published(TRUE, "offline", "none", attempt, gen, lastFailure)
ConnectingState(gen, attempt, lastFailure, stage) ==
  Published(TRUE, "connecting", stage, attempt, gen, lastFailure)

Init ==
  /\ desired \in BOOLEAN
  /\ network \in NetworkStatuses
  /\ posting = {} /\ signals = <<>>
  /\ resetRetryState = FALSE /\ probeUnanswered = FALSE
  /\ preferredRouteId = NoRoute /\ routeCooldowns = {} /\ routes = SavedRoutes
  /\ state = IF ~desired THEN AvailableState(0)
             ELSE IF network = "offline" THEN OfflineState(0, 0, "none")
             ELSE ConnectingState(0, 1, "none", "preparing")
  /\ session = NoSession /\ prepared = NoRoute
  /\ pc = "top"
  /\ failureCount = 0 /\ generation = 0 /\ latestFailure = "none" /\ replacing = FALSE
  /\ switchingTo = NoRoute /\ backlog = FALSE /\ tried = {} /\ opened = NoRoute
  /\ lease = NoLease
  /\ outcome = NoOutcome
  /\ learning = FALSE
  /\ checkQueue = NoLease /\ checking = NoCheck
  /\ shutdown = FALSE /\ disturbances = 0
  /\ issued = 0 /\ losses = 0 /\ excused = FALSE

\* What the environment does of its own accord, each time at a cost.
Disturb == disturbances < MaxDisturbances /\ disturbances' = disturbances + 1

-----------------------------------------------------------------------------
(* Callers and platform streams.  Intent and flag are set first and the    *)
(* signal is queued in a later step: a fiber may yield in between.         *)

Connect ==
  /\ Disturb
  /\ ConnectRequested \notin posting
  /\ desired' = TRUE
  /\ posting' = posting \cup {ConnectRequested}
  /\ UNCHANGED <<network, signals, markerVars, routeVars, publishedVars, pc, ladderVars,
                 attemptVars, checkerVars, shutdown>>

Disconnect ==
  /\ Disturb
  /\ DisconnectRequested \notin posting
  /\ desired' = FALSE
  /\ posting' = posting \cup {DisconnectRequested}
  /\ UNCHANGED <<network, signals, markerVars, routeVars, publishedVars, pc, ladderVars,
                 attemptVars, checkerVars, shutdown>>

RetryNow ==
  /\ Disturb
  /\ RetryRequested \notin posting
  /\ resetRetryState' = TRUE
  /\ posting' = posting \cup {RetryRequested}
  /\ UNCHANGED <<desired, network, signals, probeUnanswered, routeVars, publishedVars, pc,
                 ladderVars, attemptVars, checkerVars, shutdown>>

\* The stream delivers one status at a time: the next one waits for the signal.
ConnectivityChanges(status) ==
  /\ Disturb
  /\ status # network
  /\ \A s \in posting : s.tag # "NetworkChanged"
  /\ network' = status
  /\ posting' = posting \cup {NetworkChanged(status)}
  /\ UNCHANGED <<desired, signals, markerVars, routeVars, publishedVars, pc, ladderVars,
                 attemptVars, checkerVars, shutdown>>

WakeupArrives(reason) ==
  /\ Disturb
  /\ ~shutdown
  /\ signals' = Append(signals, Wakeup(reason))
  /\ UNCHANGED <<intentVars, markerVars, routeVars, publishedVars, pc, ladderVars,
                 attemptVars, checkerVars, shutdown>>

\* Offering to a queue that is shut down does nothing.
Post(s) ==
  /\ s \in posting
  /\ posting' = posting \ {s}
  /\ signals' = IF shutdown THEN signals ELSE Append(signals, s)
  /\ UNCHANGED <<desired, network, markerVars, routeVars, publishedVars, pc, ladderVars,
                 attemptVars, checkerVars, envVars>>

-----------------------------------------------------------------------------
(* The head of the run loop                                                *)

\* What getAndSet(resetRetryState, false) leaves of the retry ladder.
AfterRetryFlag(value, fresh) == IF resetRetryState THEN fresh ELSE value

GoAvailable ==
  /\ pc = "top" /\ ~desired
  /\ failureCount' = 0 /\ latestFailure' = "none" /\ losses' = 0
  /\ session' = NoSession /\ prepared' = NoRoute
  /\ state' = AvailableState(generation)
  /\ pc' = "available"
  /\ resetRetryState' = FALSE
  /\ UNCHANGED <<intentVars, signals, probeUnanswered, routeVars, issued, excused,
                 attemptVars, checkerVars, envVars>>

GoOffline ==
  /\ pc = "top" /\ desired /\ network = "offline" /\ ~replacing
  /\ failureCount' = AfterRetryFlag(failureCount, 0)
  /\ latestFailure' = AfterRetryFlag(latestFailure, "none")
  /\ losses' = AfterRetryFlag(losses, 0)
  /\ session' = NoSession /\ prepared' = NoRoute
  /\ state' = OfflineState(generation, failureCount' + 1, latestFailure')
  /\ pc' = "offline"
  /\ resetRetryState' = FALSE
  /\ UNCHANGED <<intentVars, signals, probeUnanswered, routeVars, issued, excused,
                 attemptVars, checkerVars, envVars>>

\* runAttempt up to the first progress report; attemptEntry consumes the
\* preferred route.  What is queued by now is drained before the driver can
\* answer: `backlog` says some of it is still there.
StartAttempt ==
  /\ pc = "top" /\ desired /\ (network # "offline" \/ replacing)
  /\ failureCount' = AfterRetryFlag(failureCount, 0)
  /\ latestFailure' = AfterRetryFlag(latestFailure, "none")
  /\ losses' = AfterRetryFlag(losses, 0)
  /\ resetRetryState' = FALSE
  /\ switchingTo' = preferredRouteId /\ preferredRouteId' = NoRoute
  /\ backlog' = (signals # <<>>)
  /\ tried' = {} /\ opened' = NoRoute
  /\ prepared' = NoRoute
  /\ state' = ConnectingState(generation + 1, failureCount' + 1, latestFailure', "preparing")
  /\ pc' = "establishing"
  /\ UNCHANGED <<intentVars, signals, probeUnanswered, routeCooldowns, routes, session, issued,
                 excused, generation, replacing, lease, outcome, learning, checkerVars, envVars>>

-----------------------------------------------------------------------------
(* One attempt: the driver, raced against the signals and a timer          *)

Leave(established, stable, resetRetry, error) ==
  /\ outcome' = [established |-> established, stable |-> stable,
                 resetRetry |-> resetRetry, error |-> error]
  /\ session' = NoSession /\ prepared' = NoRoute
  /\ pc' = "releasing"

\* The driver opens a route.  Passing over the route to switch to, or moving
\* on from one that failed, is a fault.
OpenRoute(r) ==
  /\ pc = "establishing"
  /\ r \in routes \ tried
  /\ IF tried # {} \/ (switchingTo \in routes /\ r # switchingTo)
     THEN Disturb ELSE UNCHANGED disturbances
  /\ tried' = tried \cup {r} /\ opened' = r
  /\ prepared' = r
  /\ state' = ConnectingState(generation + 1, failureCount + 1, latestFailure, "opening")
  /\ UNCHANGED <<intentVars, signals, markerVars, routeVars, session, issued, pc, ladderVars,
                 generation, replacing, switchingTo, backlog, lease, outcome, learning,
                 checkerVars, shutdown>>

SynchronizeRoute ==
  /\ pc = "establishing" /\ state.stage = "opening"
  /\ state' = ConnectingState(generation + 1, failureCount + 1, latestFailure, "synchronizing")
  /\ UNCHANGED <<intentVars, signals, markerVars, routeVars, session, prepared, issued, pc,
                 ladderVars, attemptVars, checkerVars, envVars>>

\* The intent is read again when the driver's session is ready: a disconnect or
\* an offline report may not have been taken from the queue yet.
StillWanted == desired /\ (network # "offline" \/ replacing)

\* The driver's session is ready.
Land ==
  /\ pc = "establishing" /\ state.stage = "synchronizing"
  /\ ~backlog
  /\ routeCooldowns' = IF switchingTo \notin {NoRoute, opened}
                       THEN routeCooldowns \cup {switchingTo} ELSE routeCooldowns
  /\ IF ~StillWanted
     THEN /\ Leave(FALSE, FALSE, FALSE, "none")
          /\ UNCHANGED <<state, issued, lease, learning>>
     ELSE /\ lease' = Lease(generation + 1, opened)
          /\ prepared' = opened
          /\ session' = generation + 1
          /\ issued' = generation + 1
          /\ learning' = (LearnableRoutes # {})
          /\ state' = Published(TRUE, "connected", "none", failureCount + 1,
                                generation + 1, "none")
          /\ pc' = "connected"
          /\ UNCHANGED outcome
  /\ UNCHANGED <<intentVars, signals, markerVars, preferredRouteId, routes, ladderVars,
                 generation, replacing, driverVars, checkerVars, envVars>>

\* Every route failed, or the setup timer ran out.
EstablishmentFails(error) ==
  /\ pc = "establishing"
  /\ Disturb
  /\ Leave(FALSE, FALSE, FALSE, error)
  /\ UNCHANGED <<intentVars, signals, markerVars, routeVars, state, issued, ladderVars,
                 generation, replacing, driverVars, lease, learning,
                 checkerVars, shutdown>>

InterruptsEstablishment(s) ==
  \/ s \in {DisconnectRequested, RetryRequested, NetworkChanged("offline"),
            Wakeup("application-active-reconnect")}
  \/ s = Wakeup("credentials-changed") /\ UsesRelay

TakeWhileEstablishing ==
  /\ pc = "establishing" /\ signals # <<>>
  /\ signals' = Tail(signals)
  /\ backlog' = (backlog /\ Tail(signals) # <<>>)
  /\ LET s == Head(signals) IN
     IF InterruptsEstablishment(s)
     THEN Leave(FALSE, FALSE, s = Wakeup("application-active-reconnect"), "none")
     ELSE UNCHANGED <<outcome, session, prepared, pc>>
  /\ UNCHANGED <<intentVars, markerVars, routeVars, state, issued, ladderVars, generation,
                 replacing, switchingTo, tried, opened, lease, learning, checkerVars, envVars>>

-----------------------------------------------------------------------------
(* A live session and its monitor                                          *)

Live == pc \in {"connected", "probing"}

EndsLease(s) ==
  \/ s \in {DisconnectRequested, Wakeup("application-active-reconnect")}
  \/ s.tag = "BetterRouteAvailable"
  \/ s = Wakeup("credentials-changed") /\ lease.route \in RelayRoutes

Probes(s) ==
  s \in {RetryRequested, NetworkChanged("offline"), Wakeup("application-active"),
         Wakeup("application-active-probe"), Wakeup("network-changed")}

ChecksRoutes(s) ==
  \/ s.tag = "NetworkChanged" /\ s # NetworkChanged("offline")
  \/ ResetsRetryBackoff(s)

\* requestBetterRouteCheck: offered to a dropping queue of capacity one.
RequestCheck(wanted) ==
  checkQueue' = IF wanted /\ RoutesAbove(lease) # {} /\ checkQueue = NoLease
                THEN lease ELSE checkQueue

\* Taking a retry while connected consumes its flag: the probe answers it.
RetryFlagWhenTaken == resetRetryState /\ Head(signals) # RetryRequested

TakeLive ==
  /\ Live /\ signals # <<>>
  /\ signals' = Tail(signals)
  /\ resetRetryState' = RetryFlagWhenTaken

\* A signal that ends the lease, whether or not a probe is running.  A session
\* held for 30 s is stable; how long it was held is not modelled.
TakeLeaseEnd(stable) ==
  /\ TakeLive
  /\ LET s == Head(signals) IN
       /\ EndsLease(s)
       /\ preferredRouteId' = IF s.tag = "BetterRouteAvailable" THEN s.routeId
                              ELSE preferredRouteId
       /\ Leave(TRUE, stable,
                s.tag = "BetterRouteAvailable" \/ s = Wakeup("application-active-reconnect"),
                "none")
  /\ UNCHANGED <<intentVars, probeUnanswered, routeCooldowns, routes, state, issued, ladderVars,
                 generation, replacing, driverVars, lease, learning,
                 checkerVars, envVars>>

TakeWhileConnected ==
  /\ pc = "connected"
  /\ TakeLive
  /\ LET s == Head(signals) IN
       /\ ~EndsLease(s)
       /\ RequestCheck(ChecksRoutes(s))
       /\ probeUnanswered' = (probeUnanswered \/ Probes(s))
       /\ excused' = (excused \/ Probes(s))
       /\ pc' = IF Probes(s) THEN "probing" ELSE pc
  /\ UNCHANGED <<intentVars, routeVars, publishedVars, failureCount, latestFailure, losses,
                 attemptVars, checking, envVars>>

\* Other signals only bring the running probe's deadline forward.
TakeWhileProbing ==
  /\ pc = "probing"
  /\ TakeLive
  /\ ~EndsLease(Head(signals))
  /\ UNCHANGED <<intentVars, probeUnanswered, routeVars, publishedVars, pc, ladderVars,
                 attemptVars, checkerVars, envVars>>

ProbeAnswered ==
  /\ pc = "probing"
  /\ probeUnanswered' = FALSE
  /\ pc' = "connected"
  /\ UNCHANGED <<intentVars, signals, resetRetryState, routeVars, publishedVars, ladderVars,
                 attemptVars, checkerVars, envVars>>

\* The session closes, or the probe fails or outlives its deadline.
SessionLost(error, stable) ==
  /\ Live
  /\ Disturb
  /\ Leave(TRUE, stable, FALSE, error)
  /\ UNCHANGED <<intentVars, signals, markerVars, routeVars, state, issued, ladderVars,
                 generation, replacing, driverVars, lease, learning,
                 checkerVars, shutdown>>

\* learnRoutesFrom: the saved routes stay, the learned ones become what the
\* server reports now.  It runs until the scope of the session closes.
LearnRoutes(reported) ==
  /\ learning
  /\ Disturb
  /\ lease.route \in routes \ (UncheckedRoutes \ RelayRoutes)
  /\ routes' = SavedRoutes \cup reported
  /\ routes' # routes
  /\ learning' = FALSE
  /\ checkQueue' = IF lease.route \in routes' /\ (\E r \in routes' : r < lease.route)
                      /\ checkQueue = NoLease
                   THEN lease ELSE checkQueue
  /\ UNCHANGED <<intentVars, signals, markerVars, preferredRouteId, routeCooldowns,
                 publishedVars, pc, ladderVars, generation, replacing, driverVars, lease,
                 outcome, checking, shutdown>>

\* The 60 s tick of the monitor.
TickRequestsCheck ==
  /\ Live
  /\ RequestCheck(TRUE)
  /\ checkQueue' # checkQueue
  /\ UNCHANGED <<intentVars, signals, markerVars, routeVars, publishedVars, pc, ladderVars,
                 attemptVars, checking, envVars>>

-----------------------------------------------------------------------------
(* After the attempt: the scope has closed, the loop looks at the outcome  *)

EstablishedGeneration == IF outcome.established THEN generation + 1 ELSE generation

\* Consumed by every outcome, so that it cannot reach a later failure.
ProbeMarkerAfterwards == FALSE

Settle ==
  /\ pc = "releasing"
  /\ replacing' = outcome.resetRetry
  /\ probeUnanswered' = ProbeMarkerAfterwards
  /\ generation' = EstablishedGeneration
  /\ lease' = NoLease /\ learning' = FALSE /\ excused' = FALSE
  /\ switchingTo' = NoRoute /\ backlog' = FALSE /\ tried' = {} /\ opened' = NoRoute
  /\ outcome' = NoOutcome
  /\ UNCHANGED <<intentVars, signals, resetRetryState, routeVars, session, prepared, issued,
                 checkerVars, envVars>>

\* The ladder after a session that held long enough to be stable.
AfterStable(value, fresh) == IF outcome.stable THEN fresh ELSE value

SettleInterrupted ==
  /\ Settle
  /\ outcome.error = "none"
  /\ failureCount' = IF outcome.resetRetry THEN 0 ELSE AfterStable(failureCount, 0)
  /\ losses' = IF outcome.resetRetry THEN 0 ELSE AfterStable(losses, 0)
  /\ latestFailure' = AfterStable(latestFailure, "none")
  /\ pc' = "top"
  /\ UNCHANGED state

SettleBlocked ==
  /\ Settle
  /\ outcome.error = "blocked"
  /\ failureCount' = AfterStable(failureCount, 0)
  /\ losses' = AfterStable(losses, 0)
  /\ latestFailure' = "blocked"
  /\ state' = Published(desired, "blocked", "none", failureCount + 1, generation', "blocked")
  /\ pc' = "blocked"

\* A probe failed or went unanswered: reconnect at once, once.
SettleFailedProbe ==
  /\ Settle
  /\ outcome.error = "transient" /\ probeUnanswered
  /\ failureCount' = 0
  /\ losses' = IF excused THEN 0 ELSE AfterStable(losses, 0) + 1
  /\ latestFailure' = "transient"
  /\ state' = ConnectingState(generation', 1, "transient", "preparing")
  /\ pc' = "top"

SettleTransient ==
  /\ Settle
  /\ outcome.error = "transient" /\ ~probeUnanswered
  /\ failureCount' = AfterStable(failureCount, 0) + 1
  /\ losses' = IF excused THEN 0 ELSE AfterStable(losses, 0) + 1
  /\ latestFailure' = "transient"
  /\ state' = Published(desired, "backoff", "none", failureCount + 1, generation', "transient")
  /\ pc' = "backoff"

BackoffElapses ==
  /\ pc = "backoff"
  /\ pc' = "top"
  /\ UNCHANGED <<intentVars, signals, markerVars, routeVars, publishedVars, ladderVars,
                 attemptVars, checkerVars, envVars>>

\* waitForSignal and waitForRetrySignal: a better route only matters to a live
\* session.  The available state discards what the signal was.
WakesIdle(s) == s.tag # "BetterRouteAvailable"

TakeWhileIdle ==
  /\ pc \in {"available", "offline", "blocked", "backoff"} /\ signals # <<>>
  /\ signals' = Tail(signals)
  /\ LET s == Head(signals)
         resets == pc # "available" /\ ResetsRetryBackoff(s) IN
       /\ pc' = IF WakesIdle(s) THEN "top" ELSE pc
       /\ failureCount' = IF resets THEN 0 ELSE failureCount
       /\ losses' = IF resets THEN 0 ELSE losses
  /\ UNCHANGED <<intentVars, markerVars, routeVars, publishedVars, latestFailure, excused,
                 attemptVars, checkerVars, envVars>>

-----------------------------------------------------------------------------
(* The better-route checker                                                *)

\* checkBetterRoutes up to its preflights; without a candidate it is over.
StartCheck ==
  /\ checkQueue # NoLease /\ checking.lease = NoLease
  /\ checkQueue' = NoLease
  /\ LET better == RoutesAbove(checkQueue) \ routeCooldowns IN
     checking' = IF better = {} THEN checking
                 ELSE [lease |-> checkQueue, better |-> better]
  /\ UNCHANGED <<intentVars, signals, markerVars, routeVars, publishedVars, pc, ladderVars,
                 attemptVars, envVars>>

\* The check may outlive the session it was asked about.
StillLive(l) == session = l.generation

\* Route r is the best of those that passed their preflight.
CheckPasses(r) ==
  /\ r \in checking.better \ UncheckedRoutes
  /\ Len(signals) < MaxSignals
  /\ signals' = IF StillLive(checking.lease) /\ ~shutdown
                THEN Append(signals, BetterRouteAvailable(r)) ELSE signals
  /\ checking' = NoCheck
  /\ UNCHANGED <<intentVars, markerVars, routeVars, publishedVars, pc, ladderVars,
                 attemptVars, checkQueue, envVars>>

CheckFindsNothing ==
  /\ checking.lease # NoLease
  /\ checking' = NoCheck
  /\ UNCHANGED <<intentVars, signals, markerVars, routeVars, publishedVars, pc, ladderVars,
                 attemptVars, checkQueue, envVars>>

CooldownExpires(r) ==
  /\ r \in routeCooldowns
  /\ routeCooldowns' = routeCooldowns \ {r}
  /\ UNCHANGED <<intentVars, signals, markerVars, preferredRouteId, routes, publishedVars, pc,
                 ladderVars, attemptVars, checkerVars, envVars>>

-----------------------------------------------------------------------------
(* The supervisor's scope closes: its last finalizer runs first, then the  *)
(* fibers are interrupted.                                                 *)

ShutDown ==
  /\ ~shutdown /\ pc # "closed"
  /\ Disturb
  /\ shutdown' = TRUE
  /\ signals' = <<>>
  /\ session' = NoSession /\ prepared' = NoRoute
  /\ UNCHANGED <<intentVars, markerVars, routeVars, state, issued, pc, ladderVars,
                 attemptVars, checkerVars>>

RunInterrupted ==
  /\ shutdown /\ pc # "closed"
  /\ pc' = "closed"
  /\ session' = NoSession /\ prepared' = NoRoute
  /\ lease' = NoLease /\ learning' = FALSE
  /\ checkQueue' = NoLease /\ checking' = NoCheck
  /\ UNCHANGED <<intentVars, signals, markerVars, routeVars, state, issued, ladderVars,
                 generation, replacing, driverVars, outcome, envVars>>

-----------------------------------------------------------------------------
Errors == {"transient", "blocked"}

Callers == Connect \/ Disconnect \/ RetryNow
Platform ==
  \/ \E status \in NetworkStatuses : ConnectivityChanges(status)
  \/ \E reason \in WakeupReasons : WakeupArrives(reason)
Posting == \E s \in posting : Post(s)

LoopHead == GoAvailable \/ GoOffline \/ StartAttempt
Establishing ==
  \/ \E r \in routes : OpenRoute(r)
  \/ SynchronizeRoute \/ Land \/ TakeWhileEstablishing
Monitoring ==
  \/ \E stable \in BOOLEAN : TakeLeaseEnd(stable)
  \/ TakeWhileConnected \/ TakeWhileProbing \/ ProbeAnswered
Settling == SettleInterrupted \/ SettleBlocked \/ SettleFailedProbe \/ SettleTransient
Waiting == BackoffElapses \/ TakeWhileIdle
RunLoop == LoopHead \/ Establishing \/ Monitoring \/ Settling \/ Waiting

Faults ==
  \/ \E error \in Errors : EstablishmentFails(error)
  \/ \E error \in Errors, stable \in BOOLEAN : SessionLost(error, stable)
Learning == \E reported \in SUBSET LearnableRoutes : LearnRoutes(reported)
Checker ==
  \/ StartCheck
  \/ \E r \in checking.better : CheckPasses(r)
  \/ CheckFindsNothing
Timers == TickRequestsCheck \/ \E r \in routeCooldowns : CooldownExpires(r)
Closing == ShutDown \/ RunInterrupted

Next == \/ Callers \/ Platform \/ Posting \/ RunLoop \/ Faults \/ Learning
        \/ Checker \/ Timers \/ Closing

\* The run loop, the checker, a caller in the middle of a call and a closing
\* scope go on; a timeout ends every wait on the outside.  Callers, the platform
\* and faults owe nothing, so `Disturb` bounds them and nothing else.
Fairness ==
  /\ WF_vars(RunLoop) /\ WF_vars(Posting) /\ WF_vars(Checker) /\ WF_vars(RunInterrupted)

Spec == Init /\ [][Next]_vars
FairSpec == Spec /\ Fairness

-----------------------------------------------------------------------------
(* Properties                                                              *)

Failures == {"none", "transient", "blocked"}
Signals ==
  {ConnectRequested, DisconnectRequested, RetryRequested}
    \cup {NetworkChanged(status) : status \in NetworkStatuses}
    \cup {Wakeup(reason) : reason \in WakeupReasons}
    \cup {BetterRouteAvailable(r) : r \in Routes}
Leases == [generation : Nat, route : Routes] \cup {NoLease}
Outcomes == [established : BOOLEAN, stable : BOOLEAN, resetRetry : BOOLEAN, error : Failures]
Checks == [lease : Leases, better : SUBSET Routes]
Phases == {"available", "offline", "connecting", "backoff", "connected", "blocked"}
Stages == {"none", "preparing", "opening", "synchronizing"}
States ==
  [desired : BOOLEAN, network : NetworkStatuses, phase : Phases,
   stage : Stages,
   attempt : Nat, generation : Nat, lastFailure : Failures]

FlagTypes ==
  /\ desired \in BOOLEAN /\ resetRetryState \in BOOLEAN /\ probeUnanswered \in BOOLEAN
  /\ replacing \in BOOLEAN /\ backlog \in BOOLEAN /\ learning \in BOOLEAN
  /\ shutdown \in BOOLEAN /\ excused \in BOOLEAN

ValueTypes ==
  /\ network \in NetworkStatuses
  /\ posting \subseteq Signals /\ signals \in Seq(Signals)
  /\ preferredRouteId \in Routes \cup {NoRoute}
  /\ routeCooldowns \subseteq Routes /\ routes \subseteq Routes
  /\ session \in Nat /\ prepared \in Routes \cup {NoRoute} /\ issued \in Nat
  /\ pc \in {"top", "available", "offline", "establishing", "connected", "probing",
             "releasing", "blocked", "backoff", "closed"}
  /\ failureCount \in Nat /\ latestFailure \in Failures /\ losses \in Nat
  /\ generation \in Nat
  /\ switchingTo \in Routes \cup {NoRoute} /\ tried \subseteq Routes
  /\ opened \in Routes \cup {NoRoute}
  /\ lease \in Leases
  /\ outcome \in Outcomes
  /\ checkQueue \in Leases
  /\ checking \in Checks
  /\ disturbances \in Nat

StateTypes ==
  /\ state \in States
  /\ state.stage # "none" <=> state.phase = "connecting"
  /\ state.phase = "available" => ~state.desired
  /\ pc = "establishing" /\ state.stage \in {"opening", "synchronizing"} => opened # NoRoute

\* The types of the variables, and three facts about the published state: only a
\* connecting state has a stage, an available one is not desired, and an attempt
\* past its first stage has a route open.
TypeOK == FlagTypes /\ ValueTypes /\ StateTypes

\* No change of intent is lost on a run loop that already read the old one:
\* where the loop waits, a difference between what it published and what is
\* wanted (or what the network is) still has its signal on the way; while it
\* sets up or holds a session, so does a disconnect, and during setup the
\* offline report that must interrupt it.
IntentPending ==
  ~shutdown =>
    /\ pc \in {"available", "offline", "blocked", "backoff"} =>
         /\ desired /\ ~state.desired => Pending(ConnectRequested)
         /\ ~desired /\ state.desired => Pending(DisconnectRequested)
         /\ network # state.network => Pending(NetworkChanged(network))
    /\ pc \in {"establishing", "connected", "probing"} /\ ~desired
         => Pending(DisconnectRequested)
    /\ pc = "establishing" /\ network = "offline" /\ ~replacing
         => Pending(NetworkChanged("offline"))

\* resetRetryState never stays armed without a retry on the way, or just taken to
\* interrupt an attempt: an explicit retry that a probe has answered must not
\* reset the backoff of a later failure.
RetryFlagBacked ==
  resetRetryState /\ ~shutdown =>
    \/ Pending(RetryRequested)
    \/ pc = "top"
    \/ pc = "releasing" /\ outcome.error = "none"

\* A published session is the one the loop holds, over the published route;
\* nothing stays published once the attempt is over or the supervisor closed.
SessionIsLive ==
  /\ session # NoSession =>
       Live /\ session = lease.generation /\ prepared = lease.route /\ session = issued
  /\ Live /\ ~shutdown => session # NoSession
  /\ pc \in {"releasing", "closed"} => prepared = NoRoute

\* Consumers see what EnvironmentSession promises: sessions one at a time, each
\* opened while it was wanted, under a new generation that the connected state
\* announces (a VCS reload is keyed on it).
Session == INSTANCE EnvironmentSession WITH
  wanted <- desired, current <- session, last <- issued, closing <- shutdown,
  announced <- IF state.phase = "connected" THEN state.generation ELSE 0
ImplementsSession == Session!Spec

\* The backoff ladder keeps growing while sessions and attempts fail for no
\* reason but themselves: only a retry, a resume, a network change, a probe that
\* finds the transport dead, a stable session or giving up the connection starts
\* it over.  A session that opens and flaps does not.
LadderEscalates == failureCount >= losses

\* After a failure, the published state names it until a session is established
\* or the ladder starts over.
FailureStaysVisible ==
  losses > 0 /\ pc \in {"establishing", "offline", "blocked", "backoff"} =>
    state.lastFailure # "none"

\* An attempt that failed to connect waits, in backoff or for a signal: the
\* immediate reconnect belongs to a session whose probe failed.
FailedAttemptsWait ==
  [][pc = "releasing" /\ ~outcome.established /\ outcome.error # "none" =>
       pc' \in {"releasing", "blocked", "backoff", "closed"}]_vars

\* A better route waiting for a live session was found for that session: it
\* ranks above the route in use and is not cooling down.
SwitchImproves ==
  Live => \A i \in 1..Len(signals) :
    signals[i].tag = "BetterRouteAvailable" =>
      /\ signals[i].routeId < lease.route
      /\ signals[i].routeId \notin routeCooldowns

\* Once it stays wanted and the network is not offline, the connection ends up
\* connected, or blocked on something the user must change.
Converges ==
  <>[](desired /\ network # "offline" /\ ~shutdown)
    => <>[](state.phase \in {"connected", "blocked"})

\* A disconnect is carried out: the session is released and the state available.
DisconnectReleases ==
  ~desired ~> (desired \/ shutdown \/ (pc = "available" /\ session = NoSession))

\* An explicit retry is always consumed, by a fresh ladder or by a probe.
RetryConsumed == resetRetryState ~> (~resetRetryState \/ shutdown)

-----------------------------------------------------------------------------
(* What comments and tests say that the code does not do                   *)

\* supervisor.ts:876: the attempt that ignores an offline report is the fresh
\* one after a long resume, so none starts out of the available state.
OfflineWaits ==
  [][network = "offline" /\ pc = "top" /\ state.phase = "available"
       => pc' # "establishing"]_vars

\* supervisor.ts:52: a better route that answered the check but then failed to
\* connect is cooling down afterwards.
FailedSwitchCools ==
  [][pc = "releasing" /\ pc' # "releasing" /\ switchingTo # NoRoute
       /\ outcome.error # "none" /\ ~outcome.established
       => switchingTo \in routeCooldowns]_vars
=============================================================================
