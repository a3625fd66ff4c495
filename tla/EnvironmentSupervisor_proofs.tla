-------------------- MODULE EnvironmentSupervisor_proofs --------------------
(***************************************************************************)
(* Theorems of EnvironmentSupervisor, for every set of routes, networks    *)
(* and wakeups and every bound on disturbances: what is published, which   *)
(* session is open, how failures are counted, and where the loop may rest. *)
(***************************************************************************)
EXTENDS EnvironmentSupervisor, TLAPS

-----------------------------------------------------------------------------
(* Types of the values the actions build                                   *)

\* What the run loop publishes is a state; only a connecting one has a stage.
LEMMA PublishedType ==
  ASSUME network \in NetworkStatuses, NEW wanted \in BOOLEAN, NEW phase \in Phases,
         NEW stage \in Stages, NEW attempt \in Nat, NEW gen \in Nat, NEW lastFailure \in Failures
  PROVE  /\ Published(wanted, phase, stage, attempt, gen, lastFailure) \in States
         /\ Published(wanted, phase, stage, attempt, gen, lastFailure).phase = phase
         /\ Published(wanted, phase, stage, attempt, gen, lastFailure).stage = stage
BY DEF Published, States

LEMMA PublishedNames ==
  /\ \A phase \in {"connected", "blocked", "backoff"} : phase \in Phases
  /\ \A stage \in {"preparing", "opening", "synchronizing"} : stage \in Stages
  /\ "available" \in Phases /\ "offline" \in Phases /\ "connecting" \in Phases
  /\ "none" \in Stages /\ "none" \in Failures /\ 0 \in Nat
BY DEF Phases, Stages, Failures

LEMMA AvailableType ==
  ASSUME network \in NetworkStatuses, NEW gen \in Nat
  PROVE  /\ AvailableState(gen) \in States
         /\ AvailableState(gen).phase = "available" /\ AvailableState(gen).stage = "none"
         /\ ~AvailableState(gen).desired
<1>1. /\ AvailableState(gen) \in States
      /\ AvailableState(gen).phase = "available" /\ AvailableState(gen).stage = "none"
  BY PublishedNames DEF AvailableState, Published, States
<1>2. ~AvailableState(gen).desired
  BY DEF AvailableState, Published
<1> QED
  BY <1>1, <1>2

LEMMA OfflineType ==
  ASSUME network \in NetworkStatuses, NEW gen \in Nat, NEW attempt \in Nat,
         NEW lastFailure \in Failures
  PROVE  /\ OfflineState(gen, attempt, lastFailure) \in States
         /\ OfflineState(gen, attempt, lastFailure).phase = "offline"
         /\ OfflineState(gen, attempt, lastFailure).stage = "none"
BY PublishedNames DEF OfflineState, Published, States

LEMMA ConnectingType ==
  ASSUME network \in NetworkStatuses, NEW gen \in Nat, NEW attempt \in Nat,
         NEW lastFailure \in Failures, NEW stage \in {"preparing", "opening", "synchronizing"}
  PROVE  /\ ConnectingState(gen, attempt, lastFailure, stage) \in States
         /\ ConnectingState(gen, attempt, lastFailure, stage).phase = "connecting"
         /\ ConnectingState(gen, attempt, lastFailure, stage).stage = stage
<1>1. stage \in Stages
  BY PublishedNames
<1> QED
  BY <1>1, PublishedNames DEF ConnectingState, Published, States

\* The states of a session and of its failures.
LEMMA SettledType ==
  ASSUME network \in NetworkStatuses, NEW wanted \in BOOLEAN,
         NEW phase \in {"connected", "blocked", "backoff"},
         NEW gen \in Nat, NEW attempt \in Nat, NEW lastFailure \in Failures
  PROVE  /\ Published(wanted, phase, "none", attempt, gen, lastFailure) \in States
         /\ Published(wanted, phase, "none", attempt, gen, lastFailure).phase = phase
         /\ Published(wanted, phase, "none", attempt, gen, lastFailure).stage = "none"
<1>1. phase \in Phases
  BY PublishedNames
<1> QED
  BY <1>1, PublishedNames, PublishedType

\* The initial values of leases, checks and outcomes have their types.
LEMMA ConstantTypes ==
  /\ NoLease \in Leases /\ NoCheck \in Checks /\ NoOutcome \in Outcomes
  /\ NoRoute \notin Routes
  /\ {"available", "offline", "connecting", "backoff", "connected", "blocked"} = Phases
BY ConstantsAssumption
   DEF NoLease, Lease, Leases, NoCheck, Checks, NoOutcome, Outcomes, Failures, NoRoute, Routes,
       Phases

LEMMA OutcomeTypes ==
  /\ \A established, stable, resetRetry \in BOOLEAN, error \in Failures :
       [established |-> established, stable |-> stable, resetRetry |-> resetRetry,
        error |-> error] \in Outcomes
  /\ \A o \in Outcomes : o.error \in Failures
BY DEF Outcomes

\* An attempt or a session that ends leaves a well-typed outcome.
LEMMA LeaveTypes ==
  ASSUME NEW established \in BOOLEAN, NEW stable \in BOOLEAN, NEW resetRetry \in BOOLEAN,
         NEW error \in Failures, Leave(established, stable, resetRetry, error)
  PROVE  outcome' \in Outcomes /\ session' \in Nat /\ prepared' = NoRoute /\ pc' = "releasing"
<1>1. outcome' \in Outcomes
  BY OutcomeTypes, Zenon DEF Leave
<1> QED
  BY <1>1 DEF Leave, NoSession

LEMMA OutcomeResets == \A o \in Outcomes : o.resetRetry \in BOOLEAN
BY Zenon DEF Outcomes

LEMMA CheckTypes ==
  /\ \A l \in Leases, better \in SUBSET Routes : [lease |-> l, better |-> better] \in Checks
  /\ \A c \in Checks : c.lease \in Leases /\ c.better \subseteq Routes
BY DEF Checks

LEMMA SignalTypes ==
  /\ ConnectRequested \in Signals /\ DisconnectRequested \in Signals
  /\ RetryRequested \in Signals
  /\ \A status \in NetworkStatuses : NetworkChanged(status) \in Signals
  /\ \A reason \in WakeupReasons : Wakeup(reason) \in Signals
  /\ \A r \in Routes : BetterRouteAvailable(r) \in Signals
  /\ \A s \in Signals : s.tag = "BetterRouteAvailable" => s.routeId \in Routes
<1>1. ASSUME NEW s \in Signals, s.tag = "BetterRouteAvailable" PROVE s.routeId \in Routes
  <2>1. CASE \E r \in Routes : s = BetterRouteAvailable(r)
    BY <2>1 DEF BetterRouteAvailable
  <2>2. CASE s \in {ConnectRequested, DisconnectRequested, RetryRequested}
    BY <1>1, <2>2 DEF ConnectRequested, DisconnectRequested, RetryRequested
  <2>3. CASE \E status \in NetworkStatuses : s = NetworkChanged(status)
    BY <1>1, <2>3 DEF NetworkChanged
  <2>4. CASE \E reason \in WakeupReasons : s = Wakeup(reason)
    BY <1>1, <2>4 DEF Wakeup
  <2> QED
    BY <2>1, <2>2, <2>3, <2>4 DEF Signals
<1>2. /\ ConnectRequested \in Signals /\ DisconnectRequested \in Signals
      /\ RetryRequested \in Signals
      /\ \A status \in NetworkStatuses : NetworkChanged(status) \in Signals
      /\ \A reason \in WakeupReasons : Wakeup(reason) \in Signals
      /\ \A r \in Routes : BetterRouteAvailable(r) \in Signals
  BY DEF Signals
<1> QED
  BY <1>1, <1>2

LEMMA QueueTypes ==
  ASSUME signals \in Seq(Signals), signals # <<>>
  PROVE  Head(signals) \in Signals /\ Tail(signals) \in Seq(Signals)
OBVIOUS

-----------------------------------------------------------------------------
(* Type correctness                                                        *)


LEMMA TypeInit == Init => TypeOK
<1> SUFFICES ASSUME Init PROVE TypeOK
  OBVIOUS
<1>1. FlagTypes
  BY Zenon DEF Init, FlagTypes
<1>2. ValueTypes
  BY ConstantTypes DEF Init, ValueTypes, Failures, NoSession, Routes
<1>3. StateTypes
  <2>1. CASE ~desired
    BY <2>1, AvailableType DEF Init, StateTypes
  <2>2. CASE desired /\ network = "offline"
    BY <2>2, OfflineType DEF Init, StateTypes, Failures
  <2>3. CASE desired /\ network # "offline"
    BY <2>3, ConnectingType DEF Init, StateTypes, Failures
  <2> QED
    BY <2>1, <2>2, <2>3
<1> QED
  BY <1>1, <1>2, <1>3 DEF TypeOK

LEMMA FlagStep == TypeOK /\ [Next]_vars => FlagTypes'
<1> SUFFICES ASSUME FlagTypes, outcome \in Outcomes, [Next]_vars PROVE FlagTypes'
  BY DEF TypeOK, ValueTypes
<1> USE DEF FlagTypes, vars, intentVars, markerVars, routeVars, publishedVars,
            ladderVars, driverVars, attemptVars, checkerVars, envVars
<1>1. ASSUME Connect PROVE FlagTypes'
  BY <1>1, Zenon DEF Connect
<1>2. ASSUME Disconnect PROVE FlagTypes'
  BY <1>2, Zenon DEF Disconnect
<1>3. ASSUME RetryNow PROVE FlagTypes'
  BY <1>3, Zenon DEF RetryNow
<1>4. ASSUME NEW status \in NetworkStatuses, ConnectivityChanges(status) PROVE FlagTypes'
  BY <1>4, Zenon DEF ConnectivityChanges
<1>5. ASSUME NEW reason \in WakeupReasons, WakeupArrives(reason) PROVE FlagTypes'
  BY <1>5, Zenon DEF WakeupArrives
<1>6. ASSUME NEW s \in posting, Post(s) PROVE FlagTypes'
  BY <1>6, Zenon DEF Post
<1>7. ASSUME GoAvailable PROVE FlagTypes'
  BY <1>7, Zenon DEF GoAvailable
<1>8. ASSUME GoOffline PROVE FlagTypes'
  BY <1>8, Zenon DEF GoOffline
<1>9. ASSUME StartAttempt PROVE FlagTypes'
  BY <1>9, Zenon DEF StartAttempt
<1>10. ASSUME NEW r \in routes, OpenRoute(r) PROVE FlagTypes'
  BY <1>10, Zenon DEF OpenRoute
<1>11. ASSUME SynchronizeRoute PROVE FlagTypes'
  BY <1>11, Zenon DEF SynchronizeRoute
<1>12. ASSUME Land PROVE FlagTypes'
  BY <1>12, Zenon DEF Land
<1>13. ASSUME TakeWhileEstablishing PROVE FlagTypes'
  BY <1>13, Zenon DEF TakeWhileEstablishing
<1>14. ASSUME NEW stable \in BOOLEAN, TakeLeaseEnd(stable) PROVE FlagTypes'
  BY <1>14, Zenon DEF TakeLeaseEnd, TakeLive, RetryFlagWhenTaken
<1>15. ASSUME TakeWhileConnected PROVE FlagTypes'
  BY <1>15, Zenon DEF TakeWhileConnected, TakeLive, RetryFlagWhenTaken
<1>16. ASSUME TakeWhileProbing PROVE FlagTypes'
  BY <1>16, Zenon DEF TakeWhileProbing, TakeLive, RetryFlagWhenTaken
<1>17. ASSUME ProbeAnswered PROVE FlagTypes'
  BY <1>17, Zenon DEF ProbeAnswered
<1>18. ASSUME SettleInterrupted PROVE FlagTypes'
  BY <1>18, OutcomeResets, Zenon DEF SettleInterrupted, Settle, ProbeMarkerAfterwards
<1>19. ASSUME SettleBlocked PROVE FlagTypes'
  BY <1>19, OutcomeResets, Zenon DEF SettleBlocked, Settle, ProbeMarkerAfterwards
<1>20. ASSUME SettleFailedProbe PROVE FlagTypes'
  BY <1>20, OutcomeResets, Zenon DEF SettleFailedProbe, Settle, ProbeMarkerAfterwards
<1>21. ASSUME SettleTransient PROVE FlagTypes'
  BY <1>21, OutcomeResets, Zenon DEF SettleTransient, Settle, ProbeMarkerAfterwards
<1>22. ASSUME BackoffElapses PROVE FlagTypes'
  BY <1>22, Zenon DEF BackoffElapses
<1>23. ASSUME TakeWhileIdle PROVE FlagTypes'
  BY <1>23, Zenon DEF TakeWhileIdle
<1>24. ASSUME NEW error \in Errors, EstablishmentFails(error) PROVE FlagTypes'
  BY <1>24, Zenon DEF EstablishmentFails
<1>25. ASSUME NEW error \in Errors, NEW stable \in BOOLEAN, SessionLost(error, stable) PROVE FlagTypes'
  BY <1>25, Zenon DEF SessionLost
<1>26. ASSUME NEW reported \in SUBSET LearnableRoutes, LearnRoutes(reported) PROVE FlagTypes'
  BY <1>26, Zenon DEF LearnRoutes
<1>27. ASSUME StartCheck PROVE FlagTypes'
  BY <1>27, Zenon DEF StartCheck
<1>28. ASSUME NEW r \in checking.better, CheckPasses(r) PROVE FlagTypes'
  BY <1>28, Zenon DEF CheckPasses
<1>29. ASSUME CheckFindsNothing PROVE FlagTypes'
  BY <1>29, Zenon DEF CheckFindsNothing
<1>30. ASSUME TickRequestsCheck PROVE FlagTypes'
  BY <1>30, Zenon DEF TickRequestsCheck
<1>31. ASSUME NEW r \in routeCooldowns, CooldownExpires(r) PROVE FlagTypes'
  BY <1>31, Zenon DEF CooldownExpires
<1>32. ASSUME ShutDown PROVE FlagTypes'
  BY <1>32, Zenon DEF ShutDown
<1>33. ASSUME RunInterrupted PROVE FlagTypes'
  BY <1>33, Zenon DEF RunInterrupted
<1>34. CASE UNCHANGED vars
  BY <1>34
<1> QED
  BY <1>1, <1>2, <1>3, <1>4, <1>5, <1>6, <1>7, <1>8, <1>9, <1>10, <1>11, <1>12, <1>13,
     <1>14, <1>15, <1>16, <1>17, <1>18, <1>19, <1>20, <1>21, <1>22, <1>23, <1>24, <1>25,
     <1>26, <1>27, <1>28, <1>29, <1>30, <1>31, <1>32, <1>33, <1>34
     DEF Next, Callers, Platform, Posting, RunLoop, LoopHead, Establishing, Monitoring, Settling,
         Waiting, Faults, Learning, Checker, Timers, Closing

LEMMA ValueStep == TypeOK /\ [Next]_vars => ValueTypes'
<1> SUFFICES ASSUME ValueTypes, StateTypes, [Next]_vars PROVE ValueTypes'
  BY DEF TypeOK
<1> USE DEF ValueTypes, vars, intentVars, markerVars, routeVars, publishedVars,
            ladderVars, driverVars, attemptVars, checkerVars, envVars
<1>1. ASSUME Connect PROVE ValueTypes'
  BY <1>1, SignalTypes DEF Connect, Disturb
<1>2. ASSUME Disconnect PROVE ValueTypes'
  BY <1>2, SignalTypes DEF Disconnect, Disturb
<1>3. ASSUME RetryNow PROVE ValueTypes'
  BY <1>3, SignalTypes DEF RetryNow, Disturb
<1>4. ASSUME NEW status \in NetworkStatuses, ConnectivityChanges(status) PROVE ValueTypes'
  BY <1>4, SignalTypes DEF ConnectivityChanges, Disturb
<1>5. ASSUME NEW reason \in WakeupReasons, WakeupArrives(reason) PROVE ValueTypes'
  BY <1>5, SignalTypes DEF WakeupArrives, Disturb
<1>6. ASSUME NEW s \in posting, Post(s) PROVE ValueTypes'
  BY <1>6 DEF Post
<1>7. ASSUME GoAvailable PROVE ValueTypes'
  BY <1>7, ConstantTypes DEF GoAvailable, Failures, NoSession
<1>8. ASSUME GoOffline PROVE ValueTypes'
  BY <1>8, ConstantTypes DEF GoOffline, AfterRetryFlag, Failures, NoSession
<1>9. ASSUME StartAttempt PROVE ValueTypes'
  BY <1>9, ConstantTypes DEF StartAttempt, AfterRetryFlag, Failures, NoSession
<1>10. ASSUME NEW r \in routes, OpenRoute(r) PROVE ValueTypes'
  BY <1>10, ConstantTypes, ConstantsAssumption DEF OpenRoute, Disturb, Routes, NoRoute
<1>11. ASSUME SynchronizeRoute PROVE ValueTypes'
  BY <1>11 DEF SynchronizeRoute
<1>12. ASSUME Land PROVE ValueTypes'
  <2>1. CASE ~StillWanted
    <3>1. "none" \in Failures
      BY DEF Failures
    <3>2. outcome' \in Outcomes /\ session' \in Nat /\ prepared' = NoRoute /\ pc' = "releasing"
      BY <1>12, <2>1, <3>1, LeaveTypes, Zenon DEF Land
    <3> QED
      BY <1>12, <2>1, <3>2 DEF Land
  <2>2. CASE StillWanted
    BY <1>12, <2>2, ConstantTypes DEF Land, StateTypes, Leases, Lease
  <2> QED
    BY <2>1, <2>2
<1>13. ASSUME TakeWhileEstablishing PROVE ValueTypes'
  <2>1. CASE InterruptsEstablishment(Head(signals))
    <3>1. outcome' \in Outcomes /\ session' \in Nat /\ prepared' = NoRoute /\ pc' = "releasing"
      <4>1. "none" \in Failures
        BY DEF Failures
      <4>2. (Head(signals) = Wakeup("application-active-reconnect")) \in BOOLEAN
        BY Zenon
      <4>3. Leave(FALSE, FALSE, Head(signals) = Wakeup("application-active-reconnect"), "none")
        BY <1>13, <2>1 DEF TakeWhileEstablishing
      <4> QED
        BY <4>1, <4>2, <4>3, LeaveTypes, Zenon
    <3> QED
      BY <1>13, <3>1, QueueTypes DEF TakeWhileEstablishing
  <2>2. CASE ~InterruptsEstablishment(Head(signals))
    BY <1>13, <2>2, QueueTypes DEF TakeWhileEstablishing
  <2> QED
    BY <2>1, <2>2
<1>14. ASSUME NEW stable \in BOOLEAN, TakeLeaseEnd(stable) PROVE ValueTypes'
  BY <1>14, QueueTypes, OutcomeTypes, ConstantTypes, SignalTypes
    DEF TakeLeaseEnd, TakeLive, RetryFlagWhenTaken, Leave, Live, NoSession, Failures
<1>15. ASSUME TakeWhileConnected PROVE ValueTypes'
  BY <1>15, QueueTypes
    DEF TakeWhileConnected, TakeLive, RetryFlagWhenTaken, RequestCheck, Live
<1>16. ASSUME TakeWhileProbing PROVE ValueTypes'
  BY <1>16, QueueTypes DEF TakeWhileProbing, TakeLive, RetryFlagWhenTaken
<1>17. ASSUME ProbeAnswered PROVE ValueTypes'
  BY <1>17 DEF ProbeAnswered
<1>18. ASSUME SettleInterrupted PROVE ValueTypes'
  BY <1>18, OutcomeTypes, ConstantTypes
    DEF SettleInterrupted, Settle, AfterStable, EstablishedGeneration,
        ProbeMarkerAfterwards, Failures
<1>19. ASSUME SettleBlocked PROVE ValueTypes'
  BY <1>19, OutcomeTypes, ConstantTypes
    DEF SettleBlocked, Settle, AfterStable, EstablishedGeneration, ProbeMarkerAfterwards,
        Failures
<1>20. ASSUME SettleFailedProbe PROVE ValueTypes'
  BY <1>20, OutcomeTypes, ConstantTypes
    DEF SettleFailedProbe, Settle, AfterStable, EstablishedGeneration,
        ProbeMarkerAfterwards, Failures
<1>21. ASSUME SettleTransient PROVE ValueTypes'
  BY <1>21, OutcomeTypes, ConstantTypes
    DEF SettleTransient, Settle, AfterStable, EstablishedGeneration,
        ProbeMarkerAfterwards, Failures
<1>22. ASSUME BackoffElapses PROVE ValueTypes'
  BY <1>22 DEF BackoffElapses
<1>23. ASSUME TakeWhileIdle PROVE ValueTypes'
  BY <1>23, QueueTypes DEF TakeWhileIdle
<1>24. ASSUME NEW error \in Errors, EstablishmentFails(error) PROVE ValueTypes'
  <2>1. error \in Failures
    BY DEF Errors, Failures
  <2>2. outcome' \in Outcomes /\ session' \in Nat /\ prepared' = NoRoute /\ pc' = "releasing"
    BY <1>24, <2>1, LeaveTypes, Zenon DEF EstablishmentFails
  <2> QED
    BY <1>24, <2>2 DEF EstablishmentFails, Disturb
<1>25. ASSUME NEW error \in Errors, NEW stable \in BOOLEAN, SessionLost(error, stable) PROVE ValueTypes'
  <2>1. error \in Failures
    BY DEF Errors, Failures
  <2>2. outcome' \in Outcomes /\ session' \in Nat /\ prepared' = NoRoute /\ pc' = "releasing"
    BY <1>25, <2>1, LeaveTypes, Zenon DEF SessionLost
  <2> QED
    BY <1>25, <2>2 DEF SessionLost, Disturb
<1>26. ASSUME NEW reported \in SUBSET LearnableRoutes, LearnRoutes(reported) PROVE ValueTypes'
  BY <1>26 DEF LearnRoutes, Disturb, Routes
<1>27. ASSUME StartCheck PROVE ValueTypes'
  BY <1>27, ConstantTypes, CheckTypes DEF StartCheck, RoutesAbove
<1>28. ASSUME NEW r \in checking.better, CheckPasses(r) PROVE ValueTypes'
  BY <1>28, ConstantTypes, CheckTypes, SignalTypes DEF CheckPasses
<1>29. ASSUME CheckFindsNothing PROVE ValueTypes'
  BY <1>29, ConstantTypes DEF CheckFindsNothing
<1>30. ASSUME TickRequestsCheck PROVE ValueTypes'
  BY <1>30 DEF TickRequestsCheck, RequestCheck
<1>31. ASSUME NEW r \in routeCooldowns, CooldownExpires(r) PROVE ValueTypes'
  BY <1>31 DEF CooldownExpires
<1>32. ASSUME ShutDown PROVE ValueTypes'
  BY <1>32, ConstantTypes DEF ShutDown, Disturb, NoSession
<1>33. ASSUME RunInterrupted PROVE ValueTypes'
  BY <1>33, ConstantTypes DEF RunInterrupted, NoSession
<1>34. CASE UNCHANGED vars
  BY <1>34
<1> QED
  BY <1>1, <1>2, <1>3, <1>4, <1>5, <1>6, <1>7, <1>8, <1>9, <1>10, <1>11, <1>12, <1>13,
     <1>14, <1>15, <1>16, <1>17, <1>18, <1>19, <1>20, <1>21, <1>22, <1>23, <1>24, <1>25,
     <1>26, <1>27, <1>28, <1>29, <1>30, <1>31, <1>32, <1>33, <1>34
     DEF Next, Callers, Platform, Posting, RunLoop, LoopHead, Establishing, Monitoring, Settling,
         Waiting, Faults, Learning, Checker, Timers, Closing

LEMMA StateStep == TypeOK /\ [Next]_vars => StateTypes'
<1> SUFFICES ASSUME TypeOK, [Next]_vars PROVE StateTypes'
  OBVIOUS
<1> USE DEF TypeOK, ValueTypes, StateTypes, vars, intentVars, markerVars, routeVars, publishedVars,
            ladderVars, driverVars, attemptVars, checkerVars, envVars
<1>1. ASSUME Connect PROVE StateTypes'
  BY <1>1 DEF Connect
<1>2. ASSUME Disconnect PROVE StateTypes'
  BY <1>2 DEF Disconnect
<1>3. ASSUME RetryNow PROVE StateTypes'
  BY <1>3 DEF RetryNow
<1>4. ASSUME NEW status \in NetworkStatuses, ConnectivityChanges(status) PROVE StateTypes'
  BY <1>4 DEF ConnectivityChanges
<1>5. ASSUME NEW reason \in WakeupReasons, WakeupArrives(reason) PROVE StateTypes'
  BY <1>5 DEF WakeupArrives
<1>6. ASSUME NEW s \in posting, Post(s) PROVE StateTypes'
  BY <1>6 DEF Post
<1>7. ASSUME GoAvailable PROVE StateTypes'
  BY <1>7, AvailableType DEF GoAvailable
<1>8. ASSUME GoOffline PROVE StateTypes'
  BY <1>8, OfflineType DEF GoOffline, AfterRetryFlag, Failures
<1>9. ASSUME StartAttempt PROVE StateTypes'
  BY <1>9, ConnectingType DEF StartAttempt, AfterRetryFlag, Failures
<1>10. ASSUME NEW r \in routes, OpenRoute(r) PROVE StateTypes'
  BY <1>10, ConnectingType, ConstantTypes DEF OpenRoute, Disturb
<1>11. ASSUME SynchronizeRoute PROVE StateTypes'
  BY <1>11, ConnectingType DEF SynchronizeRoute
<1>12. ASSUME Land PROVE StateTypes'
  <2>1. CASE pc' = "connected"
    <3>1. /\ failureCount + 1 \in Nat /\ generation + 1 \in Nat /\ TRUE \in BOOLEAN
          /\ "connected" \in {"connected", "blocked", "backoff"}
      OBVIOUS
    <3>2. /\ state' \in States
          /\ state'.phase = "connected" /\ state'.stage = "none"
      <4>1. state' = Published(TRUE, "connected", "none", failureCount + 1, generation + 1, "none")
        BY <1>12, <2>1 DEF Land, Leave
      <4> QED
        BY <4>1, <3>1, PublishedNames DEF Published, States
    <3> QED
      BY <2>1, <3>2
  <2>2. CASE pc' # "connected"
    BY <1>12, <2>2 DEF Land, Leave
  <2> QED
    BY <2>1, <2>2
<1>13. ASSUME TakeWhileEstablishing PROVE StateTypes'
  BY <1>13 DEF TakeWhileEstablishing, Leave
<1>14. ASSUME NEW stable \in BOOLEAN, TakeLeaseEnd(stable) PROVE StateTypes'
  BY <1>14 DEF TakeLeaseEnd, TakeLive, Leave, Live
<1>15. ASSUME TakeWhileConnected PROVE StateTypes'
  BY <1>15 DEF TakeWhileConnected, TakeLive, Live
<1>16. ASSUME TakeWhileProbing PROVE StateTypes'
  BY <1>16 DEF TakeWhileProbing, TakeLive
<1>17. ASSUME ProbeAnswered PROVE StateTypes'
  BY <1>17 DEF ProbeAnswered
<1>18. ASSUME SettleInterrupted PROVE StateTypes'
  BY <1>18 DEF SettleInterrupted, Settle
<1>19. ASSUME SettleBlocked PROVE StateTypes'
  <2>1. /\ failureCount + 1 \in Nat /\ generation' \in Nat /\ "blocked" \in Failures
        /\ "blocked" \in {"connected", "blocked", "backoff"}
    BY <1>19 DEF SettleBlocked, Settle, EstablishedGeneration, Failures
  <2>2. desired \in BOOLEAN
    BY Zenon DEF FlagTypes
  <2>3. /\ state' \in States
        /\ state'.phase = "blocked" /\ state'.stage = "none"
    BY <1>19, <2>1, <2>2, SettledType, SMTT(30) DEF SettleBlocked
  <2> QED
    BY <1>19, <2>3 DEF SettleBlocked
<1>20. ASSUME SettleFailedProbe PROVE StateTypes'
  BY <1>20, ConnectingType DEF SettleFailedProbe, Settle, EstablishedGeneration, Failures
<1>21. ASSUME SettleTransient PROVE StateTypes'
  <2>1. /\ failureCount + 1 \in Nat /\ generation' \in Nat /\ "transient" \in Failures
        /\ "backoff" \in {"connected", "blocked", "backoff"}
    BY <1>21 DEF SettleTransient, Settle, EstablishedGeneration, Failures
  <2>2. desired \in BOOLEAN
    BY Zenon DEF FlagTypes
  <2>3. /\ state' \in States
        /\ state'.phase = "backoff" /\ state'.stage = "none"
    BY <1>21, <2>1, <2>2, SettledType DEF SettleTransient
  <2> QED
    BY <1>21, <2>3 DEF SettleTransient
<1>22. ASSUME BackoffElapses PROVE StateTypes'
  BY <1>22 DEF BackoffElapses
<1>23. ASSUME TakeWhileIdle PROVE StateTypes'
  BY <1>23 DEF TakeWhileIdle
<1>24. ASSUME NEW error \in Errors, EstablishmentFails(error) PROVE StateTypes'
  BY <1>24 DEF EstablishmentFails, Leave
<1>25. ASSUME NEW error \in Errors, NEW stable \in BOOLEAN, SessionLost(error, stable) PROVE StateTypes'
  BY <1>25 DEF SessionLost, Leave, Live
<1>26. ASSUME NEW reported \in SUBSET LearnableRoutes, LearnRoutes(reported) PROVE StateTypes'
  BY <1>26 DEF LearnRoutes
<1>27. ASSUME StartCheck PROVE StateTypes'
  BY <1>27 DEF StartCheck
<1>28. ASSUME NEW r \in checking.better, CheckPasses(r) PROVE StateTypes'
  BY <1>28 DEF CheckPasses
<1>29. ASSUME CheckFindsNothing PROVE StateTypes'
  BY <1>29 DEF CheckFindsNothing
<1>30. ASSUME TickRequestsCheck PROVE StateTypes'
  BY <1>30 DEF TickRequestsCheck
<1>31. ASSUME NEW r \in routeCooldowns, CooldownExpires(r) PROVE StateTypes'
  BY <1>31 DEF CooldownExpires
<1>32. ASSUME ShutDown PROVE StateTypes'
  BY <1>32 DEF ShutDown
<1>33. ASSUME RunInterrupted PROVE StateTypes'
  BY <1>33 DEF RunInterrupted
<1>34. CASE UNCHANGED vars
  BY <1>34
<1> QED
  BY <1>1, <1>2, <1>3, <1>4, <1>5, <1>6, <1>7, <1>8, <1>9, <1>10, <1>11, <1>12, <1>13,
     <1>14, <1>15, <1>16, <1>17, <1>18, <1>19, <1>20, <1>21, <1>22, <1>23, <1>24, <1>25,
     <1>26, <1>27, <1>28, <1>29, <1>30, <1>31, <1>32, <1>33, <1>34
     DEF Next, Callers, Platform, Posting, RunLoop, LoopHead, Establishing, Monitoring, Settling,
         Waiting, Faults, Learning, Checker, Timers, Closing

LEMMA TypeStep == TypeOK /\ [Next]_vars => TypeOK'
BY FlagStep, ValueStep, StateStep DEF TypeOK

\* Every reachable state is well typed.
THEOREM TypeCorrect == Spec => []TypeOK
BY TypeInit, TypeStep, PTL DEF Spec

-----------------------------------------------------------------------------
(* Signals on their way to the run loop                                    *)

LEMMA PendingKept ==
  ASSUME posting' = posting, signals' = signals, NEW s
  PROVE  Pending(s)' <=> Pending(s)
BY DEF Pending

\* A call announces its signal.
LEMMA PendingAnnounced ==
  ASSUME NEW t, posting' = posting \cup {t}, signals' = signals, NEW s
  PROVE  Pending(t)' /\ (Pending(s) => Pending(s)')
BY DEF Pending

\* A signal queued behind the others loses none of them.
LEMMA PendingAppended ==
  ASSUME signals \in Seq(Signals), NEW t \in Signals, posting' = posting,
         signals' = Append(signals, t), NEW s, Pending(s)
  PROVE  Pending(s)'
BY DEF Pending

\* An announced signal stays on its way when it is queued.
LEMMA PendingPosted ==
  ASSUME signals \in Seq(Signals), posting \subseteq Signals, NEW t \in posting,
         posting' = posting \ {t}, signals' = Append(signals, t), NEW s, Pending(s)
  PROVE  Pending(s)'
<1>1. CASE s = t
  <2>1. signals'[Len(signals')] = s /\ Len(signals') \in 1..Len(signals')
    BY <1>1
  <2> QED
    BY <2>1 DEF Pending
<1>2. CASE s # t /\ s \in posting
  BY <1>2 DEF Pending
<1>3. CASE \E i \in 1..Len(signals) : signals[i] = s
  BY <1>3 DEF Pending
<1> QED
  BY <1>1, <1>2, <1>3 DEF Pending

\* The loop takes the head of the queue and nothing else.
LEMMA PendingTaken ==
  ASSUME signals \in Seq(Signals), signals # <<>>, posting' = posting,
         signals' = Tail(signals), NEW s, s # Head(signals), Pending(s)
  PROVE  Pending(s)'
<1>1. CASE s \in posting
  BY <1>1 DEF Pending
<1>2. CASE \E i \in 1..Len(signals) : signals[i] = s
  <2>1. PICK i \in 1..Len(signals) : signals[i] = s
    BY <1>2
  <2>2. i - 1 \in 1..Len(Tail(signals)) /\ Tail(signals)[i - 1] = s
    BY <2>1
  <2> QED
    BY <2>2 DEF Pending
<1> QED
  BY <1>1, <1>2 DEF Pending

\* The signals the properties speak of are different from a better route.
LEMMA SignalNames ==
  /\ ConnectRequested.tag = "ConnectRequested"
  /\ DisconnectRequested.tag = "DisconnectRequested"
  /\ RetryRequested.tag = "RetryRequested"
  /\ \A status : NetworkChanged(status).tag = "NetworkChanged"
  /\ \A r : BetterRouteAvailable(r).tag = "BetterRouteAvailable"
  /\ \A reason : Wakeup(reason).tag = "Wakeup"
BY DEF ConnectRequested, DisconnectRequested, RetryRequested, NetworkChanged,
       BetterRouteAvailable, Wakeup

-----------------------------------------------------------------------------
(* Retries                                                                 *)

LEMMA RetryInit == Init => RetryFlagBacked
BY DEF Init, RetryFlagBacked

LEMMA RetryStep == TypeOK /\ RetryFlagBacked /\ [Next]_vars => RetryFlagBacked'
<1> SUFFICES ASSUME TypeOK, RetryFlagBacked, [Next]_vars PROVE RetryFlagBacked'
  OBVIOUS
<1>t. signals \in Seq(Signals) /\ posting \subseteq Signals
  BY DEF TypeOK, ValueTypes
<1> USE DEF RetryFlagBacked, vars, intentVars, markerVars, routeVars, publishedVars,
            ladderVars, driverVars, attemptVars, checkerVars, envVars
<1>1. ASSUME Connect PROVE RetryFlagBacked'
  BY <1>1, PendingAnnounced DEF Connect
<1>2. ASSUME Disconnect PROVE RetryFlagBacked'
  BY <1>2, PendingAnnounced DEF Disconnect
<1>3. ASSUME RetryNow PROVE RetryFlagBacked'
  BY <1>3, PendingAnnounced DEF RetryNow
<1>4. ASSUME NEW status \in NetworkStatuses, ConnectivityChanges(status) PROVE RetryFlagBacked'
  BY <1>4, PendingAnnounced DEF ConnectivityChanges
<1>5. ASSUME NEW reason \in WakeupReasons, WakeupArrives(reason) PROVE RetryFlagBacked'
  BY <1>5, <1>t, PendingAppended, PendingKept, SignalTypes DEF WakeupArrives
<1>6. ASSUME NEW s \in posting, Post(s) PROVE RetryFlagBacked'
  BY <1>6, <1>t, PendingPosted DEF Post
<1>7. ASSUME GoAvailable PROVE RetryFlagBacked'
  BY <1>7, PendingKept DEF GoAvailable
<1>8. ASSUME GoOffline PROVE RetryFlagBacked'
  BY <1>8, PendingKept DEF GoOffline
<1>9. ASSUME StartAttempt PROVE RetryFlagBacked'
  BY <1>9, PendingKept DEF StartAttempt
<1>10. ASSUME NEW r \in routes, OpenRoute(r) PROVE RetryFlagBacked'
  BY <1>10, PendingKept DEF OpenRoute
<1>11. ASSUME SynchronizeRoute PROVE RetryFlagBacked'
  BY <1>11, PendingKept DEF SynchronizeRoute
<1>12. ASSUME Land PROVE RetryFlagBacked'
  BY <1>12, PendingKept DEF Land, Leave
<1>13. ASSUME TakeWhileEstablishing PROVE RetryFlagBacked'
  BY <1>13, <1>t, PendingTaken, SignalNames
    DEF TakeWhileEstablishing, Leave, InterruptsEstablishment
<1>14. ASSUME NEW stable \in BOOLEAN, TakeLeaseEnd(stable) PROVE RetryFlagBacked'
  BY <1>14, <1>t, PendingTaken, SignalNames
    DEF TakeLeaseEnd, Leave, TakeLive, RetryFlagWhenTaken
<1>15. ASSUME TakeWhileConnected PROVE RetryFlagBacked'
  BY <1>15, <1>t, PendingTaken, SignalNames
    DEF TakeWhileConnected, Leave, TakeLive, RetryFlagWhenTaken
<1>16. ASSUME TakeWhileProbing PROVE RetryFlagBacked'
  BY <1>16, <1>t, PendingTaken, SignalNames
    DEF TakeWhileProbing, Leave, TakeLive, RetryFlagWhenTaken
<1>17. ASSUME ProbeAnswered PROVE RetryFlagBacked'
  BY <1>17, PendingKept DEF ProbeAnswered
<1>18. ASSUME SettleInterrupted PROVE RetryFlagBacked'
  BY <1>18, PendingKept DEF SettleInterrupted, Settle
<1>19. ASSUME SettleBlocked PROVE RetryFlagBacked'
  BY <1>19, PendingKept DEF SettleBlocked, Settle
<1>20. ASSUME SettleFailedProbe PROVE RetryFlagBacked'
  BY <1>20, PendingKept DEF SettleFailedProbe, Settle
<1>21. ASSUME SettleTransient PROVE RetryFlagBacked'
  BY <1>21, PendingKept DEF SettleTransient, Settle
<1>22. ASSUME BackoffElapses PROVE RetryFlagBacked'
  BY <1>22, PendingKept DEF BackoffElapses
<1>23. ASSUME TakeWhileIdle PROVE RetryFlagBacked'
  BY <1>23, <1>t, PendingTaken, SignalNames DEF TakeWhileIdle, WakesIdle
<1>24. ASSUME NEW error \in Errors, EstablishmentFails(error) PROVE RetryFlagBacked'
  BY <1>24, PendingKept DEF EstablishmentFails, Leave
<1>25. ASSUME NEW error \in Errors, NEW stable \in BOOLEAN, SessionLost(error, stable) PROVE RetryFlagBacked'
  BY <1>25, PendingKept DEF SessionLost, Live, Leave
<1>26. ASSUME NEW reported \in SUBSET LearnableRoutes, LearnRoutes(reported) PROVE RetryFlagBacked'
  BY <1>26, PendingKept DEF LearnRoutes
<1>27. ASSUME StartCheck PROVE RetryFlagBacked'
  BY <1>27, PendingKept DEF StartCheck
<1>28. ASSUME NEW r \in checking.better, CheckPasses(r) PROVE RetryFlagBacked'
  <2>1. BetterRouteAvailable(r) \in Signals
    BY CheckTypes, SignalTypes DEF TypeOK, ValueTypes
  <2>2. ASSUME NEW s, Pending(s) PROVE Pending(s)'
    BY <1>28, <1>t, <2>1, <2>2, PendingAppended, PendingKept DEF CheckPasses
  <2> QED
    BY <1>28, <2>2 DEF CheckPasses
<1>29. ASSUME CheckFindsNothing PROVE RetryFlagBacked'
  BY <1>29, PendingKept DEF CheckFindsNothing
<1>30. ASSUME TickRequestsCheck PROVE RetryFlagBacked'
  BY <1>30, PendingKept DEF TickRequestsCheck
<1>31. ASSUME NEW r \in routeCooldowns, CooldownExpires(r) PROVE RetryFlagBacked'
  BY <1>31, PendingKept DEF CooldownExpires
<1>32. ASSUME ShutDown PROVE RetryFlagBacked'
  BY <1>32, PendingKept DEF ShutDown
<1>33. ASSUME RunInterrupted PROVE RetryFlagBacked'
  BY <1>33, PendingKept DEF RunInterrupted
<1>34. CASE UNCHANGED vars
  BY <1>34, PendingKept
<1> QED
  BY <1>1, <1>2, <1>3, <1>4, <1>5, <1>6, <1>7, <1>8, <1>9, <1>10, <1>11, <1>12, <1>13,
     <1>14, <1>15, <1>16, <1>17, <1>18, <1>19, <1>20, <1>21, <1>22, <1>23, <1>24, <1>25,
     <1>26, <1>27, <1>28, <1>29, <1>30, <1>31, <1>32, <1>33, <1>34
     DEF Next, Callers, Platform, Posting, RunLoop, LoopHead, Establishing, Monitoring, Settling,
         Waiting, Faults, Learning, Checker, Timers, Closing

\* The retry flag is armed only while a retry is on its way.
THEOREM RetryFlagBackedCorrect == Spec => []RetryFlagBacked
BY TypeInit, TypeStep, RetryInit, RetryStep, PTL DEF Spec

-----------------------------------------------------------------------------
(* Intent                                                                  *)

LEMMA IntentInit == Init => IntentPending
BY DEF Init, IntentPending

LEMMA IntentStep == TypeOK /\ IntentPending /\ [Next]_vars => IntentPending'
<1> SUFFICES ASSUME TypeOK, IntentPending, [Next]_vars PROVE IntentPending'
  OBVIOUS
<1>t. signals \in Seq(Signals) /\ posting \subseteq Signals
  BY DEF TypeOK, ValueTypes
<1> USE DEF IntentPending, vars, intentVars, markerVars, routeVars, publishedVars,
            ladderVars, driverVars, attemptVars, checkerVars, envVars
<1>1. ASSUME Connect PROVE IntentPending'
  BY <1>1, PendingAnnounced DEF Connect
<1>2. ASSUME Disconnect PROVE IntentPending'
  BY <1>2, PendingAnnounced DEF Disconnect
<1>3. ASSUME RetryNow PROVE IntentPending'
  BY <1>3, PendingAnnounced DEF RetryNow
<1>4. ASSUME NEW status \in NetworkStatuses, ConnectivityChanges(status) PROVE IntentPending'
  BY <1>4, PendingAnnounced DEF ConnectivityChanges
<1>5. ASSUME NEW reason \in WakeupReasons, WakeupArrives(reason) PROVE IntentPending'
  BY <1>5, <1>t, PendingAppended, PendingKept, SignalTypes DEF WakeupArrives
<1>6. ASSUME NEW s \in posting, Post(s) PROVE IntentPending'
  BY <1>6, <1>t, PendingPosted DEF Post
<1>7. ASSUME GoAvailable PROVE IntentPending'
  BY <1>7 DEF GoAvailable, AvailableState, Published
<1>8. ASSUME GoOffline PROVE IntentPending'
  BY <1>8 DEF GoOffline, OfflineState, Published
<1>9. ASSUME StartAttempt PROVE IntentPending'
  BY <1>9 DEF StartAttempt
<1>10. ASSUME NEW r \in routes, OpenRoute(r) PROVE IntentPending'
  BY <1>10, PendingKept DEF OpenRoute
<1>11. ASSUME SynchronizeRoute PROVE IntentPending'
  BY <1>11, PendingKept DEF SynchronizeRoute
<1>12. ASSUME Land PROVE IntentPending'
  BY <1>12, PendingKept DEF Land, Leave
<1>13. ASSUME TakeWhileEstablishing PROVE IntentPending'
  BY <1>13, <1>t, PendingTaken, SignalNames
    DEF TakeWhileEstablishing, Leave, InterruptsEstablishment
<1>14. ASSUME NEW stable \in BOOLEAN, TakeLeaseEnd(stable) PROVE IntentPending'
  BY <1>14 DEF TakeLeaseEnd, Leave
<1>15. ASSUME TakeWhileConnected PROVE IntentPending'
  BY <1>15, <1>t, PendingTaken DEF TakeWhileConnected, TakeLive, EndsLease
<1>16. ASSUME TakeWhileProbing PROVE IntentPending'
  BY <1>16, <1>t, PendingTaken DEF TakeWhileProbing, TakeLive, EndsLease
<1>17. ASSUME ProbeAnswered PROVE IntentPending'
  BY <1>17, PendingKept DEF ProbeAnswered
<1>18. ASSUME SettleInterrupted PROVE IntentPending'
  BY <1>18 DEF SettleInterrupted, Settle, Published
<1>19. ASSUME SettleBlocked PROVE IntentPending'
  BY <1>19 DEF SettleBlocked, Settle, Published
<1>20. ASSUME SettleFailedProbe PROVE IntentPending'
  BY <1>20 DEF SettleFailedProbe, Settle, Published
<1>21. ASSUME SettleTransient PROVE IntentPending'
  BY <1>21 DEF SettleTransient, Settle, Published
<1>22. ASSUME BackoffElapses PROVE IntentPending'
  BY <1>22, PendingKept DEF BackoffElapses
<1>23. ASSUME TakeWhileIdle PROVE IntentPending'
  BY <1>23, <1>t, PendingTaken, SignalNames DEF TakeWhileIdle, WakesIdle
<1>24. ASSUME NEW error \in Errors, EstablishmentFails(error) PROVE IntentPending'
  BY <1>24, PendingKept DEF EstablishmentFails, Leave
<1>25. ASSUME NEW error \in Errors, NEW stable \in BOOLEAN, SessionLost(error, stable) PROVE IntentPending'
  BY <1>25, PendingKept DEF SessionLost, Live, Leave
<1>26. ASSUME NEW reported \in SUBSET LearnableRoutes, LearnRoutes(reported) PROVE IntentPending'
  BY <1>26, PendingKept DEF LearnRoutes
<1>27. ASSUME StartCheck PROVE IntentPending'
  BY <1>27, PendingKept DEF StartCheck
<1>28. ASSUME NEW r \in checking.better, CheckPasses(r) PROVE IntentPending'
  <2>1. BetterRouteAvailable(r) \in Signals
    BY CheckTypes, SignalTypes DEF TypeOK, ValueTypes
  <2>2. ASSUME NEW s, Pending(s) PROVE Pending(s)'
    BY <1>28, <1>t, <2>1, <2>2, PendingAppended, PendingKept DEF CheckPasses
  <2> QED
    BY <1>28, <2>2 DEF CheckPasses
<1>29. ASSUME CheckFindsNothing PROVE IntentPending'
  BY <1>29, PendingKept DEF CheckFindsNothing
<1>30. ASSUME TickRequestsCheck PROVE IntentPending'
  BY <1>30, PendingKept DEF TickRequestsCheck
<1>31. ASSUME NEW r \in routeCooldowns, CooldownExpires(r) PROVE IntentPending'
  BY <1>31, PendingKept DEF CooldownExpires
<1>32. ASSUME ShutDown PROVE IntentPending'
  BY <1>32, PendingKept DEF ShutDown
<1>33. ASSUME RunInterrupted PROVE IntentPending'
  BY <1>33, PendingKept DEF RunInterrupted
<1>34. CASE UNCHANGED vars
  BY <1>34, PendingKept
<1> QED
  BY <1>1, <1>2, <1>3, <1>4, <1>5, <1>6, <1>7, <1>8, <1>9, <1>10, <1>11, <1>12, <1>13,
     <1>14, <1>15, <1>16, <1>17, <1>18, <1>19, <1>20, <1>21, <1>22, <1>23, <1>24, <1>25,
     <1>26, <1>27, <1>28, <1>29, <1>30, <1>31, <1>32, <1>33, <1>34
     DEF Next, Callers, Platform, Posting, RunLoop, LoopHead, Establishing, Monitoring, Settling,
         Waiting, Faults, Learning, Checker, Timers, Closing

\* No change of intent is lost on the run loop.
THEOREM IntentPendingCorrect == Spec => []IntentPending
BY TypeInit, TypeStep, IntentInit, IntentStep, PTL DEF Spec

-----------------------------------------------------------------------------
(* Sessions                                                                *)

\* SessionIsLive strengthened: the newest generation published is the one of the
\* session held or just given up, and otherwise below the next one.
SessionInv ==
  /\ SessionIsLive
  /\ Live => issued = generation + 1 /\ lease.generation = generation + 1
  /\ pc = "releasing" /\ outcome.established => issued = generation + 1
  /\ ~Live /\ pc # "closed" /\ ~(pc = "releasing" /\ outcome.established)
       => issued <= generation

LEMMA SessionInit == Init => SessionInv
BY DEF Init, SessionInv, SessionIsLive, Live, NoOutcome, NoSession

LEMMA SessionStep == TypeOK /\ SessionInv /\ [Next]_vars => SessionInv'
<1> SUFFICES ASSUME TypeOK, SessionInv, [Next]_vars PROVE SessionInv'
  OBVIOUS
<1>t. generation \in Nat /\ issued \in Nat /\ session \in Nat
  BY DEF TypeOK, ValueTypes
<1> USE DEF SessionInv, SessionIsLive, Live, vars, intentVars, markerVars, routeVars, publishedVars,
            ladderVars, driverVars, attemptVars, checkerVars, envVars
<1>1. ASSUME Connect PROVE SessionInv'
  BY <1>1, <1>t DEF Connect
<1>2. ASSUME Disconnect PROVE SessionInv'
  BY <1>2, <1>t DEF Disconnect
<1>3. ASSUME RetryNow PROVE SessionInv'
  BY <1>3, <1>t DEF RetryNow
<1>4. ASSUME NEW status \in NetworkStatuses, ConnectivityChanges(status) PROVE SessionInv'
  BY <1>4, <1>t DEF ConnectivityChanges
<1>5. ASSUME NEW reason \in WakeupReasons, WakeupArrives(reason) PROVE SessionInv'
  BY <1>5, <1>t DEF WakeupArrives
<1>6. ASSUME NEW s \in posting, Post(s) PROVE SessionInv'
  BY <1>6, <1>t DEF Post
<1>7. ASSUME GoAvailable PROVE SessionInv'
  BY <1>7, <1>t DEF GoAvailable, NoSession
<1>8. ASSUME GoOffline PROVE SessionInv'
  BY <1>8, <1>t DEF GoOffline, NoSession
<1>9. ASSUME StartAttempt PROVE SessionInv'
  BY <1>9, <1>t DEF StartAttempt, NoSession
<1>10. ASSUME NEW r \in routes, OpenRoute(r) PROVE SessionInv'
  BY <1>10, <1>t DEF OpenRoute
<1>11. ASSUME SynchronizeRoute PROVE SessionInv'
  BY <1>11, <1>t DEF SynchronizeRoute
<1>12. ASSUME Land PROVE SessionInv'
  <2>1. CASE ~StillWanted
    <3>1. /\ pc = "establishing" /\ pc' = "releasing"
          /\ session' = NoSession /\ prepared' = NoRoute
          /\ issued' = issued /\ generation' = generation /\ lease' = lease
      BY <1>12, <2>1 DEF Land, Leave
    <3>2. ~outcome'.established
      <4>1. outcome' = [established |-> FALSE, stable |-> FALSE, resetRetry |-> FALSE,
                        error |-> "none"]
        BY <1>12, <2>1, Zenon DEF Land, Leave
      <4> QED
        BY <4>1
    <3> QED
      BY <1>t, <3>1, <3>2 DEF NoSession
  <2>2. CASE StillWanted
    <3>1. /\ pc' = "connected" /\ generation' = generation
          /\ session' = generation + 1 /\ issued' = generation + 1
          /\ prepared' = opened /\ lease' = Lease(generation + 1, opened)
      BY <1>12, <2>2 DEF Land
    <3>2. lease'.generation = generation + 1 /\ lease'.route = opened
      BY <3>1 DEF Lease
    <3> QED
      BY <1>t, <3>1, <3>2 DEF NoSession
  <2> QED
    BY <2>1, <2>2
<1>13. ASSUME TakeWhileEstablishing PROVE SessionInv'
  BY <1>13, <1>t DEF TakeWhileEstablishing, Leave
<1>14. ASSUME NEW stable \in BOOLEAN, TakeLeaseEnd(stable) PROVE SessionInv'
  BY <1>14, <1>t DEF TakeLeaseEnd, Leave, TakeLive
<1>15. ASSUME TakeWhileConnected PROVE SessionInv'
  BY <1>15, <1>t DEF TakeWhileConnected, TakeLive
<1>16. ASSUME TakeWhileProbing PROVE SessionInv'
  BY <1>16, <1>t DEF TakeWhileProbing, TakeLive
<1>17. ASSUME ProbeAnswered PROVE SessionInv'
  BY <1>17, <1>t DEF ProbeAnswered
<1>18. ASSUME SettleInterrupted PROVE SessionInv'
  BY <1>18, <1>t DEF SettleInterrupted, Settle, EstablishedGeneration, NoOutcome
<1>19. ASSUME SettleBlocked PROVE SessionInv'
  BY <1>19, <1>t DEF SettleBlocked, Settle, EstablishedGeneration, NoOutcome
<1>20. ASSUME SettleFailedProbe PROVE SessionInv'
  BY <1>20, <1>t DEF SettleFailedProbe, Settle, EstablishedGeneration, NoOutcome
<1>21. ASSUME SettleTransient PROVE SessionInv'
  BY <1>21, <1>t DEF SettleTransient, Settle, EstablishedGeneration, NoOutcome
<1>22. ASSUME BackoffElapses PROVE SessionInv'
  BY <1>22, <1>t DEF BackoffElapses
<1>23. ASSUME TakeWhileIdle PROVE SessionInv'
  BY <1>23, <1>t DEF TakeWhileIdle
<1>24. ASSUME NEW error \in Errors, EstablishmentFails(error) PROVE SessionInv'
  BY <1>24, <1>t DEF EstablishmentFails, Leave
<1>25. ASSUME NEW error \in Errors, NEW stable \in BOOLEAN, SessionLost(error, stable) PROVE SessionInv'
  BY <1>25, <1>t DEF SessionLost, Leave
<1>26. ASSUME NEW reported \in SUBSET LearnableRoutes, LearnRoutes(reported) PROVE SessionInv'
  BY <1>26, <1>t DEF LearnRoutes
<1>27. ASSUME StartCheck PROVE SessionInv'
  BY <1>27, <1>t DEF StartCheck
<1>28. ASSUME NEW r \in checking.better, CheckPasses(r) PROVE SessionInv'
  BY <1>28, <1>t DEF CheckPasses
<1>29. ASSUME CheckFindsNothing PROVE SessionInv'
  BY <1>29, <1>t DEF CheckFindsNothing
<1>30. ASSUME TickRequestsCheck PROVE SessionInv'
  BY <1>30, <1>t DEF TickRequestsCheck
<1>31. ASSUME NEW r \in routeCooldowns, CooldownExpires(r) PROVE SessionInv'
  BY <1>31, <1>t DEF CooldownExpires
<1>32. ASSUME ShutDown PROVE SessionInv'
  BY <1>32, <1>t DEF ShutDown
<1>33. ASSUME RunInterrupted PROVE SessionInv'
  BY <1>33, <1>t DEF RunInterrupted
<1>34. CASE UNCHANGED vars
  BY <1>34
<1> QED
  BY <1>1, <1>2, <1>3, <1>4, <1>5, <1>6, <1>7, <1>8, <1>9, <1>10, <1>11, <1>12, <1>13,
     <1>14, <1>15, <1>16, <1>17, <1>18, <1>19, <1>20, <1>21, <1>22, <1>23, <1>24, <1>25,
     <1>26, <1>27, <1>28, <1>29, <1>30, <1>31, <1>32, <1>33, <1>34
     DEF Next, Callers, Platform, Posting, RunLoop, LoopHead, Establishing, Monitoring, Settling,
         Waiting, Faults, Learning, Checker, Timers, Closing

\* What is published is the live session, and nothing once it is over.
THEOREM SessionIsLiveCorrect == Spec => []SessionIsLive
<1>1. SessionInv => SessionIsLive
  BY DEF SessionInv
<1> QED
  BY <1>1, TypeInit, TypeStep, SessionInit, SessionStep, PTL DEF Spec


-----------------------------------------------------------------------------
(* What the supervisor promises the rest of the client                     *)

LEMMA RefineInit == Init => Session!Init
<1> SUFFICES ASSUME Init PROVE Session!Init
  OBVIOUS
<1>1. state.phase # "connected"
  BY DEF Init, AvailableState, OfflineState, ConnectingState, Published
<1> QED
  BY <1>1 DEF Init, Session!Init, NoSession

LEMMA RefineStep ==
  TypeOK /\ SessionInv /\ [Next]_vars => [Session!Next]_(Session!sessionVars)
<1> SUFFICES ASSUME TypeOK, SessionInv, [Next]_vars
             PROVE  [Session!Next]_(Session!sessionVars)
  OBVIOUS
<1>s. /\ pc \notin {"connected", "probing"} => session = NoSession
      /\ pc = "establishing" => issued <= generation
  BY DEF SessionInv, SessionIsLive, Live
<1>d. desired \in BOOLEAN
  BY DEF TypeOK, FlagTypes
<1> USE DEF NoSession, Session!sessionVars, Session!Next, Session!ChangeMind, Session!Open,
            Session!Withdraw, Session!StopAnnouncing, Session!Close, vars, intentVars, markerVars, routeVars, publishedVars,
            ladderVars, driverVars, attemptVars, checkerVars, envVars
<1>1. ASSUME Connect PROVE [Session!Next]_(Session!sessionVars)
  BY <1>1, <1>d DEF Connect
<1>2. ASSUME Disconnect PROVE [Session!Next]_(Session!sessionVars)
  BY <1>2, <1>d DEF Disconnect
<1>3. ASSUME RetryNow PROVE [Session!Next]_(Session!sessionVars)
  BY <1>3, <1>s DEF RetryNow
<1>4. ASSUME NEW status \in NetworkStatuses, ConnectivityChanges(status) PROVE [Session!Next]_(Session!sessionVars)
  BY <1>4, <1>s DEF ConnectivityChanges
<1>5. ASSUME NEW reason \in WakeupReasons, WakeupArrives(reason) PROVE [Session!Next]_(Session!sessionVars)
  BY <1>5, <1>s DEF WakeupArrives
<1>6. ASSUME NEW s \in posting, Post(s) PROVE [Session!Next]_(Session!sessionVars)
  BY <1>6, <1>s DEF Post
<1>7. ASSUME GoAvailable PROVE [Session!Next]_(Session!sessionVars)
  BY <1>7, <1>s DEF GoAvailable, AvailableState, Published
<1>8. ASSUME GoOffline PROVE [Session!Next]_(Session!sessionVars)
  BY <1>8, <1>s DEF GoOffline, OfflineState, Published
<1>9. ASSUME StartAttempt PROVE [Session!Next]_(Session!sessionVars)
  BY <1>9, <1>s DEF StartAttempt, ConnectingState, Published
<1>10. ASSUME NEW r \in routes, OpenRoute(r) PROVE [Session!Next]_(Session!sessionVars)
  BY <1>10, <1>s DEF OpenRoute, ConnectingState, Published
<1>11. ASSUME SynchronizeRoute PROVE [Session!Next]_(Session!sessionVars)
  BY <1>11, <1>s DEF SynchronizeRoute, ConnectingState, Published
<1>12. ASSUME Land PROVE [Session!Next]_(Session!sessionVars)
  <2>1. CASE ~StillWanted
    BY <1>12, <2>1 DEF Land, Leave
  <2>2. CASE StillWanted
    <3>1. state.phase = "connecting" /\ desired
      BY <1>12, <2>2 DEF Land, StillWanted, TypeOK, StateTypes
    <3>2. /\ session' = generation + 1 /\ issued' = generation + 1
          /\ UNCHANGED <<desired, shutdown>>
      BY <1>12, <2>2 DEF Land
    <3>3. state'.phase = "connected" /\ state'.generation = generation + 1
      BY <1>12, <2>2 DEF Land, Published
    <3>4. session = NoSession /\ issued <= generation
      BY <1>12, <1>s DEF Land
    <3>5. session' > issued
      BY <3>2, <3>4 DEF TypeOK, ValueTypes
    <3>6. Session!Open
      BY <3>1, <3>2, <3>3, <3>4, <3>5
    <3> QED
      BY <3>6
  <2> QED
    BY <2>1, <2>2
<1>13. ASSUME TakeWhileEstablishing PROVE [Session!Next]_(Session!sessionVars)
  BY <1>13, <1>s DEF TakeWhileEstablishing, Leave
<1>14. ASSUME NEW stable \in BOOLEAN, TakeLeaseEnd(stable) PROVE [Session!Next]_(Session!sessionVars)
  BY <1>14, <1>s DEF TakeLeaseEnd, Leave, TakeLive
<1>15. ASSUME TakeWhileConnected PROVE [Session!Next]_(Session!sessionVars)
  BY <1>15, <1>s DEF TakeWhileConnected, TakeLive
<1>16. ASSUME TakeWhileProbing PROVE [Session!Next]_(Session!sessionVars)
  BY <1>16, <1>s DEF TakeWhileProbing, TakeLive
<1>17. ASSUME ProbeAnswered PROVE [Session!Next]_(Session!sessionVars)
  BY <1>17, <1>s DEF ProbeAnswered
<1>18. ASSUME SettleInterrupted PROVE [Session!Next]_(Session!sessionVars)
  BY <1>18, <1>s DEF SettleInterrupted, Settle, Published
<1>19. ASSUME SettleBlocked PROVE [Session!Next]_(Session!sessionVars)
  BY <1>19, <1>s DEF SettleBlocked, Settle, Published
<1>20. ASSUME SettleFailedProbe PROVE [Session!Next]_(Session!sessionVars)
  BY <1>20, <1>s DEF SettleFailedProbe, Settle, Published, ConnectingState
<1>21. ASSUME SettleTransient PROVE [Session!Next]_(Session!sessionVars)
  BY <1>21, <1>s DEF SettleTransient, Settle, Published
<1>22. ASSUME BackoffElapses PROVE [Session!Next]_(Session!sessionVars)
  BY <1>22, <1>s DEF BackoffElapses
<1>23. ASSUME TakeWhileIdle PROVE [Session!Next]_(Session!sessionVars)
  BY <1>23, <1>s DEF TakeWhileIdle
<1>24. ASSUME NEW error \in Errors, EstablishmentFails(error) PROVE [Session!Next]_(Session!sessionVars)
  BY <1>24, <1>s DEF EstablishmentFails, Leave
<1>25. ASSUME NEW error \in Errors, NEW stable \in BOOLEAN, SessionLost(error, stable) PROVE [Session!Next]_(Session!sessionVars)
  BY <1>25, <1>s DEF SessionLost, Leave
<1>26. ASSUME NEW reported \in SUBSET LearnableRoutes, LearnRoutes(reported) PROVE [Session!Next]_(Session!sessionVars)
  BY <1>26, <1>s DEF LearnRoutes
<1>27. ASSUME StartCheck PROVE [Session!Next]_(Session!sessionVars)
  BY <1>27, <1>s DEF StartCheck
<1>28. ASSUME NEW r \in checking.better, CheckPasses(r) PROVE [Session!Next]_(Session!sessionVars)
  BY <1>28, <1>s DEF CheckPasses
<1>29. ASSUME CheckFindsNothing PROVE [Session!Next]_(Session!sessionVars)
  BY <1>29, <1>s DEF CheckFindsNothing
<1>30. ASSUME TickRequestsCheck PROVE [Session!Next]_(Session!sessionVars)
  BY <1>30, <1>s DEF TickRequestsCheck
<1>31. ASSUME NEW r \in routeCooldowns, CooldownExpires(r) PROVE [Session!Next]_(Session!sessionVars)
  BY <1>31, <1>s DEF CooldownExpires
<1>32. ASSUME ShutDown PROVE [Session!Next]_(Session!sessionVars)
  BY <1>32, <1>s DEF ShutDown
<1>33. ASSUME RunInterrupted PROVE [Session!Next]_(Session!sessionVars)
  BY <1>33, <1>s DEF RunInterrupted
<1>34. CASE UNCHANGED vars
  BY <1>34
<1> QED
  BY <1>1, <1>2, <1>3, <1>4, <1>5, <1>6, <1>7, <1>8, <1>9, <1>10, <1>11, <1>12, <1>13,
     <1>14, <1>15, <1>16, <1>17, <1>18, <1>19, <1>20, <1>21, <1>22, <1>23, <1>24, <1>25,
     <1>26, <1>27, <1>28, <1>29, <1>30, <1>31, <1>32, <1>33, <1>34
     DEF Next, Callers, Platform, Posting, RunLoop, LoopHead, Establishing, Monitoring, Settling,
         Waiting, Faults, Learning, Checker, Timers, Closing

\* The supervisor implements the sessions the rest of the client relies on.
THEOREM ImplementsSessionCorrect == Spec => ImplementsSession
BY RefineInit, RefineStep, TypeInit, TypeStep, SessionInit, SessionStep, PTL
   DEF Spec, ImplementsSession, Session!Spec

-----------------------------------------------------------------------------
(* Probes and the backoff ladder                                           *)

\* LadderEscalates strengthened: the probe marker belongs to the session that is
\* live or was just lost, and that session has been questioned.
LadderInv ==
  /\ LadderEscalates
  /\ probeUnanswered => excused
  /\ probeUnanswered =>
       \/ pc \in {"probing", "closed"}
       \/ pc = "releasing" /\ outcome.established

LEMMA LadderInit == Init => LadderInv
BY DEF Init, LadderInv, LadderEscalates

LEMMA LadderStep == TypeOK /\ LadderInv /\ [Next]_vars => LadderInv'
<1> SUFFICES ASSUME TypeOK, LadderInv, [Next]_vars PROVE LadderInv'
  OBVIOUS
<1>t. failureCount \in Nat /\ losses \in Nat
  BY DEF TypeOK, ValueTypes
<1> USE DEF LadderInv, LadderEscalates, vars, intentVars, markerVars, routeVars, publishedVars,
            ladderVars, driverVars, attemptVars, checkerVars, envVars
<1>1. ASSUME Connect PROVE LadderInv'
  BY <1>1, <1>t DEF Connect
<1>2. ASSUME Disconnect PROVE LadderInv'
  BY <1>2, <1>t DEF Disconnect
<1>3. ASSUME RetryNow PROVE LadderInv'
  BY <1>3, <1>t DEF RetryNow
<1>4. ASSUME NEW status \in NetworkStatuses, ConnectivityChanges(status) PROVE LadderInv'
  BY <1>4, <1>t DEF ConnectivityChanges
<1>5. ASSUME NEW reason \in WakeupReasons, WakeupArrives(reason) PROVE LadderInv'
  BY <1>5, <1>t DEF WakeupArrives
<1>6. ASSUME NEW s \in posting, Post(s) PROVE LadderInv'
  BY <1>6, <1>t DEF Post
<1>7. ASSUME GoAvailable PROVE LadderInv'
  BY <1>7, <1>t DEF GoAvailable
<1>8. ASSUME GoOffline PROVE LadderInv'
  BY <1>8, <1>t DEF GoOffline, AfterRetryFlag
<1>9. ASSUME StartAttempt PROVE LadderInv'
  BY <1>9, <1>t DEF StartAttempt, AfterRetryFlag
<1>10. ASSUME NEW r \in routes, OpenRoute(r) PROVE LadderInv'
  BY <1>10, <1>t DEF OpenRoute
<1>11. ASSUME SynchronizeRoute PROVE LadderInv'
  BY <1>11, <1>t DEF SynchronizeRoute
<1>12. ASSUME Land PROVE LadderInv'
  BY <1>12, <1>t DEF Land, Leave
<1>13. ASSUME TakeWhileEstablishing PROVE LadderInv'
  BY <1>13, <1>t DEF TakeWhileEstablishing, Leave
<1>14. ASSUME NEW stable \in BOOLEAN, TakeLeaseEnd(stable) PROVE LadderInv'
  BY <1>14, <1>t DEF TakeLeaseEnd, Leave, Live, TakeLive
<1>15. ASSUME TakeWhileConnected PROVE LadderInv'
  BY <1>15, <1>t DEF TakeWhileConnected, TakeLive
<1>16. ASSUME TakeWhileProbing PROVE LadderInv'
  BY <1>16, <1>t DEF TakeWhileProbing, TakeLive
<1>17. ASSUME ProbeAnswered PROVE LadderInv'
  BY <1>17, <1>t DEF ProbeAnswered
<1>18. ASSUME SettleInterrupted PROVE LadderInv'
  BY <1>18, <1>t DEF SettleInterrupted, Settle, AfterStable, ProbeMarkerAfterwards
<1>19. ASSUME SettleBlocked PROVE LadderInv'
  BY <1>19, <1>t DEF SettleBlocked, Settle, AfterStable, ProbeMarkerAfterwards
<1>20. ASSUME SettleFailedProbe PROVE LadderInv'
  BY <1>20, <1>t DEF SettleFailedProbe, Settle, AfterStable, ProbeMarkerAfterwards
<1>21. ASSUME SettleTransient PROVE LadderInv'
  BY <1>21, <1>t DEF SettleTransient, Settle, AfterStable, ProbeMarkerAfterwards
<1>22. ASSUME BackoffElapses PROVE LadderInv'
  BY <1>22, <1>t DEF BackoffElapses
<1>23. ASSUME TakeWhileIdle PROVE LadderInv'
  BY <1>23, <1>t DEF TakeWhileIdle
<1>24. ASSUME NEW error \in Errors, EstablishmentFails(error) PROVE LadderInv'
  BY <1>24, <1>t DEF EstablishmentFails, Leave
<1>25. ASSUME NEW error \in Errors, NEW stable \in BOOLEAN, SessionLost(error, stable) PROVE LadderInv'
  BY <1>25, <1>t DEF SessionLost, Leave, Live
<1>26. ASSUME NEW reported \in SUBSET LearnableRoutes, LearnRoutes(reported) PROVE LadderInv'
  BY <1>26, <1>t DEF LearnRoutes
<1>27. ASSUME StartCheck PROVE LadderInv'
  BY <1>27, <1>t DEF StartCheck
<1>28. ASSUME NEW r \in checking.better, CheckPasses(r) PROVE LadderInv'
  BY <1>28, <1>t DEF CheckPasses
<1>29. ASSUME CheckFindsNothing PROVE LadderInv'
  BY <1>29, <1>t DEF CheckFindsNothing
<1>30. ASSUME TickRequestsCheck PROVE LadderInv'
  BY <1>30, <1>t DEF TickRequestsCheck
<1>31. ASSUME NEW r \in routeCooldowns, CooldownExpires(r) PROVE LadderInv'
  BY <1>31, <1>t DEF CooldownExpires
<1>32. ASSUME ShutDown PROVE LadderInv'
  BY <1>32, <1>t DEF ShutDown
<1>33. ASSUME RunInterrupted PROVE LadderInv'
  BY <1>33, <1>t DEF RunInterrupted
<1>34. CASE UNCHANGED vars
  BY <1>34
<1> QED
  BY <1>1, <1>2, <1>3, <1>4, <1>5, <1>6, <1>7, <1>8, <1>9, <1>10, <1>11, <1>12, <1>13,
     <1>14, <1>15, <1>16, <1>17, <1>18, <1>19, <1>20, <1>21, <1>22, <1>23, <1>24, <1>25,
     <1>26, <1>27, <1>28, <1>29, <1>30, <1>31, <1>32, <1>33, <1>34
     DEF Next, Callers, Platform, Posting, RunLoop, LoopHead, Establishing, Monitoring, Settling,
         Waiting, Faults, Learning, Checker, Timers, Closing

\* The ladder keeps growing while failures have no reason but themselves.
THEOREM LadderEscalatesCorrect == Spec => []LadderEscalates
<1>1. LadderInv => LadderEscalates
  BY DEF LadderInv
<1> QED
  BY <1>1, TypeInit, TypeStep, LadderInit, LadderStep, PTL DEF Spec

LEMMA WaitStep ==
  LadderInv /\ [Next]_vars =>
    (pc = "releasing" /\ ~outcome.established /\ outcome.error # "none" =>
       pc' \in {"releasing", "blocked", "backoff", "closed"})
<1> SUFFICES ASSUME LadderInv, [Next]_vars,
                    pc = "releasing", ~outcome.established, outcome.error # "none"
             PROVE  pc' \in {"releasing", "blocked", "backoff", "closed"}
  OBVIOUS
<1>1. ~probeUnanswered
  BY DEF LadderInv
<1>2. ~SettleInterrupted /\ ~SettleFailedProbe
  BY <1>1 DEF SettleInterrupted, SettleFailedProbe
<1> QED
  BY <1>2
    DEF Next, Callers, Platform, Posting, RunLoop, LoopHead, Establishing, Monitoring,
         Settling, Waiting, Faults, Learning, Checker, Timers, Closing, vars, Live, TakeLive,
         Connect, Disconnect, RetryNow, ConnectivityChanges, WakeupArrives, Post, GoAvailable,
         GoOffline, StartAttempt, OpenRoute, SynchronizeRoute, Land, TakeWhileEstablishing,
         TakeLeaseEnd, TakeWhileConnected, TakeWhileProbing, ProbeAnswered, SettleBlocked,
         SettleTransient, BackoffElapses, TakeWhileIdle, EstablishmentFails, SessionLost,
         LearnRoutes, StartCheck, CheckPasses, CheckFindsNothing, TickRequestsCheck,
         CooldownExpires, ShutDown, RunInterrupted, Leave

\* An attempt that failed to connect is followed by a wait.
THEOREM FailedAttemptsWaitCorrect == Spec => FailedAttemptsWait
<1>1. LadderInv /\ [Next]_vars =>
        [pc = "releasing" /\ ~outcome.established /\ outcome.error # "none" =>
           pc' \in {"releasing", "blocked", "backoff", "closed"}]_vars
  BY WaitStep
<1> QED
  BY <1>1, TypeInit, TypeStep, LadderInit, LadderStep, PTL DEF Spec, FailedAttemptsWait

-----------------------------------------------------------------------------
(* The last failure                                                        *)

\* FailureStaysVisible strengthened: a ladder that has been climbed has a failure
\* to name, and whatever waits or sets up publishes it.
VisibleInv ==
  /\ losses > 0 => latestFailure # "none"
  /\ pc \in {"establishing", "offline", "blocked", "backoff"} =>
       state.lastFailure = latestFailure

LEMMA VisibleInit == Init => VisibleInv
BY DEF Init, VisibleInv

LEMMA VisibleStep == TypeOK /\ VisibleInv /\ [Next]_vars => VisibleInv'
<1> SUFFICES ASSUME TypeOK, VisibleInv, [Next]_vars PROVE VisibleInv'
  OBVIOUS
<1>t. losses \in Nat
  BY DEF TypeOK, ValueTypes
<1> USE DEF VisibleInv, vars, intentVars, markerVars, routeVars, publishedVars,
            ladderVars, driverVars, attemptVars, checkerVars, envVars
<1>1. ASSUME Connect PROVE VisibleInv'
  BY <1>1, <1>t DEF Connect
<1>2. ASSUME Disconnect PROVE VisibleInv'
  BY <1>2, <1>t DEF Disconnect
<1>3. ASSUME RetryNow PROVE VisibleInv'
  BY <1>3, <1>t DEF RetryNow
<1>4. ASSUME NEW status \in NetworkStatuses, ConnectivityChanges(status) PROVE VisibleInv'
  BY <1>4, <1>t DEF ConnectivityChanges
<1>5. ASSUME NEW reason \in WakeupReasons, WakeupArrives(reason) PROVE VisibleInv'
  BY <1>5, <1>t DEF WakeupArrives
<1>6. ASSUME NEW s \in posting, Post(s) PROVE VisibleInv'
  BY <1>6, <1>t DEF Post
<1>7. ASSUME GoAvailable PROVE VisibleInv'
  BY <1>7, <1>t DEF GoAvailable
<1>8. ASSUME GoOffline PROVE VisibleInv'
  BY <1>8, <1>t DEF GoOffline, AfterRetryFlag, OfflineState, Published
<1>9. ASSUME StartAttempt PROVE VisibleInv'
  BY <1>9, <1>t DEF StartAttempt, AfterRetryFlag, ConnectingState, Published
<1>10. ASSUME NEW r \in routes, OpenRoute(r) PROVE VisibleInv'
  BY <1>10, <1>t DEF OpenRoute, ConnectingState, Published
<1>11. ASSUME SynchronizeRoute PROVE VisibleInv'
  BY <1>11, <1>t DEF SynchronizeRoute, ConnectingState, Published
<1>12. ASSUME Land PROVE VisibleInv'
  BY <1>12, <1>t DEF Land, Leave
<1>13. ASSUME TakeWhileEstablishing PROVE VisibleInv'
  BY <1>13, <1>t DEF TakeWhileEstablishing, Leave
<1>14. ASSUME NEW stable \in BOOLEAN, TakeLeaseEnd(stable) PROVE VisibleInv'
  BY <1>14, <1>t DEF TakeLeaseEnd, Leave, Live, TakeLive
<1>15. ASSUME TakeWhileConnected PROVE VisibleInv'
  BY <1>15, <1>t DEF TakeWhileConnected, Live, TakeLive
<1>16. ASSUME TakeWhileProbing PROVE VisibleInv'
  BY <1>16, <1>t DEF TakeWhileProbing, Live, TakeLive
<1>17. ASSUME ProbeAnswered PROVE VisibleInv'
  BY <1>17, <1>t DEF ProbeAnswered
<1>18. ASSUME SettleInterrupted PROVE VisibleInv'
  BY <1>18, <1>t DEF SettleInterrupted, Settle, AfterStable, Published
<1>19. ASSUME SettleBlocked PROVE VisibleInv'
  BY <1>19, <1>t DEF SettleBlocked, Settle, AfterStable, Published
<1>20. ASSUME SettleFailedProbe PROVE VisibleInv'
  BY <1>20, <1>t DEF SettleFailedProbe, Settle, AfterStable, Published
<1>21. ASSUME SettleTransient PROVE VisibleInv'
  BY <1>21, <1>t DEF SettleTransient, Settle, AfterStable, Published
<1>22. ASSUME BackoffElapses PROVE VisibleInv'
  BY <1>22, <1>t DEF BackoffElapses
<1>23. ASSUME TakeWhileIdle PROVE VisibleInv'
  BY <1>23, <1>t DEF TakeWhileIdle
<1>24. ASSUME NEW error \in Errors, EstablishmentFails(error) PROVE VisibleInv'
  BY <1>24, <1>t DEF EstablishmentFails, Leave
<1>25. ASSUME NEW error \in Errors, NEW stable \in BOOLEAN, SessionLost(error, stable) PROVE VisibleInv'
  BY <1>25, <1>t DEF SessionLost, Leave, Live, TakeLive
<1>26. ASSUME NEW reported \in SUBSET LearnableRoutes, LearnRoutes(reported) PROVE VisibleInv'
  BY <1>26, <1>t DEF LearnRoutes
<1>27. ASSUME StartCheck PROVE VisibleInv'
  BY <1>27, <1>t DEF StartCheck
<1>28. ASSUME NEW r \in checking.better, CheckPasses(r) PROVE VisibleInv'
  BY <1>28, <1>t DEF CheckPasses
<1>29. ASSUME CheckFindsNothing PROVE VisibleInv'
  BY <1>29, <1>t DEF CheckFindsNothing
<1>30. ASSUME TickRequestsCheck PROVE VisibleInv'
  BY <1>30, <1>t DEF TickRequestsCheck
<1>31. ASSUME NEW r \in routeCooldowns, CooldownExpires(r) PROVE VisibleInv'
  BY <1>31, <1>t DEF CooldownExpires
<1>32. ASSUME ShutDown PROVE VisibleInv'
  BY <1>32, <1>t DEF ShutDown
<1>33. ASSUME RunInterrupted PROVE VisibleInv'
  BY <1>33, <1>t DEF RunInterrupted
<1>34. CASE UNCHANGED vars
  BY <1>34
<1> QED
  BY <1>1, <1>2, <1>3, <1>4, <1>5, <1>6, <1>7, <1>8, <1>9, <1>10, <1>11, <1>12, <1>13,
     <1>14, <1>15, <1>16, <1>17, <1>18, <1>19, <1>20, <1>21, <1>22, <1>23, <1>24, <1>25,
     <1>26, <1>27, <1>28, <1>29, <1>30, <1>31, <1>32, <1>33, <1>34
     DEF Next, Callers, Platform, Posting, RunLoop, LoopHead, Establishing, Monitoring, Settling,
         Waiting, Faults, Learning, Checker, Timers, Closing

\* A failure is published until a session is up or the ladder starts over.
THEOREM FailureStaysVisibleCorrect == Spec => []FailureStaysVisible
<1>1. VisibleInv => FailureStaysVisible
  BY DEF VisibleInv, FailureStaysVisible
<1> QED
  BY <1>1, TypeInit, TypeStep, VisibleInit, VisibleStep, PTL DEF Spec

-----------------------------------------------------------------------------
(* Better routes                                                           *)

\* The checks asked for and under way are of sessions already published, and for
\* the live session they are of the lease it has.
CheckLeases ==
  /\ \A l \in {lease, checkQueue, checking.lease} :
       l.generation <= issued /\ (l.route # NoRoute => l.generation > 0)
  /\ Live => \A l \in {checkQueue, checking.lease} : l.generation = issued => l = lease

\* The candidates of a check of the live session are ranked above its route and
\* stay out of the cooldowns: only an attempt adds one, and its session is new.
CheckFinds ==
  /\ checking.better # {} => checking.lease.route # NoRoute
  /\ Live /\ checking.lease.generation = issued =>
       \A r \in checking.better : r < lease.route /\ r \notin routeCooldowns

CheckInv == CheckLeases /\ CheckFinds

LEMMA CheckInit == Init => CheckInv
BY DEF Init, CheckInv, CheckLeases, CheckFinds, NoLease, NoCheck, Lease, Live

LEMMA CheckStep == TypeOK /\ SessionInv /\ CheckInv /\ [Next]_vars => CheckInv'
<1> SUFFICES ASSUME TypeOK, SessionInv, CheckInv, [Next]_vars PROVE CheckInv'
  OBVIOUS
<1>t. generation \in Nat /\ issued \in Nat
  BY DEF TypeOK, ValueTypes
<1>s. /\ Live => issued = generation + 1 /\ lease.generation = issued
      /\ pc = "establishing" => issued <= generation
  BY DEF SessionInv, Live
<1> USE DEF CheckInv, CheckLeases, CheckFinds, Live, NoLease, NoCheck, Lease, NoRoute, vars, intentVars, markerVars, routeVars, publishedVars,
            ladderVars, driverVars, attemptVars, checkerVars, envVars
<1>1. ASSUME Connect PROVE CheckInv'
  BY <1>1, <1>t, <1>s DEF Connect
<1>2. ASSUME Disconnect PROVE CheckInv'
  BY <1>2, <1>t, <1>s DEF Disconnect
<1>3. ASSUME RetryNow PROVE CheckInv'
  BY <1>3, <1>t, <1>s DEF RetryNow
<1>4. ASSUME NEW status \in NetworkStatuses, ConnectivityChanges(status) PROVE CheckInv'
  BY <1>4, <1>t, <1>s DEF ConnectivityChanges
<1>5. ASSUME NEW reason \in WakeupReasons, WakeupArrives(reason) PROVE CheckInv'
  BY <1>5, <1>t, <1>s DEF WakeupArrives
<1>6. ASSUME NEW s \in posting, Post(s) PROVE CheckInv'
  BY <1>6, <1>t, <1>s DEF Post
<1>7. ASSUME GoAvailable PROVE CheckInv'
  BY <1>7, <1>t, <1>s DEF GoAvailable
<1>8. ASSUME GoOffline PROVE CheckInv'
  BY <1>8, <1>t, <1>s DEF GoOffline
<1>9. ASSUME StartAttempt PROVE CheckInv'
  BY <1>9, <1>t, <1>s DEF StartAttempt
<1>10. ASSUME NEW r \in routes, OpenRoute(r) PROVE CheckInv'
  BY <1>10, <1>t, <1>s DEF OpenRoute
<1>11. ASSUME SynchronizeRoute PROVE CheckInv'
  BY <1>11, <1>t, <1>s DEF SynchronizeRoute
<1>12. ASSUME Land PROVE CheckInv'
  <2>1. UNCHANGED <<checkQueue, checking>> /\ pc = "establishing"
    BY <1>12 DEF Land
  <2>2. CASE pc' = "connected"
    <3>1. lease' = Lease(generation + 1, opened) /\ issued' = generation + 1
      BY <1>12, <2>2 DEF Land, Leave
    <3>2. lease'.generation = issued'
      BY <3>1
    <3>3. \A l \in {checkQueue, checking.lease} : l.generation \in Nat
      BY CheckTypes DEF TypeOK, ValueTypes, Leases
    <3>4. \A l \in {checkQueue, checking.lease} : l.generation < issued'
      BY <2>1, <3>1, <3>3, <1>t, <1>s
    <3> QED
      BY <2>1, <3>1, <3>2, <3>3, <3>4, <1>t
  <2>3. CASE pc' # "connected"
    BY <1>12, <2>1, <2>3 DEF Land, Leave
  <2> QED
    BY <2>2, <2>3
<1>13. ASSUME TakeWhileEstablishing PROVE CheckInv'
  BY <1>13, <1>t, <1>s DEF TakeWhileEstablishing, Leave
<1>14. ASSUME NEW stable \in BOOLEAN, TakeLeaseEnd(stable) PROVE CheckInv'
  BY <1>14, <1>t, <1>s DEF TakeLeaseEnd, Leave, TakeLive
<1>15. ASSUME TakeWhileConnected PROVE CheckInv'
  BY <1>15, <1>t, <1>s DEF TakeWhileConnected, TakeLive, RequestCheck, RoutesAbove
<1>16. ASSUME TakeWhileProbing PROVE CheckInv'
  BY <1>16, <1>t, <1>s DEF TakeWhileProbing, TakeLive
<1>17. ASSUME ProbeAnswered PROVE CheckInv'
  BY <1>17, <1>t, <1>s DEF ProbeAnswered
<1>18. ASSUME SettleInterrupted PROVE CheckInv'
  BY <1>18, <1>t, <1>s DEF SettleInterrupted, Settle
<1>19. ASSUME SettleBlocked PROVE CheckInv'
  BY <1>19, <1>t, <1>s DEF SettleBlocked, Settle
<1>20. ASSUME SettleFailedProbe PROVE CheckInv'
  BY <1>20, <1>t, <1>s DEF SettleFailedProbe, Settle
<1>21. ASSUME SettleTransient PROVE CheckInv'
  BY <1>21, <1>t, <1>s DEF SettleTransient, Settle
<1>22. ASSUME BackoffElapses PROVE CheckInv'
  BY <1>22, <1>t, <1>s DEF BackoffElapses
<1>23. ASSUME TakeWhileIdle PROVE CheckInv'
  BY <1>23, <1>t, <1>s DEF TakeWhileIdle
<1>24. ASSUME NEW error \in Errors, EstablishmentFails(error) PROVE CheckInv'
  BY <1>24, <1>t, <1>s DEF EstablishmentFails, Leave
<1>25. ASSUME NEW error \in Errors, NEW stable \in BOOLEAN, SessionLost(error, stable) PROVE CheckInv'
  BY <1>25, <1>t, <1>s DEF SessionLost, Leave
<1>26. ASSUME NEW reported \in SUBSET LearnableRoutes, LearnRoutes(reported) PROVE CheckInv'
  BY <1>26, <1>t, <1>s DEF LearnRoutes
<1>27. ASSUME StartCheck PROVE CheckInv'
  <2>1. UNCHANGED <<lease, issued, pc, routeCooldowns, routes>>
    BY <1>27 DEF StartCheck
  <2>2. CASE RoutesAbove(checkQueue) \ routeCooldowns = {}
    BY <1>27, <2>1, <2>2, <1>t, <1>s DEF StartCheck
  <2>3. CASE RoutesAbove(checkQueue) \ routeCooldowns # {}
    <3>1. /\ checkQueue' = NoLease /\ checking'.lease = checkQueue
          /\ checking'.better = RoutesAbove(checkQueue) \ routeCooldowns
      BY <1>27, <2>3 DEF StartCheck
    <3>2. checkQueue # NoLease /\ checkQueue \in Leases
      BY <1>27 DEF StartCheck, TypeOK, ValueTypes
    <3>3. checkQueue.route # NoRoute
      BY <3>2, ConstantTypes DEF Leases
    <3>4. \A r \in checking'.better : r < checkQueue.route /\ r \notin routeCooldowns
      BY <3>1 DEF RoutesAbove
    <3> QED
      BY <2>1, <3>1, <3>3, <3>4, <1>t, <1>s
  <2> QED
    BY <2>2, <2>3
<1>28. ASSUME NEW r \in checking.better, CheckPasses(r) PROVE CheckInv'
  BY <1>28, <1>t, <1>s DEF CheckPasses
<1>29. ASSUME CheckFindsNothing PROVE CheckInv'
  BY <1>29, <1>t, <1>s DEF CheckFindsNothing
<1>30. ASSUME TickRequestsCheck PROVE CheckInv'
  BY <1>30, <1>t, <1>s DEF TickRequestsCheck, RequestCheck, RoutesAbove
<1>31. ASSUME NEW r \in routeCooldowns, CooldownExpires(r) PROVE CheckInv'
  BY <1>31, <1>t, <1>s DEF CooldownExpires
<1>32. ASSUME ShutDown PROVE CheckInv'
  BY <1>32, <1>t, <1>s DEF ShutDown
<1>33. ASSUME RunInterrupted PROVE CheckInv'
  BY <1>33, <1>t, <1>s DEF RunInterrupted
<1>34. CASE UNCHANGED vars
  BY <1>34
<1> QED
  BY <1>1, <1>2, <1>3, <1>4, <1>5, <1>6, <1>7, <1>8, <1>9, <1>10, <1>11, <1>12, <1>13,
     <1>14, <1>15, <1>16, <1>17, <1>18, <1>19, <1>20, <1>21, <1>22, <1>23, <1>24, <1>25,
     <1>26, <1>27, <1>28, <1>29, <1>30, <1>31, <1>32, <1>33, <1>34
     DEF Next, Callers, Platform, Posting, RunLoop, LoopHead, Establishing, Monitoring, Settling,
         Waiting, Faults, Learning, Checker, Timers, Closing

\* An attempt that has drained the signals it found has no better route waiting.
BacklogDrained ==
  pc = "establishing" /\ ~backlog =>
    \A i \in 1..Len(signals) : signals[i].tag # "BetterRouteAvailable"

\* Only the checker signals a better route.
CallersPost == \A s \in posting : s.tag # "BetterRouteAvailable"

SwitchInv == SwitchImproves /\ BacklogDrained /\ CallersPost

LEMMA SwitchInit == Init => SwitchInv
BY DEF Init, SwitchInv, SwitchImproves, BacklogDrained, CallersPost, Live

LEMMA SwitchStep ==
  TypeOK /\ SessionInv /\ CheckInv /\ SwitchInv /\ [Next]_vars => SwitchInv'
<1> SUFFICES ASSUME TypeOK, SessionInv, CheckInv, SwitchInv, [Next]_vars PROVE SwitchInv'
  OBVIOUS
<1>t. signals \in Seq(Signals) /\ posting \subseteq Signals
  BY DEF TypeOK, ValueTypes
<1> USE DEF SwitchInv, SwitchImproves, BacklogDrained, CallersPost, Live, vars, intentVars, markerVars, routeVars, publishedVars,
            ladderVars, driverVars, attemptVars, checkerVars, envVars
<1>1. ASSUME Connect PROVE SwitchInv'
  BY <1>1, SignalNames DEF Connect
<1>2. ASSUME Disconnect PROVE SwitchInv'
  BY <1>2, SignalNames DEF Disconnect
<1>3. ASSUME RetryNow PROVE SwitchInv'
  BY <1>3, SignalNames DEF RetryNow
<1>4. ASSUME NEW status \in NetworkStatuses, ConnectivityChanges(status) PROVE SwitchInv'
  BY <1>4, SignalNames DEF ConnectivityChanges
<1>5. ASSUME NEW reason \in WakeupReasons, WakeupArrives(reason) PROVE SwitchInv'
  BY <1>5, <1>t, SignalNames, SignalTypes DEF WakeupArrives
<1>6. ASSUME NEW s \in posting, Post(s) PROVE SwitchInv'
  BY <1>6, <1>t DEF Post
<1>7. ASSUME GoAvailable PROVE SwitchInv'
  BY <1>7 DEF GoAvailable
<1>8. ASSUME GoOffline PROVE SwitchInv'
  BY <1>8 DEF GoOffline
<1>9. ASSUME StartAttempt PROVE SwitchInv'
  <2>1. ~backlog' => signals' = <<>>
    BY <1>9 DEF StartAttempt
  <2>2. pc' = "establishing" /\ posting' = posting
    BY <1>9 DEF StartAttempt
  <2> QED
    BY <2>1, <2>2
<1>10. ASSUME NEW r \in routes, OpenRoute(r) PROVE SwitchInv'
  BY <1>10 DEF OpenRoute
<1>11. ASSUME SynchronizeRoute PROVE SwitchInv'
  BY <1>11 DEF SynchronizeRoute
<1>12. ASSUME Land PROVE SwitchInv'
  BY <1>12 DEF Land, Leave
<1>13. ASSUME TakeWhileEstablishing PROVE SwitchInv'
  <2>1. /\ pc = "establishing" /\ signals # <<>> /\ signals' = Tail(signals)
        /\ backlog' = (backlog /\ Tail(signals) # <<>>)
        /\ posting' = posting /\ pc' \in {"establishing", "releasing"}
    BY <1>13 DEF TakeWhileEstablishing, Leave
  <2>2. CASE backlog
    <3>1. ~backlog' => signals' = <<>>
      BY <2>1, <2>2, Zenon
    <3> QED
      BY <2>1, <3>1
  <2>3. CASE ~backlog
    <3>1. \A i \in 1..Len(signals) : signals[i].tag # "BetterRouteAvailable"
      BY <2>1, <2>3
    <3>2. \A i \in 1..Len(Tail(signals)) : Tail(signals)[i].tag # "BetterRouteAvailable"
      BY <2>1, <3>1, <1>t
    <3> QED
      BY <2>1, <3>2
  <2> QED
    BY <2>2, <2>3
<1>14. ASSUME NEW stable \in BOOLEAN, TakeLeaseEnd(stable) PROVE SwitchInv'
  BY <1>14, <1>t DEF TakeLeaseEnd, Leave, TakeLive
<1>15. ASSUME TakeWhileConnected PROVE SwitchInv'
  BY <1>15, <1>t DEF TakeWhileConnected, TakeLive
<1>16. ASSUME TakeWhileProbing PROVE SwitchInv'
  BY <1>16, <1>t DEF TakeWhileProbing, TakeLive
<1>17. ASSUME ProbeAnswered PROVE SwitchInv'
  BY <1>17 DEF ProbeAnswered
<1>18. ASSUME SettleInterrupted PROVE SwitchInv'
  BY <1>18 DEF SettleInterrupted, Settle
<1>19. ASSUME SettleBlocked PROVE SwitchInv'
  BY <1>19 DEF SettleBlocked, Settle
<1>20. ASSUME SettleFailedProbe PROVE SwitchInv'
  BY <1>20 DEF SettleFailedProbe, Settle
<1>21. ASSUME SettleTransient PROVE SwitchInv'
  BY <1>21 DEF SettleTransient, Settle
<1>22. ASSUME BackoffElapses PROVE SwitchInv'
  BY <1>22 DEF BackoffElapses
<1>23. ASSUME TakeWhileIdle PROVE SwitchInv'
  BY <1>23, <1>t DEF TakeWhileIdle
<1>24. ASSUME NEW error \in Errors, EstablishmentFails(error) PROVE SwitchInv'
  BY <1>24 DEF EstablishmentFails, Leave
<1>25. ASSUME NEW error \in Errors, NEW stable \in BOOLEAN, SessionLost(error, stable) PROVE SwitchInv'
  BY <1>25 DEF SessionLost, Leave
<1>26. ASSUME NEW reported \in SUBSET LearnableRoutes, LearnRoutes(reported) PROVE SwitchInv'
  BY <1>26 DEF LearnRoutes
<1>27. ASSUME StartCheck PROVE SwitchInv'
  BY <1>27 DEF StartCheck
<1>28. ASSUME NEW r \in checking.better, CheckPasses(r) PROVE SwitchInv'
  <2>1. UNCHANGED <<pc, lease, routeCooldowns, posting, backlog, session, issued>>
    BY <1>28 DEF CheckPasses
  <2>2. CASE signals' = signals
    BY <2>1, <2>2
  <2>3. CASE StillLive(checking.lease) /\ signals' = Append(signals, BetterRouteAvailable(r))
    <3>1. checking.lease.generation > 0
      BY CheckTypes DEF CheckInv, CheckLeases, CheckFinds, TypeOK, ValueTypes
    <3>2. pc \in {"connected", "probing"} /\ session = issued
      BY <2>3, <3>1 DEF StillLive, SessionInv, SessionIsLive, NoSession
    <3>3. r < lease.route /\ r \notin routeCooldowns
      BY <2>3, <3>2 DEF StillLive, CheckInv, CheckFinds
    <3>4. BetterRouteAvailable(r) \in Signals /\ BetterRouteAvailable(r).routeId = r
      BY CheckTypes, SignalTypes DEF BetterRouteAvailable, TypeOK, ValueTypes
    <3>5. \A i \in 1..Len(signals') :
            signals'[i].tag = "BetterRouteAvailable" =>
              signals'[i].routeId < lease.route /\ signals'[i].routeId \notin routeCooldowns
      BY <1>t, <2>3, <3>2, <3>3, <3>4
    <3> QED
      BY <2>1, <3>2, <3>5
  <2> QED
    BY <1>28, <2>2, <2>3 DEF CheckPasses
<1>29. ASSUME CheckFindsNothing PROVE SwitchInv'
  BY <1>29 DEF CheckFindsNothing
<1>30. ASSUME TickRequestsCheck PROVE SwitchInv'
  BY <1>30 DEF TickRequestsCheck
<1>31. ASSUME NEW r \in routeCooldowns, CooldownExpires(r) PROVE SwitchInv'
  BY <1>31 DEF CooldownExpires
<1>32. ASSUME ShutDown PROVE SwitchInv'
  BY <1>32 DEF ShutDown
<1>33. ASSUME RunInterrupted PROVE SwitchInv'
  BY <1>33 DEF RunInterrupted
<1>34. CASE UNCHANGED vars
  BY <1>34
<1> QED
  BY <1>1, <1>2, <1>3, <1>4, <1>5, <1>6, <1>7, <1>8, <1>9, <1>10, <1>11, <1>12, <1>13,
     <1>14, <1>15, <1>16, <1>17, <1>18, <1>19, <1>20, <1>21, <1>22, <1>23, <1>24, <1>25,
     <1>26, <1>27, <1>28, <1>29, <1>30, <1>31, <1>32, <1>33, <1>34
     DEF Next, Callers, Platform, Posting, RunLoop, LoopHead, Establishing, Monitoring, Settling,
         Waiting, Faults, Learning, Checker, Timers, Closing

\* A switch that a live session is told of is an improvement for it.
THEOREM SwitchImprovesCorrect == Spec => []SwitchImproves
<1>1. SwitchInv => SwitchImproves
  BY DEF SwitchInv
<1> QED
  BY <1>1, TypeInit, TypeStep, SessionInit, SessionStep, CheckInit, CheckStep, SwitchInit,
     SwitchStep, PTL DEF Spec

-----------------------------------------------------------------------------
(* Where the run loop stops: what the liveness properties Converges and    *)
(* DisconnectReleases rest on, short of their fairness.                    *)

\* The guards of RunLoop: of the steps at which a timer, the driver or the scope of the
\* attempt answers, of a signal that is taken, and of the steps of an attempt.
CanGoOn ==
  \/ pc \in {"top", "probing", "releasing", "backoff"}
  \/ pc # "closed" /\ signals # <<>>
  \/ /\ pc = "establishing"
     /\ \/ \E r \in routes : tried = {} /\ (switchingTo \in routes => r = switchingTo)
        \/ state.stage = "opening"
        \/ state.stage = "synchronizing" /\ ~backlog

\* A loop that has nothing to do is where the intent puts it, and says so.
WhereWanted ==
  \/ pc = "available" /\ ~desired /\ state.phase = "available" /\ session = NoSession
  \/ /\ pc = "offline" /\ desired /\ network = "offline"
     /\ state.phase = "offline" /\ session = NoSession
  \/ pc = "blocked" /\ desired /\ state.phase = "blocked" /\ session = NoSession
  \/ pc = "connected" /\ desired /\ state.phase = "connected" /\ session # NoSession
StopsWhereWanted ==
  ~shutdown /\ pc # "closed" /\ posting = {} /\ ~CanGoOn => WhereWanted

\* The published state is that of the place where the loop waits; an attempt has signals to
\* drain as long as it waits for them, and a route to open until it has opened one; and a
\* failure does not hide a disconnect.
PlaceInv ==
  /\ pc = "available" => state.phase = "available"
  /\ pc = "offline" => state.phase = "offline" /\ state.desired /\ state.network = "offline"
  /\ pc = "blocked" => state.phase = "blocked"
  /\ Live => state.phase = "connected"
  /\ pc = "establishing" =>
       /\ state.phase = "connecting"
       /\ state.stage = "preparing" => tried = {}
AttemptInv ==
  /\ SavedRoutes \subseteq routes
  /\ pc = "establishing" /\ backlog /\ ~shutdown => signals # <<>>
FailureInv ==
  ~shutdown /\ ~desired /\ (pc = "blocked" \/ (pc = "releasing" /\ outcome.error # "none"))
    => Pending(DisconnectRequested)
StopInv == PlaceInv /\ AttemptInv /\ FailureInv

LEMMA PlaceStep == TypeOK /\ PlaceInv /\ [Next]_vars => PlaceInv'
<1> SUFFICES ASSUME TypeOK, PlaceInv, [Next]_vars PROVE PlaceInv'
  OBVIOUS
<1>t. signals \in Seq(Signals) /\ posting \subseteq Signals
  BY DEF TypeOK, ValueTypes
<1> USE DEF PlaceInv, Live, vars, intentVars, markerVars, routeVars, publishedVars,
            ladderVars, driverVars, attemptVars, checkerVars, envVars
<1>1. ASSUME Connect PROVE PlaceInv'
  BY <1>1 DEF Connect
<1>2. ASSUME Disconnect PROVE PlaceInv'
  BY <1>2 DEF Disconnect
<1>3. ASSUME RetryNow PROVE PlaceInv'
  BY <1>3 DEF RetryNow
<1>4. ASSUME NEW status \in NetworkStatuses, ConnectivityChanges(status) PROVE PlaceInv'
  BY <1>4 DEF ConnectivityChanges
<1>5. ASSUME NEW reason \in WakeupReasons, WakeupArrives(reason) PROVE PlaceInv'
  BY <1>5 DEF WakeupArrives
<1>6. ASSUME NEW s \in posting, Post(s) PROVE PlaceInv'
  BY <1>6 DEF Post
<1>7. ASSUME GoAvailable PROVE PlaceInv'
  BY <1>7 DEF GoAvailable, AvailableState, Published
<1>8. ASSUME GoOffline PROVE PlaceInv'
  BY <1>8 DEF GoOffline, OfflineState, Published
<1>9. ASSUME StartAttempt PROVE PlaceInv'
  BY <1>9 DEF StartAttempt, ConnectingState, Published
<1>10. ASSUME NEW r \in routes, OpenRoute(r) PROVE PlaceInv'
  BY <1>10 DEF OpenRoute, ConnectingState, Published
<1>11. ASSUME SynchronizeRoute PROVE PlaceInv'
  BY <1>11 DEF SynchronizeRoute, ConnectingState, Published
<1>12. ASSUME Land PROVE PlaceInv'
  BY <1>12 DEF Land, Leave, Published
<1>13. ASSUME TakeWhileEstablishing PROVE PlaceInv'
  BY <1>13 DEF TakeWhileEstablishing, Leave, InterruptsEstablishment
<1>14. ASSUME NEW stable \in BOOLEAN, TakeLeaseEnd(stable) PROVE PlaceInv'
  BY <1>14 DEF TakeLeaseEnd, Leave, TakeLive
<1>15. ASSUME TakeWhileConnected PROVE PlaceInv'
  BY <1>15 DEF TakeWhileConnected, TakeLive, EndsLease
<1>16. ASSUME TakeWhileProbing PROVE PlaceInv'
  BY <1>16 DEF TakeWhileProbing, TakeLive, EndsLease
<1>17. ASSUME ProbeAnswered PROVE PlaceInv'
  BY <1>17 DEF ProbeAnswered
<1>18. ASSUME SettleInterrupted PROVE PlaceInv'
  BY <1>18 DEF SettleInterrupted, Settle
<1>19. ASSUME SettleBlocked PROVE PlaceInv'
  BY <1>19 DEF SettleBlocked, Settle, Published
<1>20. ASSUME SettleFailedProbe PROVE PlaceInv'
  BY <1>20 DEF SettleFailedProbe, Settle
<1>21. ASSUME SettleTransient PROVE PlaceInv'
  BY <1>21 DEF SettleTransient, Settle, Published
<1>22. ASSUME BackoffElapses PROVE PlaceInv'
  BY <1>22 DEF BackoffElapses
<1>23. ASSUME TakeWhileIdle PROVE PlaceInv'
  BY <1>23 DEF TakeWhileIdle, WakesIdle
<1>24. ASSUME NEW error \in Errors, EstablishmentFails(error) PROVE PlaceInv'
  BY <1>24 DEF EstablishmentFails, Leave
<1>25. ASSUME NEW error \in Errors, NEW stable \in BOOLEAN, SessionLost(error, stable) PROVE PlaceInv'
  BY <1>25 DEF SessionLost, Leave
<1>26. ASSUME NEW reported \in SUBSET LearnableRoutes, LearnRoutes(reported) PROVE PlaceInv'
  BY <1>26 DEF LearnRoutes
<1>27. ASSUME StartCheck PROVE PlaceInv'
  BY <1>27 DEF StartCheck
<1>28. ASSUME NEW r \in checking.better, CheckPasses(r) PROVE PlaceInv'
  BY <1>28 DEF CheckPasses
<1>29. ASSUME CheckFindsNothing PROVE PlaceInv'
  BY <1>29 DEF CheckFindsNothing
<1>30. ASSUME TickRequestsCheck PROVE PlaceInv'
  BY <1>30 DEF TickRequestsCheck
<1>31. ASSUME NEW r \in routeCooldowns, CooldownExpires(r) PROVE PlaceInv'
  BY <1>31 DEF CooldownExpires
<1>32. ASSUME ShutDown PROVE PlaceInv'
  BY <1>32 DEF ShutDown
<1>33. ASSUME RunInterrupted PROVE PlaceInv'
  BY <1>33 DEF RunInterrupted
<1>34. CASE UNCHANGED vars
  BY <1>34
<1> QED
  BY <1>1, <1>2, <1>3, <1>4, <1>5, <1>6, <1>7, <1>8, <1>9, <1>10, <1>11, <1>12, <1>13,
     <1>14, <1>15, <1>16, <1>17, <1>18, <1>19, <1>20, <1>21, <1>22, <1>23, <1>24, <1>25,
     <1>26, <1>27, <1>28, <1>29, <1>30, <1>31, <1>32, <1>33, <1>34
     DEF Next, Callers, Platform, Posting, RunLoop, LoopHead, Establishing, Monitoring, Settling,
         Waiting, Faults, Learning, Checker, Timers, Closing

LEMMA AttemptStep == TypeOK /\ AttemptInv /\ [Next]_vars => AttemptInv'
<1> SUFFICES ASSUME TypeOK, AttemptInv, [Next]_vars PROVE AttemptInv'
  OBVIOUS
<1>t. signals \in Seq(Signals) /\ posting \subseteq Signals
  BY DEF TypeOK, ValueTypes
<1> USE DEF AttemptInv, vars, intentVars, markerVars, routeVars, publishedVars,
            ladderVars, driverVars, attemptVars, checkerVars, envVars
<1>1. ASSUME Connect PROVE AttemptInv'
  BY <1>1 DEF Connect
<1>2. ASSUME Disconnect PROVE AttemptInv'
  BY <1>2 DEF Disconnect
<1>3. ASSUME RetryNow PROVE AttemptInv'
  BY <1>3 DEF RetryNow
<1>4. ASSUME NEW status \in NetworkStatuses, ConnectivityChanges(status) PROVE AttemptInv'
  BY <1>4 DEF ConnectivityChanges
<1>5. ASSUME NEW reason \in WakeupReasons, WakeupArrives(reason) PROVE AttemptInv'
  BY <1>5, <1>t, SignalTypes DEF WakeupArrives
<1>6. ASSUME NEW s \in posting, Post(s) PROVE AttemptInv'
  BY <1>6, <1>t DEF Post
<1>7. ASSUME GoAvailable PROVE AttemptInv'
  BY <1>7 DEF GoAvailable
<1>8. ASSUME GoOffline PROVE AttemptInv'
  BY <1>8 DEF GoOffline
<1>9. ASSUME StartAttempt PROVE AttemptInv'
  BY <1>9 DEF StartAttempt
<1>10. ASSUME NEW r \in routes, OpenRoute(r) PROVE AttemptInv'
  BY <1>10 DEF OpenRoute
<1>11. ASSUME SynchronizeRoute PROVE AttemptInv'
  BY <1>11 DEF SynchronizeRoute
<1>12. ASSUME Land PROVE AttemptInv'
  BY <1>12 DEF Land, Leave
<1>13. ASSUME TakeWhileEstablishing PROVE AttemptInv'
  BY <1>13 DEF TakeWhileEstablishing, Leave, InterruptsEstablishment
<1>14. ASSUME NEW stable \in BOOLEAN, TakeLeaseEnd(stable) PROVE AttemptInv'
  BY <1>14 DEF TakeLeaseEnd, Leave, TakeLive, Live
<1>15. ASSUME TakeWhileConnected PROVE AttemptInv'
  BY <1>15 DEF TakeWhileConnected, TakeLive, EndsLease
<1>16. ASSUME TakeWhileProbing PROVE AttemptInv'
  BY <1>16 DEF TakeWhileProbing, TakeLive, EndsLease
<1>17. ASSUME ProbeAnswered PROVE AttemptInv'
  BY <1>17 DEF ProbeAnswered
<1>18. ASSUME SettleInterrupted PROVE AttemptInv'
  BY <1>18 DEF SettleInterrupted, Settle
<1>19. ASSUME SettleBlocked PROVE AttemptInv'
  BY <1>19 DEF SettleBlocked, Settle
<1>20. ASSUME SettleFailedProbe PROVE AttemptInv'
  BY <1>20 DEF SettleFailedProbe, Settle
<1>21. ASSUME SettleTransient PROVE AttemptInv'
  BY <1>21 DEF SettleTransient, Settle
<1>22. ASSUME BackoffElapses PROVE AttemptInv'
  BY <1>22 DEF BackoffElapses
<1>23. ASSUME TakeWhileIdle PROVE AttemptInv'
  BY <1>23 DEF TakeWhileIdle, WakesIdle
<1>24. ASSUME NEW error \in Errors, EstablishmentFails(error) PROVE AttemptInv'
  BY <1>24 DEF EstablishmentFails, Leave
<1>25. ASSUME NEW error \in Errors, NEW stable \in BOOLEAN, SessionLost(error, stable) PROVE AttemptInv'
  BY <1>25 DEF SessionLost, Leave, Live
<1>26. ASSUME NEW reported \in SUBSET LearnableRoutes, LearnRoutes(reported) PROVE AttemptInv'
  BY <1>26 DEF LearnRoutes
<1>27. ASSUME StartCheck PROVE AttemptInv'
  BY <1>27 DEF StartCheck
<1>28. ASSUME NEW r \in checking.better, CheckPasses(r) PROVE AttemptInv'
  <2>1. BetterRouteAvailable(r) \in Signals
    BY CheckTypes, SignalTypes DEF TypeOK, ValueTypes
  <2> QED
    BY <1>28, <1>t, <2>1 DEF CheckPasses
<1>29. ASSUME CheckFindsNothing PROVE AttemptInv'
  BY <1>29 DEF CheckFindsNothing
<1>30. ASSUME TickRequestsCheck PROVE AttemptInv'
  BY <1>30 DEF TickRequestsCheck
<1>31. ASSUME NEW r \in routeCooldowns, CooldownExpires(r) PROVE AttemptInv'
  BY <1>31 DEF CooldownExpires
<1>32. ASSUME ShutDown PROVE AttemptInv'
  BY <1>32 DEF ShutDown
<1>33. ASSUME RunInterrupted PROVE AttemptInv'
  BY <1>33 DEF RunInterrupted
<1>34. CASE UNCHANGED vars
  BY <1>34
<1> QED
  BY <1>1, <1>2, <1>3, <1>4, <1>5, <1>6, <1>7, <1>8, <1>9, <1>10, <1>11, <1>12, <1>13,
     <1>14, <1>15, <1>16, <1>17, <1>18, <1>19, <1>20, <1>21, <1>22, <1>23, <1>24, <1>25,
     <1>26, <1>27, <1>28, <1>29, <1>30, <1>31, <1>32, <1>33, <1>34
     DEF Next, Callers, Platform, Posting, RunLoop, LoopHead, Establishing, Monitoring, Settling,
         Waiting, Faults, Learning, Checker, Timers, Closing

LEMMA FailureStep == TypeOK /\ IntentPending /\ FailureInv /\ [Next]_vars => FailureInv'
<1> SUFFICES ASSUME TypeOK, IntentPending, FailureInv, [Next]_vars PROVE FailureInv'
  OBVIOUS
<1>t. signals \in Seq(Signals) /\ posting \subseteq Signals
  BY DEF TypeOK, ValueTypes
<1> USE DEF FailureInv, vars, intentVars, markerVars, routeVars, publishedVars,
            ladderVars, driverVars, attemptVars, checkerVars, envVars
<1>1. ASSUME Connect PROVE FailureInv'
  BY <1>1, PendingAnnounced DEF Connect
<1>2. ASSUME Disconnect PROVE FailureInv'
  BY <1>2, PendingAnnounced DEF Disconnect
<1>3. ASSUME RetryNow PROVE FailureInv'
  BY <1>3, PendingAnnounced DEF RetryNow
<1>4. ASSUME NEW status \in NetworkStatuses, ConnectivityChanges(status) PROVE FailureInv'
  BY <1>4, PendingAnnounced DEF ConnectivityChanges
<1>5. ASSUME NEW reason \in WakeupReasons, WakeupArrives(reason) PROVE FailureInv'
  BY <1>5, <1>t, PendingAppended, SignalTypes DEF WakeupArrives
<1>6. ASSUME NEW s \in posting, Post(s) PROVE FailureInv'
  BY <1>6, <1>t, PendingPosted DEF Post
<1>7. ASSUME GoAvailable PROVE FailureInv'
  BY <1>7, PendingKept DEF GoAvailable
<1>8. ASSUME GoOffline PROVE FailureInv'
  BY <1>8, PendingKept DEF GoOffline
<1>9. ASSUME StartAttempt PROVE FailureInv'
  BY <1>9, PendingKept DEF StartAttempt
<1>10. ASSUME NEW r \in routes, OpenRoute(r) PROVE FailureInv'
  BY <1>10, PendingKept DEF OpenRoute
<1>11. ASSUME SynchronizeRoute PROVE FailureInv'
  BY <1>11, PendingKept DEF SynchronizeRoute
<1>12. ASSUME Land PROVE FailureInv'
  <2>1. pc' = "connected" \/ (pc' = "releasing" /\ outcome'.error = "none")
    <3>1. CASE StillWanted
      BY <1>12, <3>1 DEF Land
    <3>2. CASE ~StillWanted
      <4>1. Leave(FALSE, FALSE, FALSE, "none")
        BY <1>12, <3>2 DEF Land
      <4> QED
        BY <4>1 DEF Leave
    <3> QED
      BY <3>1, <3>2
  <2> QED
    BY <2>1
<1>13. ASSUME TakeWhileEstablishing PROVE FailureInv'
  BY <1>13 DEF TakeWhileEstablishing, Leave, InterruptsEstablishment
<1>14. ASSUME NEW stable \in BOOLEAN, TakeLeaseEnd(stable) PROVE FailureInv'
  BY <1>14 DEF TakeLeaseEnd, Leave, TakeLive
<1>15. ASSUME TakeWhileConnected PROVE FailureInv'
  BY <1>15, PendingKept DEF TakeWhileConnected, TakeLive, EndsLease
<1>16. ASSUME TakeWhileProbing PROVE FailureInv'
  BY <1>16, PendingKept DEF TakeWhileProbing, TakeLive, EndsLease
<1>17. ASSUME ProbeAnswered PROVE FailureInv'
  BY <1>17, PendingKept DEF ProbeAnswered
<1>18. ASSUME SettleInterrupted PROVE FailureInv'
  BY <1>18, PendingKept DEF SettleInterrupted, Settle
<1>19. ASSUME SettleBlocked PROVE FailureInv'
  BY <1>19, PendingKept DEF SettleBlocked, Settle
<1>20. ASSUME SettleFailedProbe PROVE FailureInv'
  BY <1>20, PendingKept DEF SettleFailedProbe, Settle
<1>21. ASSUME SettleTransient PROVE FailureInv'
  BY <1>21, PendingKept DEF SettleTransient, Settle
<1>22. ASSUME BackoffElapses PROVE FailureInv'
  BY <1>22, PendingKept DEF BackoffElapses
<1>23. ASSUME TakeWhileIdle PROVE FailureInv'
  BY <1>23, <1>t, PendingTaken, SignalNames DEF TakeWhileIdle, WakesIdle
<1>24. ASSUME NEW error \in Errors, EstablishmentFails(error) PROVE FailureInv'
  BY <1>24, PendingKept DEF EstablishmentFails, Leave, IntentPending
<1>25. ASSUME NEW error \in Errors, NEW stable \in BOOLEAN, SessionLost(error, stable) PROVE FailureInv'
  BY <1>25, PendingKept DEF SessionLost, Leave, IntentPending, Live
<1>26. ASSUME NEW reported \in SUBSET LearnableRoutes, LearnRoutes(reported) PROVE FailureInv'
  BY <1>26, PendingKept DEF LearnRoutes
<1>27. ASSUME StartCheck PROVE FailureInv'
  BY <1>27, PendingKept DEF StartCheck
<1>28. ASSUME NEW r \in checking.better, CheckPasses(r) PROVE FailureInv'
  <2>1. BetterRouteAvailable(r) \in Signals
    BY CheckTypes, SignalTypes DEF TypeOK, ValueTypes
  <2>2. ASSUME NEW s, Pending(s) PROVE Pending(s)'
    BY <1>28, <1>t, <2>1, <2>2, PendingAppended, PendingKept DEF CheckPasses
  <2> QED
    BY <1>28, <2>2 DEF CheckPasses
<1>29. ASSUME CheckFindsNothing PROVE FailureInv'
  BY <1>29, PendingKept DEF CheckFindsNothing
<1>30. ASSUME TickRequestsCheck PROVE FailureInv'
  BY <1>30, PendingKept DEF TickRequestsCheck
<1>31. ASSUME NEW r \in routeCooldowns, CooldownExpires(r) PROVE FailureInv'
  BY <1>31, PendingKept DEF CooldownExpires
<1>32. ASSUME ShutDown PROVE FailureInv'
  BY <1>32, PendingKept DEF ShutDown
<1>33. ASSUME RunInterrupted PROVE FailureInv'
  BY <1>33, PendingKept DEF RunInterrupted
<1>34. CASE UNCHANGED vars
  BY <1>34, PendingKept
<1> QED
  BY <1>1, <1>2, <1>3, <1>4, <1>5, <1>6, <1>7, <1>8, <1>9, <1>10, <1>11, <1>12, <1>13,
     <1>14, <1>15, <1>16, <1>17, <1>18, <1>19, <1>20, <1>21, <1>22, <1>23, <1>24, <1>25,
     <1>26, <1>27, <1>28, <1>29, <1>30, <1>31, <1>32, <1>33, <1>34
     DEF Next, Callers, Platform, Posting, RunLoop, LoopHead, Establishing, Monitoring, Settling,
         Waiting, Faults, Learning, Checker, Timers, Closing

LEMMA StopInit == Init => StopInv
BY DEF Init, StopInv, PlaceInv, AttemptInv, FailureInv, Live, NoSession

\* While it sets up a session, the loop waits for nothing but the driver.
LEMMA AttemptGoesOn ==
  ASSUME TypeOK, StopInv, ~shutdown, pc = "establishing"
  PROVE  CanGoOn
<1>1. /\ state.phase = "connecting" /\ state.stage \in {"preparing", "opening", "synchronizing"}
      /\ signals = <<>> => ~backlog
      /\ SavedRoutes \subseteq routes
  BY DEF StopInv, PlaceInv, AttemptInv, TypeOK, StateTypes, States, Stages
<1>2. CASE signals # <<>>
  BY <1>2 DEF CanGoOn
<1>3. CASE state.stage \in {"opening", "synchronizing"} /\ signals = <<>>
  BY <1>1, <1>3 DEF CanGoOn
<1>4. CASE state.stage = "preparing"
  <2>1. tried = {}
    BY <1>4 DEF StopInv, PlaceInv
  <2>2. PICK r \in routes : switchingTo \in routes => r = switchingTo
    BY <1>1, ConstantsAssumption
  <2> QED
    BY <2>1, <2>2 DEF CanGoOn
<1> QED
  BY <1>1, <1>2, <1>3, <1>4

LEMMA RestIsWanted ==
  ASSUME TypeOK, IntentPending, SessionInv, StopInv
  PROVE  StopsWhereWanted
<1> SUFFICES ASSUME ~shutdown, pc # "closed", posting = {}, ~CanGoOn PROVE WhereWanted
  BY DEF StopsWhereWanted
<1>1. signals = <<>>
  BY DEF CanGoOn
<1>2. \A s : ~Pending(s)
  BY <1>1 DEF Pending
<1>3. pc \in {"available", "offline", "blocked", "connected"}
  BY AttemptGoesOn DEF CanGoOn, TypeOK, ValueTypes
<1>4. /\ desired \in BOOLEAN
      /\ state.phase = "available" => ~state.desired
  BY DEF TypeOK, FlagTypes, StateTypes
<1>5. ~Live => session = NoSession
  BY DEF SessionInv, SessionIsLive
<1>6. CASE pc = "available"
  BY <1>2, <1>4, <1>5, <1>6 DEF WhereWanted, StopInv, PlaceInv, IntentPending, Live
<1>7. CASE pc = "offline"
  BY <1>2, <1>4, <1>5, <1>7 DEF WhereWanted, StopInv, PlaceInv, IntentPending, Live
<1>8. CASE pc = "blocked"
  BY <1>2, <1>4, <1>5, <1>8 DEF WhereWanted, StopInv, PlaceInv, FailureInv, Live
<1>9. CASE pc = "connected"
  <2>1. session # NoSession
    BY <1>9 DEF SessionInv, SessionIsLive, Live
  <2> QED
    BY <1>2, <1>4, <1>9, <2>1 DEF WhereWanted, StopInv, PlaceInv, IntentPending, Live
<1> QED
  BY <1>3, <1>6, <1>7, <1>8, <1>9

\* The run loop of supervisor.ts, with nothing announced and no signal in its queue, stops
\* only where the user's wish and the network put it: available when the connection is not
\* wanted, offline when the network is, connected over a published session, or blocked on
\* something the user must change. Everywhere else a step of its own is due, also in an
\* attempt that drains what it found in the queue.
THEOREM StopsWhereWantedCorrect == Spec => []StopsWhereWanted
<1>1. TypeOK /\ IntentPending /\ StopInv /\ [Next]_vars => StopInv'
  BY PlaceStep, AttemptStep, FailureStep DEF StopInv
<1>2. TypeOK /\ IntentPending /\ SessionInv /\ StopInv => StopsWhereWanted
  BY RestIsWanted
<1> QED
  BY <1>1, <1>2, TypeInit, TypeStep, IntentInit, IntentStep, SessionInit, SessionStep, StopInit,
     PTL DEF Spec
=============================================================================
