------------------------- MODULE EnvironmentRegistry -------------------------
(***************************************************************************)
(* The registry of environments, packages/client-runtime/src/connection/   *)
(* registry.ts, for one environment: its catalog entry, what is saved of   *)
(* it, and the service scope with its supervisor.                          *)
(*                                                                         *)
(* Every operation holds the environment's lease lock and waits, while it  *)
(* holds it, for stores and for the closing of a scope.  What it still has *)
(* to do is its plan: one element per await, with the assignments that     *)
(* follow it.  A supervisor's own fibers use the lock too, and are         *)
(* interrupted when their scope closes.                                    *)
(*                                                                         *)
(* The supervisor is reduced to its published phase.  A route is its id    *)
(* and the place it leads to; a learned route has the id of the saved one  *)
(* whose credential it borrows.  The order of the routes, profiles, trust  *)
(* records, SSH backends, cached data and the finalizer of the whole       *)
(* registry are left out.                                                  *)
(***************************************************************************)
EXTENDS KeyedLock

CONSTANTS
  Environment,    \* the environment
  Users,          \* callers on behalf of the user
  Platform,       \* the fiber that reconciles what the host reports
  Discovery,      \* the fiber that applies what relay discovery found
  Supervisors,    \* names of supervisors
  DirectIds,      \* connection ids under which the user can save an address
  Addresses,      \* addresses that can be saved, or reported by the server
  Relay, Loopback, \* the relay; the host's own backend: both ids and places
  Bearers,        \* bearers of that backend; a later one is larger
  MaxEvents       \* bound: calls, reports, attempts that end and stores that fail

Learner(s) == <<"learner", s>>
Watcher(s) == <<"watcher", s>>

ASSUME RegistryAssumption ==
  /\ Keys = {Environment}
  /\ Callers = Users \cup {Platform, Discovery}
                \cup {Learner(s) : s \in Supervisors} \cup {Watcher(s) : s \in Supervisors}
  /\ Platform # Discovery /\ {Platform, Discovery} \cap Users = {}
  /\ \A s \in Supervisors :
       {Learner(s), Watcher(s)} \cap (Users \cup {Platform, Discovery}) = {}
  /\ NoCaller \notin Supervisors
  /\ {Relay, Loopback} \cap (DirectIds \cup Addresses) = {} /\ Relay # Loopback
  /\ Bearers \subseteq Nat \ {0}
  /\ MaxEvents \in Nat

VARIABLES
  entry,      \* entries: the catalog entry
  lease,      \* serviceScopes: the entry and the supervisor of the open scope
  platform,   \* platformEnvironmentIds has the environment
  persisted,  \* persistedEnvironmentIds has it
  saved,      \* the stored routes and disabled flag
  bearer,     \* the stored bearer of the platform route, 0 for none
  sup,        \* the supervisors
  task,       \* what each caller of the lock is doing
  events,     \* spent share of the bound
  unsettled,  \* history: what a fault, logged only, left behind
  displaced   \* history: ids of saved routes dropped for another to their address

catalogVars == <<entry, lease, platform, persisted>>
storeVars == <<saved, bearer>>
vars == <<lockVars, catalogVars, storeVars, sup, task, events, unsettled, displaced>>

Route(id, at) == [id |-> id, at |-> at]
RelayRoute == Route(Relay, Relay)
LoopbackRoute == Route(Loopback, Loopback)
NoRoute == Route(NoCaller, NoCaller)
SavableRoutes == [id : DirectIds, at : Addresses] \cup {RelayRoute}
AllRoutes == SavableRoutes \cup {LoopbackRoute}
Ids(routes) == {r.id : r \in routes}
Places(routes) == {r.at : r \in routes}
LearnedRoutes == [id : Ids(AllRoutes), at : Addresses]

Fibers(s) == {Learner(s), Watcher(s)}

(* A verdict that the server is unsupported: who found it, over which routes. *)
NoVerdict == [by |-> "nobody", over |-> {}]
Verdict(by, over) == [by |-> by, over |-> over]

Entry(routes, learned, enabled, verdict) ==
  [routes |-> routes, learned |-> learned, enabled |-> enabled, verdict |-> verdict]
NoEntry == Entry({}, {}, FALSE, NoVerdict)
NoLease == [entry |-> NoEntry, supervisor |-> NoCaller]
BugSavesNoFlag(e) == [routes |-> e.routes, learned |-> e.learned]
Listed(e) == e.routes \cup e.learned
Saved(e) == [routes |-> e.routes, learned |-> e.learned, enabled |-> e.enabled]

NoSupervisor ==
  [status |-> "none", wanted |-> FALSE, phase |-> "available", routes |-> {}, owners |-> {},
   via |-> NoCaller, bearer |-> 0, retry |-> FALSE, reported |-> TRUE, told |-> TRUE]

Plain(op) == [op |-> op, route |-> NoRoute, owner |-> NoCaller, reported |-> {},
              flag |-> FALSE, bearer |-> 0, verdict |-> NoVerdict]
ForRoute(op, r) == [Plain(op) EXCEPT !.route = r]
SetEnabled(flag) == [Plain("setEnabled") EXCEPT !.flag = flag]
SetCompatibility(verdict) == [Plain("setCompatibility") EXCEPT !.verdict = verdict]
Learned(owner, reported) ==
  [Plain("learnRoutes") EXCEPT !.owner = owner, !.reported = reported]
Reported(b) == [ForRoute("install", LoopbackRoute) EXCEPT !.bearer = b]
NoTask == [request |-> Plain("none"), stage |-> "idle", plan |-> <<>>, next |-> NoEntry,
           replaced |-> FALSE]
Leaving == [NoTask EXCEPT !.stage = "leaving"]

Init ==
  /\ LockInit
  /\ \E e \in {NoEntry, Entry({RelayRoute}, {}, TRUE, NoVerdict)} :
       entry = e /\ persisted = (e # NoEntry) /\ saved = Saved(e)
  /\ lease = NoLease /\ platform = FALSE /\ bearer = 0
  /\ sup = [s \in Supervisors |-> NoSupervisor]
  /\ task = [t \in Callers |-> NoTask]
  /\ events = 0
  /\ unsettled = {} /\ displaced = {}

-----------------------------------------------------------------------------
(* Requests.  Each asks for the lease lock and is looked at when it holds it. *)

Asks(t, request) ==
  /\ task[t].stage = "idle"
  /\ AskLock(t, Environment)
  /\ task' = [task EXCEPT ![t].request = request, ![t].stage = "asked"]
  /\ UNCHANGED <<catalogVars, storeVars, sup, unsettled, displaced>>

Event == events < MaxEvents /\ events' = events + 1

\* A route to remove is one of those the catalog lists.
UserRequests ==
  {Plain("acquire"), Plain("retryNow"), Plain("remove"), Plain("reorderRoutes"),
   SetEnabled(TRUE), SetEnabled(FALSE), SetCompatibility(NoVerdict)}
  \cup {ForRoute("register", r) : r \in SavableRoutes}
  \cup {ForRoute("removeRoute", r) : r \in entry.routes}
  \cup {ForRoute("removeLearned", r) : r \in entry.learned}

Call(u) ==
  /\ Event
  /\ \E request \in UserRequests : Asks(u, request)

\* The host reports its backend with the bearer it accepts now, or nothing.
Reconcile ==
  /\ Event
  /\ \/ \E b \in Bearers :
            b >= bearer /\ Asks(Platform, Reported(b))
     \/ platform /\ Asks(Platform, Plain("removePlatform"))

\* Relay discovery only judges an environment whose one route is the relay.
Discover ==
  /\ Event
  /\ Listed(entry) = {RelayRoute}
  /\ \E verdict \in {NoVerdict, Verdict("discovery", {Relay})} :
       Asks(Discovery, SetCompatibility(verdict))

FiberAsks(s, f, request, flags) ==
  /\ sup[s].status = "open" /\ task[f].stage = "idle"
  /\ AskLock(f, Environment)
  /\ task' = [task EXCEPT ![f].request = request, ![f].stage = "asked"]
  /\ sup' = [sup EXCEPT ![s] = flags]
  /\ UNCHANGED <<catalogVars, storeVars, events, unsettled, displaced>>

\* Once per session, with the addresses the server reports and the owner of the
\* credential in use.
LearnRoutes(s) ==
  /\ sup[s].phase = "connected" /\ ~sup[s].reported
  /\ \E reported \in SUBSET Addresses :
       FiberAsks(s, Learner(s), Learned(sup[s].via, reported), [sup[s] EXCEPT !.reported = TRUE])

\* The watcher of the supervisor's states meets one that is blocked as unsupported.
Watch(s) ==
  /\ ~sup[s].told
  /\ FiberAsks(s, Watcher(s), SetCompatibility(Verdict("socket", Places(sup[s].routes))),
               [sup[s] EXCEPT !.told = TRUE])

-----------------------------------------------------------------------------
(* What an operation decides when it holds the lock. *)

BugKeepsVerdict(routes, learned) == [entry EXCEPT !.routes = routes, !.learned = learned]

\* Changed addresses drop a verdict, whatever the ids; learned routes change none.
WithRoutes(routes, learned) ==
  IF Places(routes) = Places(entry.routes)
  THEN [entry EXCEPT !.routes = routes, !.learned = learned]
  ELSE Entry(routes, learned, entry.enabled, NoVerdict)

\* The platform's entry, still switched off while the same backend is unsupported.
PlatformEntry ==
  IF entry.verdict # NoVerdict /\ Places(entry.routes) = {Loopback}
  THEN Entry({LoopbackRoute}, {}, FALSE, entry.verdict)
  ELSE Entry({LoopbackRoute}, {}, TRUE, NoVerdict)

Equivalent(e) == lease # NoLease /\ lease.entry = e

Steps(condition, plan) == IF condition THEN plan ELSE <<>>
BugLeavesScopeOpen == <<>>
Close == Steps(lease # NoLease, <<"close">>)
Reinstall == Close \o <<"install">>
Removal == <<"forget", "erase">> \o Close \o <<"drop">>
Replacement(routes) ==
  Steps(Places(routes) # Places(entry.routes), <<"forget">>) \o <<"write">> \o Reinstall

Op(t) == task[t].request.op
Chosen(t) == task[t].request.route
Owner(t) == task[t].request.owner

Begins(t, plan, next) ==
  /\ task[t].stage = "asked" /\ HoldsPermit(t)
  /\ task' = [task EXCEPT ![t].stage = "working", ![t].plan = plan, ![t].next = next]
  /\ UNCHANGED <<lockVars, catalogVars, storeVars, sup, events, unsettled, displaced>>
Refuses(t) == Begins(t, <<>>, NoEntry)

UserOwned == ~platform /\ entry # NoEntry

BeginAcquire(t) ==
  /\ Op(t) \in {"acquire", "retryNow"}
  /\ IF entry = NoEntry \/ Equivalent(entry) THEN Refuses(t) ELSE Begins(t, Reinstall, entry)

\* A saved route is replaced by one with its id, and by one to its address.
GivesWay(r, chosen) == r.id = chosen.id \/ r.at = chosen.at

\* What was learned to the address goes too; what was learned over a route that
\* gives way to another id stays.
BeginRegister(t) ==
  /\ Op(t) = "register"
  /\ \/ platform /\ Refuses(t)
     \/ /\ ~platform /\ entry = NoEntry
        /\ Begins(t, <<"write">> \o Reinstall, Entry({Chosen(t)}, {}, TRUE, NoVerdict))
     \/ /\ UserOwned
        /\ LET routes == {r \in entry.routes : ~GivesWay(r, Chosen(t))} \cup {Chosen(t)}
               learned == {l \in entry.learned : l.at # Chosen(t).at} IN
           Begins(t, Replacement(routes), WithRoutes(routes, learned))

BeginRemove(t) ==
  /\ Op(t) = "remove"
  /\ IF UserOwned THEN Begins(t, Removal, NoEntry) ELSE Refuses(t)

BugKeepsLearned(r) == entry.learned
LearnedWithout(r) == {l \in entry.learned : l.id # r.id}

\* What was learned over a route goes with it; with the last one the environment.
Leaves(t, routes, learned) ==
  IF routes \cup learned = {} THEN Begins(t, Removal, NoEntry)
  ELSE Begins(t, Replacement(routes), WithRoutes(routes, learned))

BeginRemoveRoute(t) ==
  /\ Op(t) = "removeRoute"
  /\ IF UserOwned /\ Chosen(t).id \in Ids(entry.routes)
     THEN Leaves(t, {r \in entry.routes : r.id # Chosen(t).id}, LearnedWithout(Chosen(t)))
     ELSE Refuses(t)

BeginRemoveLearned(t) ==
  /\ Op(t) = "removeLearned"
  /\ IF UserOwned /\ Chosen(t) \in entry.learned
     THEN Leaves(t, entry.routes, entry.learned \ {Chosen(t)}) ELSE Refuses(t)

BeginReorder(t) ==
  /\ Op(t) = "reorderRoutes"
  /\ IF UserOwned /\ Cardinality(entry.routes) + Cardinality(entry.learned) > 1
     THEN Begins(t, Replacement(entry.routes), entry) ELSE Refuses(t)

BeginSetEnabled(t) ==
  /\ Op(t) = "setEnabled"
  /\ LET flag == task[t].request.flag IN
     IF entry = NoEntry \/ (flag /\ entry.verdict # NoVerdict) \/ entry.enabled = flag
     THEN Refuses(t)
     ELSE Begins(t, Steps(~platform, <<"write">>) \o <<"update">>, [entry EXCEPT !.enabled = flag])

BeginSetCompatibility(t) ==
  /\ Op(t) = "setCompatibility"
  /\ LET verdict == task[t].request.verdict
         rejects == verdict # NoVerdict IN
     IF entry = NoEntry \/ entry.verdict = verdict THEN Refuses(t)
     ELSE Begins(t, Steps(rejects /\ entry.enabled /\ ~platform, <<"write">>) \o <<"update">>,
                 Entry(entry.routes, entry.learned, entry.enabled /\ ~rejects, verdict))

\* Learned routes no longer reported go, whoever owns their credential; the new
\* ones borrow the credential in use.  A list without routes is an error.
Merged(reported, owner) ==
  LET known == Places(entry.routes)
      kept == {l \in entry.learned : l.at \in reported \ known} IN
  kept \cup {Route(owner, at) : at \in reported \ (known \cup Places(kept))}

BeginLearnRoutes(t) ==
  /\ Op(t) = "learnRoutes"
  /\ LET learned == Merged(task[t].request.reported, Owner(t)) IN
     IF UserOwned /\ learned # entry.learned /\ entry.routes \cup learned # {}
     THEN Begins(t, <<"write", "update">>, [entry EXCEPT !.learned = learned])
     ELSE Refuses(t)

\* A persisted registration is shadowed: its trust goes first, then its record.
BeginInstall(t) ==
  /\ Op(t) = "install"
  /\ LET e == PlatformEntry IN
     Begins(t, Steps(persisted \/ (entry # NoEntry /\ Places(entry.routes) # {Loopback}), <<"forget">>)
                 \o <<"bearer">> \o Steps(persisted, <<"unshadow">>)
                 \o Steps(~(entry = e /\ Equivalent(e)), Reinstall), e)

BeginRemovePlatform(t) ==
  /\ Op(t) = "removePlatform"
  /\ Begins(t, <<"forget">> \o Close \o <<"drop", "dropBearer">>, NoEntry)

Begin(t) ==
  \/ BeginAcquire(t) \/ BeginRegister(t) \/ BeginRemove(t) \/ BeginRemoveRoute(t)
  \/ BeginRemoveLearned(t) \/ BeginReorder(t) \/ BeginSetEnabled(t)
  \/ BeginSetCompatibility(t) \/ BeginLearnRoutes(t) \/ BeginInstall(t)
  \/ BeginRemovePlatform(t)

-----------------------------------------------------------------------------
(* The steps of a plan. *)

Due(t, step) == task[t].stage = "working" /\ task[t].plan # <<>> /\ Head(task[t].plan) = step
Done(t) == task' = [task EXCEPT ![t].plan = Tail(@)]
Fails(t) == task' = [task EXCEPT ![t].plan = <<>>]

Fault == Event
Works == UNCHANGED events

\* githubRoutingPermissions.forget: nothing else happens when it fails.
Forget(t) ==
  /\ Due(t, "forget")
  /\ \/ Works /\ Done(t) /\ platform' = (platform /\ Op(t) # "removePlatform")
     \/ Fault /\ Fails(t) /\ UNCHANGED platform
  /\ UNCHANGED <<entry, lease, persisted, storeVars, sup, unsettled, displaced>>

BugSavesRoutesOnly(t) ==
  [saved EXCEPT !.routes = task[t].next.routes, !.learned = task[t].next.learned]

\* What the store holds after the write; only saved environments have a flag.
Written(t) ==
  CASE Op(t) \in {"setEnabled", "setCompatibility"} ->
         IF Listed(saved) = {} THEN saved ELSE [saved EXCEPT !.enabled = task[t].next.enabled]
    [] Op(t) = "register" /\ Listed(saved) = {} -> Saved(task[t].next)
    [] OTHER -> [saved EXCEPT !.routes = task[t].next.routes, !.learned = task[t].next.learned]

Write(t) ==
  /\ Due(t, "write")
  /\ \/ /\ Works /\ Done(t)
        /\ saved' = Written(t)
        /\ persisted' = (persisted \/ Op(t) = "register")
        /\ displaced' = displaced \cup IF Op(t) = "register"
                                      THEN Ids(entry.routes) \ Ids(task[t].next.routes) ELSE {}
     \/ Fault /\ Fails(t) /\ UNCHANGED <<saved, persisted, displaced>>
  /\ UNCHANGED <<entry, lease, platform, bearer, sup, unsettled>>

Erase(t) ==
  /\ Due(t, "erase")
  /\ \/ Works /\ Done(t) /\ saved' = Saved(NoEntry) /\ persisted' = FALSE
     \/ Fault /\ Fails(t) /\ UNCHANGED <<saved, persisted>>
  /\ UNCHANGED <<entry, lease, platform, bearer, sup, unsettled, displaced>>

\* The environment is the platform's from here on.  The old bearer is read to see
\* whether the new one replaces it.
StoreBearer(t) ==
  LET b == task[t].request.bearer
      outcome(stored, replaced) ==
        /\ bearer' = stored
        /\ task' = [task EXCEPT ![t].plan = Tail(@), ![t].replaced = replaced] IN
  /\ Due(t, "bearer")
  /\ platform' = TRUE
  /\ \/ Works /\ outcome(b, bearer \notin {0, b}) /\ UNCHANGED unsettled
     \/ Fault /\ outcome(bearer, FALSE) /\ UNCHANGED unsettled
     \/ Fault /\ outcome(b, FALSE) /\ unsettled' = unsettled \cup {"bearer"}
  /\ UNCHANGED <<entry, lease, persisted, saved, sup, displaced>>

DropBearer(t) ==
  /\ Due(t, "dropBearer") /\ Done(t)
  /\ (Works /\ bearer' = 0) \/ (Fault /\ UNCHANGED bearer)
  /\ UNCHANGED <<catalogVars, saved, sup, unsettled, displaced>>

Unshadow(t) ==
  /\ Due(t, "unshadow") /\ Done(t)
  /\ \/ Works /\ saved' = Saved(NoEntry) /\ persisted' = FALSE /\ UNCHANGED unsettled
     \/ Fault /\ unsettled' = unsettled \cup {"shadow"} /\ UNCHANGED <<saved, persisted>>
  /\ UNCHANGED <<entry, lease, platform, bearer, sup, displaced>>

\* closeServiceScope takes the lease away before it waits for the scope.
StartClosing(t) ==
  /\ Due(t, "close") /\ Done(t)
  /\ lease' = NoLease
  /\ sup' = [sup EXCEPT ![lease.supervisor].status = "closing"]
  /\ Works
  /\ UNCHANGED <<entry, platform, persisted, storeVars, unsettled, displaced>>

\* A scope is closed when its fibers have stopped.
Closing(s) == sup[s].status = "closing"
ScopeClosed ==
  \A s \in Supervisors : Closing(s) => \A f \in Fibers(s) : task[f].stage = "idle"
Open == [s \in Supervisors |-> IF Closing(s) THEN NoSupervisor ELSE sup[s]]

\* createServiceScope: cannot be interrupted, and wants what the entry wants.  The
\* routes learned later borrow the credentials of owners it has already.
Creates(e) ==
  /\ \E s \in Supervisors : Open[s].status = "none"
  /\ LET s == CHOOSE s \in Supervisors : Open[s].status = "none" IN
     /\ sup' = [Open EXCEPT ![s] = [NoSupervisor EXCEPT !.status = "open", !.wanted = e.enabled,
                                  !.routes = e.routes, !.owners = Ids(Listed(e))]]
     /\ lease' = [entry |-> e, supervisor |-> s]

Install(t) ==
  /\ Due(t, "install") /\ Done(t)
  /\ ScopeClosed
  /\ entry' = task[t].next /\ Creates(task[t].next)
  /\ displaced' = displaced \ IF Op(t) = "register" THEN {Chosen(t).id} ELSE {}
  /\ Works
  /\ UNCHANGED <<platform, persisted, storeVars, unsettled>>

Drop(t) ==
  /\ Due(t, "drop") /\ Done(t)
  /\ ScopeClosed
  /\ entry' = NoEntry /\ sup' = Open
  /\ Works
  /\ UNCHANGED <<lease, platform, persisted, storeVars, unsettled, displaced>>

BugLetsRejectedRun(t) ==
  IF Op(t) = "setEnabled" THEN task[t].request.flag ELSE sup[lease.supervisor].wanted

\* The lease is updated in place: the supervisor and its streams go on.
Intends(t) ==
  CASE Op(t) = "setEnabled" -> task[t].request.flag
    [] Op(t) = "setCompatibility" /\ task[t].request.verdict # NoVerdict -> FALSE
    [] OTHER -> sup[lease.supervisor].wanted

Update(t) ==
  /\ Due(t, "update") /\ Done(t)
  /\ entry' = task[t].next
  /\ \/ /\ lease # NoLease
        /\ lease' = [lease EXCEPT !.entry = task[t].next]
        /\ sup' = [sup EXCEPT ![lease.supervisor].wanted = Intends(t)]
     \/ /\ lease = NoLease /\ Op(t) = "setEnabled" /\ task[t].request.flag
        /\ Creates(task[t].next)
     \/ /\ lease = NoLease /\ ~(Op(t) = "setEnabled" /\ task[t].request.flag)
        /\ UNCHANGED <<lease, sup>>
  /\ Works
  /\ UNCHANGED <<platform, persisted, storeVars, unsettled, displaced>>

Step(t) ==
  /\ \/ Forget(t) \/ Write(t) \/ Erase(t) \/ StoreBearer(t) \/ DropBearer(t) \/ Unshadow(t)
     \/ StartClosing(t) \/ Install(t) \/ Drop(t) \/ Update(t)
  /\ UNCHANGED lockVars

BugRetriesBlocked(t) ==
  \/ Op(t) = "retryNow" /\ lease # NoLease
  \/ task[t].replaced /\ sup[lease.supervisor].phase \in {"backoff", "refused"}

\* The user asks for a retry, or an attempt may have read the replaced bearer.
Retries(t) ==
  \/ Op(t) = "retryNow" /\ lease # NoLease
  \/ task[t].replaced /\ sup[lease.supervisor].phase \in {"connecting", "backoff", "refused"}
\* The caller is answered; retryNow then reaches the supervisor it was given.
Finish(t) ==
  /\ task[t].stage = "working" /\ task[t].plan = <<>>
  /\ ExitLock(t)
  /\ task' = [task EXCEPT ![t] = Leaving]
  /\ IF Retries(t)
     THEN sup' = [sup EXCEPT ![lease.supervisor].retry = TRUE] ELSE UNCHANGED sup
  /\ UNCHANGED <<catalogVars, storeVars, events, unsettled, displaced>>

Leave(t) ==
  /\ LeaveLock(t)
  /\ task' = [task EXCEPT ![t] = NoTask]
  /\ UNCHANGED <<catalogVars, storeVars, sup, events, unsettled, displaced>>

GetLock ==
  /\ \E s \in Callers : WakeWaiter(Environment, s)
  /\ UNCHANGED <<catalogVars, storeVars, sup, task, events, unsettled, displaced>>

-----------------------------------------------------------------------------
(* The supervisor and its fibers. *)

BugWaitsUninterruptibly(f) == FALSE
StopsWaiting(f) ==
  task[f].stage = "asked" /\ GiveUpLock(f) /\ UNCHANGED <<saved, unsettled>>

\* A fiber is interrupted: it stops waiting for the lock, or lets go of it,
\* when its write may have reached the store.
Stops(f) ==
  /\ task' = [task EXCEPT ![f] = Leaving]
  /\ \/ StopsWaiting(f)
     \/ ExitLock(f) /\ ~Due(f, "update") /\ UNCHANGED <<saved, unsettled>>
     \/ /\ ExitLock(f) /\ (Due(f, "write") \/ Due(f, "update"))
        /\ saved' = Written(f) /\ unsettled' = unsettled \cup {"learned"}

\* Closing a scope interrupts its fibers.
FiberStops(s) ==
  /\ Closing(s)
  /\ \E f \in Fibers(s) : task[f].stage \in {"asked", "working"} /\ Stops(f)
  /\ UNCHANGED <<catalogVars, bearer, sup, events, displaced>>

\* With the session ends the fiber that learns routes in its scope.
Becomes(s, state) ==
  /\ sup[s].status = "open"
  /\ sup' = [sup EXCEPT ![s] = state]
  /\ IF task[Learner(s)].stage \in {"asked", "working"} THEN Stops(Learner(s))
     ELSE UNCHANGED <<lockVars, task, saved, unsettled>>
  /\ UNCHANGED <<catalogVars, bearer, displaced>>

\* What a session or an attempt leaves behind.
Left(s, phase) ==
  [sup[s] EXCEPT !.phase = phase, !.via = NoCaller, !.reported = TRUE,
                 !.bearer = IF phase = "refused" THEN @ ELSE 0]

Attempt(s) ==
  /\ sup[s].wanted /\ sup[s].phase = "available"
  /\ Becomes(s, [sup[s] EXCEPT !.phase = "connecting", !.retry = FALSE])
  /\ UNCHANGED events

ReadBearer(s) ==
  /\ sup[s].phase = "connecting" /\ sup[s].bearer = 0 /\ LoopbackRoute \in sup[s].routes
  /\ bearer # 0
  /\ Becomes(s, [sup[s] EXCEPT !.bearer = bearer])
  /\ UNCHANGED events

AttemptEnds(s) ==
  /\ sup[s].phase = "connecting"
  /\ Event
  /\ \/ \E owner \in sup[s].owners :
          Becomes(s, [Left(s, "connected") EXCEPT !.via = owner, !.reported = FALSE])
     \/ Becomes(s, Left(s, "backoff"))
     \/ sup[s].bearer # 0 /\ Becomes(s, Left(s, "refused"))
     \/ Becomes(s, [Left(s, "unsupported") EXCEPT !.told = FALSE])

\* A timer, a wakeup, a retry or a new intent ends a wait, an attempt or a session.
Resumes(s) ==
  /\ \/ sup[s].phase \in {"connected", "backoff", "refused", "unsupported"}
     \/ sup[s].phase = "connecting" /\ (sup[s].retry \/ ~sup[s].wanted)
  /\ Becomes(s, Left(s, "available"))
  /\ UNCHANGED events

Supervise(s) == Attempt(s) \/ ReadBearer(s) \/ AttemptEnds(s) \/ Resumes(s)
Fiber(s) == LearnRoutes(s) \/ Watch(s) \/ FiberStops(s)

Next ==
  \/ \E u \in Users : Call(u)
  \/ Reconcile \/ Discover
  \/ \E t \in Callers : Begin(t) \/ Step(t) \/ Finish(t) \/ Leave(t)
  \/ GetLock
  \/ \E s \in Supervisors : Supervise(s) \/ Fiber(s)

Spec == Init /\ [][Next]_vars

\* Stores answer, interrupted fibers stop, and a free lock is handed on: the
\* registry goes on whenever it can.
Progress ==
  \/ \E t \in Callers : Begin(t) \/ Step(t) \/ Finish(t) \/ Leave(t)
  \/ GetLock
  \/ \E s \in Supervisors : FiberStops(s)

-----------------------------------------------------------------------------
(* Properties. *)

Unlocked == \A t \in Callers : task[t].stage # "working"

Verdicts == [by : {"nobody", "socket", "discovery"}, over : SUBSET Places(AllRoutes)]
Entries == [routes : SUBSET AllRoutes, learned : SUBSET LearnedRoutes, enabled : BOOLEAN,
            verdict : Verdicts]
Phases == {"available", "connecting", "connected", "backoff", "refused", "unsupported"}
PlanSteps == {"forget", "write", "erase", "bearer", "dropBearer", "unshadow",
              "close", "install", "drop", "update"}

\* Every variable stays within its type.
TypeOK ==
  /\ entry \in Entries
  /\ lease.entry \in Entries /\ lease.supervisor \in Supervisors \cup {NoCaller}
  /\ platform \in BOOLEAN /\ persisted \in BOOLEAN
  /\ saved \in [routes : SUBSET AllRoutes, learned : SUBSET LearnedRoutes, enabled : BOOLEAN]
  /\ bearer \in Bearers \cup {0}
  /\ \A s \in Supervisors :
       /\ sup[s].status \in {"none", "open", "closing"} /\ sup[s].phase \in Phases
       /\ sup[s].routes \subseteq AllRoutes /\ sup[s].owners \subseteq Ids(AllRoutes)
       /\ sup[s].bearer \in Bearers \cup {0}
       /\ {sup[s].wanted, sup[s].retry, sup[s].reported, sup[s].told} \subseteq BOOLEAN
  /\ \A t \in Callers :
       /\ task[t].stage \in {"idle", "asked", "working", "leaving"}
       /\ task[t].plan \in Seq(PlanSteps) /\ task[t].next \in Entries
  /\ unsettled \subseteq {"bearer", "shadow", "learned"} /\ displaced \subseteq Ids(AllRoutes)

\* An environment never has two supervisors, whoever registers, retries,
\* reconciles or removes it at the same time.
\* (registry.test.ts:1695 "keeps one session per environment across concurrent
\* registrations and retries")
OneSupervisor ==
  \A r, s \in Supervisors : sup[r].status # "none" /\ sup[s].status # "none" => r = s

\* Between operations the running supervisor is the one of the catalog's entry
\* and wants what the entry says; a removed environment has none.
\* (registry.ts:346-402, 1053-1072)
LeaseFollowsCatalog ==
  Unlocked =>
    \A s \in Supervisors : sup[s].status # "none" =>
      /\ sup[s].status = "open" /\ lease.supervisor = s
      /\ entry # NoEntry /\ lease.entry = entry
      /\ sup[s].wanted = entry.enabled

\* Between operations the next start would find the environment as it is now,
\* unless a shadowed registration could not be erased; learned routes are found
\* once more after their save was cut short. (registry.ts:586-590, 683-702)
SavedFollowsCatalog ==
  Unlocked /\ "shadow" \notin unsettled =>
    IF platform THEN saved = Saved(NoEntry) /\ ~persisted
    ELSE /\ saved.routes = entry.routes /\ saved.enabled = entry.enabled
         /\ persisted = (entry # NoEntry)
         /\ "learned" \in unsettled \/ saved.learned = entry.learned

\* A learned route never outlives the saved one whose credential it borrows.
\* (routes.ts:398-403 "it cannot outlive that route")  The code keeps it when the
\* owner gives way to another id for its address.
LearnedHaveParents ==
  /\ Ids(entry.learned) \subseteq Ids(entry.routes)
  /\ Ids(saved.learned) \subseteq Ids(saved.routes)

\* A learned route outlives the owner of its credential only when that gave way to
\* another id for its address: not when it is removed, and not when a fiber learns
\* it that read the routes before it had the lock. (registry.ts:572-580, 885-890,
\* 955-977)
OrphansWereDisplaced ==
  /\ Ids(entry.learned) \subseteq Ids(entry.routes) \cup displaced
  /\ Ids(saved.learned) \subseteq Ids(saved.routes) \cup displaced

\* A rejection by the server's own socket is about the addresses the entry has:
\* it was not found over routes that have been replaced since.
\* (registry.ts:540-545, 384-398)
SocketVerdictFits == entry.verdict.by = "socket" => entry.verdict.over = Places(entry.routes)

\* A connection blocked with a bearer that has been replaced is tried again,
\* even when the attempt that used it ended while the new one was stored.
\* (registry.ts:706-725)
ReplacedBearerRetried ==
  Unlocked /\ "bearer" \notin unsettled =>
    \A s \in Supervisors :
      sup[s].status = "open" /\ sup[s].phase = "refused" /\ sup[s].bearer # bearer => sup[s].retry

\* Nobody waits in a circle: the lock's holder waits for the fibers of a scope,
\* and they may wait for the lock. (registry.ts:346-358, 384-398)
NoCircularWait == (\E t \in Callers : task[t].stage # "idle") => ENABLED Progress
=============================================================================
