---------------------- MODULE EnvironmentRegistry_proofs ----------------------
(***************************************************************************)
(* The registry uses its lease locks as KeyedLock has them used, so that   *)
(* what is proved of the lock holds in the registry: one operation at a    *)
(* time.  The inductive invariant then follows the plan of that operation, *)
(* step by step, fault by fault, while users, the host, discovery and the  *)
(* fibers of the supervisor ask, and gives every safety property of the    *)
(* registry for any number of callers, supervisors, routes and bearers.    *)
(***************************************************************************)
EXTENDS EnvironmentRegistry, KeyedLock_proofs, SequenceTheorems

\* Asking, waiting and leaving are steps of the lock; every other step of an
\* operation leaves the locks alone.
LEMMA BeginKeepsLocks == ASSUME NEW t \in Callers, Begin(t) PROVE UNCHANGED lockVars
<1>1. ASSUME NEW plan, NEW next, Begins(t, plan, next) PROVE UNCHANGED lockVars
  BY <1>1 DEF Begins
<1>2. Refuses(t) => UNCHANGED lockVars
  BY <1>1 DEF Refuses
<1>3. BeginAcquire(t) \/ BeginRegister(t) \/ BeginRemove(t) => UNCHANGED lockVars
  BY <1>1, <1>2 DEF BeginAcquire, BeginRegister, BeginRemove
<1>4. BeginRemoveRoute(t) \/ BeginRemoveLearned(t) \/ BeginReorder(t) => UNCHANGED lockVars
  BY <1>1, <1>2 DEF BeginRemoveRoute, BeginRemoveLearned, BeginReorder, Leaves
<1>5. BeginSetEnabled(t) \/ BeginSetCompatibility(t) \/ BeginLearnRoutes(t) => UNCHANGED lockVars
  BY <1>1, <1>2 DEF BeginSetEnabled, BeginSetCompatibility, BeginLearnRoutes
<1>6. BeginInstall(t) \/ BeginRemovePlatform(t) => UNCHANGED lockVars
  BY <1>1 DEF BeginInstall, BeginRemovePlatform
<1> QED
  BY <1>3, <1>4, <1>5, <1>6 DEF Begin

LEMMA RequestIsLockStep ==
  ASSUME NEW t \in Callers, NEW request, Asks(t, request)
  PROVE  LockNext
BY RegistryAssumption DEF Asks, LockNext

LEMMA FiberIsLockStep ==
  ASSUME NEW s \in Supervisors, Fiber(s)
  PROVE  LockNext
<1>1. Learner(s) \in Callers /\ Watcher(s) \in Callers /\ Environment \in Keys
  BY RegistryAssumption
<1>2. ASSUME NEW f \in Callers, NEW request, NEW flags, FiberAsks(s, f, request, flags)
      PROVE  LockNext
  BY <1>1, <1>2 DEF FiberAsks, LockNext
<1>3. LearnRoutes(s) => LockNext
  BY <1>1, <1>2 DEF LearnRoutes
<1>4. Watch(s) => LockNext
  BY <1>1, <1>2 DEF Watch
<1>5. FiberStops(s) => LockNext
  BY <1>1 DEF FiberStops, Fibers, Stops, StopsWaiting, LockNext
<1> QED
  BY <1>3, <1>4, <1>5 DEF Fiber

LEMMA SuperviseIsLockStep ==
  ASSUME NEW s \in Supervisors, Supervise(s)
  PROVE  [LockNext]_lockVars
<1>1. Learner(s) \in Callers
  BY RegistryAssumption
<1>2. ASSUME NEW state, Becomes(s, state) PROVE [LockNext]_lockVars
  BY <1>1, <1>2 DEF Becomes, Stops, StopsWaiting, LockNext
<1> QED
  BY <1>2 DEF Supervise, Attempt, ReadBearer, AttemptEnds, Resumes

LEMMA RegistryStep == ASSUME [Next]_vars PROVE [LockNext]_lockVars
<1>1. CASE UNCHANGED vars
  BY <1>1 DEF vars
<1>2. ASSUME NEW u \in Users, Call(u) PROVE LockNext
  BY <1>2, RequestIsLockStep, RegistryAssumption DEF Call
<1>3. CASE Reconcile \/ Discover
  BY <1>3, RequestIsLockStep, RegistryAssumption DEF Reconcile, Discover
<1>4. ASSUME NEW t \in Callers, Begin(t) \/ Step(t) \/ Finish(t) \/ Leave(t)
      PROVE  [LockNext]_lockVars
  BY <1>4, BeginKeepsLocks DEF Step, Finish, Leave, LockNext
<1>5. CASE GetLock
  BY <1>5, RegistryAssumption DEF GetLock, LockNext
<1>6. ASSUME NEW s \in Supervisors, Supervise(s) \/ Fiber(s) PROVE [LockNext]_lockVars
  BY <1>6, SuperviseIsLockStep, FiberIsLockStep
<1> QED
  BY <1>1, <1>2, <1>3, <1>4, <1>5, <1>6 DEF Next

\* withLeaseLock: every operation of the registry and every fiber of a supervisor
\* follows the protocol of the keyed lock, interrupted ones included.
THEOREM RegistryFollowsLock == Spec => LockSpec
<1>1. Init => LockInit
  BY DEF Init
<1>2. [Next]_vars => [LockNext]_lockVars
  BY RegistryStep
<1> QED
  BY <1>1, <1>2, PTL DEF Spec, LockSpec

\* The lease lock of an environment has one holder, whatever users, the platform,
\* discovery and any number of supervisors ask for at the same time.
THEOREM LeaseLockExcludes == Spec => []MutualExclusion
BY RegistryFollowsLock, MutualExclusionCorrect, PTL

-----------------------------------------------------------------------------
(* The inductive invariant of the registry's state.  Only the holder of the *)
(* lock works, so every part may speak of one plan at a time: the one that  *)
(* Work describes, step by step.                                            *)

Operations == {"acquire", "retryNow", "register", "remove", "removeRoute", "removeLearned",
               "reorderRoutes", "setEnabled", "setCompatibility", "learnRoutes", "install",
               "removePlatform", "none"}
Requests == [op : Operations, route : AllRoutes \cup LearnedRoutes \cup {NoRoute},
             owner : Ids(AllRoutes) \cup {NoCaller}, reported : SUBSET Addresses,
             flag : BOOLEAN, bearer : Bearers \cup {0}, verdict : Verdicts]
Tasks == [request : Requests, stage : {"idle", "asked", "working", "leaving"},
          plan : Seq(PlanSteps), next : Entries, replaced : BOOLEAN]
SupervisorStates ==
  [status : {"none", "open", "closing"}, wanted : BOOLEAN, phase : Phases,
   routes : SUBSET AllRoutes, owners : SUBSET Ids(AllRoutes),
   via : Ids(AllRoutes) \cup {NoCaller}, bearer : Bearers \cup {0},
   retry : BOOLEAN, reported : BOOLEAN, told : BOOLEAN]
Leases == [entry : Entries, supervisor : Supervisors \cup {NoCaller}]
Records == [routes : SUBSET AllRoutes, learned : SUBSET LearnedRoutes, enabled : BOOLEAN]

Types ==
  /\ entry \in Entries /\ lease \in Leases
  /\ platform \in BOOLEAN /\ persisted \in BOOLEAN
  /\ saved \in Records /\ bearer \in Bearers \cup {0}
  /\ sup \in [Supervisors -> SupervisorStates]
  /\ task \in [Callers -> Tasks]
  /\ unsettled \subseteq {"bearer", "shadow", "learned"}

Working(t) == task[t].stage = "working"
Active(t) == task[t].stage \in {"asked", "working"}

\* Whoever works holds the lock.
HolderTable == DOMAIN holder = Keys /\ \A k \in Keys : DOMAIN holder[k] = Callers
WorkersHold ==
  /\ HolderTable
  /\ \A t \in Callers : Working(t) => HoldsPermit(t)

\* What a supervisor's fibers ask for is about the routes it was made with.
FiberSet == UNION {Fibers(s) : s \in Supervisors}
FibersOK ==
  \A s \in Supervisors :
    /\ Active(Learner(s)) =>
         /\ sup[s].status # "none" /\ Op(Learner(s)) = "learnRoutes"
         /\ Owner(Learner(s)) \in sup[s].owners
    /\ Active(Watcher(s)) =>
         /\ sup[s].status # "none" /\ Op(Watcher(s)) = "setCompatibility"
         /\ task[Watcher(s)].request.verdict = Verdict("socket", Places(sup[s].routes))
    /\ sup[s].phase = "connected" => sup[s].via \in sup[s].owners
OthersOK ==
  \A t \in Callers \ FiberSet : Active(t) =>
    /\ Op(t) # "learnRoutes" /\ task[t].request.verdict.by # "socket"
    /\ Op(t) = "register" => Chosen(t) \in SavableRoutes
    /\ Op(t) = "removePlatform" => t = Platform
    /\ Op(t) = "removePlatform" /\ ~Working(t) => platform

\* An entry with what was learned and judged of it.
Whole(e) ==
  /\ Listed(e) # {}
  /\ e.verdict.by = "socket" => e.verdict.over = Places(e.routes)
EntryOK == entry = NoEntry \/ Whole(entry)

\* The open supervisor is the lease's; one that closes is waited for by the worker.
ClosingPlans == {<<"install">>, <<"drop">>, <<"drop", "dropBearer">>}
LeaseOK ==
  /\ lease # NoLease =>
       /\ lease.supervisor \in Supervisors /\ sup[lease.supervisor].status = "open"
       /\ entry # NoEntry /\ lease.entry = entry
       /\ sup[lease.supervisor].wanted = entry.enabled
       /\ sup[lease.supervisor].routes = entry.routes
  /\ \A s \in Supervisors : sup[s].status = "open" => lease # NoLease /\ lease.supervisor = s
  /\ \A s \in Supervisors : Closing(s) =>
       lease = NoLease /\ \E t \in Callers : Working(t) /\ task[t].plan \in ClosingPlans
  /\ \A r, s \in Supervisors : Closing(r) /\ Closing(s) => r = s

\* What is stored is what the entry e says.
Consistent(e) ==
  \/ "shadow" \in unsettled
  \/ platform /\ saved = Saved(NoEntry) /\ ~persisted
  \/ /\ ~platform
     /\ saved.routes = e.routes /\ saved.enabled = e.enabled
     /\ persisted = (e # NoEntry) /\ persisted = (Listed(saved) # {})
     /\ "learned" \in unsettled \/ saved.learned = e.learned

\* The plans that are left to do, and what is known before each of their steps.
Then(step, plan) == <<step>> \o plan
WithWrite == Then("write", Reinstall)
WithErase == Then("erase", Close \o <<"drop">>)
Rests == {<<>>, Reinstall}
Shadows == {Then("unshadow", q) : q \in Rests}
Bearing == {Then("bearer", q) : q \in IF persisted THEN Shadows ELSE Rests}
ReplaceOps == {"register", "removeRoute", "removeLearned", "reorderRoutes"}
RemoveOps == {"remove", "removeRoute", "removeLearned"}
UpdateOps == {"setEnabled", "setCompatibility", "learnRoutes"}

Replaces(t) ==
  /\ task[t].plan \in {WithWrite, Then("forget", WithWrite)}
  /\ Op(t) \in ReplaceOps /\ ~platform /\ Whole(task[t].next) /\ Consistent(entry)
  /\ IF entry = NoEntry THEN Op(t) = "register" /\ task[t].next.enabled
     ELSE task[t].next.enabled = entry.enabled
Builds(t) ==
  /\ task[t].plan = Reinstall /\ Op(t) \notin UpdateOps
  /\ Whole(task[t].next) /\ Consistent(task[t].next)
Erases(t) ==
  /\ task[t].plan \in {WithErase, Then("forget", WithErase)}
  /\ Op(t) \in RemoveOps /\ ~platform /\ Consistent(entry)
Drops(t) ==
  /\ task[t].plan = Close \o <<"drop">> /\ Op(t) \in RemoveOps
  /\ Consistent(NoEntry)
Intended(t) ==
  CASE Op(t) = "setEnabled" -> task[t].request.flag
    [] Op(t) = "setCompatibility" /\ task[t].request.verdict # NoVerdict -> FALSE
    [] OTHER -> entry.enabled
Updates(t) ==
  /\ Op(t) \in UpdateOps /\ entry # NoEntry /\ Whole(task[t].next)
  /\ task[t].next.routes = entry.routes /\ task[t].next.enabled = Intended(t)
  /\ Op(t) # "learnRoutes" => task[t].next.learned = entry.learned
  /\ Op(t) = "learnRoutes" => ~platform
  /\ \/ task[t].plan = Then("write", <<"update">>) /\ ~platform /\ Consistent(entry)
     \/ task[t].plan = <<"update">> /\ Consistent(task[t].next)
Takes(t) ==
  /\ task[t].plan \in Bearing \cup {Then("forget", q) : q \in Bearing}
  /\ Op(t) = "install" /\ Whole(task[t].next) /\ Consistent(entry) /\ ~task[t].replaced
Unshadows(t) ==
  task[t].plan \in Shadows /\ Op(t) = "install" /\ Whole(task[t].next) /\ platform
Releases(t) ==
  /\ Op(t) = "removePlatform"
  /\ \/ /\ task[t].plan = Then("forget", Close \o <<"drop", "dropBearer">>)
        /\ platform /\ Consistent(entry)
     \/ /\ task[t].plan = Close \o <<"drop", "dropBearer">>
        /\ ~platform /\ Consistent(NoEntry)
     \/ task[t].plan = <<"dropBearer">> /\ lease = NoLease /\ Consistent(entry)
Ends(t) == task[t].plan = <<>> /\ Consistent(entry)

Work(t) ==
  \/ Replaces(t) \/ Builds(t) \/ Erases(t) \/ Drops(t) \/ Updates(t)
  \/ Takes(t) \/ Unshadows(t) \/ Releases(t) \/ Ends(t)
WorkOK == (Unlocked => Consistent(entry)) /\ \A t \in Callers : Working(t) => Work(t)

\* An attempt with a bearer that is not the stored one is retried, or will be when
\* the worker that replaced it finishes.
Renews(t) == Working(t) /\ task[t].replaced /\ Op(t) = "install"
BearersOK ==
  /\ \A s \in Supervisors :
       /\ sup[s].phase \notin {"connecting", "refused"} => sup[s].bearer = 0
       /\ sup[s].phase = "refused" => sup[s].bearer # 0
  /\ \A t \in Callers : ~Working(t) => ~task[t].replaced
  /\ \/ "bearer" \in unsettled
     \/ \A s \in Supervisors :
          sup[s].status = "open" /\ sup[s].bearer \notin {0, bearer} =>
            sup[s].retry \/ \E t \in Callers : Renews(t)

StateOK == FibersOK /\ OthersOK /\ EntryOK /\ LeaseOK /\ WorkOK /\ BearersOK
RegistryInv == LockInv /\ WorkersHold /\ Types /\ StateOK

-----------------------------------------------------------------------------
(* Plans. *)

\* A plan that has x to do and then q.
Leads(p, x, q) == p # <<>> /\ Head(p) = x /\ Tail(p) = q

LEMMA ThenLeads ==
  ASSUME NEW x \in PlanSteps, NEW q \in Seq(PlanSteps)
  PROVE  Then(x, q) \in Seq(PlanSteps) /\ Leads(Then(x, q), x, q)
<1>1. <<x>> \in Seq(PlanSteps) /\ Len(<<x>>) = 1 /\ <<x>>[1] = x
  OBVIOUS
<1>2. /\ <<x>> \o q \in Seq(PlanSteps) /\ Len(<<x>> \o q) = 1 + Len(q)
      /\ \A i \in 1 .. Len(<<x>> \o q) :
           (<<x>> \o q)[i] = IF i <= 1 THEN <<x>>[i] ELSE q[i - 1]
  BY <1>1, ConcatProperties
<1>3. <<x>> \o q # <<>> /\ Head(<<x>> \o q) = x
  BY <1>1, <1>2
<1>4. Tail(<<x>> \o q) \in Seq(PlanSteps) /\ Len(Tail(<<x>> \o q)) = Len(q)
  BY <1>2, <1>3
<1>5. \A i \in 1 .. Len(q) : Tail(<<x>> \o q)[i] = q[i]
  BY <1>2, <1>3, <1>4
<1>6. Tail(<<x>> \o q) = q
  BY <1>4, <1>5, SeqEqual
<1> QED
  BY <1>2, <1>3, <1>6 DEF Then, Leads

LEMMA ShortPlans ==
  /\ \A x \in PlanSteps : <<x>> = Then(x, <<>>)
  /\ \A x, y \in PlanSteps : <<x, y>> = Then(x, <<y>>)
  /\ \A x \in PlanSteps : <<x>> \in Seq(PlanSteps)
  /\ \A x, y \in PlanSteps : <<x, y>> \in Seq(PlanSteps)
  /\ <<>> \in Seq(PlanSteps)
<1>1. <<>> \in Seq(PlanSteps) /\ \A x \in PlanSteps : <<x>> \in Seq(PlanSteps)
  OBVIOUS
<1>2. ASSUME NEW x \in PlanSteps PROVE <<x>> = Then(x, <<>>)
  BY <1>1, ConcatEmptySeq DEF Then
<1>3. ASSUME NEW x \in PlanSteps, NEW y \in PlanSteps
      PROVE  <<x, y>> \in Seq(PlanSteps) /\ <<x, y>> = Then(x, <<y>>)
  <2>1. <<x, y>> \in Seq(PlanSteps) /\ Len(<<x, y>>) = 2 /\ <<x, y>>[1] = x /\ <<x, y>>[2] = y
    OBVIOUS
  <2>2. <<x>> \in Seq(PlanSteps) /\ <<y>> \in Seq(PlanSteps) /\ Len(<<x>>) = 1 /\ Len(<<y>>) = 1
        /\ <<x>>[1] = x /\ <<y>>[1] = y
    OBVIOUS
  <2>3. /\ <<x>> \o <<y>> \in Seq(PlanSteps) /\ Len(<<x>> \o <<y>>) = 2
        /\ \A i \in 1 .. 2 : (<<x>> \o <<y>>)[i] = IF i <= 1 THEN <<x>>[i] ELSE <<y>>[i - 1]
    BY <2>2, ConcatProperties
  <2>4. \A i \in 1 .. 2 : (<<x>> \o <<y>>)[i] = <<x, y>>[i]
    BY <2>1, <2>2, <2>3
  <2>5. <<x>> \o <<y>> = <<x, y>>
    BY <2>1, <2>3, <2>4, SeqEqual
  <2> QED
    BY <2>1, <2>5 DEF Then
<1> QED
  BY <1>1, <1>2, <1>3

LEMMA PlansInSeq ==
  /\ Close \in Seq(PlanSteps) /\ Reinstall \in Seq(PlanSteps)
  /\ \A q \in Seq(PlanSteps) :
       /\ Close \o q \in Seq(PlanSteps)
       /\ Close \o q = IF lease = NoLease THEN q ELSE Then("close", q)
  /\ Reinstall = IF lease = NoLease THEN <<"install">> ELSE Then("close", <<"install">>)
<1>1. "close" \in PlanSteps /\ "install" \in PlanSteps
  BY DEF PlanSteps
<1>2. Close = (IF lease = NoLease THEN <<>> ELSE <<"close">>) /\ Close \in Seq(PlanSteps)
  BY <1>1 DEF Close, Steps
<1>3. \A q \in Seq(PlanSteps) : <<>> \o q = q
  BY ConcatEmptySeq
<1>4. ASSUME NEW q \in Seq(PlanSteps)
      PROVE  /\ Close \o q \in Seq(PlanSteps)
             /\ Close \o q = IF lease = NoLease THEN q ELSE Then("close", q)
  BY <1>2, <1>3, <1>4, ConcatProperties DEF Then
<1>5. Reinstall = Close \o <<"install">> /\ <<"install">> \in Seq(PlanSteps)
  BY <1>1 DEF Reinstall
<1> HIDE DEF Then
<1> QED
  BY <1>2, <1>4, <1>5

\* What the plans of the invariant begin with.
LEMMA FixedPlans ==
  /\ Leads(<<"install">>, "install", <<>>) /\ Leads(<<"update">>, "update", <<>>)
  /\ Leads(<<"drop">>, "drop", <<>>) /\ Leads(<<"dropBearer">>, "dropBearer", <<>>)
  /\ Leads(<<"drop", "dropBearer">>, "drop", <<"dropBearer">>)
  /\ Leads(Then("write", <<"update">>), "write", <<"update">>)
<1>1. {"install", "update", "drop", "dropBearer", "write"} \subseteq PlanSteps
  BY DEF PlanSteps
<1>2. ASSUME NEW x \in PlanSteps, NEW y \in PlanSteps
      PROVE  /\ Leads(<<x>>, x, <<>>) /\ Leads(<<x, y>>, x, <<y>>)
             /\ Leads(Then(x, <<y>>), x, <<y>>)
  <2>1. <<x>> = Then(x, <<>>) /\ <<x, y>> = Then(x, <<y>>)
        /\ <<y>> \in Seq(PlanSteps) /\ <<>> \in Seq(PlanSteps)
    BY ShortPlans
  <2> QED
    BY <2>1, ThenLeads
<1> QED
  BY <1>1, <1>2

LEMMA ClosePlans ==
  /\ lease # NoLease =>
       /\ Leads(Reinstall, "close", <<"install">>)
       /\ Leads(Close \o <<"drop">>, "close", <<"drop">>)
       /\ Leads(Close \o <<"drop", "dropBearer">>, "close", <<"drop", "dropBearer">>)
  /\ lease = NoLease =>
       /\ Reinstall = <<"install">> /\ Close \o <<"drop">> = <<"drop">>
       /\ Close \o <<"drop", "dropBearer">> = <<"drop", "dropBearer">>
  /\ Close \o <<"drop">> \in Seq(PlanSteps) /\ Close \o <<"drop", "dropBearer">> \in Seq(PlanSteps)
  /\ Reinstall \in Seq(PlanSteps)
<1>1. {"install", "drop", "dropBearer", "close"} \subseteq PlanSteps
  BY DEF PlanSteps
<1>2. <<"install">> \in Seq(PlanSteps) /\ <<"drop">> \in Seq(PlanSteps)
      /\ <<"drop", "dropBearer">> \in Seq(PlanSteps)
  BY <1>1, ShortPlans
<1>3. \A q \in Seq(PlanSteps) : Leads(Then("close", q), "close", q)
  BY <1>1, ThenLeads
<1> QED
  BY <1>2, <1>3, PlansInSeq

LEMMA WritePlans ==
  /\ WithWrite \in Seq(PlanSteps) /\ Leads(WithWrite, "write", Reinstall)
  /\ Then("forget", WithWrite) \in Seq(PlanSteps)
  /\ Leads(Then("forget", WithWrite), "forget", WithWrite)
  /\ WithErase \in Seq(PlanSteps) /\ Leads(WithErase, "erase", Close \o <<"drop">>)
  /\ Then("forget", WithErase) \in Seq(PlanSteps)
  /\ Leads(Then("forget", WithErase), "forget", WithErase)
  /\ Then("forget", Close \o <<"drop", "dropBearer">>) \in Seq(PlanSteps)
  /\ Leads(Then("forget", Close \o <<"drop", "dropBearer">>), "forget",
           Close \o <<"drop", "dropBearer">>)
<1>1. "write" \in PlanSteps /\ "erase" \in PlanSteps /\ "forget" \in PlanSteps
  BY DEF PlanSteps
<1>2. WithWrite \in Seq(PlanSteps) /\ Leads(WithWrite, "write", Reinstall)
  BY <1>1, ThenLeads, ClosePlans DEF WithWrite
<1>3. WithErase \in Seq(PlanSteps) /\ Leads(WithErase, "erase", Close \o <<"drop">>)
  BY <1>1, ThenLeads, ClosePlans DEF WithErase
<1> QED
  BY <1>1, <1>2, <1>3, ThenLeads, ClosePlans

LEMMA InstallPlans ==
  /\ \A q \in Rests : q \in Seq(PlanSteps) /\ (q = <<>> \/ q = Reinstall)
  /\ \A p \in Shadows : p \in Seq(PlanSteps) /\ \E q \in Rests : Leads(p, "unshadow", q)
  /\ \A p \in Bearing : p \in Seq(PlanSteps)
       /\ \E q \in IF persisted THEN Shadows ELSE Rests : Leads(p, "bearer", q)
  /\ \A p \in Bearing : Then("forget", p) \in Seq(PlanSteps) /\ Leads(Then("forget", p), "forget", p)
<1>1. "unshadow" \in PlanSteps /\ "bearer" \in PlanSteps /\ "forget" \in PlanSteps
  BY DEF PlanSteps
<1>2. \A q \in Rests : q \in Seq(PlanSteps) /\ (q = <<>> \/ q = Reinstall)
  BY ShortPlans, ClosePlans DEF Rests
<1>3. \A p \in Shadows : p \in Seq(PlanSteps) /\ \E q \in Rests : Leads(p, "unshadow", q)
  BY <1>1, <1>2, ThenLeads DEF Shadows
<1>4. \A p \in Bearing : p \in Seq(PlanSteps)
       /\ \E q \in IF persisted THEN Shadows ELSE Rests : Leads(p, "bearer", q)
  BY <1>1, <1>2, <1>3, ThenLeads DEF Bearing
<1> QED
  BY <1>1, <1>2, <1>3, <1>4, ThenLeads

\* What is left of a worker's plan says where it is.
Leading(t) ==
  LET p == task[t].plan IN
  \/ Replaces(t) /\ (Leads(p, "forget", WithWrite) \/ Leads(p, "write", Reinstall))
  \/ Builds(t) /\ (\/ lease # NoLease /\ Leads(p, "close", <<"install">>)
                   \/ lease = NoLease /\ Leads(p, "install", <<>>))
  \/ Erases(t) /\ (Leads(p, "forget", WithErase) \/ Leads(p, "erase", Close \o <<"drop">>))
  \/ Drops(t) /\ (\/ lease # NoLease /\ Leads(p, "close", <<"drop">>)
                  \/ lease = NoLease /\ Leads(p, "drop", <<>>))
  \/ Updates(t) /\ (\/ Leads(p, "write", <<"update">>) /\ ~platform /\ Consistent(entry)
                    \/ Leads(p, "update", <<>>) /\ Consistent(task[t].next))
  \/ Takes(t) /\ (\/ \E q \in Bearing : Leads(p, "forget", q)
                  \/ \E q \in IF persisted THEN Shadows ELSE Rests : Leads(p, "bearer", q))
  \/ Unshadows(t) /\ \E q \in Rests : Leads(p, "unshadow", q)
  \/ Releases(t) /\
       \/ /\ Leads(p, "forget", Close \o <<"drop", "dropBearer">>)
          /\ platform /\ Consistent(entry)
       \/ /\ lease # NoLease /\ Leads(p, "close", <<"drop", "dropBearer">>)
          /\ ~platform /\ Consistent(NoEntry)
       \/ /\ lease = NoLease /\ Leads(p, "drop", <<"dropBearer">>)
          /\ ~platform /\ Consistent(NoEntry)
       \/ lease = NoLease /\ Leads(p, "dropBearer", <<>>) /\ Consistent(entry)
  \/ Ends(t) /\ p = <<>>

LEMMA WorkLeads == ASSUME NEW t, Work(t) PROVE Leading(t)
<1>1. CASE Replaces(t)
  BY <1>1, WritePlans DEF Replaces, Leading
<1>2. CASE Builds(t)
  BY <1>2, ClosePlans, FixedPlans DEF Builds, Leading
<1>3. CASE Erases(t)
  BY <1>3, WritePlans DEF Erases, Leading
<1>4. CASE Drops(t)
  BY <1>4, ClosePlans, FixedPlans DEF Drops, Leading
<1>5. CASE Updates(t)
  BY <1>5, FixedPlans DEF Updates, Leading
<1>6. CASE Takes(t)
  BY <1>6, InstallPlans DEF Takes, Leading
<1>7. CASE Unshadows(t)
  BY <1>7, InstallPlans DEF Unshadows, Leading
<1>8. CASE Releases(t)
  BY <1>8, WritePlans, ClosePlans, FixedPlans DEF Releases, Leading
<1>9. CASE Ends(t)
  BY <1>9 DEF Ends, Leading
<1> QED
  BY <1>1, <1>2, <1>3, <1>4, <1>5, <1>6, <1>7, <1>8, <1>9 DEF Work

-----------------------------------------------------------------------------
(* Who works. *)

LEMMA HolderAlone ==
  ASSUME LockInv, WorkersHold, NEW t \in Callers, NEW u \in Callers, HoldsPermit(t), Working(u)
  PROVE  t = u
<1>1. HoldsPermit(u)
  BY DEF WorkersHold
<1>2. uses[t].key = Environment /\ uses[u].key = Environment
  BY <1>1, RegistryAssumption DEF HoldsPermit, LockInv, LockTypeOK
<1> QED
  BY <1>1, <1>2, LockInvExcludes DEF MutualExclusion

LEMMA OneWorks ==
  ASSUME LockInv, WorkersHold, NEW t \in Callers, NEW u \in Callers, Working(t), Working(u)
  PROVE  t = u
BY HolderAlone DEF WorkersHold

\* The permit leaves its holder only with the holder's own exit.
LEMMA ExitKeepsOthers ==
  ASSUME LockInv, HolderTable, NEW p \in Callers, ExitLock(p)
  PROVE  /\ HolderTable'
         /\ \A t \in Callers : t # p /\ HoldsPermit(t) => HoldsPermit(t)'
<1>1. uses[p].key \in Keys /\ uses[p].semaphore \in Callers
  BY DEF ExitLock, HoldsPermit, LockInv, LockTypeOK
<1>2. /\ holder' = [holder EXCEPT ![uses[p].key][uses[p].semaphore] = NoCaller]
      /\ uses' = uses /\ holder[uses[p].key][uses[p].semaphore] = p
  BY DEF ExitLock, HoldsPermit
<1>3. HolderTable'
  BY <1>1, <1>2 DEF HolderTable
<1>4. ASSUME NEW t \in Callers, t # p, HoldsPermit(t) PROVE HoldsPermit(t)'
  <2>1. uses[t].key \in Keys /\ uses[t].semaphore \in Callers
        /\ holder[uses[t].key][uses[t].semaphore] = t /\ uses[t] # NoUse
    BY <1>4 DEF HoldsPermit, LockInv, LockTypeOK
  <2>2. holder'[uses[t].key][uses[t].semaphore] = t
    BY <1>1, <1>2, <1>4, <2>1 DEF HolderTable
  <2> QED
    BY <1>2, <2>1, <2>2 DEF HoldsPermit
<1> QED
  BY <1>3, <1>4

LEMMA OthersKeepPermit ==
  ASSUME LockInv, HolderTable, NEW p \in Callers, NEW k \in Keys,
         AskLock(p, k) \/ GiveUpLock(p) \/ LeaveLock(p) \/ WakeWaiter(k, p)
  PROVE  /\ HolderTable'
         /\ \A t \in Callers : HoldsPermit(t) => HoldsPermit(t)'
<1>1. ASSUME NEW t \in Callers, HoldsPermit(t)
      PROVE  /\ uses[t].key \in Keys /\ uses[t].semaphore \in Callers /\ uses[t] # NoUse
             /\ holder[uses[t].key][uses[t].semaphore] = t /\ t # NoCaller
  BY <1>1, KeyedLockAssumption DEF HoldsPermit, LockInv, LockTypeOK
<1>2. CASE AskLock(p, k)
  <2>1. PICK s : /\ uses' = [uses EXCEPT ![p] = [key |-> k, semaphore |-> s]]
                 /\ \/ holder[k][s] = NoCaller /\ holder' = [holder EXCEPT ![k][s] = p]
                    \/ holder' = holder
    BY <1>2 DEF AskLock
  <2>2. HolderTable'
    BY <2>1 DEF HolderTable
  <2>3. ASSUME NEW t \in Callers, HoldsPermit(t) PROVE HoldsPermit(t)'
    <3>1. t # p
      BY <1>2, <2>3 DEF AskLock, HoldsPermit
    <3>2. uses'[t] = uses[t]
      BY <2>1, <3>1 DEF LockInv, LockTypeOK
    <3>3. holder'[uses[t].key][uses[t].semaphore] = t
      BY <1>1, <2>1, <2>3 DEF HolderTable
    <3> QED
      BY <1>1, <2>3, <3>2, <3>3 DEF HoldsPermit
  <2> QED
    BY <2>2, <2>3
<1>3. CASE GiveUpLock(p)
  BY <1>3 DEF GiveUpLock, HoldsPermit, HolderTable
<1>4. CASE LeaveLock(p)
  <2>1. ASSUME NEW t \in Callers, HoldsPermit(t) PROVE HoldsPermit(t)'
    <3>1. t # p /\ uses' = [uses EXCEPT ![p] = NoUse] /\ holder' = holder
      BY <1>4, <2>1 DEF LeaveLock
    <3>2. uses'[t] = uses[t]
      BY <3>1 DEF LockInv, LockTypeOK
    <3> QED
      BY <2>1, <3>1, <3>2 DEF HoldsPermit
  <2> QED
    BY <1>4, <2>1 DEF LeaveLock, HolderTable
<1>5. CASE WakeWaiter(k, p)
  <2>1. PICK q : holder' = [holder EXCEPT ![k][p] = q] /\ holder[k][p] = NoCaller /\ uses' = uses
    BY <1>5 DEF WakeWaiter
  <2>2. HolderTable'
    BY <2>1 DEF HolderTable
  <2>3. ASSUME NEW t \in Callers, HoldsPermit(t) PROVE HoldsPermit(t)'
    <3>1. holder'[uses[t].key][uses[t].semaphore] = t
      BY <1>1, <2>1, <2>3 DEF HolderTable
    <3> QED
      BY <1>1, <2>1, <2>3, <3>1 DEF HoldsPermit
  <2> QED
    BY <2>2, <2>3
<1> QED
  BY <1>2, <1>3, <1>4, <1>5

-----------------------------------------------------------------------------
(* What each kind of step does to the tasks. *)

OthersStay(t) == \A u \in Callers \ {t} : task'[u] = task[u]

LEMMA AsksTask ==
  ASSUME Types, NEW t \in Callers, NEW request, Asks(t, request)
  PROVE  /\ OthersStay(t) /\ ~Active(t)
         /\ task'[t].request = request /\ task'[t].stage = "asked"
         /\ task'[t].plan = task[t].plan /\ task'[t].next = task[t].next
         /\ task'[t].replaced = task[t].replaced
BY DEF Asks, Types, OthersStay, Active, Tasks

LEMMA FiberAsksTask ==
  ASSUME Types, NEW s, NEW f \in Callers, NEW request, NEW flags, FiberAsks(s, f, request, flags)
  PROVE  /\ OthersStay(f) /\ ~Active(f)
         /\ task'[f].request = request /\ task'[f].stage = "asked"
         /\ task'[f].plan = task[f].plan /\ task'[f].next = task[f].next
         /\ task'[f].replaced = task[f].replaced
BY DEF FiberAsks, Types, OthersStay, Active, Tasks

LEMMA BeginsTask ==
  ASSUME Types, NEW t \in Callers, NEW plan, NEW next, Begins(t, plan, next)
  PROVE  /\ OthersStay(t) /\ task[t].stage = "asked" /\ HoldsPermit(t) /\ Working(t)'
         /\ task'[t].request = task[t].request /\ task'[t].replaced = task[t].replaced
         /\ task'[t].plan = plan /\ task'[t].next = next
         /\ UNCHANGED <<lockVars, catalogVars, storeVars, sup, unsettled>>
BY DEF Begins, Types, OthersStay, Working, Tasks

LEMMA DoneTask ==
  ASSUME Types, NEW t \in Callers, Done(t)
  PROVE  /\ OthersStay(t)
         /\ task'[t].plan = Tail(task[t].plan) /\ task'[t].stage = task[t].stage
         /\ task'[t].request = task[t].request /\ task'[t].next = task[t].next
         /\ task'[t].replaced = task[t].replaced
BY DEF Done, Types, OthersStay, Tasks

LEMMA FailsTask ==
  ASSUME Types, NEW t \in Callers, Fails(t)
  PROVE  /\ OthersStay(t)
         /\ task'[t].plan = <<>> /\ task'[t].stage = task[t].stage
         /\ task'[t].request = task[t].request /\ task'[t].next = task[t].next
         /\ task'[t].replaced = task[t].replaced
BY DEF Fails, Types, OthersStay, Tasks

LEMMA BearerTask ==
  ASSUME Types, NEW t \in Callers, StoreBearer(t)
  PROVE  /\ OthersStay(t)
         /\ task'[t].plan = Tail(task[t].plan) /\ task'[t].stage = task[t].stage
         /\ task'[t].request = task[t].request /\ task'[t].next = task[t].next
<1>1. PICK r \in BOOLEAN :
        task' = [task EXCEPT ![t].plan = Tail(task[t].plan), ![t].replaced = r]
  BY DEF StoreBearer
<1> QED
  BY <1>1 DEF Types, OthersStay, Tasks

\* A step of a plan stays with its worker.
LEMMA StepTask ==
  ASSUME Types, NEW t \in Callers, Step(t)
  PROVE  /\ OthersStay(t) /\ Working(t) /\ task'[t].stage = task[t].stage
         /\ task'[t].request = task[t].request /\ task'[t].next = task[t].next
         /\ UNCHANGED lockVars
<1>1. UNCHANGED lockVars
  BY DEF Step
<1>2. CASE Forget(t) \/ Write(t) \/ Erase(t)
  BY <1>1, <1>2, DoneTask, FailsTask DEF Forget, Write, Erase, Due, Working
<1>3. CASE StoreBearer(t)
  BY <1>1, <1>3, BearerTask DEF StoreBearer, Due, Working
<1>4. CASE DropBearer(t) \/ Unshadow(t) \/ StartClosing(t) \/ Install(t) \/ Drop(t) \/ Update(t)
  BY <1>1, <1>4, DoneTask
     DEF DropBearer, Unshadow, StartClosing, Install, Drop, Update, Due, Working
<1> QED
  BY <1>2, <1>3, <1>4 DEF Step

LEMMA LeavesTask ==
  ASSUME Types, NEW t \in Callers, NEW new, task' = [task EXCEPT ![t] = new]
  PROVE  OthersStay(t) /\ task'[t] = new
BY DEF Types, OthersStay

\* The kinds of step that begin an operation.
LEMMA BeginsSome ==
  ASSUME NEW t \in Callers, Begin(t)
  PROVE  \E plan, next : Begins(t, plan, next)
<1>1. Refuses(t) => \E plan, next : Begins(t, plan, next)
  BY DEF Refuses
<1>2. BeginAcquire(t) \/ BeginRegister(t) \/ BeginRemove(t)
        => \E plan, next : Begins(t, plan, next)
  BY <1>1 DEF BeginAcquire, BeginRegister, BeginRemove
<1>3. BeginRemoveRoute(t) \/ BeginRemoveLearned(t) \/ BeginReorder(t)
        => \E plan, next : Begins(t, plan, next)
  BY <1>1 DEF BeginRemoveRoute, BeginRemoveLearned, BeginReorder, Leaves
<1>4. BeginSetEnabled(t) \/ BeginSetCompatibility(t) \/ BeginLearnRoutes(t)
        => \E plan, next : Begins(t, plan, next)
  BY <1>1 DEF BeginSetEnabled, BeginSetCompatibility, BeginLearnRoutes
<1>5. BeginInstall(t) \/ BeginRemovePlatform(t) => \E plan, next : Begins(t, plan, next)
  BY DEF BeginInstall, BeginRemovePlatform
<1> QED
  BY <1>1, <1>2, <1>3, <1>4, <1>5 DEF Begin

\* A fiber that is stopped no longer works: it lets go of the lock, or never had it.
LEMMA StopsTask ==
  ASSUME Types, NEW f \in Callers, Stops(f)
  PROVE  /\ OthersStay(f) /\ task'[f] = Leaving
         /\ ExitLock(f) \/ (GiveUpLock(f) /\ ~Working(f))
BY LeavesTask DEF Stops, StopsWaiting, Working

-----------------------------------------------------------------------------
\* withLeaseLock: what an operation does it does with the permit in hand.
LEMMA HoldStays ==
  ASSUME Types, WorkersHold, NEW t \in Callers, OthersStay(t), HolderTable',
         \A u \in Callers : u # t /\ HoldsPermit(u) => HoldsPermit(u)',
         Working(t)' => HoldsPermit(t)'
  PROVE  WorkersHold'
BY DEF WorkersHold, OthersStay, Working

LEMMA StopsHold ==
  ASSUME LockInv, Types, WorkersHold, NEW f \in Callers, Stops(f)
  PROVE  WorkersHold'
<1>1. OthersStay(f) /\ task'[f] = Leaving /\ (ExitLock(f) \/ GiveUpLock(f))
  BY StopsTask
<1>2. ~Working(f)'
  BY <1>1 DEF Working, Leaving, NoTask
<1>3. HolderTable' /\ \A u \in Callers : u # f /\ HoldsPermit(u) => HoldsPermit(u)'
  BY <1>1, ExitKeepsOthers, OthersKeepPermit, RegistryAssumption DEF WorkersHold
<1> QED
  BY <1>1, <1>2, <1>3, HoldStays

LEMMA SameLockHolds ==
  ASSUME UNCHANGED lockVars
  PROVE  (HolderTable => HolderTable') /\ \A t : HoldsPermit(t)' <=> HoldsPermit(t)
BY DEF lockVars, HolderTable, HoldsPermit

LEMMA AskHolds ==
  ASSUME LockInv, Types, WorkersHold, NEW t \in Callers, AskLock(t, Environment),
         OthersStay(t), task'[t].stage = "asked"
  PROVE  WorkersHold'
<1>1. HolderTable' /\ \A u \in Callers : HoldsPermit(u) => HoldsPermit(u)'
  BY OthersKeepPermit, RegistryAssumption DEF WorkersHold
<1>2. ~Working(t)'
  BY DEF Working
<1> QED
  BY <1>1, <1>2, HoldStays

LEMMA AsksHold ==
  ASSUME LockInv, Types, WorkersHold, NEW t \in Callers, NEW request, Asks(t, request)
  PROVE  WorkersHold'
<1>1. OthersStay(t) /\ task'[t].stage = "asked"
  BY AsksTask
<1> QED
  BY <1>1, AskHolds DEF Asks

LEMMA FiberAsksHold ==
  ASSUME LockInv, Types, WorkersHold, NEW s, NEW f \in Callers, NEW request, NEW flags,
         FiberAsks(s, f, request, flags)
  PROVE  WorkersHold'
<1>1. OthersStay(f) /\ task'[f].stage = "asked"
  BY FiberAsksTask, Zenon
<1> QED
  BY <1>1, AskHolds DEF FiberAsks

LEMMA FibersAreCallers ==
  ASSUME NEW s \in Supervisors
  PROVE  Learner(s) \in Callers /\ Watcher(s) \in Callers /\ Fibers(s) \subseteq Callers
BY RegistryAssumption DEF Fibers

LEMMA HoldStep ==
  ASSUME LockInv, Types, WorkersHold, [Next]_vars
  PROVE  WorkersHold'
<1>1. CASE UNCHANGED vars
  BY <1>1, SameLockHolds DEF vars, WorkersHold, Working
<1>2. ASSUME NEW u \in Users, Call(u) PROVE WorkersHold'
  BY <1>2, AsksHold, RegistryAssumption DEF Call
<1>3. CASE Reconcile \/ Discover
  BY <1>3, AsksHold, RegistryAssumption DEF Reconcile, Discover
<1>4. ASSUME NEW t \in Callers, Begin(t) PROVE WorkersHold'
  <2>1. PICK plan, next : Begins(t, plan, next)
    BY <1>4, BeginsSome
  <2>2. OthersStay(t) /\ HoldsPermit(t) /\ UNCHANGED lockVars
    BY <2>1, BeginsTask
  <2> QED
    BY <2>2, SameLockHolds, HoldStays DEF WorkersHold
<1>5. ASSUME NEW t \in Callers, Step(t) PROVE WorkersHold'
  <2>1. OthersStay(t) /\ Working(t) /\ UNCHANGED lockVars
    BY <1>5, StepTask
  <2> QED
    BY <2>1, SameLockHolds, HoldStays DEF WorkersHold
<1>6. ASSUME NEW t \in Callers, Finish(t) PROVE WorkersHold'
  <2>1. OthersStay(t) /\ task'[t] = Leaving /\ ExitLock(t)
    BY <1>6, LeavesTask DEF Finish
  <2>2. ~Working(t)'
    BY <2>1 DEF Working, Leaving, NoTask
  <2> QED
    BY <2>1, <2>2, ExitKeepsOthers, HoldStays DEF WorkersHold
<1>7. ASSUME NEW t \in Callers, Leave(t) PROVE WorkersHold'
  <2>1. OthersStay(t) /\ task'[t] = NoTask /\ LeaveLock(t)
    BY <1>7, LeavesTask DEF Leave
  <2>2. ~Working(t)'
    BY <2>1 DEF Working, NoTask
  <2> QED
    BY <2>1, <2>2, OthersKeepPermit, HoldStays, RegistryAssumption DEF WorkersHold
<1>8. CASE GetLock
  <2>1. PICK p \in Callers : WakeWaiter(Environment, p) /\ task' = task
    BY <1>8 DEF GetLock
  <2> QED
    BY <2>1, OthersKeepPermit, RegistryAssumption DEF WorkersHold, Working
<1>9. ASSUME NEW s \in Supervisors, Supervise(s) PROVE WorkersHold'
  <2>1. PICK state : Becomes(s, state)
    BY <1>9 DEF Supervise, Attempt, ReadBearer, AttemptEnds, Resumes
  <2>2. CASE Stops(Learner(s))
    BY <2>2, StopsHold, FibersAreCallers
  <2>3. CASE UNCHANGED lockVars /\ task' = task
    BY <2>3, SameLockHolds DEF WorkersHold, Working
  <2> QED
    BY <2>1, <2>2, <2>3 DEF Becomes
<1>10. ASSUME NEW s \in Supervisors, Fiber(s) PROVE WorkersHold'
  <2>1. CASE FiberStops(s)
    <3>1. PICK f \in Fibers(s) : Stops(f)
      BY <2>1 DEF FiberStops
    <3> QED
      BY <3>1, StopsHold, FibersAreCallers
  <2>2. CASE LearnRoutes(s)
    BY <2>2, FiberAsksHold, FibersAreCallers DEF LearnRoutes
  <2>3. CASE Watch(s)
    BY <2>3, FiberAsksHold, FibersAreCallers DEF Watch
  <2> QED
    BY <1>10, <2>1, <2>2, <2>3 DEF Fiber
<1> QED
  BY <1>1, <1>2, <1>3, <1>4, <1>5, <1>6, <1>7, <1>8, <1>9, <1>10 DEF Next

-----------------------------------------------------------------------------
(* Types. *)

LEMMA Constants ==
  /\ NoVerdict \in Verdicts /\ NoEntry \in Entries /\ NoLease \in Leases
  /\ NoSupervisor \in SupervisorStates /\ Plain("none") \in Requests
  /\ NoTask \in Tasks /\ Leaving \in Tasks /\ Saved(NoEntry) \in Records
  /\ NoTask.stage = "idle" /\ Leaving.stage = "leaving" /\ NoTask.plan = <<>> /\ Leaving.plan = <<>>
  /\ NoTask.replaced = FALSE /\ Leaving.replaced = FALSE
<1>1. NoVerdict \in Verdicts
  BY DEF NoVerdict, Verdicts
<1>2. NoEntry \in Entries
  BY <1>1 DEF NoEntry, Entry, Entries
<1>3. NoLease \in Leases
  BY <1>2 DEF NoLease, Leases
<1>4. NoSupervisor \in SupervisorStates
  BY DEF NoSupervisor, SupervisorStates, Phases
<1>5. Plain("none") \in Requests
  BY <1>1 DEF Plain, Requests, Operations
<1>6. NoTask \in Tasks
  <2>1. NoTask = [request |-> Plain("none"), stage |-> "idle", plan |-> <<>>,
                  next |-> NoEntry, replaced |-> FALSE]
    BY DEF NoTask, Plain
  <2>2. <<>> \in Seq(PlanSteps)
    OBVIOUS
  <2> QED
    BY <1>2, <1>5, <2>1, <2>2 DEF Tasks
<1>7. Leaving \in Tasks
  BY <1>6 DEF Leaving, Tasks
<1>8. Saved(NoEntry) \in Records
  BY DEF Saved, NoEntry, Entry, Records
<1>9. NoTask.stage = "idle" /\ NoTask.plan = <<>> /\ NoTask.replaced = FALSE
  BY DEF NoTask
<1>10. Leaving.stage = "leaving" /\ Leaving.plan = <<>> /\ Leaving.replaced = FALSE
  BY DEF Leaving, NoTask
<1> QED
  BY <1>1, <1>2, <1>3, <1>4, <1>5, <1>6, <1>7, <1>8, <1>9, <1>10

LEMMA RoutesTyped ==
  /\ RelayRoute \in AllRoutes /\ LoopbackRoute \in AllRoutes /\ SavableRoutes \subseteq AllRoutes
  /\ Relay \in Places(AllRoutes)
  /\ \A routes \in SUBSET AllRoutes : Places(routes) \in SUBSET Places(AllRoutes)
  /\ \A routes \in SUBSET AllRoutes, learned \in SUBSET LearnedRoutes :
       Ids(routes \cup learned) \in SUBSET Ids(AllRoutes)
<1>1. RelayRoute \in AllRoutes /\ LoopbackRoute \in AllRoutes /\ SavableRoutes \subseteq AllRoutes
  BY DEF AllRoutes, SavableRoutes
<1>2. RelayRoute.at = Relay
  BY DEF RelayRoute, Route
<1>3. Relay \in Places(AllRoutes)
  BY <1>1, <1>2 DEF Places
<1>4. ASSUME NEW routes \in SUBSET AllRoutes
      PROVE  Places(routes) \in SUBSET Places(AllRoutes)
  BY DEF Places
<1>5. ASSUME NEW routes \in SUBSET AllRoutes, NEW learned \in SUBSET LearnedRoutes
      PROVE  Ids(routes \cup learned) \in SUBSET Ids(AllRoutes)
  <2> SUFFICES ASSUME NEW r \in routes \cup learned PROVE r.id \in Ids(AllRoutes)
    BY DEF Ids
  <2>1. CASE r \in routes
    BY <2>1 DEF Ids
  <2>2. CASE r \in learned
    BY <2>2 DEF LearnedRoutes
  <2> QED
    BY <2>1, <2>2
<1> QED
  BY <1>1, <1>3, <1>4, <1>5

LEMMA RequestsTyped ==
  ASSUME Types
  PROVE  /\ UserRequests \subseteq Requests
         /\ \A b \in Bearers : Reported(b) \in Requests
         /\ Plain("removePlatform") \in Requests
         /\ \A v \in Verdicts : SetCompatibility(v) \in Requests
         /\ \A owner \in Ids(AllRoutes) \cup {NoCaller}, reported \in SUBSET Addresses :
              Learned(owner, reported) \in Requests
<1>1. NoVerdict \in Verdicts
  BY Constants
<1>2. \A op \in Operations : Plain(op) \in Requests
  BY <1>1 DEF Plain, Requests
<1>3. \A op \in Operations, r \in AllRoutes \cup LearnedRoutes : ForRoute(op, r) \in Requests
  BY <1>2 DEF ForRoute, Requests
<1>4. \A f \in BOOLEAN : SetEnabled(f) \in Requests
  BY <1>1 DEF SetEnabled, Plain, Requests, Operations
<1>5. \A v \in Verdicts : SetCompatibility(v) \in Requests
  BY <1>1 DEF SetCompatibility, Plain, Requests, Operations
<1>6. {"acquire", "retryNow", "remove", "reorderRoutes", "register", "removeRoute",
       "removeLearned", "removePlatform", "install", "learnRoutes"} \subseteq Operations
  BY DEF Operations
<1>7. UserRequests \subseteq Requests
  <2>1. entry.routes \subseteq AllRoutes /\ entry.learned \subseteq LearnedRoutes
    BY DEF Types, Entries
  <2>2. {ForRoute("register", r) : r \in SavableRoutes} \subseteq Requests
    BY <1>3, <1>6, RoutesTyped
  <2>3. {ForRoute("removeRoute", r) : r \in entry.routes} \subseteq Requests
    BY <1>3, <1>6, <2>1
  <2>4. {ForRoute("removeLearned", r) : r \in entry.learned} \subseteq Requests
    BY <1>3, <1>6, <2>1
  <2>5. {Plain("acquire"), Plain("retryNow"), Plain("remove"), Plain("reorderRoutes"),
         SetEnabled(TRUE), SetEnabled(FALSE), SetCompatibility(NoVerdict)} \subseteq Requests
    BY <1>1, <1>2, <1>4, <1>5, <1>6
  <2> QED
    BY <2>2, <2>3, <2>4, <2>5 DEF UserRequests
<1>8. \A b \in Bearers : Reported(b) \in Requests
  BY <1>3, <1>6, RoutesTyped DEF Reported, Requests
<1>9. \A owner \in Ids(AllRoutes) \cup {NoCaller}, reported \in SUBSET Addresses :
        Learned(owner, reported) \in Requests
  BY <1>2, <1>6 DEF Learned, Requests
<1> QED
  BY <1>2, <1>5, <1>6, <1>7, <1>8, <1>9

LEMMA VerdictsTyped ==
  /\ \A r \in SUBSET AllRoutes : Verdict("socket", Places(r)) \in Verdicts
  /\ Verdict("discovery", {Relay}) \in Verdicts
BY RoutesTyped DEF Verdict, Verdicts

LEMMA AsksTyped ==
  ASSUME Types, NEW t \in Callers, NEW request \in Requests, Asks(t, request)
  PROVE  Types'
<1>1. task' = [task EXCEPT ![t].request = request, ![t].stage = "asked"]
      /\ UNCHANGED <<catalogVars, storeVars, sup, unsettled>>
  BY DEF Asks
<1> DEFINE w == [task[t] EXCEPT !.request = request, !.stage = "asked"]
<1>2. w \in Tasks
  <2>1. task[t] \in Tasks
    BY DEF Types
  <2> QED
    BY <2>1 DEF Tasks
<1>3. task' = [task EXCEPT ![t] = w] /\ task \in [Callers -> Tasks]
  BY <1>1 DEF Types
<1> HIDE DEF w
<1>4. task' \in [Callers -> Tasks]
  BY <1>2, <1>3
<1> QED
  BY <1>1, <1>4 DEF Types, catalogVars, storeVars

LEMMA FiberAsksTyped ==
  ASSUME Types, NEW s \in Supervisors, NEW f \in Callers, NEW request \in Requests,
         NEW flags \in SupervisorStates, FiberAsks(s, f, request, flags)
  PROVE  Types'
<1>1. task' = [task EXCEPT ![f].request = request, ![f].stage = "asked"]
      /\ sup' = [sup EXCEPT ![s] = flags]
      /\ UNCHANGED <<catalogVars, storeVars, unsettled>>
  BY DEF FiberAsks
<1> DEFINE w == [task[f] EXCEPT !.request = request, !.stage = "asked"]
<1>2. w \in Tasks
  <2>1. task[f] \in Tasks
    BY DEF Types
  <2> QED
    BY <2>1 DEF Tasks
<1>3. task' = [task EXCEPT ![f] = w] /\ task \in [Callers -> Tasks]
  BY <1>1 DEF Types
<1> HIDE DEF w
<1>4. task' \in [Callers -> Tasks] /\ sup' \in [Supervisors -> SupervisorStates]
  BY <1>1, <1>2, <1>3 DEF Types
<1> QED
  BY <1>1, <1>4 DEF Types, catalogVars, storeVars

LEMMA BeginsTyped ==
  ASSUME Types, NEW t \in Callers, NEW plan \in Seq(PlanSteps), NEW next \in Entries,
         Begins(t, plan, next)
  PROVE  Types'
<1>1. task' = [task EXCEPT ![t].stage = "working", ![t].plan = plan, ![t].next = next]
      /\ UNCHANGED <<catalogVars, storeVars, sup, unsettled>>
  BY DEF Begins
<1>2. task' \in [Callers -> Tasks]
  <2> DEFINE new == [task[t] EXCEPT !.stage = "working", !.plan = plan, !.next = next]
  <2>1. task \in [Callers -> Tasks] /\ task[t] \in Tasks
    BY DEF Types
  <2>2. new \in Tasks
    BY <2>1 DEF Tasks
  <2>3. task' = [task EXCEPT ![t] = new]
    BY <1>1, <2>1 DEF Tasks
  <2> HIDE DEF new
  <2> QED
    BY <2>1, <2>2, <2>3
<1> QED
  BY <1>1, <1>2 DEF Types, catalogVars, storeVars

LEMMA DoneTyped ==
  ASSUME Types, NEW t \in Callers, Done(t) \/ Fails(t), task[t].plan # <<>>
  PROVE  task' \in [Callers -> Tasks]
<1>1. task[t].plan \in Seq(PlanSteps)
  BY DEF Types, Tasks
<1>2. Tail(task[t].plan) \in Seq(PlanSteps) /\ <<>> \in Seq(PlanSteps)
  BY <1>1
<1>3. CASE Done(t)
  BY <1>2, <1>3 DEF Done, Types, Tasks
<1>4. CASE Fails(t)
  BY <1>2, <1>4 DEF Fails, Types, Tasks
<1> QED
  BY <1>3, <1>4

LEMMA WrittenTyped ==
  ASSUME Types, NEW t \in Callers
  PROVE  Written(t) \in Records
<1>1. saved \in Records /\ task[t].next \in Entries
  BY DEF Types, Tasks
<1>2. Saved(task[t].next) \in Records
  BY <1>1 DEF Saved, Entries, Records
<1>3. [saved EXCEPT !.enabled = task[t].next.enabled] \in Records
  BY <1>1 DEF Entries, Records
<1>4. [saved EXCEPT !.routes = task[t].next.routes, !.learned = task[t].next.learned] \in Records
  BY <1>1 DEF Entries, Records
<1> QED
  BY <1>1, <1>2, <1>3, <1>4 DEF Written

LEMMA OpenTyped ==
  ASSUME Types
  PROVE  Open \in [Supervisors -> SupervisorStates]
BY Constants DEF Types, Open

LEMMA CreatesTyped ==
  ASSUME Types, NEW e \in Entries, Creates(e)
  PROVE  sup' \in [Supervisors -> SupervisorStates] /\ lease' \in Leases
<1> DEFINE s == CHOOSE s \in Supervisors : Open[s].status = "none"
           new == [NoSupervisor EXCEPT !.status = "open", !.wanted = e.enabled,
                                       !.routes = e.routes, !.owners = Ids(Listed(e))]
<1>1. s \in Supervisors /\ sup' = [Open EXCEPT ![s] = new]
      /\ lease' = [entry |-> e, supervisor |-> s]
  BY DEF Creates
<1>2. new \in SupervisorStates
  <2>1. Ids(Listed(e)) \in SUBSET Ids(AllRoutes)
    BY RoutesTyped DEF Listed, Entries
  <2> QED
    BY <2>1, Constants DEF Entries, SupervisorStates
<1> HIDE DEF s, new
<1> QED
  BY <1>1, <1>2, OpenTyped DEF Leases

LEMMA StopsTyped ==
  ASSUME Types, NEW f \in Callers, Stops(f)
  PROVE  /\ task' \in [Callers -> Tasks] /\ saved' \in Records
         /\ unsettled' \subseteq {"bearer", "shadow", "learned"}
BY Constants, WrittenTyped DEF Stops, StopsWaiting, Types

LEMMA BecomesTyped ==
  ASSUME Types, NEW s \in Supervisors, NEW state \in SupervisorStates, Becomes(s, state)
  PROVE  Types'
<1>1. sup' \in [Supervisors -> SupervisorStates]
  BY DEF Becomes, Types
<1>2. /\ task' \in [Callers -> Tasks] /\ saved' \in Records
      /\ unsettled' \subseteq {"bearer", "shadow", "learned"}
  BY StopsTyped, FibersAreCallers DEF Becomes, Types
<1>3. UNCHANGED <<entry, lease, platform, persisted, bearer>>
  BY DEF Becomes, catalogVars
<1> QED
  BY <1>1, <1>2, <1>3 DEF Types

LEMMA SuperviseTyped ==
  ASSUME Types, NEW s \in Supervisors, Supervise(s)
  PROVE  Types'
<1>1. sup[s] \in SupervisorStates
  BY DEF Types
<1>2. ASSUME NEW p \in Phases PROVE Left(s, p) \in SupervisorStates
  BY <1>1 DEF Left, SupervisorStates
<1>3. {"available", "connecting", "connected", "backoff", "refused", "unsupported"} \subseteq Phases
  BY DEF Phases
<1>4. CASE Attempt(s)
  <2>1. [sup[s] EXCEPT !.phase = "connecting", !.retry = FALSE] \in SupervisorStates
    BY <1>1, <1>3 DEF SupervisorStates
  <2> QED
    BY <1>4, <2>1, BecomesTyped DEF Attempt
<1>5. CASE ReadBearer(s)
  <2>1. [sup[s] EXCEPT !.bearer = bearer] \in SupervisorStates
    BY <1>1 DEF SupervisorStates, Types
  <2> QED
    BY <1>5, <2>1, BecomesTyped DEF ReadBearer
<1>6. CASE AttemptEnds(s)
  <2>1. ASSUME NEW r \in sup[s].owners
        PROVE  [Left(s, "connected") EXCEPT !.via = r, !.reported = FALSE] \in SupervisorStates
    BY <1>1, <1>2, <1>3 DEF SupervisorStates
  <2>2. [Left(s, "unsupported") EXCEPT !.told = FALSE] \in SupervisorStates
    BY <1>2, <1>3 DEF SupervisorStates
  <2> QED
    BY <1>6, <1>2, <1>3, <2>1, <2>2, BecomesTyped DEF AttemptEnds
<1>7. CASE Resumes(s)
  BY <1>7, <1>2, <1>3, BecomesTyped DEF Resumes
<1> QED
  BY <1>4, <1>5, <1>6, <1>7 DEF Supervise

-----------------------------------------------------------------------------
(* Steps that leave the catalog, the store and the worker alone. *)

LEMMA PlansStay ==
  ASSUME UNCHANGED <<lease, persisted>>
  PROVE  /\ Close' = Close /\ Reinstall' = Reinstall /\ WithWrite' = WithWrite
         /\ WithErase' = WithErase /\ Rests' = Rests /\ Shadows' = Shadows /\ Bearing' = Bearing
<1>1. Close' = Close
  BY DEF Close
<1>2. Reinstall' = Reinstall
  BY <1>1 DEF Reinstall
<1>3. WithWrite' = WithWrite /\ WithErase' = WithErase /\ Rests' = Rests
  BY <1>1, <1>2 DEF WithWrite, WithErase, Rests
<1>4. Shadows' = Shadows
  BY <1>3 DEF Shadows
<1> QED
  BY <1>1, <1>2, <1>3, <1>4 DEF Bearing

\* What is consistent stays so as long as the store and the platform do.
LEMMA ConsistentStays ==
  ASSUME UNCHANGED <<platform, saved, persisted, unsettled>>
  PROVE  /\ entry' = entry /\ Consistent(entry) => Consistent(entry)'
         /\ entry' = NoEntry /\ Consistent(NoEntry) => Consistent(entry)'
         /\ \A t : entry' = task[t].next /\ Consistent(task[t].next) => Consistent(entry)'
         /\ \A t : task'[t].next = task[t].next /\ Consistent(task[t].next)
                     => Consistent(task[t].next)'
         /\ Consistent(NoEntry) => Consistent(NoEntry)'
BY DEF Consistent

LEMMA WorkStays ==
  ASSUME NEW t \in Callers, Work(t), task'[t] = task[t],
         UNCHANGED <<entry, lease, platform, persisted, saved, unsettled>>
  PROVE  Work(t)'
<1>1. /\ Close' = Close /\ Reinstall' = Reinstall /\ WithWrite' = WithWrite
      /\ WithErase' = WithErase /\ Rests' = Rests /\ Shadows' = Shadows /\ Bearing' = Bearing
  BY PlansStay
<1>2. /\ Consistent(entry) => Consistent(entry)'
      /\ Consistent(task[t].next) => Consistent(task[t].next)'
      /\ Consistent(NoEntry) => Consistent(NoEntry)'
  BY ConsistentStays
<1>3. Op(t)' = Op(t) /\ Intended(t)' = Intended(t)
  BY DEF Op, Intended
<1>4. CASE Replaces(t)
  BY <1>1, <1>2, <1>3, <1>4 DEF Replaces, Work, Whole
<1>5. CASE Builds(t)
  BY <1>1, <1>2, <1>3, <1>5 DEF Builds, Work, Whole
<1>6. CASE Erases(t)
  BY <1>1, <1>2, <1>3, <1>6 DEF Erases, Work
<1>7. CASE Drops(t)
  BY <1>1, <1>2, <1>3, <1>7 DEF Drops, Work
<1>8. CASE Updates(t)
  BY <1>1, <1>2, <1>3, <1>8 DEF Updates, Work, Whole
<1>9. CASE Takes(t)
  BY <1>1, <1>2, <1>3, <1>9 DEF Takes, Work, Whole
<1>10. CASE Unshadows(t)
  BY <1>1, <1>2, <1>3, <1>10 DEF Unshadows, Work, Whole
<1>11. CASE Releases(t)
  BY <1>1, <1>2, <1>3, <1>11 DEF Releases, Work
<1>12. CASE Ends(t)
  BY <1>1, <1>2, <1>12 DEF Ends, Work
<1> QED
  BY <1>4, <1>5, <1>6, <1>7, <1>8, <1>9, <1>10, <1>11, <1>12 DEF Work

\* The fields of a supervisor that the invariant speaks of outside of its fibers.
SameSupervisors ==
  \A s \in Supervisors :
    /\ sup'[s].status = sup[s].status /\ sup'[s].wanted = sup[s].wanted
    /\ sup'[s].routes = sup[s].routes /\ sup'[s].owners = sup[s].owners

SameBearers ==
  \A s \in Supervisors :
    sup'[s].bearer = sup[s].bearer /\ sup'[s].retry = sup[s].retry /\ sup'[s].phase = sup[s].phase

Idlers == \A u \in Callers :
            task'[u] = task[u] \/ (~Working(u) /\ ~Working(u)' /\ ~task'[u].replaced)

LEMMA QuietWork ==
  ASSUME WorkOK, EntryOK, Idlers,
         UNCHANGED <<entry, lease, platform, persisted, saved, unsettled>>
  PROVE  WorkOK' /\ EntryOK'
<1>1. Unlocked' => Unlocked
  BY DEF Unlocked, Idlers, Working
<1>2. Unlocked' => Consistent(entry)'
  BY <1>1, ConsistentStays DEF WorkOK
<1>3. ASSUME NEW t \in Callers, Working(t)' PROVE Work(t)'
  <2>1. task'[t] = task[t]
    BY <1>3 DEF Idlers
  <2>2. Working(t)
    BY <1>3, <2>1 DEF Working
  <2> QED
    BY <2>1, <2>2, WorkStays DEF WorkOK
<1>4. EntryOK'
  BY DEF EntryOK, Whole
<1> QED
  BY <1>2, <1>3, <1>4 DEF WorkOK

LEMMA QuietLease ==
  ASSUME Types, LeaseOK, Idlers, SameSupervisors, UNCHANGED <<entry, lease>>
  PROVE  LeaseOK'
<1>1. \A s \in Supervisors : Closing(s)' <=> Closing(s)
  BY DEF Closing, SameSupervisors
<1>2. \A t \in Callers : Working(t) => task'[t] = task[t]
  BY DEF Idlers
<1>3. lease' # NoLease =>
       /\ lease'.supervisor \in Supervisors /\ sup'[lease'.supervisor].status = "open"
       /\ entry' # NoEntry /\ lease'.entry = entry'
       /\ sup'[lease'.supervisor].wanted = entry'.enabled
       /\ sup'[lease'.supervisor].routes = entry'.routes
  BY DEF LeaseOK, SameSupervisors
<1>4. \A s \in Supervisors : sup'[s].status = "open" => lease' # NoLease /\ lease'.supervisor = s
  BY DEF LeaseOK, SameSupervisors
<1>5. ASSUME NEW s \in Supervisors, Closing(s)'
      PROVE  lease' = NoLease /\ \E t \in Callers : Working(t)' /\ task'[t].plan \in ClosingPlans
  BY <1>1, <1>2, <1>5 DEF LeaseOK, Working, ClosingPlans
<1> QED
  BY <1>1, <1>3, <1>4, <1>5 DEF LeaseOK, ClosingPlans

LEMMA QuietBearers ==
  ASSUME BearersOK, Idlers, SameSupervisors, SameBearers, UNCHANGED <<bearer, unsettled>>
  PROVE  BearersOK'
<1>1. \A t \in Callers : Renews(t) => Renews(t)'
  BY DEF Renews, Op, Working, Idlers
<1>2. \A t \in Callers : ~Working(t)' => ~task'[t].replaced
  BY DEF BearersOK, Idlers, Working
<1> QED
  BY <1>1, <1>2 DEF BearersOK, SameBearers, SameSupervisors

LEMMA QuietOthers ==
  ASSUME Types, OthersOK, NEW t \in Callers, OthersStay(t), platform' = platform,
         t \in FiberSet \/ ~Active(t)'
  PROVE  OthersOK'
BY DEF OthersOK, OthersStay, Active, Op, Chosen, Owner, Working

LEMMA Distinct ==
  /\ \A s \in Supervisors : Learner(s) \in FiberSet /\ Watcher(s) \in FiberSet
  /\ \A r, s \in Supervisors : Learner(r) # Watcher(s)
  /\ \A r, s \in Supervisors : Learner(r) = Learner(s) => r = s
  /\ \A r, s \in Supervisors : Watcher(r) = Watcher(s) => r = s
  /\ \A t \in FiberSet : t \in Callers /\ \E s \in Supervisors : t = Learner(s) \/ t = Watcher(s)
  /\ \A t \in Users \cup {Platform, Discovery} : t \in Callers \ FiberSet
  /\ \A u \in Users : u # Platform
  /\ Discovery # Platform
<1>1. \A s \in Supervisors : Learner(s) \in FiberSet /\ Watcher(s) \in FiberSet
  BY DEF FiberSet, Fibers
<1>2. /\ \A r, s \in Supervisors : Learner(r) # Watcher(s)
      /\ \A r, s \in Supervisors : Learner(r) = Learner(s) => r = s
      /\ \A r, s \in Supervisors : Watcher(r) = Watcher(s) => r = s
  BY DEF Learner, Watcher
<1>3. \A t \in FiberSet : \E s \in Supervisors : t = Learner(s) \/ t = Watcher(s)
  BY DEF FiberSet, Fibers
<1>4. \A t \in FiberSet : t \in Callers
  BY <1>3, FibersAreCallers
<1>5. \A t \in Users \cup {Platform, Discovery} : t \in Callers \ FiberSet
  BY <1>3, RegistryAssumption
<1>6. (\A u \in Users : u # Platform) /\ Discovery # Platform
  BY RegistryAssumption
<1> QED
  BY <1>1, <1>2, <1>3, <1>4, <1>5, <1>6

LEMMA SameSup ==
  ASSUME sup' = sup
  PROVE  SameSupervisors /\ SameBearers
BY DEF SameSupervisors, SameBearers

LEMMA AsksSafe ==
  ASSUME Types, StateOK, NEW t \in Callers \ FiberSet, NEW request \in Requests, Asks(t, request),
         request.op # "learnRoutes", request.verdict.by # "socket",
         request.op = "register" => request.route \in SavableRoutes,
         request.op = "removePlatform" => t = Platform /\ platform
  PROVE  StateOK'
<1>1. /\ OthersStay(t) /\ ~Active(t) /\ task'[t].request = request /\ task'[t].stage = "asked"
      /\ task'[t].replaced = task[t].replaced
  BY AsksTask
<1>2. UNCHANGED <<entry, lease, platform, persisted, saved, bearer, sup, unsettled>>
  BY DEF Asks, catalogVars, storeVars
<1>3. ~Working(t) /\ ~Working(t)' /\ ~task'[t].replaced
  BY <1>1 DEF Active, Working, StateOK, BearersOK
<1>4. Idlers
  BY <1>1, <1>3 DEF OthersStay, Idlers
<1>5. SameSupervisors /\ SameBearers
  BY <1>2, SameSup
<1>6. WorkOK' /\ EntryOK' /\ LeaseOK' /\ BearersOK'
  BY <1>2, <1>4, <1>5, QuietWork, QuietLease, QuietBearers DEF StateOK
<1>7. \A s \in Supervisors : task'[Learner(s)] = task[Learner(s)] /\ task'[Watcher(s)] = task[Watcher(s)]
  BY <1>1, Distinct DEF OthersStay
<1>8. FibersOK'
  BY <1>2, <1>7 DEF StateOK, FibersOK, Active, Op, Chosen, Owner
<1>9. OthersOK'
  <2>1. SUFFICES ASSUME NEW u \in Callers \ FiberSet, Active(u)'
                 PROVE  /\ Op(u)' # "learnRoutes" /\ task'[u].request.verdict.by # "socket"
                        /\ Op(u)' = "register" => Chosen(u)' \in SavableRoutes
                        /\ Op(u)' = "removePlatform" => u = Platform
                        /\ Op(u)' = "removePlatform" /\ ~Working(u)' => platform'
    BY DEF OthersOK, FiberSet, Fibers
  <2>2. CASE u = t
    BY <1>1, <1>2, <2>2 DEF Op, Chosen, Owner
  <2>3. CASE u # t
    <3>1. task'[u] = task[u] /\ platform' = platform
      BY <1>1, <1>2, <2>3 DEF OthersStay
    <3> QED
      BY <2>1, <3>1 DEF StateOK, OthersOK, Active, Op, Chosen, Owner, Working
  <2> QED
    BY <2>2, <2>3
<1> QED
  BY <1>6, <1>8, <1>9 DEF StateOK

\* What the requests ask for.
LEMMA RequestFields ==
  /\ \A op : Plain(op).op = op /\ Plain(op).verdict = NoVerdict
  /\ \A op, r : /\ ForRoute(op, r).op = op /\ ForRoute(op, r).verdict = NoVerdict
                /\ ForRoute(op, r).route = r
  /\ \A f : SetEnabled(f).op = "setEnabled" /\ SetEnabled(f).verdict = NoVerdict
  /\ \A v : SetCompatibility(v).op = "setCompatibility" /\ SetCompatibility(v).verdict = v
  /\ \A b : Reported(b).op = "install" /\ Reported(b).verdict = NoVerdict
  /\ \A owner, reported : /\ Learned(owner, reported).op = "learnRoutes"
                          /\ Learned(owner, reported).owner = owner
<1>1. \A op : Plain(op).op = op /\ Plain(op).verdict = NoVerdict
  BY DEF Plain
<1>2. \A op, r : /\ ForRoute(op, r).op = op /\ ForRoute(op, r).verdict = NoVerdict
                /\ ForRoute(op, r).route = r
  BY DEF ForRoute, Plain
<1>3. \A f : SetEnabled(f).op = "setEnabled" /\ SetEnabled(f).verdict = NoVerdict
  BY DEF SetEnabled, Plain
<1>4. \A v : SetCompatibility(v).op = "setCompatibility" /\ SetCompatibility(v).verdict = v
  BY DEF SetCompatibility, Plain
<1>5. \A b : Reported(b).op = "install" /\ Reported(b).verdict = NoVerdict
  BY DEF Reported, ForRoute, Plain
<1>6. \A owner, reported : /\ Learned(owner, reported).op = "learnRoutes"
                          /\ Learned(owner, reported).owner = owner
  BY DEF Learned, Plain
<1> QED
  BY <1>1, <1>2, <1>3, <1>4, <1>5, <1>6

LEMMA RequestsSafe ==
  /\ \A request \in UserRequests :
       /\ request.op \notin {"learnRoutes", "removePlatform"} /\ request.verdict.by # "socket"
       /\ request.op = "register" => request.route \in SavableRoutes
  /\ \A b : Reported(b).op = "install" /\ Reported(b).verdict.by # "socket"
  /\ Plain("removePlatform").op = "removePlatform" /\ Plain("removePlatform").verdict.by # "socket"
  /\ \A v \in {NoVerdict, Verdict("discovery", {Relay})} :
       SetCompatibility(v).op = "setCompatibility" /\ SetCompatibility(v).verdict.by # "socket"
<1>1. NoVerdict.by = "nobody" /\ Verdict("discovery", {Relay}).by = "discovery"
  BY DEF NoVerdict, Verdict
<1>2. ASSUME NEW request \in UserRequests
      PROVE  /\ request.op \notin {"learnRoutes", "removePlatform"}
             /\ request.verdict = NoVerdict
             /\ request.op = "register" => request.route \in SavableRoutes
  <2>1. CASE request \in {ForRoute("register", r) : r \in SavableRoutes}
    BY <2>1, RequestFields
  <2>2. CASE request \in {ForRoute("removeRoute", r) : r \in entry.routes}
    BY <2>2, RequestFields
  <2>3. CASE request \in {ForRoute("removeLearned", r) : r \in entry.learned}
    BY <2>3, RequestFields
  <2>4. CASE request \in {Plain("acquire"), Plain("retryNow"), Plain("remove"),
                          Plain("reorderRoutes")}
    BY <2>4, RequestFields
  <2>5. CASE request \in {SetEnabled(TRUE), SetEnabled(FALSE), SetCompatibility(NoVerdict)}
    <3>1. CASE request = SetCompatibility(NoVerdict)
      BY <3>1, RequestFields
    <3>2. CASE \E f \in BOOLEAN : request = SetEnabled(f)
      BY <3>2, RequestFields
    <3> QED
      BY <2>5, <3>1, <3>2
  <2> QED
    BY <2>1, <2>2, <2>3, <2>4, <2>5 DEF UserRequests
<1> QED
  BY <1>1, <1>2, RequestFields

LEMMA CallSafe ==
  ASSUME Types, StateOK, NEW u \in Users, Call(u)
  PROVE  Types' /\ StateOK'
<1>1. PICK request \in UserRequests : Asks(u, request)
  BY DEF Call
<1>2. u \in Callers \ FiberSet /\ request \in Requests
  BY Distinct, RequestsTyped
<1> QED
  BY <1>1, <1>2, RequestsSafe, AsksSafe, AsksTyped

LEMMA ReconcileSafe ==
  ASSUME Types, StateOK, Reconcile
  PROVE  Types' /\ StateOK'
<1>1. Platform \in Callers \ FiberSet
  BY Distinct
<1>2. CASE \E b \in Bearers : Asks(Platform, Reported(b))
  <2>1. PICK b \in Bearers : Asks(Platform, Reported(b))
    BY <1>2
  <2> DEFINE request == Reported(b)
  <2>2. request \in Requests /\ request.op = "install" /\ request.verdict.by # "socket"
    BY RequestsTyped, RequestsSafe
  <2>3. Asks(Platform, request)
    BY <2>1
  <2> HIDE DEF request
  <2> QED
    BY <1>1, <2>2, <2>3, AsksSafe, AsksTyped
<1>3. CASE platform /\ Asks(Platform, Plain("removePlatform"))
  BY <1>1, <1>3, RequestsTyped, RequestsSafe, AsksSafe, AsksTyped
<1> QED
  BY <1>2, <1>3 DEF Reconcile

LEMMA DiscoverSafe ==
  ASSUME Types, StateOK, Discover
  PROVE  Types' /\ StateOK'
<1>1. Discovery \in Callers \ FiberSet
  BY Distinct
<1>2. PICK v \in {NoVerdict, Verdict("discovery", {Relay})} : Asks(Discovery, SetCompatibility(v))
  BY DEF Discover
<1>3. SetCompatibility(v) \in Requests
  BY Constants, VerdictsTyped, RequestsTyped
<1> QED
  BY <1>1, <1>2, <1>3, RequestsSafe, AsksSafe, AsksTyped

LEMMA LeaveSafe ==
  ASSUME Types, WorkersHold, StateOK, NEW t \in Callers, Leave(t)
  PROVE  Types' /\ StateOK'
<1>1. /\ OthersStay(t) /\ task'[t] = NoTask
      /\ UNCHANGED <<entry, lease, platform, persisted, saved, bearer, sup, unsettled>>
  BY LeavesTask DEF Leave, catalogVars, storeVars
<1>2. ~Working(t) /\ ~Working(t)' /\ ~Active(t)' /\ ~task'[t].replaced
  BY <1>1, Constants DEF Leave, LeaveLock, WorkersHold, Working, Active
<1>3. Types'
  <2>1. task' \in [Callers -> Tasks]
    BY Constants DEF Leave, Types
  <2> QED
    BY <1>1, <2>1 DEF Types
<1>4. Idlers
  BY <1>1, <1>2 DEF OthersStay, Idlers
<1>5. WorkOK' /\ EntryOK' /\ LeaseOK' /\ BearersOK'
  BY <1>1, <1>4, SameSup, QuietWork, QuietLease, QuietBearers DEF StateOK
<1>6. FibersOK'
  <2> SUFFICES ASSUME NEW s \in Supervisors
               PROVE  /\ Active(Learner(s))' =>
                           /\ sup'[s].status # "none" /\ Op(Learner(s))' = "learnRoutes"
                           /\ Owner(Learner(s))' \in sup'[s].owners
                      /\ Active(Watcher(s))' =>
                           /\ sup'[s].status # "none" /\ Op(Watcher(s))' = "setCompatibility"
                           /\ task'[Watcher(s)].request.verdict = Verdict("socket", Places(sup'[s].routes))
                      /\ sup'[s].phase = "connected" => sup'[s].via \in sup'[s].owners
    BY DEF FibersOK
  <2>1. Active(Learner(s))' => task'[Learner(s)] = task[Learner(s)]
    BY <1>1, <1>2, FibersAreCallers DEF OthersStay
  <2>2. Active(Watcher(s))' => task'[Watcher(s)] = task[Watcher(s)]
    BY <1>1, <1>2, FibersAreCallers DEF OthersStay
  <2> QED
    BY <1>1, <2>1, <2>2 DEF StateOK, FibersOK, Active, Op, Chosen, Owner
<1>7. OthersOK'
  BY <1>1, <1>2, QuietOthers DEF StateOK
<1> QED
  BY <1>3, <1>5, <1>6, <1>7 DEF StateOK

\* A step of the lock alone, or none at all.
LEMMA StutterSafe ==
  ASSUME Types, StateOK,
         UNCHANGED <<entry, lease, platform, persisted, saved, bearer, sup, task, unsettled>>
  PROVE  Types' /\ StateOK'
<1>1. Idlers
  BY DEF Idlers
<1>2. WorkOK' /\ EntryOK' /\ LeaseOK' /\ BearersOK'
  BY <1>1, SameSup, QuietWork, QuietLease, QuietBearers DEF StateOK
<1>3. FibersOK' /\ OthersOK'
  BY DEF StateOK, FibersOK, OthersOK, Active, Op, Chosen, Owner, Working
<1> QED
  BY <1>2, <1>3 DEF StateOK, Types

LEMMA GetLockSafe ==
  ASSUME Types, StateOK, GetLock
  PROVE  Types' /\ StateOK'
BY StutterSafe DEF GetLock, catalogVars, storeVars

\* A fiber asks about the routes its supervisor has.
LEMMA FiberAsksSafe ==
  ASSUME Types, StateOK, NEW s \in Supervisors, NEW f \in Fibers(s), NEW request, NEW flags,
         FiberAsks(s, f, request, flags),
         /\ flags.status = sup[s].status /\ flags.wanted = sup[s].wanted
         /\ flags.routes = sup[s].routes /\ flags.owners = sup[s].owners
      /\ flags.bearer = sup[s].bearer
         /\ flags.retry = sup[s].retry /\ flags.phase = sup[s].phase /\ flags.via = sup[s].via,
         f = Learner(s) => request.op = "learnRoutes" /\ request.owner \in sup[s].owners,
         f = Watcher(s) => /\ request.op = "setCompatibility"
                           /\ request.verdict = Verdict("socket", Places(sup[s].routes))
  PROVE  StateOK'
<1>0. f \in Callers /\ f \in FiberSet
  BY FibersAreCallers DEF FiberSet
<1>1. /\ OthersStay(f) /\ ~Active(f) /\ task'[f].request = request /\ task'[f].stage = "asked"
      /\ task'[f].replaced = task[f].replaced
  BY <1>0, FiberAsksTask
<1>2. /\ UNCHANGED <<entry, lease, platform, persisted, saved, bearer, unsettled>>
      /\ sup' = [sup EXCEPT ![s] = flags] /\ sup[s].status = "open"
  BY DEF FiberAsks, catalogVars, storeVars
<1>3. ~Working(f) /\ ~Working(f)' /\ ~task'[f].replaced
  BY <1>0, <1>1 DEF Active, Working, StateOK, BearersOK
<1>4. Idlers
  BY <1>1, <1>3 DEF OthersStay, Idlers
<1>5. SameSupervisors /\ SameBearers /\ \A r \in Supervisors : sup'[r].via = sup[r].via
  BY <1>2 DEF SameSupervisors, SameBearers, Types
<1>6. WorkOK' /\ EntryOK' /\ LeaseOK' /\ BearersOK'
  BY <1>2, <1>4, <1>5, QuietWork, QuietLease, QuietBearers DEF StateOK
<1>7. FibersOK'
  <2> SUFFICES ASSUME NEW r \in Supervisors
               PROVE  /\ Active(Learner(r))' =>
                           /\ sup'[r].status # "none" /\ Op(Learner(r))' = "learnRoutes"
                           /\ Owner(Learner(r))' \in sup'[r].owners
                      /\ Active(Watcher(r))' =>
                           /\ sup'[r].status # "none" /\ Op(Watcher(r))' = "setCompatibility"
                           /\ task'[Watcher(r)].request.verdict = Verdict("socket", Places(sup'[r].routes))
                      /\ sup'[r].phase = "connected" => sup'[r].via \in sup'[r].owners
    BY DEF FibersOK
  <2>0. /\ sup'[r].status = sup[r].status /\ sup'[r].routes = sup[r].routes
        /\ sup'[r].owners = sup[r].owners
        /\ sup'[r].phase = sup[r].phase /\ sup'[r].via = sup[r].via
    BY <1>5 DEF SameSupervisors, SameBearers
  <2>1. Active(Learner(r))' => /\ sup'[r].status # "none" /\ Op(Learner(r))' = "learnRoutes"
                               /\ Owner(Learner(r))' \in sup'[r].owners
    <3>1. CASE Learner(r) = f
      <4>1. r = s
        BY <3>1, Distinct DEF Fibers
      <4> QED
        BY <1>1, <1>2, <2>0, <3>1, <4>1 DEF Op, Chosen, Owner
    <3>2. CASE Learner(r) # f
      <4>1. task'[Learner(r)] = task[Learner(r)]
        BY <1>1, <3>2, FibersAreCallers DEF OthersStay
      <4> QED
        BY <2>0, <4>1 DEF StateOK, FibersOK, Active, Op, Chosen, Owner
    <3> QED
      BY <3>1, <3>2
  <2>2. Active(Watcher(r))' =>
          /\ sup'[r].status # "none" /\ Op(Watcher(r))' = "setCompatibility"
          /\ task'[Watcher(r)].request.verdict = Verdict("socket", Places(sup'[r].routes))
    <3>1. CASE Watcher(r) = f
      <4>1. r = s
        BY <3>1, Distinct DEF Fibers
      <4> QED
        BY <1>1, <1>2, <2>0, <3>1, <4>1 DEF Op
    <3>2. CASE Watcher(r) # f
      <4>1. task'[Watcher(r)] = task[Watcher(r)]
        BY <1>1, <3>2, FibersAreCallers DEF OthersStay
      <4> QED
        BY <2>0, <4>1 DEF StateOK, FibersOK, Active, Op
    <3> QED
      BY <3>1, <3>2
  <2>3. sup'[r].phase = "connected" => sup'[r].via \in sup'[r].owners
    BY <2>0 DEF StateOK, FibersOK
  <2> QED
    BY <2>1, <2>2, <2>3
<1>8. OthersOK'
  BY <1>0, <1>1, <1>2, QuietOthers DEF StateOK
<1> QED
  BY <1>6, <1>7, <1>8 DEF StateOK

LEMMA LearnRoutesSafe ==
  ASSUME Types, StateOK, NEW s \in Supervisors, LearnRoutes(s)
  PROVE  Types' /\ StateOK'
<1> DEFINE flags == [sup[s] EXCEPT !.reported = TRUE]
           request(r) == Learned(sup[s].via, r)
<1>1. PICK r \in SUBSET Addresses : FiberAsks(s, Learner(s), request(r), flags)
  BY DEF LearnRoutes
<1>2. sup[s] \in SupervisorStates
  BY DEF Types
<1>3. /\ flags.status = sup[s].status /\ flags.wanted = sup[s].wanted
      /\ flags.routes = sup[s].routes /\ flags.owners = sup[s].owners
      /\ flags.bearer = sup[s].bearer
      /\ flags.retry = sup[s].retry /\ flags.phase = sup[s].phase /\ flags.via = sup[s].via
      /\ flags \in SupervisorStates
  BY <1>2 DEF SupervisorStates
<1>4. sup[s].via \in sup[s].owners
  BY DEF LearnRoutes, StateOK, FibersOK
<1>5. request(r).op = "learnRoutes" /\ request(r).owner \in sup[s].owners /\ request(r) \in Requests
  <2>1. sup[s].via \in Ids(AllRoutes) \cup {NoCaller}
    BY <1>2 DEF SupervisorStates
  <2> QED
    BY <1>4, <2>1, RequestsTyped, RequestFields
<1>6. Learner(s) \in Fibers(s) /\ Learner(s) # Watcher(s) /\ Learner(s) \in Callers
  BY Distinct, FibersAreCallers DEF Fibers
<1> HIDE DEF flags, request
<1>7. StateOK'
  BY <1>1, <1>3, <1>5, <1>6, FiberAsksSafe
<1>8. Types'
  BY <1>1, <1>3, <1>5, <1>6, FiberAsksTyped
<1> QED
  BY <1>7, <1>8

LEMMA WatchSafe ==
  ASSUME Types, StateOK, NEW s \in Supervisors, Watch(s)
  PROVE  Types' /\ StateOK'
<1> DEFINE flags == [sup[s] EXCEPT !.told = TRUE]
           request == SetCompatibility(Verdict("socket", Places(sup[s].routes)))
<1>1. FiberAsks(s, Watcher(s), request, flags)
  BY DEF Watch
<1>2. sup[s] \in SupervisorStates
  BY DEF Types
<1>3. /\ flags.status = sup[s].status /\ flags.wanted = sup[s].wanted
      /\ flags.routes = sup[s].routes /\ flags.owners = sup[s].owners
      /\ flags.bearer = sup[s].bearer
      /\ flags.retry = sup[s].retry /\ flags.phase = sup[s].phase /\ flags.via = sup[s].via
      /\ flags \in SupervisorStates
  BY <1>2 DEF SupervisorStates
<1>4. /\ request.op = "setCompatibility" /\ request.verdict = Verdict("socket", Places(sup[s].routes))
      /\ request \in Requests
  <2>1. sup[s].routes \in SUBSET AllRoutes
    BY <1>2 DEF SupervisorStates
  <2>2. Verdict("socket", Places(sup[s].routes)) \in Verdicts
    BY <2>1, VerdictsTyped
  <2> QED
    BY <2>2, RequestsTyped, RequestFields
<1>5. Watcher(s) \in Fibers(s) /\ Learner(s) # Watcher(s) /\ Watcher(s) \in Callers
  BY Distinct, FibersAreCallers DEF Fibers
<1> HIDE DEF flags, request
<1>6. StateOK'
  BY <1>1, <1>3, <1>4, <1>5, FiberAsksSafe
<1>7. Types'
  BY <1>1, <1>3, <1>4, <1>5, FiberAsksTyped
<1> QED
  BY <1>6, <1>7

-----------------------------------------------------------------------------
(* The beginning of an operation. *)

\* With the lock in hand nobody works, and no scope is closing.
LEMMA Idle ==
  ASSUME LockInv, WorkersHold, Types, StateOK, NEW t \in Callers,
         task[t].stage = "asked", HoldsPermit(t)
  PROVE  /\ \A u \in Callers : ~Working(u)
         /\ Consistent(entry)
         /\ \A s \in Supervisors : ~Closing(s)
<1>1. \A u \in Callers : ~Working(u)
  BY HolderAlone DEF Working
<1>2. Unlocked
  BY <1>1 DEF Unlocked, Working
<1> QED
  BY <1>1, <1>2 DEF StateOK, WorkOK, LeaseOK

\* A supervisor that has a fiber at work has the routes of the entry.
LEMMA FiberFits ==
  ASSUME LockInv, WorkersHold, Types, StateOK, NEW t \in Callers,
         task[t].stage = "asked", HoldsPermit(t),
         NEW s \in Supervisors, sup[s].status # "none"
  PROVE  lease # NoLease /\ lease.supervisor = s /\ sup[s].routes = entry.routes
<1>1. ~Closing(s)
  BY Idle
<1>2. sup[s].status = "open"
  BY <1>1 DEF Closing, Types, SupervisorStates
<1> QED
  BY <1>2 DEF StateOK, LeaseOK

LEMMA BeginsSafe ==
  ASSUME LockInv, WorkersHold, Types, StateOK, NEW t \in Callers, NEW plan \in Seq(PlanSteps),
         NEW next \in Entries, Begins(t, plan, next), Work(t)'
  PROVE  Types' /\ StateOK'
<1>1. /\ OthersStay(t) /\ task[t].stage = "asked" /\ HoldsPermit(t) /\ Working(t)'
      /\ task'[t].request = task[t].request /\ task'[t].replaced = task[t].replaced
      /\ UNCHANGED <<entry, lease, platform, persisted, saved, bearer, sup, unsettled>>
  BY BeginsTask DEF catalogVars, storeVars
<1>2. (\A u \in Callers : ~Working(u)) /\ \A s \in Supervisors : ~Closing(s)
  BY <1>1, Idle
<1>3. Active(t) /\ Active(t)'
  BY <1>1 DEF Active, Working
<1>4. \A u \in Callers : task'[u].request = task[u].request /\ (Active(u)' => Active(u))
  BY <1>1, <1>3 DEF OthersStay, Active
<1>5. FibersOK'
  BY <1>1, <1>4, FibersAreCallers DEF StateOK, FibersOK, Op, Chosen, Owner
<1>6. OthersOK'
  <2> SUFFICES ASSUME NEW u \in Callers \ FiberSet, Active(u)'
               PROVE  /\ Op(u)' # "learnRoutes" /\ task'[u].request.verdict.by # "socket"
                      /\ Op(u)' = "register" => Chosen(u)' \in SavableRoutes
                      /\ Op(u)' = "removePlatform" => u = Platform
                      /\ Op(u)' = "removePlatform" /\ ~Working(u)' => platform'
    BY DEF OthersOK, FiberSet, Fibers
  <2>1. Op(u)' = Op(u) /\ Chosen(u)' = Chosen(u) /\ Active(u) /\ task'[u].request.verdict = task[u].request.verdict
    BY <1>4 DEF Op, Chosen, Owner
  <2>2. ~Working(u)
    BY <1>2
  <2> QED
    BY <1>1, <2>1, <2>2 DEF StateOK, OthersOK
<1>7. EntryOK'
  BY <1>1 DEF StateOK, EntryOK, Whole
<1>8. LeaseOK'
  BY <1>1, <1>2 DEF StateOK, LeaseOK, Closing
<1>9. WorkOK'
  <2>1. \A u \in Callers : Working(u)' => u = t
    BY <1>1, <1>2 DEF OthersStay, Working
  <2>2. ~Unlocked'
    BY <1>1 DEF Unlocked, Working
  <2> QED
    BY <2>1, <2>2 DEF WorkOK
<1>10. BearersOK'
  <2>1. \A u \in Callers : ~Working(u)' => ~task'[u].replaced
    BY <1>1, <1>2 DEF StateOK, BearersOK, OthersStay
  <2>2. \A u \in Callers : ~Renews(u)
    BY <1>2 DEF Renews
  <2> QED
    BY <1>1, <2>1, <2>2 DEF StateOK, BearersOK
<1>11. Types'
  BY BeginsTyped
<1> QED
  BY <1>5, <1>6, <1>7, <1>8, <1>9, <1>10, <1>11 DEF StateOK

\* What a plan must be like when it is begun.
LEMMA BegunFacts ==
  ASSUME Types, NEW t \in Callers, NEW plan, NEW next, Begins(t, plan, next)
  PROVE  /\ task'[t].plan = plan /\ task'[t].next = next /\ task'[t].replaced = task[t].replaced
         /\ Op(t)' = Op(t) /\ Intended(t)' = Intended(t)
         /\ Close' = Close /\ Reinstall' = Reinstall /\ WithWrite' = WithWrite
         /\ WithErase' = WithErase /\ Bearing' = Bearing
         /\ UNCHANGED <<entry, lease, platform, persisted, saved, sup, unsettled>>
         /\ Consistent(entry) => Consistent(entry)'
<1>1. /\ task'[t].plan = plan /\ task'[t].next = next /\ task'[t].replaced = task[t].replaced
      /\ task'[t].request = task[t].request
      /\ UNCHANGED <<entry, lease, platform, persisted, saved, sup, unsettled>>
  BY BeginsTask DEF catalogVars, storeVars
<1>2. Op(t)' = Op(t) /\ Intended(t)' = Intended(t)
  BY <1>1 DEF Op, Intended
<1> QED
  BY <1>1, <1>2, PlansStay, ConsistentStays

LEMMA RefusalBegun ==
  ASSUME Types, NEW t \in Callers, Consistent(entry), Refuses(t)
  PROVE  Begins(t, <<>>, NoEntry) /\ Work(t)'
<1>1. Begins(t, <<>>, NoEntry)
  BY DEF Refuses
<1> QED
  BY <1>1, BegunFacts DEF Ends, Work

LEMMA WholeSome == ASSUME NEW e, Whole(e) PROVE e # NoEntry /\ Listed(e) # {}
BY DEF Whole, Listed, NoEntry, Entry

LEMMA ReplacementBegun ==
  ASSUME Types, NEW t \in Callers, NEW plan \in {WithWrite, Then("forget", WithWrite)}, NEW next,
         Begins(t, plan, next), Op(t) \in ReplaceOps, ~platform, Whole(next), Consistent(entry),
         IF entry = NoEntry THEN Op(t) = "register" /\ next.enabled
         ELSE next.enabled = entry.enabled
  PROVE  Work(t)'
BY BegunFacts DEF Replaces, Work, Whole

LEMMA PlacementBegun ==
  ASSUME Types, NEW t \in Callers, NEW next,
         Begins(t, Reinstall, next), Op(t) \notin UpdateOps, Whole(next), Consistent(entry),
         next = entry
  PROVE  Work(t)'
<1>1. /\ task'[t].plan = Reinstall' /\ Op(t)' = Op(t) /\ task'[t].next = entry /\ entry' = entry
      /\ Consistent(entry)'
  BY BegunFacts
<1>2. Consistent(task[t].next)'
  BY <1>1 DEF Consistent
<1> QED
  BY <1>1, <1>2 DEF Builds, Work, Whole

LEMMA RemovalBegun ==
  ASSUME Types, NEW t \in Callers, NEW next,
         Begins(t, Then("forget", WithErase), next), Op(t) \in RemoveOps,
         ~platform, Consistent(entry)
  PROVE  Work(t)'
BY BegunFacts DEF Erases, Work

LEMMA ReleaseBegun ==
  ASSUME Types, NEW t \in Callers, NEW next,
         Begins(t, Then("forget", Close \o <<"drop", "dropBearer">>), next),
         Op(t) = "removePlatform", platform, Consistent(entry)
  PROVE  Work(t)'
BY BegunFacts DEF Releases, Work

LEMMA TakeBegun ==
  ASSUME Types, NEW t \in Callers, NEW plan \in Bearing \cup {Then("forget", q) : q \in Bearing},
         NEW next, Begins(t, plan, next), Op(t) = "install", Whole(next), Consistent(entry),
         ~task[t].replaced
  PROVE  Work(t)'
<1>1. Takes(t)'
  BY BegunFacts DEF Takes, Whole
<1> QED
  BY <1>1 DEF Work

LEMMA UpdateBegun ==
  ASSUME Types, NEW t \in Callers, NEW plan, NEW next, Begins(t, plan, next),
         Op(t) \in UpdateOps, entry # NoEntry, Whole(next),
         next.routes = entry.routes, next.enabled = Intended(t),
         Op(t) # "learnRoutes" => next.learned = entry.learned,
         Op(t) = "learnRoutes" => ~platform /\ plan = Then("write", <<"update">>),
         Consistent(entry),
         \/ plan = Then("write", <<"update">>) /\ ~platform
         \/ plan = <<"update">> /\ (platform \/ next.enabled = entry.enabled)
  PROVE  Work(t)'
<1>1. /\ task'[t].plan = plan /\ task'[t].next = next /\ Op(t)' = Op(t) /\ Intended(t)' = Intended(t)
      /\ UNCHANGED <<entry, lease, platform, persisted, saved, sup, unsettled>>
      /\ Consistent(entry)'
  BY BegunFacts
<1>2. CASE plan = Then("write", <<"update">>)
  BY <1>1, <1>2, FixedPlans DEF Updates, Work, Whole, Leads
<1>3. CASE plan = <<"update">>
  <2>0. plan # Then("write", <<"update">>)
    BY <1>3, FixedPlans DEF Leads
  <2>1. /\ platform \/ next.enabled = entry.enabled
        /\ next.learned = entry.learned
    BY <1>3, <2>0 DEF UpdateOps
  <2>2. next # NoEntry
    BY WholeSome
  <2>3. Consistent(task[t].next)'
    BY <1>1, <2>1, <2>2 DEF Consistent
  <2> QED
    BY <1>1, <1>3, <2>3, <2>0 DEF Updates, Work, Whole
<1> QED
  BY <1>2, <1>3

\* The plans that the operations begin with.
LEMMA ReplacementPlan ==
  ASSUME NEW routes
  PROVE  Replacement(routes) \in {WithWrite, Then("forget", WithWrite)}
<1>1. {"forget", "write"} \subseteq PlanSteps
  BY DEF PlanSteps
<1>2. <<"forget">> \in Seq(PlanSteps) /\ <<"write">> \in Seq(PlanSteps) /\ <<>> \in Seq(PlanSteps)
      /\ Reinstall \in Seq(PlanSteps)
  BY <1>1, ShortPlans, PlansInSeq
<1>3. (<<"forget">> \o <<"write">>) \o Reinstall = Then("forget", WithWrite)
  BY <1>2, ConcatAssociative DEF Then, WithWrite
<1>4. (<<>> \o <<"write">>) \o Reinstall = WithWrite
  <2>1. <<>> \o <<"write">> = <<"write">>
    BY <1>2, ConcatEmptySeq
  <2> QED
    BY <2>1 DEF Then, WithWrite
<1>5. CASE Places(routes) # Places(entry.routes)
  <2>1. Replacement(routes) = (<<"forget">> \o <<"write">>) \o Reinstall
    BY <1>5 DEF Replacement, Steps
  <2> QED
    BY <1>3, <2>1
<1>6. CASE Places(routes) = Places(entry.routes)
  <2>1. Replacement(routes) = (<<>> \o <<"write">>) \o Reinstall
    BY <1>6 DEF Replacement, Steps
  <2> QED
    BY <1>4, <2>1
<1> QED
  BY <1>5, <1>6

LEMMA RemovalPlan == Removal = Then("forget", WithErase)
<1>1. {"forget", "erase", "drop"} \subseteq PlanSteps
  BY DEF PlanSteps
<1>2. <<"forget">> \in Seq(PlanSteps) /\ <<"erase">> \in Seq(PlanSteps)
      /\ <<"forget", "erase">> \in Seq(PlanSteps) /\ <<"drop">> \in Seq(PlanSteps)
      /\ Close \in Seq(PlanSteps)
  BY <1>1, ShortPlans, PlansInSeq
<1>3. <<"forget", "erase">> = <<"forget">> \o <<"erase">>
  BY <1>1, ShortPlans DEF Then
<1>4. Close \o <<"drop">> \in Seq(PlanSteps) /\ <<"erase">> \o Close \in Seq(PlanSteps)
  BY <1>2, ConcatProperties
<1>5. (<<"forget">> \o <<"erase">>) \o Close = <<"forget">> \o (<<"erase">> \o Close)
  BY <1>2, ConcatAssociative
<1>6. (<<"forget">> \o (<<"erase">> \o Close)) \o <<"drop">>
        = <<"forget">> \o ((<<"erase">> \o Close) \o <<"drop">>)
  BY <1>2, <1>4, ConcatAssociative
<1>7. (<<"erase">> \o Close) \o <<"drop">> = <<"erase">> \o (Close \o <<"drop">>)
  BY <1>2, ConcatAssociative
<1>8. Removal = (<<"forget", "erase">> \o Close) \o <<"drop">>
  BY DEF Removal
<1>9. Removal = <<"forget">> \o (<<"erase">> \o (Close \o <<"drop">>))
  BY <1>3, <1>5, <1>6, <1>7, <1>8
<1> QED
  BY <1>9 DEF Then, WithErase

LEMMA ReleasePlan ==
  <<"forget">> \o Close \o <<"drop", "dropBearer">> = Then("forget", Close \o <<"drop", "dropBearer">>)
<1>1. {"forget", "drop", "dropBearer"} \subseteq PlanSteps
  BY DEF PlanSteps
<1>2. <<"forget">> \in Seq(PlanSteps) /\ Close \in Seq(PlanSteps)
      /\ <<"drop", "dropBearer">> \in Seq(PlanSteps)
  BY <1>1, ShortPlans, PlansInSeq
<1> QED
  BY <1>2, ConcatAssociative DEF Then

LEMMA InstallPlan ==
  ASSUME NEW f \in BOOLEAN, NEW r \in BOOLEAN
  PROVE  Steps(f, <<"forget">>) \o <<"bearer">> \o Steps(persisted, <<"unshadow">>)
           \o Steps(r, Reinstall) \in Bearing \cup {Then("forget", q) : q \in Bearing}
<1> DEFINE a == Steps(f, <<"forget">>)
           b == <<"bearer">>
           c == Steps(persisted, <<"unshadow">>)
           d == Steps(r, Reinstall)
<1>1. {"forget", "bearer", "unshadow"} \subseteq PlanSteps
  BY DEF PlanSteps
<1>2. <<"forget">> \in Seq(PlanSteps) /\ <<"unshadow">> \in Seq(PlanSteps)
      /\ <<>> \in Seq(PlanSteps) /\ Reinstall \in Seq(PlanSteps) /\ <<"bearer">> \in Seq(PlanSteps)
  BY <1>1, ShortPlans, PlansInSeq
<1>3. a \in Seq(PlanSteps) /\ b \in Seq(PlanSteps) /\ c \in Seq(PlanSteps) /\ d \in Seq(PlanSteps)
  BY <1>2 DEF Steps
<1>4. d \in Rests
  BY DEF Steps, Rests
<1>5. c \o d \in IF persisted THEN Shadows ELSE Rests
  <2>1. CASE persisted
    BY <2>1, <1>4 DEF Steps, Shadows, Then
  <2>2. CASE ~persisted
    <3>1. c \o d = d
      BY <2>2, <1>3, ConcatEmptySeq DEF Steps
    <3> QED
      BY <2>2, <3>1, <1>4
  <2> QED
    BY <2>1, <2>2
<1>6. b \o (c \o d) \in Bearing
  BY <1>5 DEF Bearing, Then
<1>7. a \o (b \o (c \o d)) \in Bearing \cup {Then("forget", q) : q \in Bearing}
  <2>1. CASE f
    BY <2>1, <1>6 DEF Steps, Then
  <2>2. CASE ~f
    <3>1. b \o (c \o d) \in Seq(PlanSteps)
      BY <1>3, ConcatProperties
    <3>2. a \o (b \o (c \o d)) = b \o (c \o d)
      BY <2>2, <3>1, ConcatEmptySeq DEF Steps
    <3> QED
      BY <1>6, <3>2
  <2> QED
    BY <2>1, <2>2
<1>8. ((a \o b) \o c) \o d = a \o (b \o (c \o d))
  <2> HIDE DEF a, b, c, d
  <2>1. a \o b \in Seq(PlanSteps) /\ c \o d \in Seq(PlanSteps)
    BY <1>3, ConcatProperties
  <2>2. c \in Seq(PlanSteps) /\ d \in Seq(PlanSteps)
    BY <1>3
  <2>3. ASSUME NEW x \in Seq(PlanSteps) PROVE (x \o c) \o d = x \o (c \o d)
    BY <2>2, ConcatAssociative
  <2>4. a \in Seq(PlanSteps) /\ b \in Seq(PlanSteps)
    BY <1>3
  <2>5. ASSUME NEW y \in Seq(PlanSteps) PROVE (a \o b) \o y = a \o (b \o y)
    BY <2>4, ConcatAssociative
  <2> QED
    BY <2>1, <2>3, <2>5
<1> QED
  BY <1>7, <1>8

-----------------------------------------------------------------------------
\* Every operation begins with a plan that the invariant allows for it.
BegunWell(t) == \E plan \in Seq(PlanSteps), next \in Entries : Begins(t, plan, next) /\ Work(t)'

Looking(t) == task[t].stage = "asked" /\ HoldsPermit(t)

LEMMA BeginLooks == ASSUME Types, NEW t \in Callers, Begin(t) PROVE Looking(t)
BY BeginsSome, BeginsTask DEF Looking

LEMMA RefusesWell ==
  ASSUME Types, NEW t \in Callers, Consistent(entry), Refuses(t)
  PROVE  BegunWell(t)
<1>1. <<>> \in Seq(PlanSteps) /\ NoEntry \in Entries
  BY Constants
<1> QED
  BY <1>1, RefusalBegun DEF BegunWell

LEMMA ReplacesWell ==
  ASSUME Types, NEW t \in Callers, NEW plan \in {WithWrite, Then("forget", WithWrite)},
         NEW next \in Entries,
         Begins(t, plan, next), Op(t) \in ReplaceOps, ~platform, Whole(next), Consistent(entry),
         IF entry = NoEntry THEN Op(t) = "register" /\ next.enabled
         ELSE next.enabled = entry.enabled
  PROVE  BegunWell(t)
<1>1. plan \in Seq(PlanSteps)
  BY WritePlans
<1> QED
  BY <1>1, ReplacementBegun DEF BegunWell

LEMMA AcquireWell ==
  ASSUME Types, StateOK, NEW t \in Callers, Consistent(entry), BeginAcquire(t)
  PROVE  BegunWell(t)
<1>1. CASE Refuses(t)
  BY <1>1, RefusesWell
<1>2. CASE entry # NoEntry /\ Begins(t, Reinstall, entry)
  <2>1. Whole(entry) /\ entry \in Entries /\ Reinstall \in Seq(PlanSteps)
    BY <1>2, PlansInSeq DEF StateOK, EntryOK, Types
  <2>2. Op(t) \notin UpdateOps
    BY DEF BeginAcquire, UpdateOps
  <2> QED
    BY <1>2, <2>1, <2>2, PlacementBegun DEF BegunWell
<1> QED
  BY <1>1, <1>2 DEF BeginAcquire

\* Changed routes come without a verdict.
LEMMA RoutesWhole ==
  ASSUME Types, Whole(entry), NEW routes \in SUBSET AllRoutes, NEW learned \in SUBSET LearnedRoutes,
         routes \cup learned # {}
  PROVE  /\ WithRoutes(routes, learned) \in Entries /\ Whole(WithRoutes(routes, learned))
         /\ WithRoutes(routes, learned).enabled = entry.enabled
         /\ WithRoutes(routes, learned).routes = routes
         /\ WithRoutes(routes, learned).learned = learned
<1>1. entry \in Entries
  BY DEF Types
<1>2. CASE Places(routes) = Places(entry.routes)
  <2>1. WithRoutes(routes, learned) = [entry EXCEPT !.routes = routes, !.learned = learned]
    BY <1>2 DEF WithRoutes
  <2>2. [entry EXCEPT !.routes = routes, !.learned = learned] \in Entries
    BY <1>1 DEF Entries
  <2>3. /\ [entry EXCEPT !.routes = routes, !.learned = learned].routes = routes
        /\ [entry EXCEPT !.routes = routes, !.learned = learned].learned = learned
        /\ [entry EXCEPT !.routes = routes, !.learned = learned].enabled = entry.enabled
        /\ [entry EXCEPT !.routes = routes, !.learned = learned].verdict = entry.verdict
    BY <1>1 DEF Entries
  <2> QED
    BY <1>2, <2>1, <2>2, <2>3 DEF Whole, Listed
<1>3. CASE Places(routes) # Places(entry.routes)
  <2>1. NoVerdict \in Verdicts /\ NoVerdict.by = "nobody"
    BY Constants DEF NoVerdict
  <2>2. WithRoutes(routes, learned) = Entry(routes, learned, entry.enabled, NoVerdict)
    BY <1>3 DEF WithRoutes
  <2>3. Entry(routes, learned, entry.enabled, NoVerdict) \in Entries
    BY <1>1, <2>1 DEF Entry, Entries
  <2> QED
    BY <2>1, <2>2, <2>3 DEF Entry, Whole, Listed
<1> QED
  BY <1>2, <1>3

LEMMA EntryWhole == ASSUME StateOK, entry # NoEntry PROVE Whole(entry)
BY DEF StateOK, EntryOK

LEMMA ChosenSavable ==
  ASSUME Types, NEW t \in Callers
  PROVE  /\ entry.routes \in SUBSET AllRoutes /\ entry.learned \in SUBSET LearnedRoutes
         /\ entry \in Entries /\ task[t].request.reported \in SUBSET Addresses
         /\ task[t].request.flag \in BOOLEAN /\ task[t].request.verdict \in Verdicts
BY DEF Types, Tasks, Requests, Entries

LEMMA RemoveWell ==
  ASSUME Types, StateOK, NEW t \in Callers, Consistent(entry), BeginRemove(t)
  PROVE  BegunWell(t)
<1>1. CASE Refuses(t)
  BY <1>1, RefusesWell
<1>2. CASE UserOwned /\ Begins(t, Removal, NoEntry)
  <2>1. Begins(t, Then("forget", WithErase), NoEntry)
    BY <1>2, RemovalPlan
  <2>2. Then("forget", WithErase) \in Seq(PlanSteps) /\ NoEntry \in Entries
    BY WritePlans, Constants
  <2> QED
    BY <1>2, <2>1, <2>2, RemovalBegun DEF BegunWell, BeginRemove, UserOwned, RemoveOps
<1> QED
  BY <1>1, <1>2 DEF BeginRemove

\* A route that goes takes the environment along when it is the last.
LEMMA LeavesWell ==
  ASSUME Types, StateOK, NEW t \in Callers, Consistent(entry), UserOwned,
         Op(t) \in {"removeRoute", "removeLearned"},
         NEW routes \in SUBSET AllRoutes, NEW learned \in SUBSET LearnedRoutes,
         Leaves(t, routes, learned)
  PROVE  BegunWell(t)
<1>0. Op(t) \in ReplaceOps /\ Op(t) \in RemoveOps
  BY DEF ReplaceOps, RemoveOps
<1>1. CASE routes \cup learned = {}
  <2>1. Begins(t, Then("forget", WithErase), NoEntry)
    BY <1>1, RemovalPlan DEF Leaves
  <2>2. Then("forget", WithErase) \in Seq(PlanSteps) /\ NoEntry \in Entries
    BY WritePlans, Constants
  <2> QED
    BY <1>0, <2>1, <2>2, RemovalBegun DEF BegunWell, UserOwned
<1>2. CASE routes \cup learned # {}
  <2>1. Begins(t, Replacement(routes), WithRoutes(routes, learned))
    BY <1>2 DEF Leaves
  <2>2. Whole(entry)
    BY EntryWhole DEF UserOwned
  <2>3. /\ WithRoutes(routes, learned) \in Entries /\ Whole(WithRoutes(routes, learned))
        /\ WithRoutes(routes, learned).enabled = entry.enabled
    BY <1>2, <2>2, RoutesWhole
  <2>4. ~platform /\ entry # NoEntry
    BY DEF UserOwned
  <2> QED
    BY <1>0, <2>1, <2>3, <2>4, ReplacementPlan, ReplacesWell
<1> QED
  BY <1>1, <1>2

LEMMA RemoveRouteWell ==
  ASSUME Types, StateOK, NEW t \in Callers, Consistent(entry), BeginRemoveRoute(t)
  PROVE  BegunWell(t)
<1> DEFINE routes == {r \in entry.routes : r.id # Chosen(t).id}
           learned == LearnedWithout(Chosen(t))
<1>1. CASE Refuses(t)
  BY <1>1, RefusesWell
<1>2. CASE UserOwned /\ Leaves(t, routes, learned)
  <2>1. routes \in SUBSET AllRoutes /\ learned \in SUBSET LearnedRoutes
    BY ChosenSavable DEF LearnedWithout
  <2>2. Op(t) = "removeRoute"
    BY DEF BeginRemoveRoute
  <2> HIDE DEF routes, learned
  <2> QED
    BY <1>2, <2>1, <2>2, LeavesWell
<1> QED
  BY <1>1, <1>2 DEF BeginRemoveRoute

LEMMA RegisterWell ==
  ASSUME Types, StateOK, NEW t \in Callers, Consistent(entry), BeginRegister(t),
         Chosen(t) \in SavableRoutes
  PROVE  BegunWell(t)
<1> DEFINE routes == {r \in entry.routes : ~GivesWay(r, Chosen(t))} \cup {Chosen(t)}
           learned == {l \in entry.learned : l.at # Chosen(t).at}
           first == Entry({Chosen(t)}, {}, TRUE, NoVerdict)
<1>0. Op(t) = "register" /\ Op(t) \in ReplaceOps /\ Chosen(t) \in AllRoutes
  BY RoutesTyped DEF BeginRegister, ReplaceOps
<1>1. CASE Refuses(t)
  BY <1>1, RefusesWell
<1>2. CASE ~platform /\ entry = NoEntry /\ Begins(t, <<"write">> \o Reinstall, first)
  <2>1. first \in Entries /\ Whole(first) /\ first.enabled
    BY <1>0, Constants DEF Entry, Entries, Whole, NoVerdict, Listed
  <2>2. Begins(t, WithWrite, first)
    BY <1>2 DEF WithWrite, Then
  <2> HIDE DEF first
  <2> QED
    BY <1>0, <1>2, <2>1, <2>2, ReplacesWell
<1>3. CASE UserOwned /\ Begins(t, Replacement(routes), WithRoutes(routes, learned))
  <2>1. Whole(entry)
    BY <1>3, EntryWhole DEF UserOwned
  <2>2. /\ routes \in SUBSET AllRoutes /\ learned \in SUBSET LearnedRoutes
        /\ routes \cup learned # {}
    BY <1>0, ChosenSavable
  <2> HIDE DEF routes, learned
  <2>4. /\ WithRoutes(routes, learned) \in Entries /\ Whole(WithRoutes(routes, learned))
        /\ WithRoutes(routes, learned).enabled = entry.enabled
    BY <2>1, <2>2, RoutesWhole
  <2>5. ~platform /\ entry # NoEntry
    BY <1>3 DEF UserOwned
  <2> QED
    BY <1>0, <1>3, <2>4, <2>5, ReplacementPlan, ReplacesWell
<1> QED
  BY <1>1, <1>2, <1>3 DEF BeginRegister

LEMMA RemoveLearnedWell ==
  ASSUME Types, StateOK, NEW t \in Callers, Consistent(entry), BeginRemoveLearned(t)
  PROVE  BegunWell(t)
<1> DEFINE learned == entry.learned \ {Chosen(t)}
<1>1. CASE Refuses(t)
  BY <1>1, RefusesWell
<1>2. CASE UserOwned /\ Leaves(t, entry.routes, learned)
  <2>1. entry.routes \in SUBSET AllRoutes /\ learned \in SUBSET LearnedRoutes
    BY ChosenSavable
  <2>2. Op(t) = "removeLearned"
    BY DEF BeginRemoveLearned
  <2> HIDE DEF learned
  <2> QED
    BY <1>2, <2>1, <2>2, LeavesWell
<1> QED
  BY <1>1, <1>2 DEF BeginRemoveLearned

LEMMA ReorderWell ==
  ASSUME Types, StateOK, NEW t \in Callers, Consistent(entry), BeginReorder(t)
  PROVE  BegunWell(t)
<1>1. CASE Refuses(t)
  BY <1>1, RefusesWell
<1>2. CASE UserOwned /\ Begins(t, Replacement(entry.routes), entry)
  <2>1. Whole(entry) /\ entry \in Entries
    BY <1>2, EntryWhole DEF UserOwned, Types
  <2>2. Op(t) \in ReplaceOps
    BY DEF BeginReorder, ReplaceOps
  <2> QED
    BY <1>2, <2>1, <2>2, ReplacementPlan, ReplacesWell DEF UserOwned
<1> QED
  BY <1>1, <1>2 DEF BeginReorder

LEMMA SetEnabledWell ==
  ASSUME Types, StateOK, NEW t \in Callers, Consistent(entry), BeginSetEnabled(t)
  PROVE  BegunWell(t)
<1> DEFINE flag == task[t].request.flag
           next == [entry EXCEPT !.enabled = flag]
           plan == Steps(~platform, <<"write">>) \o <<"update">>
<1>1. CASE Refuses(t)
  BY <1>1, RefusesWell
<1>2. CASE entry # NoEntry /\ Begins(t, plan, next)
  <2>1. Whole(entry)
    BY <1>2, EntryWhole
  <2>2. /\ next \in Entries /\ Whole(next) /\ next.routes = entry.routes
        /\ next.enabled = flag /\ next.learned = entry.learned
    BY <2>1, ChosenSavable DEF Entries, Whole, Listed
  <2>3. Op(t) = "setEnabled" /\ Op(t) \in UpdateOps /\ Intended(t) = flag
    BY DEF BeginSetEnabled, UpdateOps, Intended
  <2>4. plan = IF platform THEN <<"update">> ELSE Then("write", <<"update">>)
    <3>1. <<"update">> \in Seq(PlanSteps)
      BY ShortPlans DEF PlanSteps
    <3> QED
      BY <3>1, ConcatEmptySeq DEF Steps, Then
  <2>5. <<"update">> \in Seq(PlanSteps) /\ Then("write", <<"update">>) \in Seq(PlanSteps)
    BY ShortPlans, ThenLeads DEF PlanSteps
  <2> HIDE DEF next, plan, flag
  <2>6. Work(t)'
    BY <1>2, <2>1, <2>2, <2>3, <2>4, UpdateBegun
  <2> QED
    BY <1>2, <2>2, <2>4, <2>5, <2>6 DEF BegunWell
<1> QED
  BY <1>1, <1>2 DEF BeginSetEnabled

\* A verdict of the socket is about the routes of the entry.
LEMMA SocketFits ==
  ASSUME LockInv, WorkersHold, Types, StateOK, NEW t \in Callers, Looking(t),
         Op(t) = "setCompatibility", task[t].request.verdict.by = "socket"
  PROVE  task[t].request.verdict.over = Places(entry.routes)
<1>1. Active(t)
  BY DEF Looking, Active
<1>2. t \in FiberSet
  BY <1>1 DEF StateOK, OthersOK
<1>3. PICK s \in Supervisors : t = Learner(s) \/ t = Watcher(s)
  BY <1>2, Distinct
<1>4. t = Watcher(s)
  BY <1>1, <1>3 DEF StateOK, FibersOK
<1>5. sup[s].status # "none" /\ task[t].request.verdict = Verdict("socket", Places(sup[s].routes))
  BY <1>1, <1>4 DEF StateOK, FibersOK
<1>6. sup[s].routes = entry.routes
  BY <1>5, FiberFits DEF Looking
<1> QED
  BY <1>5, <1>6 DEF Verdict

LEMMA SetCompatibilityWell ==
  ASSUME LockInv, WorkersHold, Types, StateOK, NEW t \in Callers, Consistent(entry), Looking(t),
         BeginSetCompatibility(t)
  PROVE  BegunWell(t)
<1> DEFINE verdict == task[t].request.verdict
           rejects == verdict # NoVerdict
           next == Entry(entry.routes, entry.learned, entry.enabled /\ ~rejects, verdict)
           plan == Steps(rejects /\ entry.enabled /\ ~platform, <<"write">>) \o <<"update">>
<1>0. Op(t) = "setCompatibility"
  BY DEF BeginSetCompatibility
<1>1. CASE Refuses(t)
  BY <1>1, RefusesWell
<1>2. CASE entry # NoEntry /\ Begins(t, plan, next)
  <2>1. Whole(entry)
    BY <1>2, EntryWhole
  <2>2. next \in Entries
    BY ChosenSavable DEF Entry, Entries
  <2>3. /\ next.routes = entry.routes /\ next.learned = entry.learned
        /\ next.enabled = (entry.enabled /\ ~rejects) /\ next.verdict = verdict
    BY DEF Entry
  <2>4. verdict.by = "socket" => verdict.over = Places(entry.routes)
    BY <1>0, SocketFits
  <2>5. Whole(next)
    <3> HIDE DEF next, verdict
    <3> QED
      BY <2>1, <2>3, <2>4 DEF Whole, Listed
  <2>6. Op(t) \in UpdateOps /\ Intended(t) = (entry.enabled /\ ~rejects)
    <3>1. entry.enabled \in BOOLEAN
      BY ChosenSavable DEF Entries
    <3> QED
      BY <1>0, <3>1 DEF UpdateOps, Intended
  <2>7. <<"update">> \in Seq(PlanSteps) /\ Then("write", <<"update">>) \in Seq(PlanSteps)
    BY ShortPlans, ThenLeads DEF PlanSteps
  <2>8. plan = IF rejects /\ entry.enabled /\ ~platform
               THEN Then("write", <<"update">>) ELSE <<"update">>
    BY <2>7, ConcatEmptySeq DEF Steps, Then
  <2>9. \/ plan = Then("write", <<"update">>) /\ ~platform
        \/ plan = <<"update">> /\ (platform \/ next.enabled = entry.enabled)
    <3>1. entry.enabled \in BOOLEAN
      BY ChosenSavable DEF Entries
    <3> HIDE DEF plan, next, rejects
    <3>2. CASE rejects /\ entry.enabled /\ ~platform
      BY <2>8, <3>2
    <3>3. CASE ~(rejects /\ entry.enabled /\ ~platform)
      BY <2>3, <2>8, <3>1, <3>3
    <3> QED
      BY <3>2, <3>3
  <2> HIDE DEF next, plan, rejects, verdict
  <2>10. next.enabled = Intended(t) /\ Op(t) # "learnRoutes"
    BY <1>0, <2>3, <2>6
  <2>11. Work(t)'
    BY <1>2, <2>3, <2>5, <2>6, <2>9, <2>10, UpdateBegun
  <2> QED
    BY <1>2, <2>2, <2>7, <2>9, <2>11 DEF BegunWell
<1> QED
  BY <1>1, <1>2 DEF BeginSetCompatibility

\* What a report leaves learned was learned before, or is borrowed from the owner.
LEMMA MergedRoutes ==
  ASSUME NEW reported \in SUBSET Addresses, NEW owner \in Ids(AllRoutes),
         entry.learned \in SUBSET LearnedRoutes
  PROVE  /\ Merged(reported, owner) \in SUBSET LearnedRoutes
         /\ Ids(Merged(reported, owner)) \subseteq Ids(entry.learned) \cup {owner}
<1>1. ASSUME NEW at \in Addresses
      PROVE  Route(owner, at) \in LearnedRoutes /\ Route(owner, at).id = owner
  BY DEF Route, LearnedRoutes
<1>2. ASSUME NEW l \in Merged(reported, owner)
      PROVE  l \in entry.learned \/ \E at \in reported : l = Route(owner, at)
  BY DEF Merged
<1> QED
  BY <1>1, <1>2 DEF Ids

LEMMA LearnRoutesWell ==
  ASSUME LockInv, WorkersHold, Types, StateOK, NEW t \in Callers, Consistent(entry), Looking(t),
         BeginLearnRoutes(t)
  PROVE  BegunWell(t)
<1> DEFINE learned == Merged(task[t].request.reported, Owner(t))
           next == [entry EXCEPT !.learned = learned]
<1>0. Op(t) = "learnRoutes"
  BY DEF BeginLearnRoutes
<1>1. CASE Refuses(t)
  BY <1>1, RefusesWell
<1>2. CASE /\ UserOwned /\ entry.routes \cup learned # {}
           /\ Begins(t, <<"write", "update">>, next)
  <2>1. Whole(entry)
    BY <1>2, EntryWhole DEF UserOwned
  <2>2. Owner(t) \in Ids(AllRoutes)
    <3>1. Active(t)
      BY DEF Looking, Active
    <3>2. t \in FiberSet
      BY <1>0, <3>1 DEF StateOK, OthersOK
    <3>3. PICK s \in Supervisors : t = Learner(s) \/ t = Watcher(s)
      BY <3>2, Distinct
    <3>4. Owner(t) \in sup[s].owners
      BY <1>0, <3>1, <3>3 DEF StateOK, FibersOK
    <3>5. sup[s].owners \subseteq Ids(AllRoutes)
      BY DEF Types, SupervisorStates
    <3> QED
      BY <3>4, <3>5
  <2>3. learned \in SUBSET LearnedRoutes
    BY <2>2, ChosenSavable, MergedRoutes
  <2> HIDE DEF learned
  <2>4. /\ next \in Entries /\ Whole(next) /\ next.routes = entry.routes
        /\ next.enabled = entry.enabled
    BY <1>2, <2>1, <2>3, ChosenSavable DEF Entries, Whole, Listed
  <2>5. Op(t) \in UpdateOps /\ Intended(t) = entry.enabled
    BY <1>0 DEF UpdateOps, Intended
  <2>6. <<"write", "update">> = Then("write", <<"update">>)
        /\ <<"write", "update">> \in Seq(PlanSteps)
    BY ShortPlans DEF PlanSteps
  <2> HIDE DEF next
  <2>7. Work(t)'
    BY <1>0, <1>2, <2>4, <2>5, <2>6, UpdateBegun DEF UserOwned
  <2> QED
    BY <1>2, <2>4, <2>6, <2>7 DEF BegunWell
<1> QED
  BY <1>1, <1>2 DEF BeginLearnRoutes

LEMMA InstallWell ==
  ASSUME Types, StateOK, NEW t \in Callers, Consistent(entry), Looking(t), BeginInstall(t)
  PROVE  BegunWell(t)
<1> DEFINE f == persisted \/ (entry # NoEntry /\ Places(entry.routes) # {Loopback})
           r == ~(entry = PlatformEntry /\ Equivalent(PlatformEntry))
           plan == Steps(f, <<"forget">>) \o <<"bearer">> \o Steps(persisted, <<"unshadow">>)
                     \o Steps(r, Reinstall)
<1>1. Op(t) = "install" /\ Begins(t, plan, PlatformEntry)
  BY DEF BeginInstall
<1>2. f \in BOOLEAN /\ r \in BOOLEAN
  BY DEF Types
<1>3. plan \in Bearing \cup {Then("forget", q) : q \in Bearing}
  <2> HIDE DEF f, r
  <2> QED
    BY <1>2, InstallPlan
<1>4. plan \in Seq(PlanSteps)
  BY <1>3, InstallPlans
<1>5. PlatformEntry \in Entries /\ Whole(PlatformEntry)
  <2>1. LoopbackRoute \in AllRoutes /\ entry \in Entries /\ Places({LoopbackRoute}) = {Loopback}
    BY RoutesTyped DEF Types, Places, LoopbackRoute, Route
  <2>2. CASE entry.verdict # NoVerdict /\ Places(entry.routes) = {Loopback}
    <3>1. Whole(entry)
      BY <2>2, EntryWhole DEF NoEntry, Entry
    <3>2. PlatformEntry = Entry({LoopbackRoute}, {}, FALSE, entry.verdict)
      BY <2>2 DEF PlatformEntry
    <3>3. PlatformEntry.verdict = entry.verdict /\ PlatformEntry.routes = {LoopbackRoute}
      BY <3>2 DEF Entry
    <3>4. PlatformEntry \in Entries
      BY <2>1, <3>2 DEF Entry, Entries
    <3> QED
      BY <2>1, <2>2, <3>1, <3>3, <3>4 DEF Whole, Listed
  <2>3. CASE ~(entry.verdict # NoVerdict /\ Places(entry.routes) = {Loopback})
    <3>1. PlatformEntry = Entry({LoopbackRoute}, {}, TRUE, NoVerdict)
      BY <2>3 DEF PlatformEntry
    <3>2. NoVerdict \in Verdicts /\ NoVerdict.by # "socket"
      BY Constants DEF NoVerdict
    <3> QED
      BY <2>1, <3>1, <3>2 DEF Entry, Entries, Whole, Listed
  <2> QED
    BY <2>2, <2>3
<1>6. ~task[t].replaced
  BY DEF Looking, StateOK, BearersOK, Working
<1> HIDE DEF plan
<1>7. Work(t)'
  BY <1>1, <1>3, <1>5, <1>6, TakeBegun
<1> QED
  BY <1>1, <1>4, <1>5, <1>7 DEF BegunWell

LEMMA RemovePlatformWell ==
  ASSUME Types, StateOK, NEW t \in Callers, Consistent(entry), Looking(t), BeginRemovePlatform(t)
  PROVE  BegunWell(t)
<1> DEFINE plan == Then("forget", Close \o <<"drop", "dropBearer">>)
<1>1. Op(t) = "removePlatform" /\ Begins(t, plan, NoEntry)
  BY ReleasePlan DEF BeginRemovePlatform
<1>2. platform
  <2>1. Active(t) /\ ~Working(t)
    BY DEF Looking, Active, Working
  <2>2. t \notin FiberSet
    BY <1>1, <2>1, Distinct DEF StateOK, FibersOK
  <2> QED
    BY <1>1, <2>1, <2>2 DEF StateOK, OthersOK
<1>3. plan \in Seq(PlanSteps) /\ NoEntry \in Entries
  BY WritePlans, Constants
<1>4. Work(t)'
  BY <1>1, <1>2, ReleaseBegun
<1> QED
  BY <1>1, <1>3, <1>4 DEF BegunWell

LEMMA BeginSafe ==
  ASSUME LockInv, WorkersHold, Types, StateOK, NEW t \in Callers, Begin(t)
  PROVE  Types' /\ StateOK'
<1>1. Looking(t)
  BY BeginLooks
<1>2. Consistent(entry)
  BY <1>1, Idle DEF Looking
<1>3. BeginRegister(t) => Chosen(t) \in SavableRoutes
  <2> SUFFICES ASSUME BeginRegister(t) PROVE Chosen(t) \in SavableRoutes
    OBVIOUS
  <2>1. Active(t) /\ Op(t) = "register"
    BY <1>1 DEF Looking, Active, BeginRegister
  <2>2. t \notin FiberSet
    BY <2>1, Distinct DEF StateOK, FibersOK
  <2> QED
    BY <2>1, <2>2 DEF StateOK, OthersOK
<1>4. BegunWell(t)
  <2>1. CASE BeginAcquire(t) \/ BeginRegister(t) \/ BeginRemove(t) \/ BeginRemoveRoute(t)
    BY <1>2, <1>3, <2>1, AcquireWell, RegisterWell, RemoveWell, RemoveRouteWell
  <2>2. CASE BeginRemoveLearned(t) \/ BeginReorder(t) \/ BeginSetEnabled(t)
    BY <1>2, <2>2, RemoveLearnedWell, ReorderWell, SetEnabledWell
  <2>3. CASE BeginSetCompatibility(t) \/ BeginLearnRoutes(t)
    BY <1>1, <1>2, <2>3, SetCompatibilityWell, LearnRoutesWell
  <2>4. CASE BeginInstall(t) \/ BeginRemovePlatform(t)
    BY <1>1, <1>2, <2>4, InstallWell, RemovePlatformWell
  <2> QED
    BY <2>1, <2>2, <2>3, <2>4 DEF Begin
<1> QED
  BY <1>4, BeginsSafe DEF BegunWell

-----------------------------------------------------------------------------
(* The steps of a plan that leave the scope alone. *)

OnlyWorker(t) == Working(t) /\ \A u \in Callers \ {t} : ~Working(u)

LEMMA StepWorker ==
  ASSUME LockInv, WorkersHold, Types, NEW t \in Callers, Step(t)
  PROVE  /\ OnlyWorker(t) /\ OnlyWorker(t)' /\ OthersStay(t)
         /\ \A u \in Callers : task'[u].request = task[u].request
         /\ \A u \in Callers : task'[u].stage = task[u].stage
         /\ task'[t].next = task[t].next
<1>1. /\ OthersStay(t) /\ Working(t) /\ task'[t].stage = task[t].stage
      /\ task'[t].request = task[t].request /\ task'[t].next = task[t].next
  BY StepTask
<1>2. \A u \in Callers \ {t} : ~Working(u)
  BY <1>1, OneWorks
<1> QED
  BY <1>1, <1>2 DEF OnlyWorker, OthersStay, Working

\* The others' requests do not change, and their fibers keep their supervisors.
LEMMA StepFibers ==
  ASSUME FibersOK, \A u \in Callers : task'[u].request = task[u].request,
         \A u \in Callers : task'[u].stage = task[u].stage,
         \A s \in Supervisors :
           \/ /\ sup'[s].routes = sup[s].routes /\ sup'[s].owners = sup[s].owners
              /\ sup'[s].phase = sup[s].phase
              /\ sup'[s].via = sup[s].via /\ (sup'[s].status = "none" => sup[s].status = "none")
           \/ ~Active(Learner(s)) /\ ~Active(Watcher(s)) /\ sup'[s].phase = "available"
  PROVE  FibersOK'
<1> SUFFICES ASSUME NEW s \in Supervisors
             PROVE  /\ Active(Learner(s))' =>
                         /\ sup'[s].status # "none" /\ Op(Learner(s))' = "learnRoutes"
                         /\ Owner(Learner(s))' \in sup'[s].owners
                    /\ Active(Watcher(s))' =>
                         /\ sup'[s].status # "none" /\ Op(Watcher(s))' = "setCompatibility"
                         /\ task'[Watcher(s)].request.verdict = Verdict("socket", Places(sup'[s].routes))
                    /\ sup'[s].phase = "connected" => sup'[s].via \in sup'[s].owners
  BY DEF FibersOK
<1>1. /\ task'[Learner(s)].request = task[Learner(s)].request
      /\ task'[Watcher(s)].request = task[Watcher(s)].request
      /\ Active(Learner(s))' <=> Active(Learner(s))
      /\ Active(Watcher(s))' <=> Active(Watcher(s))
  BY FibersAreCallers DEF Active
<1>2. CASE /\ sup'[s].routes = sup[s].routes /\ sup'[s].owners = sup[s].owners
           /\ sup'[s].phase = sup[s].phase
           /\ sup'[s].via = sup[s].via /\ (sup'[s].status = "none" => sup[s].status = "none")
  BY <1>1, <1>2 DEF FibersOK, Op, Chosen, Owner
<1>3. CASE ~Active(Learner(s)) /\ ~Active(Watcher(s)) /\ sup'[s].phase = "available"
  BY <1>1, <1>3
<1> QED
  BY <1>2, <1>3

LEMMA StepOthers ==
  ASSUME Types, OthersOK, FibersOK, NEW t \in Callers,
         \A u \in Callers : task'[u].request = task[u].request,
         \A u \in Callers : task'[u].stage = task[u].stage,
         platform => platform' \/ (Op(t) = "removePlatform" /\ Working(t))
  PROVE  OthersOK'
<1> SUFFICES ASSUME NEW u \in Callers \ FiberSet, Active(u)'
             PROVE  /\ Op(u)' # "learnRoutes" /\ task'[u].request.verdict.by # "socket"
                    /\ Op(u)' = "register" => Chosen(u)' \in SavableRoutes
                    /\ Op(u)' = "removePlatform" => u = Platform
                    /\ Op(u)' = "removePlatform" /\ ~Working(u)' => platform'
  BY DEF OthersOK, FiberSet, Fibers
<1>1. /\ Op(u)' = Op(u) /\ Chosen(u)' = Chosen(u) /\ Active(u)
      /\ task'[u].request.verdict = task[u].request.verdict
      /\ Working(u)' <=> Working(u)
  BY DEF Op, Chosen, Owner, Active, Working
<1>2. Op(t) = "removePlatform" /\ Working(t) => t = Platform
  <2> SUFFICES ASSUME Op(t) = "removePlatform", Working(t) PROVE t = Platform
    OBVIOUS
  <2>1. Active(t)
    BY DEF Active, Working
  <2>2. t \notin FiberSet
    BY <2>1, Distinct DEF FibersOK
  <2> QED
    BY <2>1, <2>2 DEF OthersOK
<1> QED
  BY <1>1, <1>2 DEF OthersOK

LEMMA StepWork ==
  ASSUME NEW t \in Callers, OnlyWorker(t)', Work(t)'
  PROVE  WorkOK'
BY DEF OnlyWorker, WorkOK, Unlocked, Working

\* Only a worker whose next step puts something in the scope's place waits for it.
LEMMA NoClosing ==
  ASSUME StateOK, NEW t \in Callers, OnlyWorker(t), task[t].plan # <<>>,
         Head(task[t].plan) \notin {"install", "drop"}
  PROVE  \A s \in Supervisors : ~Closing(s)
<1>1. task[t].plan \notin ClosingPlans
  BY FixedPlans DEF ClosingPlans, Leads
<1> QED
  BY <1>1 DEF StateOK, LeaseOK, OnlyWorker

LEMMA StepLease ==
  ASSUME LeaseOK, \A s \in Supervisors : ~Closing(s), UNCHANGED <<entry, lease, sup>>
  PROVE  LeaseOK'
BY DEF LeaseOK, Closing

LEMMA StepBearers ==
  ASSUME BearersOK, NEW t \in Callers, OnlyWorker(t), OnlyWorker(t)', OthersStay(t),
         task'[t].replaced = task[t].replaced, task'[t].request = task[t].request,
         UNCHANGED <<bearer, sup>>, unsettled \subseteq unsettled'
  PROVE  BearersOK'
<1>1. \A u \in Callers : Renews(u) => Renews(u)'
  BY DEF OnlyWorker, OthersStay, Renews, Op, Working
<1>2. \A u \in Callers : ~Working(u)' => ~task'[u].replaced
  BY DEF BearersOK, OnlyWorker, OthersStay, Working
<1> QED
  BY <1>1, <1>2 DEF BearersOK

\* What the store and plan steps have in common.
LEMMA PlanStepSafe ==
  ASSUME LockInv, WorkersHold, Types, StateOK, NEW t \in Callers, Step(t),
         Done(t) \/ Fails(t), Work(t)', EntryOK', task[t].plan # <<>>,
         Head(task[t].plan) \notin {"install", "drop"},
         UNCHANGED <<entry, lease, bearer, sup>>, unsettled \subseteq unsettled',
         platform' \in BOOLEAN, persisted' \in BOOLEAN, saved' \in Records,
         unsettled' \subseteq {"bearer", "shadow", "learned"},
         platform => platform' \/ Op(t) = "removePlatform"
  PROVE  Types' /\ StateOK'
<1>1. /\ OnlyWorker(t) /\ OnlyWorker(t)' /\ OthersStay(t)
      /\ \A u \in Callers : task'[u].request = task[u].request
      /\ \A u \in Callers : task'[u].stage = task[u].stage
      /\ Working(t)
  BY StepWorker DEF OnlyWorker
<1>2. task'[t].replaced = task[t].replaced /\ task'[t].request = task[t].request
  BY DoneTask, FailsTask
<1>3. \A s \in Supervisors : ~Closing(s)
  BY <1>1, NoClosing
<1>4. FibersOK'
  BY <1>1, StepFibers DEF StateOK
<1>5. OthersOK'
  BY <1>1, StepOthers DEF StateOK
<1>6. LeaseOK'
  BY <1>3, StepLease DEF StateOK
<1>7. WorkOK'
  BY <1>1, StepWork
<1>8. BearersOK'
  BY <1>1, <1>2, StepBearers DEF StateOK
<1>9. task' \in [Callers -> Tasks]
  BY DoneTyped
<1> QED
  BY <1>4, <1>5, <1>6, <1>7, <1>8, <1>9 DEF StateOK, Types

LEMMA NextFacts ==
  ASSUME Types, NEW t \in Callers, Done(t) \/ Fails(t)
  PROVE  /\ Op(t)' = Op(t) /\ task'[t].next = task[t].next /\ task'[t].replaced = task[t].replaced
         /\ task'[t].request = task[t].request
         /\ Done(t) => \A x, q : Leads(task[t].plan, x, q) => task'[t].plan = q
         /\ Fails(t) => task'[t].plan = <<>>
BY DoneTask, FailsTask DEF Op, Leads

LEMMA EndsAfterFault ==
  ASSUME Types, NEW t \in Callers, Fails(t), Consistent(entry),
         UNCHANGED <<entry, platform, saved, persisted, unsettled>>
  PROVE  Work(t)'
BY NextFacts, ConsistentStays DEF Ends, Work

LEMMA ForgetWork ==
  ASSUME Types, NEW t \in Callers, Working(t), Work(t), Forget(t)
  PROVE  Work(t)'
<1>1. /\ UNCHANGED <<entry, lease, persisted, saved, unsettled>>
      /\ Close' = Close /\ WithWrite' = WithWrite /\ WithErase' = WithErase /\ Bearing' = Bearing
  BY PlansStay DEF Forget, storeVars
<1>2. task[t].plan # <<>> /\ Head(task[t].plan) = "forget"
  BY DEF Forget, Due
<1>3. Consistent(entry)
  BY <1>2, WorkLeads DEF Leading, Leads, Replaces, Erases, Takes
<1>4. CASE Fails(t) /\ UNCHANGED platform
  BY <1>1, <1>3, <1>4, EndsAfterFault
<1>5. CASE Done(t) /\ platform' = (platform /\ Op(t) # "removePlatform")
  <2>1. /\ Op(t)' = Op(t) /\ task'[t].next = task[t].next /\ task'[t].replaced = task[t].replaced
        /\ \A x, q : Leads(task[t].plan, x, q) => task'[t].plan = q
    BY <1>5, NextFacts
  <2>2. Op(t) # "removePlatform" => platform' = platform /\ Consistent(entry)'
    BY <1>1, <1>3, <1>5, ConsistentStays DEF Types
  <2>3. CASE Replaces(t) /\ Leads(task[t].plan, "forget", WithWrite)
    <3>1. task'[t].plan = WithWrite'
      BY <1>1, <2>1, <2>3
    <3>2. Op(t) # "removePlatform"
      BY <2>3 DEF Replaces, ReplaceOps
    <3> QED
      BY <1>1, <2>1, <2>2, <2>3, <3>1, <3>2 DEF Replaces, Work, Whole
  <2>4. CASE Erases(t) /\ Leads(task[t].plan, "forget", WithErase)
    <3>1. task'[t].plan = WithErase'
      BY <1>1, <2>1, <2>4
    <3>2. Op(t) # "removePlatform"
      BY <2>4 DEF Erases, RemoveOps
    <3> QED
      BY <2>1, <2>2, <2>4, <3>1, <3>2 DEF Erases, Work
  <2>5. CASE Takes(t) /\ \E q \in Bearing : Leads(task[t].plan, "forget", q)
    <3>1. task'[t].plan \in Bearing'
      BY <1>1, <2>1, <2>5
    <3>2. Op(t) # "removePlatform"
      BY <2>5 DEF Takes
    <3>3. Takes(t)'
      BY <2>1, <2>2, <2>5, <3>1, <3>2 DEF Takes, Whole
    <3> QED
      BY <3>3 DEF Work
  <2>6. CASE /\ Releases(t) /\ platform /\ Consistent(entry)
             /\ Leads(task[t].plan, "forget", Close \o <<"drop", "dropBearer">>)
    <3>1. task'[t].plan = (Close \o <<"drop", "dropBearer">>)'
      BY <1>1, <2>1, <2>6
    <3>2. Op(t)' = "removePlatform" /\ ~platform'
      BY <1>5, <2>1, <2>6 DEF Releases
    <3>3. Consistent(NoEntry)'
      <4>1. CASE "shadow" \in unsettled
        BY <1>1, <4>1 DEF Consistent
      <4>2. CASE "shadow" \notin unsettled
        <5>1. saved = Saved(NoEntry) /\ persisted = FALSE
          BY <2>6, <4>2 DEF Consistent, Types
        <5>2. Saved(NoEntry).routes = NoEntry.routes /\ Saved(NoEntry).enabled = NoEntry.enabled
              /\ Saved(NoEntry).learned = NoEntry.learned /\ Listed(Saved(NoEntry)) = {}
          BY DEF Saved, NoEntry, Entry, Listed
        <5> QED
          BY <1>1, <3>2, <5>1, <5>2 DEF Consistent
      <4> QED
        BY <4>1, <4>2
    <3> QED
      BY <3>1, <3>2, <3>3 DEF Releases, Work
  <2> QED
    BY <1>2, <2>3, <2>4, <2>5, <2>6, WorkLeads DEF Leading, Leads
<1> QED
  BY <1>4, <1>5 DEF Forget

LEMMA ForgetSafe ==
  ASSUME LockInv, WorkersHold, Types, StateOK, NEW t \in Callers, Step(t), Forget(t)
  PROVE  Types' /\ StateOK'
<1>1. Working(t) /\ Work(t)
  BY DEF Forget, Due, Working, StateOK, WorkOK
<1>2. Work(t)'
  BY <1>1, ForgetWork
<1>3. /\ Done(t) \/ Fails(t)
      /\ UNCHANGED <<entry, lease, persisted, saved, bearer, sup, unsettled>>
  BY DEF Forget, storeVars
<1>6. platform' = platform \/ platform' = (platform /\ Op(t) # "removePlatform")
  BY DEF Forget
<1>7. platform' \in BOOLEAN /\ (platform => platform' \/ Op(t) = "removePlatform")
  BY <1>6 DEF Types
<1>4. task[t].plan # <<>> /\ Head(task[t].plan) = "forget"
  BY DEF Forget, Due
<1>5. EntryOK'
  BY <1>3 DEF StateOK, EntryOK, Whole
<1> QED
  BY <1>2, <1>3, <1>4, <1>5, <1>7, PlanStepSafe DEF Types

\* What is written is what the plan will make of the entry.
LEMMA WriteReplaces ==
  ASSUME Types, EntryOK, NEW t \in Callers, Replaces(t), Leads(task[t].plan, "write", Reinstall),
         Done(t), saved' = Written(t), persisted' = (persisted \/ Op(t) = "register"),
         UNCHANGED <<entry, lease, platform, unsettled>>
  PROVE  Work(t)' /\ EntryOK'
<1>1. /\ Op(t)' = Op(t) /\ task'[t].next = task[t].next /\ task'[t].plan = Reinstall
  BY NextFacts
<1>2. /\ Op(t) \in ReplaceOps /\ ~platform /\ Whole(task[t].next) /\ Consistent(entry)
      /\ IF entry = NoEntry THEN Op(t) = "register" /\ task[t].next.enabled
         ELSE task[t].next.enabled = entry.enabled
  BY DEF Replaces
<1>3. Reinstall' = Reinstall
  BY DEF Reinstall, Close
<1>4. saved \in Records /\ task[t].next \in Entries /\ entry \in Entries
  BY DEF Types, Tasks
<1>5. saved'.routes = task[t].next.routes /\ saved'.learned = task[t].next.learned
      /\ saved'.enabled = IF Op(t) = "register" /\ Listed(saved) = {} THEN task[t].next.enabled
                          ELSE saved.enabled
  <2>1. Op(t) \notin {"setEnabled", "setCompatibility"}
    BY <1>2 DEF ReplaceOps
  <2>2. CASE Op(t) = "register" /\ Listed(saved) = {}
    BY <2>1, <2>2 DEF Written, Saved
  <2>3. CASE ~(Op(t) = "register" /\ Listed(saved) = {})
    <3>1. saved' = [saved EXCEPT !.routes = task[t].next.routes, !.learned = task[t].next.learned]
      BY <2>1, <2>3 DEF Written
    <3> QED
      BY <1>4, <2>3, <3>1 DEF Records
  <2> QED
    BY <2>2, <2>3
<1>6. task[t].next # NoEntry /\ Listed(saved)' # {}
  <2>1. Listed(saved') = Listed(task[t].next)
    BY <1>5 DEF Listed
  <2> QED
    BY <1>2, <2>1, WholeSome
<1>7. CASE "shadow" \in unsettled
  <2>1. Consistent(task[t].next)'
    BY <1>7 DEF Consistent
  <2>2. Builds(t)'
    BY <1>1, <1>2, <1>3, <2>1 DEF Builds, ReplaceOps, UpdateOps
  <2> QED
    BY <1>2, <1>5, <2>2 DEF Work, EntryOK
<1>8. CASE "shadow" \notin unsettled
  <2>1. /\ saved.routes = entry.routes /\ saved.enabled = entry.enabled
        /\ persisted = (entry # NoEntry) /\ persisted = (Listed(saved) # {})
    BY <1>2, <1>8 DEF Consistent
  <2>2. CASE entry = NoEntry
    <3>1. Op(t) = "register" /\ Listed(saved) = {}
      BY <1>2, <2>1, <2>2
    <3>2. persisted' = TRUE /\ saved'.enabled = task[t].next.enabled
      BY <1>5, <3>1 DEF Types
    <3>3. Consistent(task[t].next)'
      BY <1>1, <1>2, <1>5, <1>6, <3>2 DEF Consistent
    <3>4. Builds(t)'
      BY <1>1, <1>2, <1>3, <3>3 DEF Builds, ReplaceOps, UpdateOps
    <3> QED
      BY <1>2, <1>5, <3>4 DEF Work, EntryOK
  <2>3. CASE entry # NoEntry
    <3>1. Listed(saved) # {}
      BY <2>1, <2>3
    <3>2. persisted' = TRUE /\ saved'.enabled = task[t].next.enabled
      BY <1>2, <1>5, <2>1, <2>3, <3>1 DEF Types
    <3>3. Consistent(task[t].next)'
      BY <1>1, <1>2, <1>5, <1>6, <3>2 DEF Consistent
    <3>4. Builds(t)'
      BY <1>1, <1>2, <1>3, <3>3 DEF Builds, ReplaceOps, UpdateOps
    <3> QED
      BY <1>2, <1>5, <3>4 DEF Work, EntryOK
  <2> QED
    BY <2>2, <2>3
<1> QED
  BY <1>7, <1>8

LEMMA WriteUpdates ==
  ASSUME Types, EntryOK, NEW t \in Callers, Updates(t), Leads(task[t].plan, "write", <<"update">>),
         ~platform, Consistent(entry),
         Done(t), saved' = Written(t), persisted' = (persisted \/ Op(t) = "register"),
         UNCHANGED <<entry, lease, platform, unsettled>>
  PROVE  Work(t)' /\ EntryOK'
<1>1. /\ Op(t)' = Op(t) /\ task'[t].next = task[t].next /\ task'[t].plan = <<"update">>
      /\ Intended(t)' = Intended(t)
  BY NextFacts DEF Intended, Op
<1>2. /\ Op(t) \in UpdateOps /\ entry # NoEntry /\ Whole(task[t].next)
      /\ task[t].next.routes = entry.routes /\ task[t].next.enabled = Intended(t)
      /\ Op(t) # "learnRoutes" => task[t].next.learned = entry.learned
  BY DEF Updates
<1>3. saved \in Records /\ task[t].next \in Entries /\ entry \in Entries
  BY DEF Types, Tasks
<1>4. persisted' = persisted
  BY <1>2 DEF UpdateOps, Types
<1>5. CASE Op(t) = "learnRoutes"
  <2>1. saved' = [saved EXCEPT !.routes = task[t].next.routes, !.learned = task[t].next.learned]
    BY <1>5 DEF Written
  <2>2. /\ saved'.routes = task[t].next.routes /\ saved'.learned = task[t].next.learned
        /\ saved'.enabled = saved.enabled
    BY <1>3, <2>1 DEF Records
  <2>3. task[t].next.enabled = entry.enabled
    BY <1>2, <1>5 DEF Intended
  <2>4. /\ task[t].next # NoEntry /\ Listed(saved') # {}
        /\ "shadow" \in unsettled \/ persisted = TRUE
    <3>1. Listed(saved') = Listed(task[t].next)
      BY <2>2 DEF Listed
    <3> QED
      BY <1>2, <3>1, WholeSome DEF Consistent, Whole
  <2>5. Consistent(task[t].next)'
    BY <1>1, <1>2, <1>4, <2>2, <2>3, <2>4 DEF Consistent
  <2>6. Updates(t)'
    BY <1>1, <1>2, <1>5, <2>5 DEF Updates
  <2> QED
    BY <1>2, <2>2, <2>6 DEF Work, EntryOK
<1>6. CASE Op(t) \in {"setEnabled", "setCompatibility"}
  <2>1. saved' = IF Listed(saved) = {} THEN saved ELSE [saved EXCEPT !.enabled = task[t].next.enabled]
    BY <1>6 DEF Written
  <2>2. /\ saved'.routes = saved.routes /\ saved'.learned = saved.learned
        /\ Listed(saved) # {} => saved'.enabled = task[t].next.enabled
    BY <1>3, <2>1 DEF Records
  <2>4. task[t].next # NoEntry
    BY <1>2, WholeSome
  <2>5. Consistent(task[t].next)'
    <3>1. CASE "shadow" \in unsettled
      BY <3>1 DEF Consistent
    <3>2. CASE "shadow" \notin unsettled
      <4>1. /\ saved.routes = entry.routes /\ persisted = TRUE /\ Listed(saved) # {}
            /\ "learned" \in unsettled \/ saved.learned = entry.learned
        BY <1>2, <3>2 DEF Consistent, Types
      <4>2. saved'.routes = task[t].next.routes /\ saved'.enabled = task[t].next.enabled
            /\ persisted' = TRUE /\ ~platform' /\ Listed(saved') # {}
        BY <1>2, <1>4, <2>2, <2>4, <4>1 DEF Listed
      <4>3. "learned" \in unsettled' \/ saved'.learned = task[t].next.learned
        BY <1>2, <1>6, <2>2, <4>1
      <4>4. task'[t].next = task[t].next /\ (task[t].next # NoEntry) = TRUE
        BY <1>1, <2>4
      <4> QED
        BY <4>2, <4>3, <4>4 DEF Consistent
    <3> QED
      BY <3>1, <3>2
  <2>6. Updates(t)'
    BY <1>1, <1>2, <1>6, <2>5 DEF Updates
  <2>7. EntryOK'
    BY <2>2 DEF EntryOK
  <2> QED
    BY <2>6, <2>7 DEF Work
<1> QED
  BY <1>2, <1>5, <1>6 DEF UpdateOps

LEMMA WriteSafe ==
  ASSUME LockInv, WorkersHold, Types, StateOK, NEW t \in Callers, Step(t), Write(t)
  PROVE  Types' /\ StateOK'
<1>1. Working(t) /\ Work(t)
  BY DEF Write, Due, Working, StateOK, WorkOK
<1>2. task[t].plan # <<>> /\ Head(task[t].plan) = "write"
  BY DEF Write, Due
<1>3. UNCHANGED <<entry, lease, platform, bearer, sup, unsettled>>
  BY DEF Write
<1>4. \/ Replaces(t) /\ Leads(task[t].plan, "write", Reinstall)
      \/ Updates(t) /\ Leads(task[t].plan, "write", <<"update">>) /\ ~platform /\ Consistent(entry)
  BY <1>1, <1>2, WorkLeads DEF Leading, Leads
<1>5. CASE Done(t) /\ saved' = Written(t) /\ persisted' = (persisted \/ Op(t) = "register")
  <2>1. Work(t)' /\ EntryOK'
    BY <1>3, <1>4, <1>5, WriteReplaces, WriteUpdates DEF StateOK
  <2>2. saved' \in Records /\ persisted' \in BOOLEAN
    BY <1>5, WrittenTyped DEF Types
  <2> QED
    BY <1>2, <1>3, <1>5, <2>1, <2>2, PlanStepSafe DEF Types
<1>6. CASE Fails(t) /\ UNCHANGED <<saved, persisted>>
  <2>1. Consistent(entry)
    BY <1>4 DEF Replaces
  <2>2. Work(t)'
    BY <1>3, <1>6, <2>1, EndsAfterFault
  <2>3. EntryOK'
    BY <1>3, <1>6 DEF StateOK, EntryOK, Whole
  <2> QED
    BY <1>2, <1>3, <1>6, <2>2, <2>3, PlanStepSafe DEF Types
<1> QED
  BY <1>5, <1>6 DEF Write

LEMMA EraseSafe ==
  ASSUME LockInv, WorkersHold, Types, StateOK, NEW t \in Callers, Step(t), Erase(t)
  PROVE  Types' /\ StateOK'
<1>1. Working(t) /\ Work(t)
  BY DEF Erase, Due, Working, StateOK, WorkOK
<1>2. task[t].plan # <<>> /\ Head(task[t].plan) = "erase"
  BY DEF Erase, Due
<1>3. UNCHANGED <<entry, lease, platform, bearer, sup, unsettled>>
  BY DEF Erase
<1>4. Erases(t) /\ Leads(task[t].plan, "erase", Close \o <<"drop">>)
  BY <1>1, <1>2, WorkLeads DEF Leading, Leads
<1>5. CASE Done(t) /\ saved' = Saved(NoEntry) /\ persisted' = FALSE
  <2>1. Op(t)' = Op(t) /\ task'[t].plan = Close \o <<"drop">> /\ Close' = Close
    BY <1>3, <1>4, <1>5, NextFacts DEF Close
  <2>2. Consistent(NoEntry)'
    BY <1>3, <1>4, <1>5 DEF Erases, Consistent, Saved, NoEntry, Entry, Listed
  <2>3. Work(t)'
    BY <1>4, <2>1, <2>2 DEF Erases, Drops, Work
  <2>4. saved' \in Records /\ persisted' \in BOOLEAN /\ EntryOK'
    BY <1>3, <1>5, Constants DEF StateOK, EntryOK, Whole
  <2> QED
    BY <1>2, <1>3, <1>5, <2>3, <2>4, PlanStepSafe DEF Types
<1>6. CASE Fails(t) /\ UNCHANGED <<saved, persisted>>
  <2>1. Consistent(entry)
    BY <1>4 DEF Erases
  <2>2. Work(t)'
    BY <1>3, <1>6, <2>1, EndsAfterFault
  <2>3. EntryOK'
    BY <1>3, <1>6 DEF StateOK, EntryOK, Whole
  <2> QED
    BY <1>2, <1>3, <1>6, <2>2, <2>3, PlanStepSafe DEF Types
<1> QED
  BY <1>5, <1>6 DEF Erase

LEMMA UnshadowSafe ==
  ASSUME LockInv, WorkersHold, Types, StateOK, NEW t \in Callers, Step(t), Unshadow(t)
  PROVE  Types' /\ StateOK'
<1>1. Working(t) /\ Work(t)
  BY DEF Unshadow, Due, Working, StateOK, WorkOK
<1>2. task[t].plan # <<>> /\ Head(task[t].plan) = "unshadow"
  BY DEF Unshadow, Due
<1>3. UNCHANGED <<entry, lease, platform, bearer, sup>> /\ Done(t)
  BY DEF Unshadow
<1>4. PICK q \in Rests : Unshadows(t) /\ Leads(task[t].plan, "unshadow", q)
  BY <1>1, <1>2, WorkLeads DEF Leading, Leads
<1>5. /\ Op(t)' = "install" /\ task'[t].plan = q /\ task'[t].next = task[t].next
      /\ Whole(task[t].next) /\ platform
  BY <1>3, <1>4, NextFacts DEF Unshadows
<1>6. \/ saved' = Saved(NoEntry) /\ persisted' = FALSE /\ UNCHANGED unsettled
      \/ unsettled' = unsettled \cup {"shadow"} /\ UNCHANGED <<saved, persisted>>
  BY DEF Unshadow
<1>7. Consistent(entry)' /\ Consistent(task[t].next)'
  BY <1>3, <1>5, <1>6 DEF Consistent
<1>8. Reinstall' = Reinstall
  BY <1>3 DEF Reinstall, Close
<1>9. Work(t)'
  <2>1. CASE q = <<>>
    BY <1>5, <1>7, <2>1 DEF Ends, Work
  <2>2. CASE q = Reinstall
    <3>1. Builds(t)'
      BY <1>5, <1>7, <1>8, <2>2 DEF Builds, Whole, UpdateOps
    <3> QED
      BY <3>1 DEF Work
  <2> QED
    BY <2>1, <2>2, InstallPlans
<1>10. saved' \in Records /\ persisted' \in BOOLEAN
       /\ unsettled \subseteq unsettled' /\ unsettled' \subseteq {"bearer", "shadow", "learned"}
  BY <1>6, Constants DEF Types
<1>11. EntryOK'
  BY <1>3 DEF StateOK, EntryOK, Whole
<1> QED
  BY <1>2, <1>3, <1>9, <1>10, <1>11, PlanStepSafe DEF Types

\* An environment that is taken over while nothing of it is saved is consistent.
LEMMA TakenConsistent ==
  ASSUME Types, EntryOK, Consistent(entry), ~persisted, platform',
         UNCHANGED <<saved, persisted>>, unsettled \subseteq unsettled'
  PROVE  Consistent(entry)' /\ \A t : Consistent(task[t].next)'
<1>1. CASE "shadow" \in unsettled
  BY <1>1 DEF Consistent
<1>2. CASE "shadow" \notin unsettled
  <2>1. saved = Saved(NoEntry)
    <3>1. CASE platform
      BY <1>2, <3>1 DEF Consistent
    <3>2. CASE ~platform
      <4>1. /\ saved.routes = entry.routes /\ saved.enabled = entry.enabled
            /\ persisted = (entry # NoEntry) /\ persisted = (Listed(saved) # {})
        BY <1>2, <3>2 DEF Consistent
      <4>2. entry = NoEntry
        BY <4>1
      <4>3. saved.routes = {} /\ saved.enabled = FALSE /\ saved.learned = {}
        BY <4>1, <4>2 DEF Listed, NoEntry, Entry
      <4>4. saved \in Records
        BY DEF Types
      <4>5. saved = [routes |-> {}, learned |-> {}, enabled |-> FALSE]
        BY <4>3, <4>4 DEF Records
      <4> QED
        BY <4>5 DEF Saved, NoEntry, Entry
    <3> QED
      BY <3>1, <3>2
  <2> QED
    BY <2>1 DEF Consistent
<1> QED
  BY <1>1, <1>2

LEMMA BearerWork ==
  ASSUME Types, EntryOK, NEW t \in Callers, Work(t), StoreBearer(t)
  PROVE  Work(t)' /\ task[t].plan # <<>> /\ Head(task[t].plan) = "bearer" /\ ~task[t].replaced
         /\ Op(t) = "install"
<1>1. task[t].plan # <<>> /\ Head(task[t].plan) = "bearer"
  BY DEF StoreBearer, Due
<1>2. Takes(t) /\ \E q \in IF persisted THEN Shadows ELSE Rests : Leads(task[t].plan, "bearer", q)
  BY <1>1, WorkLeads DEF Leading, Leads
<1>3. /\ task'[t].plan = Tail(task[t].plan) /\ task'[t].request = task[t].request
      /\ task'[t].next = task[t].next
  BY BearerTask
<1>4. /\ Op(t) = "install" /\ Whole(task[t].next) /\ Consistent(entry) /\ ~task[t].replaced
      /\ Op(t)' = "install" /\ Whole(task[t].next)'
  BY <1>2, <1>3 DEF Takes, Op, Whole
<1>5. /\ UNCHANGED <<entry, lease, persisted, saved, sup>> /\ platform' = TRUE
      /\ unsettled \subseteq unsettled'
  BY DEF StoreBearer
<1>6. Shadows' = Shadows /\ Rests' = Rests /\ Reinstall' = Reinstall
  BY <1>5, PlansStay
<1>7. CASE persisted
  <2>1. task'[t].plan \in Shadows'
    BY <1>2, <1>3, <1>6, <1>7 DEF Leads
  <2>2. Unshadows(t)'
    BY <1>4, <1>5, <2>1 DEF Unshadows, Whole
  <2> QED
    BY <1>1, <1>4, <2>2 DEF Work
<1>8. CASE ~persisted
  <2>1. Consistent(entry)' /\ Consistent(task[t].next)'
    BY <1>4, <1>5, <1>8, TakenConsistent
  <2>3. task'[t].plan = <<>> \/ task'[t].plan = Reinstall'
    BY <1>2, <1>3, <1>6, <1>8, InstallPlans DEF Leads
  <2>4. CASE task'[t].plan = <<>>
    <3>1. Ends(t)'
      BY <2>1, <2>4 DEF Ends
    <3> QED
      BY <1>1, <1>4, <3>1 DEF Work
  <2>5. CASE task'[t].plan = Reinstall'
    <3>1. Builds(t)'
      BY <1>4, <2>1, <2>5 DEF Builds, UpdateOps
    <3> QED
      BY <1>1, <1>4, <3>1 DEF Work
  <2> QED
    BY <2>3, <2>4, <2>5
<1> QED
  BY <1>7, <1>8

LEMMA StoreBearerSafe ==
  ASSUME LockInv, WorkersHold, Types, StateOK, NEW t \in Callers, Step(t), StoreBearer(t)
  PROVE  Types' /\ StateOK'
<1>1. /\ OnlyWorker(t) /\ OnlyWorker(t)' /\ OthersStay(t)
      /\ \A u \in Callers : task'[u].request = task[u].request
      /\ \A u \in Callers : task'[u].stage = task[u].stage
      /\ Working(t) /\ Working(t)'
  BY StepWorker DEF OnlyWorker
<1>2. Work(t)
  BY <1>1 DEF StateOK, WorkOK
<1>3. /\ Work(t)' /\ task[t].plan # <<>> /\ Head(task[t].plan) = "bearer" /\ ~task[t].replaced
      /\ Op(t) = "install"
  BY <1>2, BearerWork DEF StateOK
<1>4. \A s \in Supervisors : ~Closing(s)
  BY <1>1, <1>3, NoClosing
<1>5. UNCHANGED <<entry, lease, persisted, saved, sup>> /\ platform' = TRUE
  BY DEF StoreBearer
<1>6. FibersOK'
  BY <1>1, <1>5, StepFibers DEF StateOK
<1>7. OthersOK'
  BY <1>1, <1>5, StepOthers DEF StateOK
<1>8. LeaseOK' /\ EntryOK'
  BY <1>4, <1>5, StepLease DEF StateOK, EntryOK, Whole
<1>9. WorkOK'
  BY <1>1, <1>3, StepWork
<1> DEFINE b == task[t].request.bearer
<1>10. /\ b \in Bearers \cup {0} /\ bearer \in Bearers \cup {0} /\ task[t].plan \in Seq(PlanSteps)
       /\ unsettled \subseteq {"bearer", "shadow", "learned"}
  BY DEF Types, Tasks, Requests
<1>11. \E stored, r :
         /\ r \in BOOLEAN /\ bearer' = stored
         /\ task' = [task EXCEPT ![t].plan = Tail(@), ![t].replaced = r]
         /\ \/ stored = b /\ r = (bearer \notin {0, b}) /\ unsettled' = unsettled
            \/ stored = bearer /\ r = FALSE /\ unsettled' = unsettled
            \/ stored = b /\ r = FALSE /\ unsettled' = unsettled \cup {"bearer"}
  <2> DEFINE Outcome(stored, r) ==
        bearer' = stored /\ task' = [task EXCEPT ![t].plan = Tail(@), ![t].replaced = r]
  <2>1. CASE Outcome(b, bearer \notin {0, b}) /\ UNCHANGED unsettled
    BY <2>1, (bearer \notin {0, b}) \in BOOLEAN
  <2>2. CASE Outcome(bearer, FALSE) /\ UNCHANGED unsettled
    BY <2>2
  <2>3. CASE Outcome(b, FALSE) /\ unsettled' = unsettled \cup {"bearer"}
    BY <2>3
  <2> QED
    BY <2>1, <2>2, <2>3 DEF StoreBearer
<1>14. PICK stored, r :
         /\ r \in BOOLEAN /\ bearer' = stored
         /\ task' = [task EXCEPT ![t].plan = Tail(@), ![t].replaced = r]
         /\ \/ stored = b /\ r = (bearer \notin {0, b}) /\ unsettled' = unsettled
            \/ stored = bearer /\ r = FALSE /\ unsettled' = unsettled
            \/ stored = b /\ r = FALSE /\ unsettled' = unsettled \cup {"bearer"}
  BY <1>11
<1>12. Types'
  <2>1. Tail(task[t].plan) \in Seq(PlanSteps)
    BY <1>3, <1>10
  <2> DEFINE new == [task[t] EXCEPT !.plan = Tail(@), !.replaced = r]
  <2>2. task[t] \in Tasks
    BY DEF Types
  <2>3. new \in Tasks
    BY <1>14, <2>1, <2>2 DEF Tasks
  <2>4. task' = [task EXCEPT ![t] = new]
    BY <1>14
  <2>5. task' \in [Callers -> Tasks]
    BY <2>3, <2>4 DEF Types
  <2> QED
    BY <1>5, <1>10, <1>14, <2>5 DEF Types
<1>13. BearersOK'
  <2>1. task'[t].replaced = r
    BY <1>14 DEF Types, Tasks
  <2>2. \A u \in Callers : ~Working(u)' => ~task'[u].replaced
    BY <1>1 DEF StateOK, BearersOK, OthersStay, Working
  <2>3. \A u \in Callers : ~Renews(u)
    BY <1>1, <1>3 DEF OnlyWorker, Renews
  <2>4. r => Renews(t)'
    BY <1>1, <1>3, <2>1 DEF Renews, Op
  <2>5. "bearer" \in unsettled \/ \A s \in Supervisors :
          sup[s].status = "open" /\ sup[s].bearer \notin {0, bearer} => sup[s].retry
    BY <2>3 DEF StateOK, BearersOK
  <2>6. \/ "bearer" \in unsettled'
        \/ \A s \in Supervisors :
             sup'[s].status = "open" /\ sup'[s].bearer \notin {0, bearer'} =>
               sup'[s].retry \/ \E u \in Callers : Renews(u)'
    <3>1. CASE r
      BY <2>4, <3>1
    <3>2. CASE ~r
      <4>1. stored = bearer \/ bearer = 0 \/ "bearer" \in unsettled'
        BY <1>14, <3>2
      <4>2. CASE bearer = 0
        <5>1. "bearer" \in unsettled' \/ \A s \in Supervisors :
                sup[s].status = "open" /\ sup[s].bearer # 0 => sup[s].retry
          BY <1>14, <2>5, <4>2
        <5> QED
          BY <1>5, <5>1
      <4>3. CASE stored = bearer
        BY <1>5, <1>14, <2>5, <4>3
      <4> QED
        BY <4>1, <4>2, <4>3
    <3> QED
      BY <3>1, <3>2
  <2>7. \A s \in Supervisors :
          /\ sup'[s].phase \notin {"connecting", "refused"} => sup'[s].bearer = 0
          /\ sup'[s].phase = "refused" => sup'[s].bearer # 0
    BY <1>5 DEF StateOK, BearersOK
  <2> QED
    BY <2>2, <2>6, <2>7 DEF BearersOK
<1> QED
  BY <1>6, <1>7, <1>8, <1>9, <1>12, <1>13 DEF StateOK

LEMMA DropBearerSafe ==
  ASSUME LockInv, WorkersHold, Types, StateOK, NEW t \in Callers, Step(t), DropBearer(t)
  PROVE  Types' /\ StateOK'
<1>1. /\ OnlyWorker(t) /\ OnlyWorker(t)' /\ OthersStay(t)
      /\ \A u \in Callers : task'[u].request = task[u].request
      /\ \A u \in Callers : task'[u].stage = task[u].stage
      /\ Working(t) /\ Working(t)'
  BY StepWorker DEF OnlyWorker
<1>2. Work(t)
  BY <1>1 DEF StateOK, WorkOK
<1>3. task[t].plan # <<>> /\ Head(task[t].plan) = "dropBearer" /\ Done(t)
  BY DEF DropBearer, Due
<1>4. lease = NoLease /\ Leads(task[t].plan, "dropBearer", <<>>) /\ Consistent(entry)
  BY <1>2, <1>3, WorkLeads DEF Leading, Leads
<1>5. UNCHANGED <<entry, lease, platform, persisted, saved, sup, unsettled>>
      /\ bearer' \in {0, bearer}
  BY DEF DropBearer, catalogVars
<1>6. \A s \in Supervisors : ~Closing(s)
  BY <1>1, <1>3, NoClosing
<1>7. Work(t)'
  <2>1. task'[t].plan = <<>>
    BY <1>3, <1>4, NextFacts
  <2>2. Consistent(entry)'
    BY <1>4, <1>5, ConsistentStays
  <2> QED
    BY <2>1, <2>2 DEF Ends, Work
<1>8. FibersOK'
  BY <1>1, <1>5, StepFibers DEF StateOK
<1>9. OthersOK'
  BY <1>1, <1>5, StepOthers DEF StateOK
<1>10. LeaseOK' /\ EntryOK'
  BY <1>5, <1>6, StepLease DEF StateOK, EntryOK, Whole
<1>11. WorkOK'
  BY <1>1, <1>7, StepWork
<1>12. BearersOK'
  <2>1. \A s \in Supervisors : sup[s].status # "open"
    BY <1>4 DEF StateOK, LeaseOK
  <2>2. task'[t].replaced = task[t].replaced
    BY <1>3, NextFacts
  <2>3. \A u \in Callers : ~Working(u)' => ~task'[u].replaced
    BY <1>1 DEF StateOK, BearersOK, OthersStay, Working
  <2> QED
    BY <1>5, <2>1, <2>3 DEF StateOK, BearersOK
<1>13. Types'
  <2>1. task' \in [Callers -> Tasks]
    BY <1>3, DoneTyped
  <2> QED
    BY <1>5, <2>1 DEF Types
<1> QED
  BY <1>8, <1>9, <1>10, <1>11, <1>12, <1>13 DEF StateOK

-----------------------------------------------------------------------------
(* The steps of a plan that open and close the scope.                       *)

\* A supervisor keeps what its fibers and its bearer depend on, or starts afresh
\* with no fiber of the one that had its name.
KeepsScope(s) ==
  /\ sup'[s].routes = sup[s].routes /\ sup'[s].owners = sup[s].owners
  /\ sup'[s].phase = sup[s].phase /\ sup'[s].via = sup[s].via
  /\ sup'[s].bearer = sup[s].bearer /\ sup'[s].retry = sup[s].retry
  /\ sup'[s].status = "none" => sup[s].status = "none"
  /\ sup'[s].status = "open" => sup[s].status = "open"
Silent(s) == ~Active(Learner(s)) /\ ~Active(Watcher(s))
Afresh(s) == Silent(s) /\ sup'[s].phase = "available" /\ sup'[s].bearer = 0
ScopeChange == \A s \in Supervisors : KeepsScope(s) \/ Afresh(s)

LEMMA ScopeBearers ==
  ASSUME BearersOK, NEW t \in Callers, OnlyWorker(t), OnlyWorker(t)', OthersStay(t),
         task'[t].replaced = task[t].replaced, task'[t].request = task[t].request,
         ScopeChange, UNCHANGED <<bearer, unsettled>>
  PROVE  BearersOK'
<1>1. \A u \in Callers : Renews(u) => Renews(u)'
  BY DEF OnlyWorker, OthersStay, Renews, Op, Working
<1>2. \A u \in Callers : ~Working(u)' => ~task'[u].replaced
  BY DEF BearersOK, OnlyWorker, OthersStay, Working
<1>3. \A s \in Supervisors :
        /\ sup'[s].phase \notin {"connecting", "refused"} => sup'[s].bearer = 0
        /\ sup'[s].phase = "refused" => sup'[s].bearer # 0
  BY DEF BearersOK, ScopeChange, KeepsScope, Afresh
<1>4. \A s \in Supervisors :
        sup'[s].status = "open" /\ sup'[s].bearer # 0 => KeepsScope(s) /\ sup[s].status = "open"
  BY DEF ScopeChange, KeepsScope, Afresh
<1>5. \/ "bearer" \in unsettled
      \/ \A s \in Supervisors :
           sup'[s].status = "open" /\ sup'[s].bearer \notin {0, bearer} =>
             sup'[s].retry \/ \E u \in Callers : Renews(u)'
  BY <1>1, <1>4 DEF BearersOK, KeepsScope
<1> QED
  BY <1>2, <1>3, <1>5 DEF BearersOK

LEMMA ScopeStepSafe ==
  ASSUME LockInv, WorkersHold, Types, StateOK, NEW t \in Callers, Step(t), Done(t),
         task[t].plan # <<>>, ScopeChange,
         UNCHANGED <<platform, persisted, saved, bearer, unsettled>>,
         entry' \in Entries, lease' \in Leases, sup' \in [Supervisors -> SupervisorStates],
         Work(t)', EntryOK', LeaseOK'
  PROVE  Types' /\ StateOK'
<1>1. /\ OnlyWorker(t) /\ OnlyWorker(t)' /\ OthersStay(t)
      /\ \A u \in Callers : task'[u].request = task[u].request
      /\ \A u \in Callers : task'[u].stage = task[u].stage
  BY StepWorker
<1>2. task'[t].replaced = task[t].replaced /\ task'[t].request = task[t].request
  BY DoneTask
<1>3. \A s \in Supervisors :
        \/ /\ sup'[s].routes = sup[s].routes /\ sup'[s].owners = sup[s].owners
           /\ sup'[s].phase = sup[s].phase
           /\ sup'[s].via = sup[s].via /\ (sup'[s].status = "none" => sup[s].status = "none")
        \/ ~Active(Learner(s)) /\ ~Active(Watcher(s)) /\ sup'[s].phase = "available"
  BY DEF ScopeChange, KeepsScope, Afresh, Silent
<1>4. FibersOK'
  BY <1>1, <1>3, StepFibers DEF StateOK
<1>5. OthersOK'
  BY <1>1, StepOthers DEF StateOK
<1>6. WorkOK'
  BY <1>1, StepWork
<1>7. BearersOK'
  BY <1>1, <1>2, ScopeBearers DEF StateOK
<1>8. Types'
  <2>1. task' \in [Callers -> Tasks]
    BY DoneTyped
  <2> QED
    BY <2>1 DEF Types
<1> QED
  BY <1>4, <1>5, <1>6, <1>7, <1>8 DEF StateOK

LEMMA StartClosingWork ==
  ASSUME Types, NEW t \in Callers, Work(t), StartClosing(t)
  PROVE  Work(t)' /\ lease # NoLease /\ task'[t].plan \in ClosingPlans
<1>1. task[t].plan # <<>> /\ Head(task[t].plan) = "close" /\ Done(t)
  BY DEF StartClosing, Due
<1>2. /\ Op(t)' = Op(t) /\ task'[t].next = task[t].next
      /\ \A x, q : Leads(task[t].plan, x, q) => task'[t].plan = q
  BY <1>1, NextFacts
<1>3. lease' = NoLease /\ UNCHANGED <<entry, platform, persisted, saved, unsettled>>
  BY DEF StartClosing, storeVars
<1>4. /\ Consistent(task[t].next) => Consistent(task[t].next)'
      /\ Consistent(NoEntry) => Consistent(NoEntry)'
  BY <1>2, <1>3, ConsistentStays
<1>5. /\ Reinstall' = <<"install">> /\ (Close \o <<"drop">>)' = <<"drop">>
      /\ (Close \o <<"drop", "dropBearer">>)' = <<"drop", "dropBearer">>
  <2>1. {"install", "drop", "dropBearer"} \subseteq PlanSteps
    BY DEF PlanSteps
  <2>2. <<"install">> \in Seq(PlanSteps) /\ <<"drop">> \in Seq(PlanSteps)
        /\ <<"drop", "dropBearer">> \in Seq(PlanSteps)
    BY <2>1, ShortPlans
  <2>3. Close' = <<>>
    BY <1>3 DEF Close, Steps
  <2> QED
    BY <2>2, <2>3, ConcatEmptySeq DEF Reinstall
<1>6. CASE Builds(t) /\ lease # NoLease /\ Leads(task[t].plan, "close", <<"install">>)
  BY <1>2, <1>4, <1>5, <1>6 DEF Builds, Whole, Work, ClosingPlans
<1>7. CASE Drops(t) /\ lease # NoLease /\ Leads(task[t].plan, "close", <<"drop">>)
  BY <1>2, <1>4, <1>5, <1>7 DEF Drops, Work, ClosingPlans
<1>8. CASE /\ Releases(t) /\ lease # NoLease /\ ~platform /\ Consistent(NoEntry)
           /\ Leads(task[t].plan, "close", <<"drop", "dropBearer">>)
  BY <1>2, <1>3, <1>4, <1>5, <1>8 DEF Releases, Work, ClosingPlans
<1> QED
  BY <1>1, <1>6, <1>7, <1>8, WorkLeads DEF Leading, Leads

LEMMA StartClosingSafe ==
  ASSUME LockInv, WorkersHold, Types, StateOK, NEW t \in Callers, Step(t), StartClosing(t)
  PROVE  Types' /\ StateOK'
<1>1. Working(t) /\ Work(t) /\ OnlyWorker(t) /\ Working(t)'
  BY StepWorker DEF OnlyWorker, StateOK, WorkOK
<1>2. Work(t)' /\ lease # NoLease /\ task'[t].plan \in ClosingPlans
  BY <1>1, StartClosingWork
<1>3. task[t].plan # <<>> /\ Head(task[t].plan) = "close" /\ Done(t)
  BY DEF StartClosing, Due
<1>4. \A s \in Supervisors : ~Closing(s)
  BY <1>1, <1>3, NoClosing
<1> DEFINE r == lease.supervisor
<1>5. r \in Supervisors /\ sup[r].status = "open"
      /\ \A s \in Supervisors : sup[s].status = "open" => s = r
  BY <1>2 DEF StateOK, LeaseOK
<1>6. /\ lease' = NoLease /\ sup' = [sup EXCEPT ![r].status = "closing"]
      /\ UNCHANGED <<entry, platform, persisted, saved, bearer, unsettled>>
  BY DEF StartClosing, storeVars
<1> HIDE DEF r
<1>7. sup[r] \in SupervisorStates /\ sup \in [Supervisors -> SupervisorStates]
  BY <1>5 DEF Types
<1>8. \A s \in Supervisors \ {r} : sup'[s] = sup[s]
  BY <1>6, <1>7
<1>9. sup'[r] = [sup[r] EXCEPT !.status = "closing"] /\ sup'[r] \in SupervisorStates
  BY <1>5, <1>6, <1>7 DEF SupervisorStates
<1>10. ScopeChange
  BY <1>5, <1>7, <1>8, <1>9 DEF ScopeChange, KeepsScope, SupervisorStates
<1>11. sup' \in [Supervisors -> SupervisorStates]
  BY <1>6, <1>7, <1>9
<1>12. LeaseOK'
  <2>1. \A s \in Supervisors : sup'[s].status # "open"
    BY <1>5, <1>7, <1>8, <1>9 DEF SupervisorStates
  <2>2. \A s \in Supervisors : Closing(s)' => s = r
    BY <1>4, <1>8 DEF Closing
  <2> QED
    BY <1>1, <1>2, <1>6, <2>1, <2>2 DEF LeaseOK, ClosingPlans
<1>13. EntryOK'
  BY <1>6 DEF StateOK, EntryOK, Whole
<1>14. lease' \in Leases /\ entry' \in Entries
  BY <1>6, Constants DEF Types
<1> QED
  BY <1>2, <1>3, <1>6, <1>10, <1>11, <1>12, <1>13, <1>14, ScopeStepSafe

\* A scope that has closed has no fiber left, and neither has one that never was.
LEMMA ClosedSilent ==
  ASSUME Types, FibersOK, \A s \in Supervisors : Closing(s) => Silent(s)
  PROVE  \A s \in Supervisors :
           \/ Open[s] = NoSupervisor /\ Silent(s)
           \/ Open[s] = sup[s] /\ ~Closing(s) /\ (sup[s].status = "none" => Silent(s))
<1> SUFFICES ASSUME NEW s \in Supervisors
             PROVE  \/ Open[s] = NoSupervisor /\ Silent(s)
                    \/ Open[s] = sup[s] /\ ~Closing(s) /\ (sup[s].status = "none" => Silent(s))
  OBVIOUS
<1>1. Open[s] = IF Closing(s) THEN NoSupervisor ELSE sup[s]
  BY DEF Open
<1>2. sup[s].status = "none" => Silent(s)
  BY DEF FibersOK, Silent
<1> QED
  BY <1>1, <1>2

LEMMA ScopeSilent ==
  ASSUME ScopeClosed
  PROVE  \A s \in Supervisors : Closing(s) => Silent(s)
BY DEF ScopeClosed, Fibers, Silent, Active

LEMMA OpenChanges ==
  ASSUME Types, FibersOK, \A s \in Supervisors : Closing(s) => Silent(s), sup' = Open
  PROVE  ScopeChange
<1>1. NoSupervisor.phase = "available" /\ NoSupervisor.bearer = 0
  BY DEF NoSupervisor
<1> QED
  BY <1>1, ClosedSilent DEF ScopeChange, KeepsScope, Afresh

\* createServiceScope: the new supervisor is the only one, and the lease's.
LEMMA CreatesLease ==
  ASSUME Types, FibersOK, LeaseOK, lease = NoLease,
         \A s \in Supervisors : Closing(s) => Silent(s),
         NEW e \in Entries, e # NoEntry, entry' = e, Creates(e)
  PROVE  LeaseOK' /\ ScopeChange
<1> DEFINE r == CHOOSE s \in Supervisors : Open[s].status = "none"
           new == [NoSupervisor EXCEPT !.status = "open", !.wanted = e.enabled,
                               !.routes = e.routes, !.owners = Ids(Listed(e))]
<1>1. /\ r \in Supervisors /\ Open[r].status = "none" /\ sup' = [Open EXCEPT ![r] = new]
      /\ lease' = [entry |-> e, supervisor |-> r]
  BY DEF Creates
<1>2. /\ new.status = "open" /\ new.routes = e.routes /\ new.wanted = e.enabled
      /\ new.phase = "available" /\ new.bearer = 0
  BY DEF NoSupervisor
<1>3. NoSupervisor.phase = "available" /\ NoSupervisor.bearer = 0 /\ NoSupervisor.status = "none"
  BY DEF NoSupervisor
<1> HIDE DEF r, new
<1>4. sup'[r] = new /\ \A s \in Supervisors \ {r} : sup'[s] = Open[s]
  BY <1>1, OpenTyped
<1>5. Silent(r)
  BY <1>1, ClosedSilent
<1>6. ScopeChange
  <2> SUFFICES ASSUME NEW s \in Supervisors PROVE KeepsScope(s) \/ Afresh(s)
    BY DEF ScopeChange
  <2>1. CASE s = r
    BY <1>2, <1>4, <1>5, <2>1 DEF Afresh
  <2>2. CASE s # r
    BY <1>3, <1>4, <2>2, ClosedSilent DEF KeepsScope, Afresh
  <2> QED
    BY <2>1, <2>2
<1>7. \A s \in Supervisors : sup[s].status # "open"
  BY DEF LeaseOK
<1>8. \A s \in Supervisors \ {r} : sup'[s].status \notin {"open", "closing"}
  BY <1>3, <1>4, <1>7, ClosedSilent DEF Closing, Types, SupervisorStates
<1>9. lease' # NoLease
  <2>1. NoLease.entry = NoEntry /\ lease'.entry = e
    BY <1>1 DEF NoLease
  <2> QED
    BY <2>1
<1>10. \A s \in Supervisors : ~Closing(s)'
  BY <1>2, <1>4, <1>8 DEF Closing
<1> QED
  BY <1>1, <1>2, <1>4, <1>6, <1>8, <1>9, <1>10 DEF LeaseOK

LEMMA InstallSafe ==
  ASSUME LockInv, WorkersHold, Types, StateOK, NEW t \in Callers, Step(t), Install(t)
  PROVE  Types' /\ StateOK'
<1>1. Working(t) /\ Work(t)
  BY StepWorker DEF OnlyWorker, StateOK, WorkOK
<1>2. task[t].plan # <<>> /\ Head(task[t].plan) = "install" /\ Done(t)
  BY DEF Install, Due
<1>3. Builds(t) /\ lease = NoLease /\ Leads(task[t].plan, "install", <<>>)
  BY <1>1, <1>2, WorkLeads DEF Leading, Leads
<1> DEFINE e == task[t].next
<1>4. e \in Entries /\ Whole(e) /\ Consistent(e)
  BY <1>3 DEF Builds, Types, Tasks
<1>5. e # NoEntry
  BY <1>4, WholeSome
<1>6. /\ entry' = e /\ Creates(e) /\ ScopeClosed
      /\ UNCHANGED <<platform, persisted, saved, bearer, unsettled>>
  BY DEF Install, storeVars
<1>7. LeaseOK' /\ ScopeChange
  BY <1>3, <1>4, <1>5, <1>6, ScopeSilent, CreatesLease DEF StateOK
<1>8. Work(t)'
  <2>1. task'[t].plan = <<>>
    BY <1>2, <1>3, NextFacts
  <2>2. Consistent(entry)'
    BY <1>4, <1>6, ConsistentStays
  <2> QED
    BY <2>1, <2>2 DEF Ends, Work
<1>9. EntryOK'
  BY <1>4, <1>6 DEF StateOK, EntryOK, Whole
<1>10. sup' \in [Supervisors -> SupervisorStates] /\ lease' \in Leases
  BY <1>4, <1>6, CreatesTyped
<1> QED
  BY <1>2, <1>4, <1>6, <1>7, <1>8, <1>9, <1>10, ScopeStepSafe

LEMMA DropSafe ==
  ASSUME LockInv, WorkersHold, Types, StateOK, NEW t \in Callers, Step(t), Drop(t)
  PROVE  Types' /\ StateOK'
<1>1. Working(t) /\ Work(t)
  BY StepWorker DEF OnlyWorker, StateOK, WorkOK
<1>2. task[t].plan # <<>> /\ Head(task[t].plan) = "drop" /\ Done(t)
  BY DEF Drop, Due
<1>3. /\ lease = NoLease /\ Consistent(NoEntry)
      /\ \/ Leads(task[t].plan, "drop", <<>>)
         \/ Leads(task[t].plan, "drop", <<"dropBearer">>) /\ Op(t) = "removePlatform"
  BY <1>1, <1>2, WorkLeads DEF Leading, Leads, Drops, Releases
<1>4. /\ entry' = NoEntry /\ sup' = Open /\ ScopeClosed
      /\ UNCHANGED <<lease, platform, persisted, saved, bearer, unsettled>>
  BY DEF Drop, storeVars
<1>5. \A s \in Supervisors : Closing(s) => Silent(s)
  BY <1>4, ScopeSilent
<1>6. ScopeChange
  BY <1>4, <1>5, OpenChanges DEF StateOK
<1>7. LeaseOK'
  <2>1. \A s \in Supervisors : sup[s].status # "open"
    BY <1>3 DEF StateOK, LeaseOK
  <2>2. NoSupervisor.status = "none"
    BY DEF NoSupervisor
  <2>3. \A s \in Supervisors : sup'[s].status \notin {"open", "closing"}
    BY <1>4, <1>5, <2>1, <2>2, ClosedSilent DEF Closing, StateOK
  <2> QED
    BY <1>3, <1>4, <2>3 DEF LeaseOK, Closing
<1>8. Work(t)'
  <2>1. Consistent(entry)'
    BY <1>3, <1>4, ConsistentStays
  <2>2. task'[t].plan = <<>> \/ (task'[t].plan = <<"dropBearer">> /\ Op(t)' = "removePlatform")
    BY <1>2, <1>3, NextFacts
  <2> QED
    BY <1>3, <1>4, <2>1, <2>2 DEF Ends, Releases, Work
<1>9. EntryOK'
  BY <1>4 DEF StateOK, EntryOK, Whole
<1>10. sup' \in [Supervisors -> SupervisorStates] /\ lease' \in Leases /\ entry' \in Entries
  BY <1>4, OpenTyped, Constants DEF Types
<1> QED
  BY <1>2, <1>4, <1>6, <1>7, <1>8, <1>9, <1>10, ScopeStepSafe

\* The lease is updated in place: its supervisor keeps its routes and its fibers.
LEMMA UpdateLease ==
  ASSUME Types, LeaseOK, \A s \in Supervisors : ~Closing(s), NEW t \in Callers, Updates(t),
         lease # NoLease, entry' = task[t].next,
         lease' = [lease EXCEPT !.entry = task[t].next],
         sup' = [sup EXCEPT ![lease.supervisor].wanted = Intends(t)]
  PROVE  /\ LeaseOK' /\ ScopeChange
         /\ sup' \in [Supervisors -> SupervisorStates] /\ lease' \in Leases
<1> DEFINE r == lease.supervisor
           e == task[t].next
<1>1. /\ r \in Supervisors /\ sup[r].status = "open" /\ sup[r].wanted = entry.enabled
      /\ sup[r].routes = entry.routes
      /\ \A s \in Supervisors : sup[s].status = "open" => s = r
  BY DEF LeaseOK
<1>2. e \in Entries /\ e.routes = entry.routes /\ e.enabled = Intended(t) /\ Whole(e)
  BY DEF Updates, Types, Tasks
<1>3. Intends(t) = e.enabled
  BY <1>1, <1>2 DEF Intends, Intended
<1>4. e # NoEntry
  BY <1>2, WholeSome
<1>5. sup[r] \in SupervisorStates /\ sup \in [Supervisors -> SupervisorStates] /\ lease \in Leases
  BY <1>1 DEF Types
<1>6. lease'.entry = e /\ lease'.supervisor = r /\ lease' \in Leases
  BY <1>2, <1>5 DEF Leases
<1>7. lease' # NoLease
  <2>1. NoLease.entry = NoEntry
    BY DEF NoLease
  <2> QED
    BY <1>4, <1>6, <2>1
<1> HIDE DEF r, e
<1>8. \A s \in Supervisors \ {r} : sup'[s] = sup[s]
  BY <1>1, <1>5 DEF r
<1>9. sup'[r] = [sup[r] EXCEPT !.wanted = e.enabled]
  BY <1>1, <1>3, <1>5 DEF r
<1>10. /\ sup'[r] \in SupervisorStates /\ sup'[r].wanted = e.enabled
       /\ sup'[r].status = sup[r].status /\ sup'[r].routes = sup[r].routes
       /\ sup'[r].owners = sup[r].owners
       /\ sup'[r].phase = sup[r].phase /\ sup'[r].via = sup[r].via
       /\ sup'[r].bearer = sup[r].bearer /\ sup'[r].retry = sup[r].retry
  BY <1>2, <1>5, <1>9 DEF SupervisorStates, Entries
<1>11. sup' \in [Supervisors -> SupervisorStates]
  BY <1>1, <1>5, <1>10 DEF r
<1>12. ScopeChange
  BY <1>8, <1>10 DEF ScopeChange, KeepsScope
<1>13. \A s \in Supervisors : ~Closing(s)'
  BY <1>8, <1>10 DEF Closing
<1>14. entry' = e
  BY DEF e
<1>15. \A s \in Supervisors : sup'[s].status = "open" => s = r
  BY <1>1, <1>8
<1> QED
  BY <1>1, <1>2, <1>4, <1>6, <1>7, <1>10, <1>11, <1>12, <1>13, <1>14, <1>15 DEF LeaseOK

LEMMA UpdateSafe ==
  ASSUME LockInv, WorkersHold, Types, StateOK, NEW t \in Callers, Step(t), Update(t)
  PROVE  Types' /\ StateOK'
<1>1. Working(t) /\ Work(t) /\ OnlyWorker(t)
  BY StepWorker DEF OnlyWorker, StateOK, WorkOK
<1>2. task[t].plan # <<>> /\ Head(task[t].plan) = "update" /\ Done(t)
  BY DEF Update, Due
<1>3. Updates(t) /\ Leads(task[t].plan, "update", <<>>) /\ Consistent(task[t].next)
  BY <1>1, <1>2, WorkLeads DEF Leading, Leads
<1>4. \A s \in Supervisors : ~Closing(s)
  BY <1>1, <1>2, NoClosing
<1> DEFINE e == task[t].next
<1>5. e \in Entries /\ Whole(e)
  BY <1>3 DEF Updates, Types, Tasks
<1>6. e # NoEntry
  BY <1>5, WholeSome
<1>7. /\ entry' = e
      /\ UNCHANGED <<platform, persisted, saved, bearer, unsettled>>
  BY DEF Update, storeVars
<1>8. /\ LeaseOK' /\ ScopeChange
      /\ sup' \in [Supervisors -> SupervisorStates] /\ lease' \in Leases
  <2>1. CASE /\ lease # NoLease
             /\ lease' = [lease EXCEPT !.entry = task[t].next]
             /\ sup' = [sup EXCEPT ![lease.supervisor].wanted = Intends(t)]
    BY <1>3, <1>4, <1>7, <2>1, UpdateLease DEF StateOK
  <2>2. CASE lease = NoLease /\ Creates(task[t].next)
    BY <1>4, <1>5, <1>6, <1>7, <2>2, CreatesLease, CreatesTyped DEF StateOK
  <2>3. CASE lease = NoLease /\ UNCHANGED <<lease, sup>>
    <3>1. LeaseOK'
      BY <1>4, <2>3 DEF StateOK, LeaseOK, Closing
    <3>2. ScopeChange
      BY <2>3 DEF ScopeChange, KeepsScope
    <3> QED
      BY <2>3, <3>1, <3>2 DEF Types
  <2> QED
    BY <2>1, <2>2, <2>3 DEF Update
<1>9. Work(t)'
  <2>1. task'[t].plan = <<>>
    BY <1>2, <1>3, NextFacts
  <2>2. Consistent(entry)'
    BY <1>3, <1>7, ConsistentStays
  <2> QED
    BY <2>1, <2>2 DEF Ends, Work
<1>10. EntryOK'
  BY <1>5, <1>7 DEF StateOK, EntryOK, Whole
<1> QED
  BY <1>2, <1>5, <1>7, <1>8, <1>9, <1>10, ScopeStepSafe

LEMMA StepSafe ==
  ASSUME LockInv, WorkersHold, Types, StateOK, NEW t \in Callers, Step(t)
  PROVE  Types' /\ StateOK'
<1>1. CASE Forget(t) \/ Write(t) \/ Erase(t) \/ Unshadow(t)
  BY <1>1, ForgetSafe, WriteSafe, EraseSafe, UnshadowSafe
<1>2. CASE StoreBearer(t) \/ DropBearer(t)
  BY <1>2, StoreBearerSafe, DropBearerSafe
<1>3. CASE StartClosing(t) \/ Install(t) \/ Drop(t) \/ Update(t)
  BY <1>3, StartClosingSafe, InstallSafe, DropSafe, UpdateSafe
<1> QED
  BY <1>1, <1>2, <1>3 DEF Step

-----------------------------------------------------------------------------
(* The end of an operation, and the fibers that are stopped.                *)

LEMMA FinishSafe ==
  ASSUME LockInv, WorkersHold, Types, StateOK, NEW t \in Callers, Finish(t)
  PROVE  Types' /\ StateOK'
<1>1. /\ OthersStay(t) /\ task'[t] = Leaving /\ Working(t) /\ task[t].plan = <<>>
      /\ UNCHANGED <<entry, lease, platform, persisted, saved, bearer, unsettled>>
  BY LeavesTask DEF Finish, Working, catalogVars, storeVars
<1>2. /\ ~Working(t)' /\ ~Active(t)' /\ ~task'[t].replaced
  BY <1>1, Constants DEF Working, Active
<1>3. \A u \in Callers \ {t} : ~Working(u) /\ ~Working(u)' /\ task'[u] = task[u]
  BY <1>1, OneWorks DEF OthersStay, Working
<1>4. Consistent(entry)
  BY <1>1, WorkLeads DEF StateOK, WorkOK, Leading, Leads, Ends
<1>5. \A s \in Supervisors : ~Closing(s)
  <2>1. <<>> \notin ClosingPlans
    BY DEF ClosingPlans
  <2> QED
    BY <1>1, <1>3, <2>1 DEF StateOK, LeaseOK
<1>6. /\ sup' \in [Supervisors -> SupervisorStates]
      /\ \A s \in Supervisors :
           /\ sup'[s].status = sup[s].status /\ sup'[s].wanted = sup[s].wanted
           /\ sup'[s].routes = sup[s].routes /\ sup'[s].owners = sup[s].owners
           /\ sup'[s].phase = sup[s].phase
           /\ sup'[s].via = sup[s].via /\ sup'[s].bearer = sup[s].bearer
           /\ sup'[s].retry = IF Retries(t) /\ s = lease.supervisor THEN TRUE ELSE sup[s].retry
  <2>1. sup \in [Supervisors -> SupervisorStates]
    BY DEF Types
  <2>2. CASE Retries(t)
    <3>1. sup' = [sup EXCEPT ![lease.supervisor].retry = TRUE]
      BY <2>2 DEF Finish
    <3>2. \A s \in Supervisors : sup'[s] = IF s = lease.supervisor
                                          THEN [sup[s] EXCEPT !.retry = TRUE] ELSE sup[s]
      BY <2>1, <3>1
    <3>3. \A s \in Supervisors : sup[s] \in SupervisorStates
      BY <2>1
    <3>4. \A s \in Supervisors : [sup[s] EXCEPT !.retry = TRUE] \in SupervisorStates
      BY <3>3 DEF SupervisorStates
    <3>5. sup' \in [Supervisors -> SupervisorStates]
      BY <2>1, <3>1, <3>2, <3>4
    <3>6. ASSUME NEW s \in Supervisors
          PROVE  /\ sup'[s].status = sup[s].status /\ sup'[s].wanted = sup[s].wanted
                 /\ sup'[s].routes = sup[s].routes /\ sup'[s].owners = sup[s].owners
                 /\ sup'[s].phase = sup[s].phase
                 /\ sup'[s].via = sup[s].via /\ sup'[s].bearer = sup[s].bearer
                 /\ sup'[s].retry = IF s = lease.supervisor THEN TRUE ELSE sup[s].retry
      <4>1. CASE s = lease.supervisor
        <5>1. sup'[s] = [sup[s] EXCEPT !.retry = TRUE] /\ sup[s] \in SupervisorStates
          BY <3>2, <3>3, <4>1
        <5> QED
          BY <4>1, <5>1 DEF SupervisorStates
      <4>2. CASE s # lease.supervisor
        BY <3>2, <4>2
      <4> QED
        BY <4>1, <4>2
    <3> QED
      BY <2>2, <3>5, <3>6
  <2>3. CASE ~Retries(t)
    BY <2>1, <2>3 DEF Finish
  <2> QED
    BY <2>2, <2>3
<1>7. Types'
  <2>1. task' \in [Callers -> Tasks]
    BY Constants DEF Finish, Types
  <2> QED
    BY <1>1, <1>6, <2>1 DEF Types
<1>8. FibersOK'
  <2> SUFFICES ASSUME NEW s \in Supervisors
               PROVE  /\ Active(Learner(s))' =>
                           /\ sup'[s].status # "none" /\ Op(Learner(s))' = "learnRoutes"
                           /\ Owner(Learner(s))' \in sup'[s].owners
                      /\ Active(Watcher(s))' =>
                           /\ sup'[s].status # "none" /\ Op(Watcher(s))' = "setCompatibility"
                           /\ task'[Watcher(s)].request.verdict = Verdict("socket", Places(sup'[s].routes))
                      /\ sup'[s].phase = "connected" => sup'[s].via \in sup'[s].owners
    BY DEF FibersOK
  <2>1. Active(Learner(s))' => task'[Learner(s)] = task[Learner(s)]
    BY <1>2, <1>3, FibersAreCallers
  <2>2. Active(Watcher(s))' => task'[Watcher(s)] = task[Watcher(s)]
    BY <1>2, <1>3, FibersAreCallers
  <2>3. /\ sup'[s].status = sup[s].status /\ sup'[s].routes = sup[s].routes
        /\ sup'[s].owners = sup[s].owners
        /\ sup'[s].phase = sup[s].phase /\ sup'[s].via = sup[s].via
    BY <1>6
  <2> QED
    BY <2>1, <2>2, <2>3 DEF StateOK, FibersOK, Active, Op, Chosen, Owner
<1>9. OthersOK'
  BY <1>1, <1>2, QuietOthers DEF StateOK
<1>10. LeaseOK'
  <2>1. \A s \in Supervisors :
          /\ sup'[s].status = sup[s].status /\ sup'[s].wanted = sup[s].wanted
          /\ sup'[s].routes = sup[s].routes /\ sup'[s].owners = sup[s].owners
    BY <1>6
  <2>2. \A s \in Supervisors : ~Closing(s)'
    BY <1>5, <2>1 DEF Closing
  <2> QED
    BY <1>1, <2>1, <2>2 DEF StateOK, LeaseOK
<1>11. WorkOK' /\ EntryOK'
  <2>1. Consistent(entry)'
    BY <1>1, <1>4, ConsistentStays
  <2>2. \A u \in Callers : ~Working(u)'
    BY <1>2, <1>3
  <2> QED
    BY <1>1, <2>1, <2>2 DEF StateOK, WorkOK, EntryOK, Whole
<1>12. BearersOK'
  <2>1. \A u \in Callers : ~task'[u].replaced
    BY <1>2, <1>3 DEF StateOK, BearersOK
  <2>2. ASSUME NEW s \in Supervisors, sup[s].status = "open", sup[s].bearer \notin {0, bearer},
               "bearer" \notin unsettled
        PROVE  sup'[s].retry
    <3>1. sup[s].retry \/ \E u \in Callers : Renews(u)
      BY <2>2 DEF StateOK, BearersOK
    <3>2. CASE sup[s].retry
      BY <1>6, <3>2
    <3>3. CASE \E u \in Callers : Renews(u)
      <4>1. task[t].replaced
        BY <1>3, <3>3 DEF Renews
      <4>2. lease.supervisor = s
        BY <2>2 DEF StateOK, LeaseOK
      <4>3. sup[s].phase \in {"connecting", "refused"}
        BY <2>2 DEF StateOK, BearersOK
      <4>4. Retries(t)
        BY <4>1, <4>2, <4>3 DEF Retries
      <4> QED
        BY <1>6, <4>2, <4>4
    <3> QED
      BY <3>1, <3>2, <3>3
  <2>3. \A s \in Supervisors :
          /\ sup'[s].status = sup[s].status /\ sup'[s].phase = sup[s].phase
          /\ sup'[s].bearer = sup[s].bearer
    BY <1>6
  <2>4. \A s \in Supervisors :
          /\ sup'[s].phase \notin {"connecting", "refused"} => sup'[s].bearer = 0
          /\ sup'[s].phase = "refused" => sup'[s].bearer # 0
    BY <2>3 DEF StateOK, BearersOK
  <2>5. "bearer" \notin unsettled =>
          \A s \in Supervisors :
            sup'[s].status = "open" /\ sup'[s].bearer \notin {0, bearer} => sup'[s].retry
    BY <2>2, <2>3
  <2> QED
    BY <1>1, <2>1, <2>4, <2>5 DEF BearersOK
<1> QED
  BY <1>7, <1>8, <1>9, <1>10, <1>11, <1>12 DEF StateOK

\* Who waits for a scope to close is never one of its fibers, so that a fiber that
\* is stopped then has only waited for the lock.
LEMMA FiberStopsSafe ==
  ASSUME LockInv, WorkersHold, Types, StateOK, NEW s \in Supervisors, FiberStops(s)
  PROVE  Types' /\ StateOK'
<1>1. PICK f \in Fibers(s) : task[f].stage \in {"asked", "working"} /\ Stops(f)
  BY DEF FiberStops
<1>2. /\ Closing(s) /\ f \in Callers /\ f \in FiberSet
      /\ UNCHANGED <<entry, lease, platform, persisted, bearer, sup>>
  BY <1>1, FibersAreCallers DEF FiberStops, FiberSet, catalogVars
<1>3. PICK t \in Callers : Working(t) /\ task[t].plan \in ClosingPlans
  BY <1>2 DEF StateOK, LeaseOK
<1>4. Op(f) \in {"learnRoutes", "setCompatibility"}
  <2>1. f = Learner(s) \/ f = Watcher(s)
    BY <1>1 DEF Fibers
  <2>2. Active(f)
    BY <1>1 DEF Active
  <2> QED
    BY <2>1, <2>2 DEF StateOK, FibersOK
<1>5. Op(t) \notin {"learnRoutes", "setCompatibility"}
  <2>1. Head(task[t].plan) \in {"install", "drop"} /\ task[t].plan # <<>>
    BY <1>3, FixedPlans DEF ClosingPlans, Leads
  <2>2. Leading(t)
    BY <1>3, WorkLeads DEF StateOK, WorkOK
  <2>3. Builds(t) \/ Drops(t) \/ Releases(t)
    BY <2>1, <2>2 DEF Leading, Leads
  <2> QED
    BY <2>3 DEF Builds, Drops, Releases, UpdateOps, RemoveOps
<1>6. f # t /\ ~Working(f)
  BY <1>2, <1>3, <1>4, <1>5, OneWorks
<1>7. ~ExitLock(f)
  BY <1>2, <1>3, <1>6, HolderAlone DEF ExitLock
<1>8. OthersStay(f) /\ task'[f] = Leaving /\ UNCHANGED <<saved, unsettled>>
  BY <1>1, <1>2, <1>7, StopsTask DEF Stops, StopsWaiting
<1>9. ~Working(f)' /\ ~Active(f)' /\ ~task'[f].replaced
  BY <1>8, Constants DEF Working, Active
<1>10. Idlers
  BY <1>6, <1>8, <1>9 DEF OthersStay, Idlers
<1>11. WorkOK' /\ EntryOK' /\ LeaseOK' /\ BearersOK'
  BY <1>2, <1>8, <1>10, SameSup, QuietWork, QuietLease, QuietBearers DEF StateOK
<1>12. OthersOK'
  BY <1>2, <1>8, <1>9, QuietOthers DEF StateOK
<1>13. FibersOK'
  <2>1. \A u \in Callers : Active(u)' => task'[u] = task[u]
    BY <1>8, <1>9 DEF OthersStay
  <2> QED
    BY <1>2, <2>1, FibersAreCallers DEF StateOK, FibersOK, Active, Op, Chosen, Owner
<1>14. Types'
  BY <1>1, <1>2, StopsTyped DEF Types
<1> QED
  BY <1>11, <1>12, <1>13, <1>14 DEF StateOK

-----------------------------------------------------------------------------
(* The supervisor.                                                          *)

\* What a fiber that learns routes was at: its write, its update, or the end.
LEMMA LearnerWork ==
  ASSUME Types, StateOK, NEW f \in Callers, Working(f), Op(f) = "learnRoutes"
  PROVE  \/ Ends(f)
         \/ Updates(f) /\ Leads(task[f].plan, "write", <<"update">>) /\ Consistent(entry)
         \/ Updates(f) /\ Leads(task[f].plan, "update", <<>>) /\ Consistent(task[f].next)
<1>1. Leading(f)
  BY WorkLeads DEF StateOK, WorkOK
<1> QED
  BY <1>1 DEF Leading, Replaces, ReplaceOps, Builds, UpdateOps, Erases, Drops, RemoveOps, Takes,
              Unshadows, Releases

\* A save of learned routes that is cut short leaves the stored routes as they
\* are, and the next session learns once more.
LEMMA CutShort ==
  ASSUME Types, StateOK, NEW f \in Callers, Working(f), Op(f) = "learnRoutes",
         Due(f, "write") \/ Due(f, "update"),
         saved' = Written(f), unsettled' = unsettled \cup {"learned"},
         UNCHANGED <<entry, platform, persisted>>
  PROVE  Consistent(entry)' /\ EntryOK'
<1>1. Updates(f) /\ (Consistent(entry) \/ Consistent(task[f].next))
  BY LearnerWork DEF Due, Ends
<1>2. /\ entry # NoEntry /\ Whole(task[f].next) /\ task[f].next.routes = entry.routes
      /\ task[f].next.enabled = entry.enabled /\ ~platform
  BY <1>1 DEF Updates, Intended
<1>3. saved' = [saved EXCEPT !.routes = task[f].next.routes, !.learned = task[f].next.learned]
  BY DEF Written
<1>4. /\ saved'.routes = task[f].next.routes /\ saved'.learned = task[f].next.learned
      /\ saved'.enabled = saved.enabled
  BY <1>3 DEF Types, Records
<1>5. task[f].next # NoEntry
  BY <1>2, WholeSome
<1>6. "shadow" \in unsettled \/ (saved.enabled = entry.enabled /\ persisted = TRUE)
  BY <1>1, <1>2, <1>5 DEF Consistent
<1>7. Consistent(entry)'
  <2>1. Listed(saved') = Listed(task[f].next) /\ Listed(task[f].next) # {}
    BY <1>2, <1>4 DEF Listed, Whole
  <2> QED
    BY <1>2, <1>4, <1>6, <2>1 DEF Consistent
<1>8. EntryOK'
  BY <1>2, <1>4 DEF StateOK, EntryOK, Whole
<1> QED
  BY <1>7, <1>8

\* A fiber that learns routes may be stopped at any point of what it does.
LEMMA LearnerStops ==
  ASSUME LockInv, WorkersHold, Types, StateOK, NEW f \in Callers, Op(f) = "learnRoutes", Stops(f),
         UNCHANGED <<entry, lease, platform, persisted>>
  PROVE  WorkOK' /\ EntryOK' /\ unsettled \subseteq unsettled'
<1>1. OthersStay(f) /\ task'[f] = Leaving
  BY StopsTask
<1>2. ~Working(f)' /\ ~task'[f].replaced
  BY <1>1, Constants DEF Working
<1>3. CASE ~Working(f)
  <2>1. UNCHANGED <<saved, unsettled>>
    BY <1>3 DEF Stops, StopsWaiting, Due, Working
  <2>2. Idlers
    BY <1>1, <1>2, <1>3 DEF OthersStay, Idlers
  <2> QED
    BY <2>1, <2>2, QuietWork DEF StateOK
<1>4. CASE Working(f)
  <2>1. \A u \in Callers : ~Working(u)'
    BY <1>1, <1>2, <1>4, OneWorks DEF OthersStay, Working
  <2>2. CASE UNCHANGED <<saved, unsettled>> /\ ~Due(f, "update")
    <3>1. Consistent(entry)
      BY <1>4, <2>2, LearnerWork DEF Ends, Due, Leads, Working
    <3>2. Consistent(entry)'
      BY <2>2, <3>1, ConsistentStays
    <3>3. EntryOK'
      BY <2>2 DEF StateOK, EntryOK, Whole
    <3> QED
      BY <2>1, <2>2, <3>2, <3>3 DEF WorkOK
  <2>3. CASE /\ Due(f, "write") \/ Due(f, "update")
             /\ saved' = Written(f) /\ unsettled' = unsettled \cup {"learned"}
    <3>1. Consistent(entry)' /\ EntryOK'
      BY <1>4, <2>3, CutShort
    <3> QED
      BY <2>1, <2>3, <3>1 DEF WorkOK
  <2>4. ~StopsWaiting(f)
    BY <1>4 DEF StopsWaiting, Working
  <2> QED
    BY <2>2, <2>3, <2>4 DEF Stops
<1> QED
  BY <1>3, <1>4

\* What may become of a supervisor: its intent and its routes are not its to change.
Follows(s, state) ==
  /\ state.status = sup[s].status /\ state.wanted = sup[s].wanted /\ state.routes = sup[s].routes
  /\ state.owners = sup[s].owners
  /\ state.phase = "connected" => state.via \in state.owners
  /\ state.phase \notin {"connecting", "refused"} => state.bearer = 0
  /\ state.phase = "refused" => state.bearer # 0
  /\ \/ state.bearer \in {0, bearer}
     \/ state.bearer = sup[s].bearer /\ state.retry = sup[s].retry

LEMMA BecomesSafe ==
  ASSUME LockInv, WorkersHold, Types, StateOK, NEW s \in Supervisors, NEW state,
         Becomes(s, state), Follows(s, state)
  PROVE  StateOK'
<1> DEFINE f == Learner(s)
<1>1. /\ sup[s].status = "open" /\ f \in Callers /\ f \in FiberSet
      /\ UNCHANGED <<entry, lease, platform, persisted, bearer>>
  BY FibersAreCallers, Distinct DEF Becomes, catalogVars
<1>2. sup'[s] = state /\ \A r \in Supervisors \ {s} : sup'[r] = sup[r]
  BY DEF Becomes, Types
<1>3. Active(f) => Stops(f)
  BY DEF Becomes, Active
<1>4. ~Active(f) => UNCHANGED <<task, saved, unsettled>>
  BY DEF Becomes, Active
<1>5. Active(f) => Op(f) = "learnRoutes"
  BY DEF StateOK, FibersOK
<1> HIDE DEF f
<1>6. OthersStay(f) /\ (Active(f) => task'[f] = Leaving) /\ (~Active(f) => task'[f] = task[f])
  BY <1>1, <1>3, <1>4, StopsTask DEF OthersStay
<1>7. ~Active(f)' /\ ~Working(f)'
  BY <1>6, Constants DEF Active, Working
<1>8. WorkOK' /\ EntryOK' /\ unsettled \subseteq unsettled'
  <2>1. CASE Active(f)
    BY <1>1, <1>3, <1>5, <2>1, LearnerStops
  <2>2. CASE ~Active(f)
    BY <1>1, <1>4, <2>2, QuietWork DEF StateOK, Idlers
  <2> QED
    BY <2>1, <2>2
<1>9. FibersOK'
  <2>1. \A u \in Callers : Active(u)' => task'[u] = task[u]
    BY <1>6, <1>7 DEF OthersStay
  <2>2. ASSUME NEW r \in Supervisors
        PROVE  /\ sup'[r].status = sup[r].status /\ sup'[r].routes = sup[r].routes
               /\ sup'[r].owners = sup[r].owners
               /\ sup'[r].phase = "connected" => sup'[r].via \in sup'[r].owners
    <3>1. CASE r = s
      BY <1>2, <3>1 DEF Follows
    <3>2. CASE r # s
      BY <1>2, <3>2 DEF StateOK, FibersOK
    <3> QED
      BY <3>1, <3>2
  <2> QED
    BY <2>1, <2>2, FibersAreCallers DEF StateOK, FibersOK, Active, Op, Chosen, Owner
<1>10. OthersOK'
  BY <1>1, <1>6, <1>7, QuietOthers DEF StateOK
<1>11. LeaseOK'
  <2>1. lease # NoLease /\ \A r \in Supervisors : ~Closing(r)
    BY <1>1 DEF StateOK, LeaseOK
  <2>2. \A r \in Supervisors :
          /\ sup'[r].status = sup[r].status /\ sup'[r].wanted = sup[r].wanted
          /\ sup'[r].routes = sup[r].routes /\ sup'[r].owners = sup[r].owners
    BY <1>2 DEF Follows
  <2>3. \A r \in Supervisors : ~Closing(r)'
    BY <2>1, <2>2 DEF Closing
  <2> QED
    BY <1>1, <2>2, <2>3 DEF StateOK, LeaseOK
<1>12. BearersOK'
  <2>1. \A u \in Callers : ~Working(u)' => ~task'[u].replaced
    <3>1. \A u \in Callers \ {f} : task'[u] = task[u]
      BY <1>6 DEF OthersStay
    <3>2. ~task'[f].replaced
      <4>1. CASE Active(f)
        BY <1>6, <4>1, Constants
      <4>2. CASE ~Active(f)
        BY <1>1, <1>6, <4>2 DEF StateOK, BearersOK, Active, Working
      <4> QED
        BY <4>1, <4>2
    <3> QED
      BY <3>1, <3>2 DEF StateOK, BearersOK, Working
  <2>2. \A u \in Callers : Renews(u) => Renews(u)'
    <3>1. ~Renews(f)
      BY <1>5 DEF Renews, Active, Working
    <3> QED
      BY <1>6, <3>1 DEF Renews, OthersStay, Working, Op
  <2>3. \A r \in Supervisors :
          /\ sup'[r].phase \notin {"connecting", "refused"} => sup'[r].bearer = 0
          /\ sup'[r].phase = "refused" => sup'[r].bearer # 0
    BY <1>2 DEF StateOK, BearersOK, Follows
  <2>4. ASSUME NEW r \in Supervisors, "bearer" \notin unsettled,
               sup'[r].status = "open", sup'[r].bearer \notin {0, bearer}
        PROVE  sup'[r].retry \/ \E u \in Callers : Renews(u)
    <3>1. sup[r].status = "open" /\ sup'[r].bearer = sup[r].bearer /\ sup'[r].retry = sup[r].retry
      BY <1>1, <1>2, <2>4 DEF Follows
    <3> QED
      BY <2>4, <3>1 DEF StateOK, BearersOK
  <2> QED
    BY <1>1, <1>8, <2>1, <2>2, <2>3, <2>4 DEF BearersOK
<1> QED
  BY <1>8, <1>9, <1>10, <1>11, <1>12 DEF StateOK

LEMMA SuperviseFollows ==
  ASSUME Types, StateOK, NEW s \in Supervisors, Supervise(s)
  PROVE  \E state : Becomes(s, state) /\ Follows(s, state)
<1>1. sup[s] \in SupervisorStates
  BY DEF Types
<1>2. /\ sup[s].phase \notin {"connecting", "refused"} => sup[s].bearer = 0
      /\ sup[s].phase = "connected" => sup[s].via \in sup[s].owners
  BY DEF StateOK, BearersOK, FibersOK
<1>3. ASSUME NEW phase \in Phases
      PROVE  /\ Left(s, phase).status = sup[s].status /\ Left(s, phase).wanted = sup[s].wanted
             /\ Left(s, phase).routes = sup[s].routes /\ Left(s, phase).owners = sup[s].owners
             /\ Left(s, phase).phase = phase /\ Left(s, phase).retry = sup[s].retry
             /\ Left(s, phase).bearer = IF phase = "refused" THEN sup[s].bearer ELSE 0
             /\ Left(s, phase) \in SupervisorStates
  BY <1>1 DEF Left, SupervisorStates
<1>4. {"available", "connecting", "connected", "backoff", "refused", "unsupported"} \subseteq Phases
  BY DEF Phases
<1>5. CASE Attempt(s)
  <2> DEFINE state == [sup[s] EXCEPT !.phase = "connecting", !.retry = FALSE]
  <2>1. Follows(s, state)
    BY <1>1, <1>2, <1>5 DEF Attempt, Follows, SupervisorStates
  <2> QED
    BY <1>5, <2>1 DEF Attempt
<1>6. CASE ReadBearer(s)
  <2> DEFINE state == [sup[s] EXCEPT !.bearer = bearer]
  <2>1. Follows(s, state)
    BY <1>1, <1>6 DEF ReadBearer, Follows, SupervisorStates
  <2> QED
    BY <1>6, <2>1 DEF ReadBearer
<1>7. CASE AttemptEnds(s)
  <2>1. ASSUME NEW r \in sup[s].owners
        PROVE  Follows(s, [Left(s, "connected") EXCEPT !.via = r, !.reported = FALSE])
    BY <1>3, <1>4 DEF Follows, SupervisorStates
  <2>2. Follows(s, Left(s, "backoff"))
    BY <1>3, <1>4 DEF Follows
  <2>3. sup[s].bearer # 0 => Follows(s, Left(s, "refused"))
    BY <1>3, <1>4 DEF Follows
  <2>4. Follows(s, [Left(s, "unsupported") EXCEPT !.told = FALSE])
    BY <1>3, <1>4 DEF Follows, SupervisorStates
  <2> QED
    BY <1>7, <2>1, <2>2, <2>3, <2>4 DEF AttemptEnds
<1>8. CASE Resumes(s)
  <2>1. Follows(s, Left(s, "available"))
    BY <1>3, <1>4 DEF Follows
  <2> QED
    BY <1>8, <2>1 DEF Resumes
<1> QED
  BY <1>5, <1>6, <1>7, <1>8 DEF Supervise

LEMMA SuperviseSafe ==
  ASSUME LockInv, WorkersHold, Types, StateOK, NEW s \in Supervisors, Supervise(s)
  PROVE  Types' /\ StateOK'
BY SuperviseTyped, SuperviseFollows, BecomesSafe

-----------------------------------------------------------------------------
(* The invariant holds.                                                     *)

LEMMA StateStep ==
  ASSUME LockInv, WorkersHold, Types, StateOK, [Next]_vars
  PROVE  Types' /\ StateOK'
<1>1. CASE UNCHANGED vars
  BY <1>1, StutterSafe DEF vars, catalogVars, storeVars
<1>2. ASSUME NEW u \in Users, Call(u) PROVE Types' /\ StateOK'
  BY <1>2, CallSafe
<1>3. CASE Reconcile \/ Discover
  BY <1>3, ReconcileSafe, DiscoverSafe
<1>4. ASSUME NEW t \in Callers, Begin(t) \/ Step(t) \/ Finish(t) \/ Leave(t)
      PROVE  Types' /\ StateOK'
  BY <1>4, BeginSafe, StepSafe, FinishSafe, LeaveSafe
<1>5. CASE GetLock
  BY <1>5, GetLockSafe
<1>6. ASSUME NEW s \in Supervisors, Supervise(s) \/ Fiber(s) PROVE Types' /\ StateOK'
  BY <1>6, SuperviseSafe, LearnRoutesSafe, WatchSafe, FiberStopsSafe DEF Fiber
<1> QED
  BY <1>1, <1>2, <1>3, <1>4, <1>5, <1>6 DEF Next

LEMMA RegistryStays == ASSUME RegistryInv, [Next]_vars PROVE RegistryInv'
<1>1. LockInv'
  BY RegistryStep, LockStep DEF RegistryInv
<1>2. WorkersHold'
  BY HoldStep DEF RegistryInv
<1>3. Types' /\ StateOK'
  BY StateStep DEF RegistryInv
<1> QED
  BY <1>1, <1>2, <1>3 DEF RegistryInv

LEMMA RegistryInitially == ASSUME Init PROVE RegistryInv
<1>1. /\ LockInit /\ lease = NoLease /\ platform = FALSE /\ bearer = 0 /\ unsettled = {}
      /\ sup = [s \in Supervisors |-> NoSupervisor] /\ task = [t \in Callers |-> NoTask]
  BY DEF Init
<1>2. PICK e \in {NoEntry, Entry({RelayRoute}, {}, TRUE, NoVerdict)} :
        entry = e /\ persisted = (e # NoEntry) /\ saved = Saved(e)
  BY DEF Init
<1>3. /\ NoVerdict \in Verdicts /\ NoEntry \in Entries /\ NoLease \in Leases
      /\ NoSupervisor \in SupervisorStates /\ NoTask \in Tasks
      /\ NoTask.stage = "idle" /\ NoTask.replaced = FALSE
  BY Constants
<1>4. /\ NoSupervisor.status = "none" /\ NoSupervisor.phase = "available"
      /\ NoSupervisor.bearer = 0
  BY DEF NoSupervisor
<1>5. LockInv
  BY <1>1, LockInitially
<1>6. \A t \in Callers : task[t].stage = "idle" /\ ~task[t].replaced
  BY <1>1, <1>3
<1>7. WorkersHold
  BY <1>1, <1>6 DEF WorkersHold, HolderTable, LockInit, Working
<1>8. /\ entry \in Entries /\ saved \in Records /\ persisted = (Listed(saved) # {})
      /\ entry = NoEntry \/ Whole(entry)
  <2>1. CASE e = NoEntry
    BY <1>2, <2>1, Constants DEF Saved, NoEntry, Entry, Listed
  <2>2. CASE e = Entry({RelayRoute}, {}, TRUE, NoVerdict)
    <3>1. {RelayRoute} \subseteq AllRoutes /\ {} \subseteq LearnedRoutes
      BY RoutesTyped
    <3>2. NoVerdict.by # "socket"
      BY DEF NoVerdict
    <3>3. e.routes = {RelayRoute} /\ e.learned = {} /\ e.enabled = TRUE /\ e.verdict = NoVerdict
          /\ e \in Entries
      BY <1>3, <2>2, <3>1 DEF Entry, Entries
    <3>4. Listed(e) # {} /\ Listed(Saved(e)) # {} /\ Saved(e) \in Records
      BY <3>1, <3>3 DEF Listed, Saved, Records
    <3>5. e # NoEntry /\ Whole(e)
      BY <3>2, <3>3, <3>4 DEF Whole, NoEntry, Entry
    <3> QED
      BY <1>2, <3>3, <3>4, <3>5
  <2> QED
    BY <2>1, <2>2
<1>9. Types
  BY <1>1, <1>2, <1>3, <1>8 DEF Types
<1>10. FibersOK /\ OthersOK
  BY <1>1, <1>4, <1>6, FibersAreCallers DEF FibersOK, OthersOK, Active
<1>11. EntryOK
  BY <1>8 DEF EntryOK
<1>12. LeaseOK
  BY <1>1, <1>4 DEF LeaseOK, Closing
<1>13. WorkOK
  <2>1. Consistent(entry)
    BY <1>1, <1>2, <1>8 DEF Consistent, Saved
  <2> QED
    BY <1>6, <2>1 DEF WorkOK, Working
<1>14. BearersOK
  BY <1>1, <1>4, <1>6 DEF BearersOK
<1> QED
  BY <1>5, <1>7, <1>9, <1>10, <1>11, <1>12, <1>13, <1>14 DEF RegistryInv, StateOK

\* registry.ts: what the locked operations rely on of each other holds in every
\* state, for any number of users, supervisors, routes, bearers and faults.
THEOREM RegistryInvariant == Spec => []RegistryInv
<1>1. Init => RegistryInv
  BY RegistryInitially
<1>2. RegistryInv /\ [Next]_vars => RegistryInv'
  BY RegistryStays
<1> QED
  BY <1>1, <1>2, PTL DEF Spec

-----------------------------------------------------------------------------
(* Whose credential a learned route borrows.  When its owner is no route of *)
(* the entry, it gave way to another id: what a plan is about to write, and *)
(* the owners a supervisor was made with, may name such an id too.          *)

Parented(e) == Ids(e.learned) \subseteq Ids(e.routes) \cup displaced
ToWrite(t) == Due(t, "forget") \/ Due(t, "write")
GivingWay(t) == IF Op(t) = "register" /\ ToWrite(t) THEN Ids(entry.routes) ELSE {}
PlanParented(t) ==
  /\ Ids(task[t].next.learned) \subseteq Ids(task[t].next.routes) \cup displaced \cup GivingWay(t)
  /\ Op(t) = "register" =>
       /\ Chosen(t).id \in Ids(task[t].next.routes)
       /\ \/ ToWrite(t)
          \/ saved.routes = task[t].next.routes /\ saved.learned = task[t].next.learned
Planning(t) == Working(t) /\ task[t].plan # <<>>
OwnersParented ==
  \A s \in Supervisors :
    sup[s].status # "none" => sup[s].owners \subseteq Ids(sup[s].routes) \cup displaced
ParentInv ==
  /\ displaced \subseteq Ids(AllRoutes)
  /\ Parented(entry) /\ Parented(saved) /\ OwnersParented
  /\ \A t \in Callers : Planning(t) => PlanParented(t)

\* Supervisors keep the routes they were made with, or are gone.
KeepOwners ==
  \A s \in Supervisors :
    \/ sup'[s].status = "none"
    \/ /\ sup'[s].routes = sup[s].routes /\ sup'[s].owners = sup[s].owners
       /\ sup[s].status # "none"

LEMMA QuietParents ==
  ASSUME ParentInv, UNCHANGED <<entry, saved, displaced>>, KeepOwners,
         \A t \in Callers : Planning(t)' => task'[t] = task[t]
  PROVE  ParentInv'
<1>1. Parented(entry)' /\ Parented(saved)' /\ displaced' \subseteq Ids(AllRoutes)
  BY DEF ParentInv, Parented
<1>2. OwnersParented'
  BY DEF ParentInv, OwnersParented, KeepOwners
<1>3. ASSUME NEW t \in Callers, Planning(t)' PROVE PlanParented(t)'
  <2>1. task'[t] = task[t] /\ Planning(t)
    BY <1>3 DEF Planning, Working
  <2>2. PlanParented(t)
    BY <2>1 DEF ParentInv
  <2> QED
    BY <2>1, <2>2 DEF PlanParented, GivingWay, ToWrite, Due, Op, Chosen
<1> QED
  BY <1>1, <1>2, <1>3 DEF ParentInv

LEMMA SameOwners == ASSUME sup' = sup PROVE KeepOwners
BY DEF KeepOwners

\* What the store holds after a write.
LEMMA WrittenRoutes ==
  ASSUME Types, NEW t \in Callers
  PROVE  /\ \/ Written(t).routes = saved.routes /\ Written(t).learned = saved.learned
            \/ /\ Written(t).routes = task[t].next.routes
               /\ Written(t).learned = task[t].next.learned
         /\ Op(t) = "register" => /\ Written(t).routes = task[t].next.routes
                                  /\ Written(t).learned = task[t].next.learned
<1>1. saved \in Records
  BY DEF Types
<1>2. /\ Saved(task[t].next).routes = task[t].next.routes
      /\ Saved(task[t].next).learned = task[t].next.learned
  BY DEF Saved
<1>3. /\ [saved EXCEPT !.enabled = task[t].next.enabled].routes = saved.routes
      /\ [saved EXCEPT !.enabled = task[t].next.enabled].learned = saved.learned
  BY <1>1 DEF Records
<1> DEFINE replaced == [saved EXCEPT !.routes = task[t].next.routes, !.learned = task[t].next.learned]
<1>4. replaced.routes = task[t].next.routes /\ replaced.learned = task[t].next.learned
  BY <1>1 DEF Records
<1> HIDE DEF replaced
<1>5. CASE Op(t) \in {"setEnabled", "setCompatibility"}
  BY <1>3, <1>5 DEF Written
<1>6. CASE Op(t) = "register" /\ Listed(saved) = {}
  BY <1>2, <1>6 DEF Written
<1>7. CASE /\ Op(t) \notin {"setEnabled", "setCompatibility"}
           /\ ~(Op(t) = "register" /\ Listed(saved) = {})
  <2>1. Written(t) = replaced
    BY <1>7 DEF Written, replaced
  <2> QED
    BY <1>4, <1>7, <2>1
<1> QED
  BY <1>5, <1>6, <1>7

\* A fiber that is stopped may have written what it had merged.
LEMMA StopsParents ==
  ASSUME RegistryInv, ParentInv, NEW f \in FiberSet, f \in Callers, Stops(f),
         UNCHANGED <<entry, displaced>>, KeepOwners
  PROVE  ParentInv'
<1>1. LockInv /\ WorkersHold /\ Types /\ StateOK
  BY DEF RegistryInv
<1>2. OthersStay(f) /\ task'[f] = Leaving /\ ~Working(f)'
  BY <1>1, StopsTask, Constants DEF Working
<1>3. CASE UNCHANGED saved
  <2>1. \A t \in Callers : Planning(t)' => task'[t] = task[t]
    BY <1>2 DEF Planning, OthersStay
  <2> QED
    BY <1>3, <2>1, QuietParents
<1>4. CASE (Due(f, "write") \/ Due(f, "update")) /\ saved' = Written(f)
  <2>1. Planning(f) /\ Active(f)
    BY <1>4 DEF Due, Planning, Working, Active
  <2>2. Op(f) # "register"
    <3>1. PICK s \in Supervisors : f = Learner(s) \/ f = Watcher(s)
      BY DEF FiberSet, Fibers
    <3> QED
      BY <1>1, <2>1, <3>1 DEF StateOK, FibersOK
  <2>3. Parented(task[f].next)
    BY <2>1, <2>2 DEF ParentInv, PlanParented, GivingWay, Parented
  <2>4. Parented(saved)'
    BY <1>1, <1>4, <2>3, WrittenRoutes DEF ParentInv, Parented
  <2>5. \A u \in Callers : ~Working(u)'
    BY <1>1, <1>2, <2>1, OneWorks DEF OthersStay, Working, Planning
  <2>6. OwnersParented' /\ Parented(entry)' /\ displaced' \subseteq Ids(AllRoutes)
    BY DEF ParentInv, OwnersParented, KeepOwners, Parented
  <2> QED
    BY <2>4, <2>5, <2>6 DEF ParentInv, Planning
<1> QED
  BY <1>3, <1>4 DEF Stops, StopsWaiting

\* What an operation that begins intends to write, and by which plan.
Sound(t, plan, next) ==
  /\ Ids(next.learned) \subseteq
       Ids(next.routes) \cup displaced \cup (IF Op(t) = "register" THEN Ids(entry.routes) ELSE {})
  /\ Op(t) = "register" =>
       Chosen(t).id \in Ids(next.routes) /\ plan \in {WithWrite, Then("forget", WithWrite)}
BegunSound(t) == \E plan, next : Begins(t, plan, next) /\ (plan = <<>> \/ Sound(t, plan, next))

LEMMA BegunParents ==
  ASSUME RegistryInv, ParentInv, NEW t \in Callers, BegunSound(t)
  PROVE  ParentInv'
<1>1. LockInv /\ WorkersHold /\ Types /\ StateOK
  BY DEF RegistryInv
<1>2. PICK plan, next : Begins(t, plan, next) /\ (plan = <<>> \/ Sound(t, plan, next))
  BY DEF BegunSound
<1>3. /\ OthersStay(t) /\ task[t].stage = "asked" /\ HoldsPermit(t) /\ Working(t)'
      /\ task'[t].request = task[t].request /\ task'[t].plan = plan /\ task'[t].next = next
      /\ UNCHANGED <<catalogVars, storeVars, sup>>
  BY <1>1, <1>2, BeginsTask
<1>4. UNCHANGED <<entry, saved, sup, displaced>>
  BY <1>2, <1>3 DEF catalogVars, storeVars, Begins
<1>5. \A u \in Callers : ~Working(u)
  BY <1>1, <1>3, Idle
<1>6. \A u \in Callers \ {t} : ~Planning(u)'
  BY <1>3, <1>5 DEF OthersStay, Planning, Working
<1>7. ASSUME plan # <<>> PROVE PlanParented(t)'
  <2>1. Op(t)' = Op(t) /\ Chosen(t)' = Chosen(t) /\ Sound(t, plan, next)
    BY <1>2, <1>3, <1>7 DEF Op, Chosen
  <2>2. Op(t) = "register" => ToWrite(t)'
    <3>1. Op(t) = "register" => plan # <<>> /\ Head(plan) \in {"forget", "write"}
      BY <2>1, WritePlans DEF Sound, Leads
    <3> QED
      BY <1>3, <3>1 DEF ToWrite, Due, Working
  <2> QED
    BY <1>3, <1>4, <2>1, <2>2 DEF PlanParented, GivingWay, Sound
<1>8. Parented(entry)' /\ Parented(saved)' /\ OwnersParented' /\ displaced' \subseteq Ids(AllRoutes)
  BY <1>4 DEF ParentInv, Parented, OwnersParented
<1> QED
  BY <1>3, <1>6, <1>7, <1>8 DEF ParentInv, Planning

\* A refusal has no plan; a plan for another entry is sound when that one is.
LEMMA SomeSound ==
  ASSUME NEW t \in Callers
  PROVE  /\ Refuses(t) => BegunSound(t)
         /\ \A plan, next :
              Begins(t, plan, next) /\ Parented(next) /\ Op(t) # "register" => BegunSound(t)
BY DEF Refuses, BegunSound, Sound, Parented

LEMMA ParentedEntries ==
  /\ Parented(NoEntry)
  /\ \A routes, enabled, verdict : Parented(Entry(routes, {}, enabled, verdict))
  /\ \A e, enabled, verdict :
       Parented(e) => Parented(Entry(e.routes, e.learned, enabled, verdict))
BY DEF Parented, NoEntry, Entry, Ids

LEMMA WithRoutesFields ==
  ASSUME Types, NEW routes, NEW learned
  PROVE  WithRoutes(routes, learned).routes = routes /\ WithRoutes(routes, learned).learned = learned
<1>1. entry \in Entries
  BY DEF Types
<1> QED
  BY <1>1 DEF WithRoutes, Entry, Entries

\* removeRoute: what was learned over the route goes with it.
LEMMA RemoveRouteSound ==
  ASSUME Types, ParentInv, NEW t \in Callers, BeginRemoveRoute(t)
  PROVE  BegunSound(t)
<1> DEFINE routes == {r \in entry.routes : r.id # Chosen(t).id}
           learned == LearnedWithout(Chosen(t))
<1>1. Op(t) # "register"
  BY DEF BeginRemoveRoute
<1>2. Ids(learned) \subseteq Ids(routes) \cup displaced
  BY DEF ParentInv, Parented, Ids, LearnedWithout
<1>3. Refuses(t) \/ Leaves(t, routes, learned)
  BY DEF BeginRemoveRoute
<1> HIDE DEF routes, learned
<1>4. Parented(WithRoutes(routes, learned))
  BY <1>2, WithRoutesFields DEF Parented
<1> QED
  BY <1>1, <1>3, <1>4, SomeSound, ParentedEntries DEF Leaves

LEMMA RemoveLearnedSound ==
  ASSUME Types, ParentInv, NEW t \in Callers, BeginRemoveLearned(t)
  PROVE  BegunSound(t)
<1> DEFINE learned == entry.learned \ {Chosen(t)}
<1>1. Op(t) # "register"
  BY DEF BeginRemoveLearned
<1>2. Ids(learned) \subseteq Ids(entry.routes) \cup displaced
  BY DEF ParentInv, Parented, Ids
<1>3. Refuses(t) \/ Leaves(t, entry.routes, learned)
  BY DEF BeginRemoveLearned
<1> HIDE DEF learned
<1>4. Parented(WithRoutes(entry.routes, learned))
  BY <1>2, WithRoutesFields DEF Parented
<1> QED
  BY <1>1, <1>3, <1>4, SomeSound, ParentedEntries DEF Leaves

\* register: the owner of a learned route may give way to another id.
LEMMA RegisterSound ==
  ASSUME Types, ParentInv, NEW t \in Callers, BeginRegister(t)
  PROVE  BegunSound(t)
<1> DEFINE routes == {r \in entry.routes : ~GivesWay(r, Chosen(t))} \cup {Chosen(t)}
           learned == {l \in entry.learned : l.at # Chosen(t).at}
           first == Entry({Chosen(t)}, {}, TRUE, NoVerdict)
<1>1. CASE Refuses(t)
  BY <1>1, SomeSound
<1>2. CASE Begins(t, <<"write">> \o Reinstall, first)
  <2>1. Parented(first) /\ Chosen(t).id \in Ids(first.routes)
    BY ParentedEntries DEF Entry, Ids
  <2>2. Begins(t, WithWrite, first)
    BY <1>2 DEF WithWrite, Then
  <2> HIDE DEF first
  <2> QED
    BY <2>1, <2>2 DEF BegunSound, Sound, Parented
<1>3. CASE Begins(t, Replacement(routes), WithRoutes(routes, learned))
  <2>1. Ids(learned) \subseteq displaced \cup Ids(entry.routes) /\ Chosen(t).id \in Ids(routes)
    BY DEF ParentInv, Parented, Ids
  <2>2. Op(t) = "register"
    BY DEF BeginRegister
  <2> HIDE DEF routes, learned
  <2>3. Sound(t, Replacement(routes), WithRoutes(routes, learned))
    BY <2>1, <2>2, WithRoutesFields, ReplacementPlan DEF Sound
  <2> QED
    BY <1>3, <2>3 DEF BegunSound
<1> QED
  BY <1>1, <1>2, <1>3 DEF BeginRegister

\* learnRoutes: the new routes borrow the credential of an owner whom the
\* supervisor was made with, which the entry's routes have not lost since.
LEMMA LearnRoutesSound ==
  ASSUME RegistryInv, ParentInv, NEW t \in Callers, Looking(t), BeginLearnRoutes(t)
  PROVE  BegunSound(t)
<1> DEFINE learned == Merged(task[t].request.reported, Owner(t))
           next == [entry EXCEPT !.learned = learned]
<1>1. LockInv /\ WorkersHold /\ Types /\ StateOK /\ Op(t) = "learnRoutes" /\ Active(t)
  BY DEF RegistryInv, BeginLearnRoutes, Looking, Active
<1>2. PICK s \in Supervisors : t = Learner(s) \/ t = Watcher(s)
  <2>1. t \in FiberSet
    BY <1>1 DEF StateOK, OthersOK
  <2> QED
    BY <2>1, Distinct
<1>3. Owner(t) \in sup[s].owners /\ sup[s].status # "none"
  BY <1>1, <1>2 DEF StateOK, FibersOK
<1>4. sup[s].routes = entry.routes
  BY <1>1, <1>3, FiberFits DEF Looking
<1>5. Owner(t) \in Ids(entry.routes) \cup displaced /\ Owner(t) \in Ids(AllRoutes)
  BY <1>1, <1>3, <1>4 DEF ParentInv, OwnersParented, Types, SupervisorStates
<1>6. Ids(learned) \subseteq Ids(entry.learned) \cup {Owner(t)}
  BY <1>1, <1>5, ChosenSavable, MergedRoutes
<1> HIDE DEF learned
<1>7. next.routes = entry.routes /\ next.learned = learned
  BY <1>1 DEF Types, Entries
<1>8. Parented(next)
  BY <1>5, <1>6, <1>7 DEF ParentInv, Parented
<1>9. Refuses(t) \/ Begins(t, <<"write", "update">>, next)
  BY DEF BeginLearnRoutes, learned
<1> HIDE DEF next
<1> QED
  BY <1>1, <1>8, <1>9, SomeSound

\* The other operations learn nothing and keep the owners.
LEMMA OthersSound ==
  ASSUME Types, ParentInv, NEW t \in Callers,
         \/ BeginAcquire(t) \/ BeginRemove(t) \/ BeginReorder(t) \/ BeginSetEnabled(t)
         \/ BeginSetCompatibility(t) \/ BeginInstall(t) \/ BeginRemovePlatform(t)
  PROVE  BegunSound(t)
<1>1. Parented(entry) /\ Parented(NoEntry)
  BY ParentedEntries DEF ParentInv
<1>2. CASE BeginAcquire(t)
  BY <1>1, <1>2, SomeSound DEF BeginAcquire
<1>3. CASE BeginRemove(t) \/ BeginReorder(t)
  BY <1>1, <1>3, SomeSound DEF BeginRemove, BeginReorder
<1>4. CASE BeginSetEnabled(t)
  <2>1. Parented([entry EXCEPT !.enabled = task[t].request.flag])
    <3>1. entry \in Entries
      BY DEF Types
    <3> QED
      BY <1>1, <3>1 DEF Parented, Entries
  <2> QED
    BY <1>4, <2>1, SomeSound DEF BeginSetEnabled
<1>5. CASE BeginSetCompatibility(t)
  BY <1>1, <1>5, SomeSound, ParentedEntries DEF BeginSetCompatibility
<1>6. CASE BeginInstall(t)
  <2>1. Parented(PlatformEntry)
    BY ParentedEntries DEF PlatformEntry
  <2> QED
    BY <1>6, <2>1, SomeSound DEF BeginInstall
<1>7. CASE BeginRemovePlatform(t)
  BY <1>1, <1>7, SomeSound DEF BeginRemovePlatform
<1> QED
  BY <1>2, <1>3, <1>4, <1>5, <1>6, <1>7

LEMMA BeginParents ==
  ASSUME RegistryInv, ParentInv, NEW t \in Callers, Begin(t)
  PROVE  ParentInv'
<1>1. Types /\ Looking(t)
  BY BeginLooks DEF RegistryInv
<1>2. BegunSound(t)
  BY <1>1, RegisterSound, RemoveRouteSound, RemoveLearnedSound, LearnRoutesSound, OthersSound
     DEF Begin
<1> QED
  BY <1>2, BegunParents

-----------------------------------------------------------------------------
\* The steps of a plan.
LEMMA StepParents ==
  ASSUME RegistryInv, ParentInv, NEW t \in Callers, Step(t),
         Parented(entry)', Parented(saved)', OwnersParented', displaced' \subseteq Ids(AllRoutes),
         Planning(t) /\ Planning(t)' => PlanParented(t)'
  PROVE  ParentInv'
<1>1. OnlyWorker(t) /\ OnlyWorker(t)' /\ OthersStay(t)
  BY StepWorker DEF RegistryInv
<1>2. Planning(t)
  <2>1. task[t].plan # <<>>
    BY DEF Step, Forget, Write, Erase, StoreBearer, DropBearer, Unshadow, StartClosing, Install,
           Drop, Update, Due
  <2> QED
    BY <1>1, <2>1 DEF OnlyWorker, Planning
<1> QED
  BY <1>1, <1>2 DEF ParentInv, OnlyWorker, Planning

\* The plan of a registration, and what is left of it after a step.
LEMMA RegisterLeads ==
  ASSUME RegistryInv, NEW t \in Callers, Working(t), Op(t) = "register", task[t].plan # <<>>
  PROVE  \/ Leads(task[t].plan, "forget", WithWrite)
         \/ Leads(task[t].plan, "write", Reinstall)
         \/ Leads(task[t].plan, "close", <<"install">>)
         \/ lease = NoLease /\ Leads(task[t].plan, "install", <<>>)
<1>1. Leading(t)
  BY WorkLeads DEF RegistryInv, StateOK, WorkOK
<1> QED
  BY <1>1 DEF Leading, Erases, Drops, Updates, Takes, Unshadows, Releases, RemoveOps, UpdateOps, Ends

\* A step that leaves the entry, the store and the displaced as they are.
LEMMA PlanStaysParented ==
  ASSUME RegistryInv, ParentInv, NEW t \in Callers, Step(t), KeepOwners,
         UNCHANGED <<entry, saved, displaced>>,
         Op(t) = "register" => Due(t, "forget") \/ Due(t, "close")
  PROVE  ParentInv'
<1>1. /\ task'[t].request = task[t].request /\ task'[t].next = task[t].next
      /\ task'[t].stage = task[t].stage
  BY StepTask DEF RegistryInv
<1>2. Parented(entry)' /\ Parented(saved)' /\ OwnersParented' /\ displaced' \subseteq Ids(AllRoutes)
  BY DEF ParentInv, Parented, OwnersParented, KeepOwners
<1>3. ASSUME Planning(t), Planning(t)' PROVE PlanParented(t)'
  <2>1. Op(t)' = Op(t) /\ Chosen(t)' = Chosen(t) /\ PlanParented(t)
    BY <1>1, <1>3 DEF Op, Chosen, ParentInv
  <2>2. CASE Op(t) # "register"
    BY <1>1, <2>1, <2>2 DEF PlanParented, GivingWay
  <2>3. CASE Op(t) = "register" /\ Due(t, "forget")
    <3>1. Leads(task[t].plan, "forget", WithWrite)
      BY <1>3, <2>3, RegisterLeads DEF Due, Leads, Planning
    <3>2. task'[t].plan = WithWrite
      <4>1. Forget(t)
        BY <2>3 DEF Step, Forget, Write, Erase, StoreBearer, DropBearer, Unshadow, StartClosing,
                    Install, Drop, Update, Due
      <4>2. Done(t)
        BY <1>3, <4>1, NextFacts DEF Forget, Planning, RegistryInv
      <4> QED
        BY <3>1, <4>2, NextFacts DEF RegistryInv
    <3>3. ToWrite(t) /\ ToWrite(t)'
      BY <1>3, <2>3, <3>2, WritePlans DEF ToWrite, Due, Leads, Planning, Working
    <3> QED
      BY <1>1, <2>1, <2>3, <3>3 DEF PlanParented, GivingWay
  <2>4. CASE Op(t) = "register" /\ Due(t, "close")
    <3>1. ~ToWrite(t)
      BY <2>4 DEF ToWrite, Due
    <3> QED
      BY <1>1, <2>1, <2>4, <3>1 DEF PlanParented, GivingWay
  <2> QED
    BY <2>2, <2>3, <2>4
<1> QED
  BY <1>2, <1>3, StepParents

\* What a registration writes over, it has displaced.
LEMMA WriteParents ==
  ASSUME RegistryInv, ParentInv, NEW t \in Callers, Step(t), Write(t)
  PROVE  ParentInv'
<1>1. Types /\ Working(t) /\ task[t].plan # <<>> /\ Head(task[t].plan) = "write"
  BY DEF Write, Due, Working, RegistryInv
<1>2. PlanParented(t) /\ ToWrite(t)
  BY <1>1 DEF ParentInv, Planning, Write, ToWrite
<1>3. UNCHANGED <<entry, sup>>
  BY DEF Write
<1>4. CASE Fails(t) /\ UNCHANGED <<saved, persisted, displaced>>
  <2>1. ~Planning(t)'
    BY <1>1, <1>4, NextFacts DEF Planning
  <2>2. Parented(entry)' /\ Parented(saved)' /\ OwnersParented' /\ displaced' \subseteq Ids(AllRoutes)
    BY <1>3, <1>4 DEF ParentInv, Parented, OwnersParented
  <2> QED
    BY <2>1, <2>2, StepParents
<1>5. CASE /\ Done(t) /\ saved' = Written(t)
           /\ displaced' = displaced \cup IF Op(t) = "register"
                                          THEN Ids(entry.routes) \ Ids(task[t].next.routes) ELSE {}
  <2>1. Ids(entry.routes) \subseteq Ids(AllRoutes)
    BY <1>1, ChosenSavable DEF Ids
  <2>2. displaced \subseteq displaced' /\ displaced' \subseteq Ids(AllRoutes)
    BY <1>5, <2>1 DEF ParentInv
  <2>3. Ids(task[t].next.learned) \subseteq Ids(task[t].next.routes) \cup displaced'
    BY <1>2, <1>5 DEF PlanParented, GivingWay
  <2>4. Parented(saved)'
    BY <1>1, <1>5, <2>2, <2>3, WrittenRoutes DEF ParentInv, Parented
  <2>5. Parented(entry)' /\ OwnersParented'
    BY <1>3, <2>2 DEF ParentInv, Parented, OwnersParented
  <2>6. PlanParented(t)'
    <3>1. /\ Op(t)' = Op(t) /\ Chosen(t)' = Chosen(t) /\ task'[t].next = task[t].next
      BY <1>1, <1>5, NextFacts DEF Chosen
    <3>2. Op(t) = "register" =>
            saved'.routes = task[t].next.routes /\ saved'.learned = task[t].next.learned
      BY <1>1, <1>5, WrittenRoutes
    <3> QED
      BY <1>2, <2>3, <3>1, <3>2 DEF PlanParented, GivingWay
  <2> QED
    BY <2>2, <2>4, <2>5, <2>6, StepParents
<1> QED
  BY <1>4, <1>5 DEF Write

\* Nothing saved, nothing learned.
LEMMA EmptyParents ==
  ASSUME RegistryInv, ParentInv, NEW t \in Callers, Step(t), Erase(t) \/ Unshadow(t)
  PROVE  ParentInv'
<1>1. UNCHANGED <<entry, sup, displaced>>
  BY DEF Erase, Unshadow
<1>2. Working(t) /\ task[t].plan # <<>> /\ Op(t) # "register"
  <2>1. Due(t, "erase") \/ Due(t, "unshadow")
    BY DEF Erase, Unshadow
  <2> QED
    BY <2>1, RegisterLeads DEF Due, Working, Leads
<1>3. Parented(saved)'
  <2>1. saved' = saved \/ saved' = Saved(NoEntry)
    BY DEF Erase, Unshadow
  <2>2. Parented(Saved(NoEntry))
    BY DEF Parented, Saved, NoEntry, Entry, Ids
  <2> QED
    BY <1>1, <2>1, <2>2 DEF ParentInv, Parented
<1>4. Parented(entry)' /\ OwnersParented' /\ displaced' \subseteq Ids(AllRoutes)
  BY <1>1 DEF ParentInv, Parented, OwnersParented
<1>5. PlanParented(t)'
  <2>1. task'[t].request = task[t].request /\ task'[t].next = task[t].next /\ PlanParented(t)
    BY <1>2, StepTask DEF RegistryInv, ParentInv, Planning
  <2> QED
    BY <1>1, <1>2, <2>1 DEF PlanParented, GivingWay, Op
<1> QED
  BY <1>3, <1>4, <1>5, StepParents

\* A supervisor that is made borrows from the owners of its entry.
LEMMA OpenOwners ==
  ASSUME Types
  PROVE  \A s \in Supervisors :
           \/ Open[s].status = "none"
           \/ Open[s] = sup[s] /\ sup[s].status = "open"
BY DEF Open, Closing, NoSupervisor, Types, SupervisorStates

LEMMA CreatesOwners ==
  ASSUME Types, NEW e \in Entries, Creates(e)
  PROVE  \A s \in Supervisors :
           \/ sup'[s].status = "none"
           \/ sup'[s] = sup[s] /\ sup[s].status = "open"
           \/ sup'[s].routes = e.routes /\ sup'[s].owners = Ids(Listed(e))
<1> DEFINE r == CHOOSE s \in Supervisors : Open[s].status = "none"
           new == [NoSupervisor EXCEPT !.status = "open", !.wanted = e.enabled,
                                       !.routes = e.routes, !.owners = Ids(Listed(e))]
<1>1. r \in Supervisors /\ sup' = [Open EXCEPT ![r] = new]
  BY DEF Creates
<1>2. new.routes = e.routes /\ new.owners = Ids(Listed(e))
  BY DEF NoSupervisor
<1> HIDE DEF r, new
<1>3. sup'[r] = new /\ \A s \in Supervisors \ {r} : sup'[s] = Open[s]
  BY <1>1, OpenTyped
<1> QED
  BY <1>2, <1>3, OpenOwners

LEMMA ListedIds == ASSUME NEW e PROVE Ids(Listed(e)) = Ids(e.routes) \cup Ids(e.learned)
BY DEF Listed, Ids

\* The new scope has the entry that is saved, and its owners are no longer displaced.
LEMMA InstallParents ==
  ASSUME RegistryInv, ParentInv, NEW t \in Callers, Step(t), Install(t)
  PROVE  ParentInv'
<1>1. Types /\ Working(t) /\ task[t].plan # <<>> /\ Head(task[t].plan) = "install"
  BY DEF Install, Due, Working, RegistryInv
<1>2. PlanParented(t) /\ ~ToWrite(t)
  BY <1>1 DEF ParentInv, Planning, ToWrite, Due
<1>3. lease = NoLease /\ task'[t].plan = <<>>
  <2>1. Leading(t)
    BY <1>1, WorkLeads DEF RegistryInv, StateOK, WorkOK
  <2>2. lease = NoLease /\ Leads(task[t].plan, "install", <<>>)
    BY <1>1, <2>1 DEF Leading, Leads
  <2> QED
    BY <1>1, <2>2, NextFacts DEF Install
<1> DEFINE e == task[t].next
<1>4. /\ e \in Entries /\ entry' = e /\ Creates(e) /\ saved' = saved
      /\ displaced' = displaced \ IF Op(t) = "register" THEN {Chosen(t).id} ELSE {}
  BY <1>1 DEF Install, storeVars, Types, Tasks
<1>5. Ids(e.learned) \subseteq Ids(e.routes) \cup displaced'
  BY <1>2, <1>4 DEF PlanParented, GivingWay
<1>6. Parented(saved)'
  <2>1. CASE Op(t) = "register"
    BY <1>2, <1>4, <1>5, <2>1 DEF PlanParented, Parented
  <2>2. CASE Op(t) # "register"
    BY <1>4, <2>2 DEF ParentInv, Parented
  <2> QED
    BY <2>1, <2>2
<1>7. OwnersParented'
  <2>1. \A s \in Supervisors : sup[s].status # "open"
    BY <1>3 DEF RegistryInv, StateOK, LeaseOK
  <2>2. \A s \in Supervisors :
          sup'[s].status = "none" \/ (sup'[s].routes = e.routes /\ sup'[s].owners = Ids(Listed(e)))
    BY <1>1, <1>4, <2>1, CreatesOwners
  <2>3. Ids(Listed(e)) \subseteq Ids(e.routes) \cup displaced'
    BY <1>5, ListedIds
  <2> HIDE DEF e
  <2> QED
    BY <2>2, <2>3 DEF OwnersParented
<1>8. ~Planning(t)'
  BY <1>3 DEF Planning
<1> QED
  BY <1>4, <1>5, <1>6, <1>7, <1>8, StepParents DEF ParentInv, Parented

LEMMA DropParents ==
  ASSUME RegistryInv, ParentInv, NEW t \in Callers, Step(t), Drop(t)
  PROVE  ParentInv'
<1>1. Types /\ Working(t) /\ task[t].plan # <<>> /\ Head(task[t].plan) = "drop"
  BY DEF Drop, Due, Working, RegistryInv
<1>2. entry' = NoEntry /\ sup' = Open /\ UNCHANGED <<saved, displaced>>
  BY DEF Drop, storeVars
<1>3. Op(t) # "register"
  BY <1>1, RegisterLeads DEF Leads
<1>4. Parented(entry)' /\ Parented(saved)' /\ displaced' \subseteq Ids(AllRoutes)
  BY <1>2, ParentedEntries DEF ParentInv, Parented
<1>5. OwnersParented'
  BY <1>1, <1>2, OpenOwners DEF ParentInv, OwnersParented
<1>6. PlanParented(t)'
  <2>1. task'[t].request = task[t].request /\ task'[t].next = task[t].next /\ PlanParented(t)
    BY <1>1, StepTask DEF ParentInv, Planning
  <2> QED
    BY <1>2, <1>3, <2>1 DEF PlanParented, GivingWay, Op
<1> QED
  BY <1>4, <1>5, <1>6, StepParents

\* What was learned becomes the entry's; the supervisor's owners stay.
LEMMA UpdateParents ==
  ASSUME RegistryInv, ParentInv, NEW t \in Callers, Step(t), Update(t)
  PROVE  ParentInv'
<1>1. Types /\ Working(t) /\ task[t].plan # <<>> /\ Head(task[t].plan) = "update" /\ Done(t)
  BY DEF Update, Due, Working, RegistryInv
<1>2. PlanParented(t) /\ ~ToWrite(t)
  BY <1>1 DEF ParentInv, Planning, ToWrite, Due
<1> DEFINE e == task[t].next
<1>3. e \in Entries /\ entry' = e /\ UNCHANGED <<saved, displaced>>
  BY <1>1 DEF Update, storeVars, Types, Tasks
<1>4. Parented(e)
  BY <1>2 DEF PlanParented, GivingWay, Parented
<1>5. Parented(entry)' /\ Parented(saved)' /\ displaced' \subseteq Ids(AllRoutes)
  BY <1>3, <1>4 DEF ParentInv, Parented
<1>6. OwnersParented'
  <2>1. CASE sup' = [sup EXCEPT ![lease.supervisor].wanted = Intends(t)]
    <3>1. \A s \in Supervisors :
            /\ sup'[s].routes = sup[s].routes /\ sup'[s].owners = sup[s].owners
            /\ sup'[s].status = sup[s].status
      BY <1>1, <2>1 DEF Types, SupervisorStates
    <3> QED
      BY <1>3, <3>1 DEF ParentInv, OwnersParented
  <2>2. CASE Creates(e)
    <3>1. \A s \in Supervisors :
            \/ sup'[s].status = "none"
            \/ sup'[s] = sup[s] /\ sup[s].status = "open"
            \/ sup'[s].routes = e.routes /\ sup'[s].owners = Ids(Listed(e))
      BY <1>1, <1>3, <2>2, CreatesOwners
    <3>2. Ids(Listed(e)) \subseteq Ids(e.routes) \cup displaced
      BY <1>4, ListedIds DEF Parented
    <3> HIDE DEF e
    <3> QED
      BY <1>3, <3>1, <3>2 DEF ParentInv, OwnersParented
  <2>3. CASE sup' = sup
    BY <1>3, <2>3 DEF ParentInv, OwnersParented
  <2> QED
    BY <2>1, <2>2, <2>3 DEF Update
<1>7. ~Planning(t)'
  <2>1. Leading(t)
    BY <1>1, WorkLeads DEF RegistryInv, StateOK, WorkOK
  <2>2. Leads(task[t].plan, "update", <<>>)
    BY <1>1, <2>1 DEF Leading, Leads
  <2> QED
    BY <1>1, <2>2, NextFacts DEF Planning
<1> QED
  BY <1>5, <1>6, <1>7, StepParents

LEMMA StepsParents ==
  ASSUME RegistryInv, ParentInv, NEW t \in Callers, Step(t)
  PROVE  ParentInv'
<1>1. CASE Forget(t)
  <2>1. UNCHANGED <<entry, saved, displaced, sup>> /\ Due(t, "forget")
    BY <1>1 DEF Forget, storeVars
  <2> QED
    BY <2>1, SameOwners, PlanStaysParented
<1>2. CASE StoreBearer(t) \/ DropBearer(t)
  <2>1. UNCHANGED <<entry, saved, displaced, sup>> /\ (Due(t, "bearer") \/ Due(t, "dropBearer"))
    BY <1>2 DEF StoreBearer, DropBearer, catalogVars
  <2>2. Op(t) # "register"
    BY <2>1, RegisterLeads DEF Due, Working, Leads
  <2> QED
    BY <2>1, <2>2, SameOwners, PlanStaysParented
<1>3. CASE StartClosing(t)
  <2>1. /\ UNCHANGED <<entry, saved, displaced>> /\ Due(t, "close")
        /\ sup' = [sup EXCEPT ![lease.supervisor].status = "closing"]
    BY <1>3 DEF StartClosing, storeVars
  <2>2. lease.supervisor \in Supervisors /\ sup[lease.supervisor].status = "open"
    <3>1. Leading(t)
      BY <2>1, WorkLeads DEF RegistryInv, StateOK, WorkOK, Due, Working
    <3>2. lease # NoLease
      BY <2>1, <3>1 DEF Leading, Leads, Due
    <3> QED
      BY <3>2 DEF RegistryInv, StateOK, LeaseOK
  <2>3. KeepOwners
    BY <2>1, <2>2 DEF KeepOwners, RegistryInv, Types, SupervisorStates
  <2> QED
    BY <2>1, <2>3, PlanStaysParented
<1> QED
  BY <1>1, <1>2, <1>3, WriteParents, EmptyParents, InstallParents, DropParents, UpdateParents
     DEF Step

\* Whoever asks, leaves or waits has no plan, and a supervisor keeps its owners.
LEMMA RequestParents ==
  ASSUME RegistryInv, ParentInv, NEW t \in Callers, NEW request, Asks(t, request)
  PROVE  ParentInv'
<1>1. OthersStay(t) /\ task'[t].stage = "asked" /\ UNCHANGED <<entry, saved, displaced, sup>>
  BY AsksTask DEF Asks, RegistryInv, catalogVars, storeVars
<1>2. \A u \in Callers : Planning(u)' => task'[u] = task[u]
  BY <1>1 DEF OthersStay, Planning, Working
<1> QED
  BY <1>1, <1>2, SameOwners, QuietParents

LEMMA FiberAsksParents ==
  ASSUME RegistryInv, ParentInv, NEW s \in Supervisors, NEW f \in Callers, NEW request, NEW flags,
         FiberAsks(s, f, request, flags), flags.status = sup[s].status,
         flags.routes = sup[s].routes, flags.owners = sup[s].owners
  PROVE  ParentInv'
<1>1. /\ OthersStay(f) /\ task'[f].stage = "asked" /\ sup' = [sup EXCEPT ![s] = flags]
      /\ UNCHANGED <<entry, saved, displaced>>
  BY FiberAsksTask DEF FiberAsks, RegistryInv, catalogVars, storeVars
<1>2. \A u \in Callers : Planning(u)' => task'[u] = task[u]
  BY <1>1 DEF OthersStay, Planning, Working
<1>3. KeepOwners
  BY <1>1 DEF KeepOwners, RegistryInv, Types
<1> QED
  BY <1>1, <1>2, <1>3, QuietParents

LEMMA LeavesParents ==
  ASSUME RegistryInv, ParentInv, NEW t \in Callers, Finish(t) \/ Leave(t)
  PROVE  ParentInv'
<1>1. Types
  BY DEF RegistryInv
<1>2. UNCHANGED <<entry, saved, displaced>>
  BY DEF Finish, Leave, catalogVars, storeVars
<1>3. OthersStay(t) /\ ~Working(t)'
  BY <1>1, LeavesTask, Constants DEF Finish, Leave, Working
<1>4. \A u \in Callers : Planning(u)' => task'[u] = task[u]
  BY <1>3 DEF OthersStay, Planning
<1>5. KeepOwners
  <2>1. CASE sup' = sup
    BY <2>1, SameOwners
  <2>2. CASE sup' = [sup EXCEPT ![lease.supervisor].retry = TRUE]
    BY <1>1, <2>2 DEF KeepOwners, Types, SupervisorStates
  <2> QED
    BY <2>1, <2>2 DEF Finish, Leave
<1> QED
  BY <1>2, <1>4, <1>5, QuietParents

LEMMA FiberParents ==
  ASSUME RegistryInv, ParentInv, NEW s \in Supervisors, Fiber(s)
  PROVE  ParentInv'
<1>1. Learner(s) \in Callers /\ Watcher(s) \in Callers /\ sup[s] \in SupervisorStates
  BY FibersAreCallers DEF RegistryInv, Types
<1>2. CASE LearnRoutes(s)
  <2>1. LET flags == [sup[s] EXCEPT !.reported = TRUE] IN
        flags.status = sup[s].status /\ flags.routes = sup[s].routes /\ flags.owners = sup[s].owners
    BY <1>1 DEF SupervisorStates
  <2> QED
    BY <1>1, <1>2, <2>1, FiberAsksParents DEF LearnRoutes
<1>3. CASE Watch(s)
  <2>1. LET flags == [sup[s] EXCEPT !.told = TRUE] IN
        flags.status = sup[s].status /\ flags.routes = sup[s].routes /\ flags.owners = sup[s].owners
    BY <1>1 DEF SupervisorStates
  <2> QED
    BY <1>1, <1>3, <2>1, FiberAsksParents DEF Watch
<1>4. CASE FiberStops(s)
  <2>1. PICK f \in Fibers(s) : Stops(f)
    BY <1>4 DEF FiberStops
  <2>2. f \in Callers /\ f \in FiberSet /\ UNCHANGED <<entry, sup, displaced>>
    BY <1>4, <2>1, FibersAreCallers DEF FiberStops, FiberSet, catalogVars
  <2> QED
    BY <2>1, <2>2, SameOwners, StopsParents
<1> QED
  BY <1>2, <1>3, <1>4 DEF Fiber

LEMMA BecomesParents ==
  ASSUME RegistryInv, ParentInv, NEW s \in Supervisors, NEW state, Becomes(s, state),
         state.status = sup[s].status, state.routes = sup[s].routes, state.owners = sup[s].owners
  PROVE  ParentInv'
<1>1. /\ sup' = [sup EXCEPT ![s] = state] /\ UNCHANGED <<entry, displaced>>
      /\ sup[s].status = "open"
  BY DEF Becomes, catalogVars
<1>2. KeepOwners
  BY <1>1 DEF KeepOwners, RegistryInv, Types
<1>3. CASE Stops(Learner(s))
  <2>1. Learner(s) \in Callers /\ Learner(s) \in FiberSet
    BY FibersAreCallers DEF FiberSet, Fibers
  <2> QED
    BY <1>1, <1>2, <1>3, <2>1, StopsParents
<1>4. CASE UNCHANGED <<task, saved>>
  BY <1>1, <1>2, <1>4, QuietParents
<1> QED
  BY <1>3, <1>4 DEF Becomes

LEMMA SuperviseParents ==
  ASSUME RegistryInv, ParentInv, NEW s \in Supervisors, Supervise(s)
  PROVE  ParentInv'
<1>1. PICK state : Becomes(s, state) /\ Follows(s, state)
  BY SuperviseFollows DEF RegistryInv
<1> QED
  BY <1>1, BecomesParents DEF Follows

LEMMA ParentsStay == ASSUME RegistryInv, ParentInv, [Next]_vars PROVE ParentInv'
<1>1. CASE UNCHANGED vars
  BY <1>1, SameOwners, QuietParents DEF vars, catalogVars, storeVars
<1>2. ASSUME NEW u \in Users, Call(u) PROVE ParentInv'
  BY <1>2, RequestParents, RegistryAssumption DEF Call
<1>3. CASE Reconcile \/ Discover
  BY <1>3, RequestParents, RegistryAssumption DEF Reconcile, Discover
<1>4. ASSUME NEW t \in Callers, Begin(t) \/ Step(t) \/ Finish(t) \/ Leave(t)
      PROVE  ParentInv'
  BY <1>4, BeginParents, StepsParents, LeavesParents
<1>5. CASE GetLock
  BY <1>5, SameOwners, QuietParents DEF GetLock, catalogVars, storeVars
<1>6. ASSUME NEW s \in Supervisors, Supervise(s) \/ Fiber(s) PROVE ParentInv'
  BY <1>6, SuperviseParents, FiberParents
<1> QED
  BY <1>1, <1>2, <1>3, <1>4, <1>5, <1>6 DEF Next

LEMMA ParentsInitially == ASSUME Init PROVE ParentInv
<1>1. /\ displaced = {} /\ sup = [s \in Supervisors |-> NoSupervisor]
      /\ task = [t \in Callers |-> NoTask]
  BY DEF Init
<1>2. PICK e \in {NoEntry, Entry({RelayRoute}, {}, TRUE, NoVerdict)} :
        entry = e /\ saved = Saved(e)
  BY DEF Init
<1>3. Parented(e) /\ e.learned = {}
  BY ParentedEntries DEF NoEntry, Entry
<1>4. Parented(saved)
  BY <1>2, <1>3 DEF Parented, Saved
<1>5. OwnersParented
  BY <1>1 DEF OwnersParented, NoSupervisor
<1>6. \A t \in Callers : ~Planning(t)
  BY <1>1, Constants DEF Planning
<1> QED
  BY <1>1, <1>2, <1>3, <1>4, <1>5, <1>6 DEF ParentInv

LEMMA ParentInvariant == Spec => [](RegistryInv /\ ParentInv)
<1>1. Init => RegistryInv /\ ParentInv
  BY RegistryInitially, ParentsInitially
<1>2. RegistryInv /\ ParentInv /\ [Next]_vars => RegistryInv' /\ ParentInv'
  BY RegistryStays, ParentsStay
<1> QED
  BY <1>1, <1>2, PTL DEF Spec

\* Every variable of the registry stays within its type.
THEOREM RegistryTypes == Spec => []TypeOK
<1>1. RegistryInv /\ ParentInv => TypeOK
  BY DEF RegistryInv, Types, TypeOK, Leases, Records, SupervisorStates, Tasks, ParentInv
<1> QED
  BY <1>1, ParentInvariant, PTL

\* createServiceScope and closeServiceScope under withLeaseLock: an environment
\* never has two supervisors, one that is closing included.
THEOREM SupervisorIsAlone == Spec => []OneSupervisor
<1>1. RegistryInv => OneSupervisor
  <2> SUFFICES ASSUME RegistryInv, NEW r \in Supervisors, NEW s \in Supervisors,
                      sup[r].status # "none", sup[s].status # "none"
               PROVE  r = s
    BY DEF OneSupervisor
  <2>1. sup[r].status \in {"open", "closing"} /\ sup[s].status \in {"open", "closing"}
    BY DEF RegistryInv, Types, SupervisorStates
  <2> QED
    BY <2>1 DEF RegistryInv, StateOK, LeaseOK, Closing
<1> QED
  BY <1>1, RegistryInvariant, PTL

\* Between operations, when nobody holds the lease lock, a supervisor that runs is
\* the lease's, has the catalog's entry and wants what it says.
THEOREM LeaseIsCatalogs == Spec => []LeaseFollowsCatalog
<1>1. RegistryInv => LeaseFollowsCatalog
  <2> SUFFICES ASSUME RegistryInv, Unlocked, NEW s \in Supervisors, sup[s].status # "none"
               PROVE  /\ sup[s].status = "open" /\ lease.supervisor = s
                      /\ entry # NoEntry /\ lease.entry = entry
                      /\ sup[s].wanted = entry.enabled
    BY DEF LeaseFollowsCatalog
  <2>1. ~Closing(s)
    BY DEF RegistryInv, StateOK, LeaseOK, Unlocked, Working
  <2>2. sup[s].status = "open"
    BY <2>1 DEF Closing, RegistryInv, Types, SupervisorStates
  <2> QED
    BY <2>2 DEF RegistryInv, StateOK, LeaseOK
<1> QED
  BY <1>1, RegistryInvariant, PTL

\* Between operations the stores hold the registration as the catalog has it, and
\* nothing of one that the platform has taken over, whichever store failed.
THEOREM SavedIsCatalogs == Spec => []SavedFollowsCatalog
<1>1. RegistryInv => SavedFollowsCatalog
  BY DEF RegistryInv, Types, StateOK, WorkOK, Consistent, SavedFollowsCatalog
<1> QED
  BY <1>1, RegistryInvariant, PTL

\* register, removeRoute and learnRoutes: a learned route outlives, in the catalog
\* or in the store, the owner of its credential only when that gave way to another
\* id for its address, for any number of addresses, ids and supervisors.
THEOREM OrphanedRoutesWereDisplaced == Spec => []OrphansWereDisplaced
<1>1. ParentInv => OrphansWereDisplaced
  BY DEF ParentInv, Parented, OrphansWereDisplaced
<1> QED
  BY <1>1, ParentInvariant, PTL

\* The watcher of a supervisor's states: what its socket was told of the server is
\* about the routes that the entry has now.
THEOREM SocketVerdictsFit == Spec => []SocketVerdictFits
<1>1. RegistryInv => SocketVerdictFits
  BY DEF RegistryInv, StateOK, EntryOK, Whole, SocketVerdictFits, NoEntry, NoVerdict, Entry
<1> QED
  BY <1>1, RegistryInvariant, PTL

\* The retry after a bearer was replaced: an attempt that was refused with another
\* bearer than the stored one is tried again, whenever it read the bearer.
THEOREM ReplacedBearersRetried == Spec => []ReplacedBearerRetried
<1>1. RegistryInv => ReplacedBearerRetried
  <2> SUFFICES ASSUME RegistryInv, Unlocked, "bearer" \notin unsettled, NEW s \in Supervisors,
                      sup[s].status = "open", sup[s].phase = "refused", sup[s].bearer # bearer
               PROVE  sup[s].retry
    BY DEF ReplacedBearerRetried
  <2>1. sup[s].bearer \notin {0, bearer}
    BY DEF RegistryInv, StateOK, BearersOK
  <2>2. \A u \in Callers : ~Renews(u)
    BY DEF Renews, Unlocked, Working
  <2> QED
    BY <2>1, <2>2 DEF RegistryInv, StateOK, BearersOK
<1> QED
  BY <1>1, RegistryInvariant, PTL

-----------------------------------------------------------------------------
(* Who waits for whom.  What a caller is doing and what the lock knows of   *)
(* it agree, so whoever is not idle can go on, or waits for one who can.    *)

StageOK(t) ==
  /\ task[t].stage = "idle" <=> uses[t] = NoUse
  /\ task[t].stage = "asked" => Op(t) # "none" /\ (HoldsPermit(t) \/ WaitsForPermit(t))
  /\ task[t].stage = "leaving" => ~HoldsPermit(t) /\ ~WaitsForPermit(t)
Stages == \A t \in Callers : StageOK(t)

LEMMA StageStays ==
  ASSUME NEW t \in Callers, StageOK(t), Stays(t), task'[t].stage = task[t].stage,
         task'[t].request = task[t].request
  PROVE  StageOK(t)'
<1>1. Op(t)' = Op(t)
  BY DEF Op
<1>2. /\ uses'[t] = uses[t] /\ HoldsPermit(t)' = HoldsPermit(t)
      /\ WaitsForPermit(t)' = WaitsForPermit(t)
  BY DEF Stays
<1>3. (task'[t].stage = "idle") <=> (uses'[t] = NoUse)
  BY <1>2 DEF StageOK
<1>4. task'[t].stage = "asked" => Op(t)' # "none" /\ (HoldsPermit(t)' \/ WaitsForPermit(t)')
  BY <1>1, <1>2 DEF StageOK
<1>5. task'[t].stage = "leaving" => ~HoldsPermit(t)' /\ ~WaitsForPermit(t)'
  BY <1>2 DEF StageOK
<1> QED
  BY <1>3, <1>4, <1>5 DEF StageOK

LEMMA OthersStages ==
  ASSUME Stages, NEW t \in Callers, OthersStay(t), OthersAreLeft(t), StageOK(t)'
  PROVE  Stages'
<1>1. ASSUME NEW u \in Callers, u # t PROVE StageOK(u)'
  <2>1. StageOK(u) /\ Stays(u) /\ task'[u] = task[u]
    BY <1>1 DEF Stages, OthersAreLeft, OthersStay
  <2> QED
    BY <2>1, StageStays
<1> QED
  BY <1>1 DEF Stages

LEMMA SameLockStays == ASSUME UNCHANGED lockVars PROVE \A t \in Callers : Stays(t)
BY DEF lockVars, Stays, HoldsPermit, WaitsForPermit, Queue

LEMMA AskedStages ==
  ASSUME QueueInv, Stages, NEW t \in Callers, AskLock(t, Environment), OthersStay(t),
         task'[t].stage = "asked", task'[t].request.op # "none"
  PROVE  Stages'
<1>1. /\ OthersAreLeft(t) /\ uses'[t] # NoUse
      /\ HoldsPermit(t)' \/ WaitsForPermit(t)'
  BY AskQueues, RegistryAssumption
<1>2. StageOK(t)'
  BY <1>1 DEF StageOK, Op
<1> QED
  BY <1>1, <1>2, OthersStages

LEMMA AsksStages ==
  ASSUME QueueInv, Types, Stages, NEW t \in Callers, NEW request, request.op # "none",
         Asks(t, request)
  PROVE  Stages'
<1>1. OthersStay(t) /\ task'[t].stage = "asked" /\ task'[t].request = request
  BY AsksTask
<1> QED
  BY <1>1, AskedStages DEF Asks

LEMMA FiberAsksStages ==
  ASSUME QueueInv, Types, Stages, NEW s, NEW f \in Callers, NEW request, NEW flags,
         request.op # "none", FiberAsks(s, f, request, flags)
  PROVE  Stages'
<1>1. OthersStay(f) /\ task'[f].stage = "asked" /\ task'[f].request = request
  BY FiberAsksTask, Zenon
<1> QED
  BY <1>1, AskedStages DEF FiberAsks

LEMMA LeavingStages ==
  ASSUME QueueInv, Stages, NEW t \in Callers, ExitLock(t) \/ GiveUpLock(t),
         OthersStay(t), task'[t] = Leaving
  PROVE  Stages'
<1>1. OthersAreLeft(t) /\ uses'[t] # NoUse /\ ~HoldsPermit(t)' /\ ~WaitsForPermit(t)'
  BY ExitQueues, GiveUpQueues
<1>2. task'[t].stage = "leaving"
  BY DEF Leaving, NoTask
<1>3. StageOK(t)'
  BY <1>1, <1>2 DEF StageOK
<1> QED
  BY <1>1, <1>3, OthersStages

LEMMA StopsStages ==
  ASSUME QueueInv, Types, Stages, NEW f \in Callers, Stops(f)
  PROVE  Stages'
<1>1. OthersStay(f) /\ task'[f] = Leaving /\ (ExitLock(f) \/ GiveUpLock(f))
  BY StopsTask
<1> QED
  BY <1>1, LeavingStages

LEMMA RequestNames ==
  /\ \A request \in UserRequests : request.op # "none"
  /\ \A b : Reported(b).op # "none"
  /\ Plain("removePlatform").op # "none"
  /\ \A verdict : SetCompatibility(verdict).op # "none"
  /\ \A owner, reported : Learned(owner, reported).op # "none"
<1>1. ASSUME NEW request \in UserRequests PROVE request.op # "none"
  <2>1. CASE request \in {Plain("acquire"), Plain("retryNow"), Plain("remove"),
                          Plain("reorderRoutes"), SetEnabled(TRUE), SetEnabled(FALSE),
                          SetCompatibility(NoVerdict)}
    <3>1. /\ Plain("acquire").op = "acquire" /\ Plain("retryNow").op = "retryNow"
          /\ Plain("remove").op = "remove" /\ Plain("reorderRoutes").op = "reorderRoutes"
          /\ SetEnabled(TRUE).op = "setEnabled" /\ SetEnabled(FALSE).op = "setEnabled"
          /\ SetCompatibility(NoVerdict).op = "setCompatibility"
      BY RequestFields
    <3> QED
      BY <2>1, <3>1
  <2>2. CASE request \in {ForRoute("register", r) : r \in SavableRoutes}
    BY <2>2, RequestFields
  <2>3. CASE request \in {ForRoute("removeRoute", r) : r \in entry.routes}
    BY <2>3, RequestFields
  <2>4. CASE request \in {ForRoute("removeLearned", r) : r \in entry.learned}
    BY <2>4, RequestFields
  <2> QED
    BY <2>1, <2>2, <2>3, <2>4 DEF UserRequests
<1> QED
  BY <1>1, RequestFields

LEMMA StageStep ==
  ASSUME QueueInv, Types, WorkersHold, Stages, [Next]_vars
  PROVE  Stages'
<1>1. CASE UNCHANGED lockVars /\ task' = task
  <2>1. \A t \in Callers : StageOK(t)'
    BY <1>1, SameLockStays, StageStays DEF Stages
  <2> QED
    BY <2>1 DEF Stages
<1>2. ASSUME NEW u \in Users, Call(u) PROVE Stages'
  BY <1>2, AsksStages, RequestNames, RegistryAssumption DEF Call
<1>3. CASE Reconcile \/ Discover
  <2>1. Platform \in Callers /\ Discovery \in Callers
    BY RegistryAssumption
  <2>2. CASE Reconcile
    BY <2>1, <2>2, AsksStages, RequestNames DEF Reconcile
  <2>3. CASE Discover
    BY <2>1, <2>3, AsksStages, RequestNames DEF Discover
  <2> QED
    BY <1>3, <2>2, <2>3
<1>4. ASSUME NEW t \in Callers, Begin(t) PROVE Stages'
  <2>1. PICK plan, next : Begins(t, plan, next)
    BY <1>4, BeginsSome
  <2>2. /\ OthersStay(t) /\ task[t].stage = "asked" /\ Working(t)' /\ UNCHANGED lockVars
    BY <2>1, BeginsTask
  <2>3. Stays(t) /\ OthersAreLeft(t)
    BY <2>2, SameLockStays DEF OthersAreLeft
  <2>4. StageOK(t)'
    BY <2>2, <2>3 DEF StageOK, Stages, Stays, Working
  <2> QED
    BY <2>2, <2>3, <2>4, OthersStages
<1>5. ASSUME NEW t \in Callers, Step(t) PROVE Stages'
  <2>1. /\ OthersStay(t) /\ task'[t].stage = task[t].stage
        /\ task'[t].request = task[t].request /\ UNCHANGED lockVars
    BY <1>5, StepTask
  <2>2. Stays(t) /\ OthersAreLeft(t)
    BY <2>1, SameLockStays DEF OthersAreLeft
  <2>3. StageOK(t)'
    BY <2>1, <2>2, StageStays DEF Stages
  <2> QED
    BY <2>1, <2>2, <2>3, OthersStages
<1>6. ASSUME NEW t \in Callers, Finish(t) PROVE Stages'
  <2>1. OthersStay(t) /\ task'[t] = Leaving /\ ExitLock(t)
    BY <1>6, LeavesTask DEF Finish
  <2> QED
    BY <2>1, LeavingStages
<1>7. ASSUME NEW t \in Callers, Leave(t) PROVE Stages'
  <2>1. OthersStay(t) /\ task'[t] = NoTask /\ LeaveLock(t)
    BY <1>7, LeavesTask DEF Leave
  <2>2. OthersAreLeft(t) /\ uses'[t] = NoUse /\ task'[t].stage = "idle"
    BY <2>1, LeaveQueues DEF NoTask
  <2>3. StageOK(t)'
    BY <2>2 DEF StageOK
  <2> QED
    BY <2>1, <2>2, <2>3, OthersStages
<1>8. CASE GetLock
  <2>1. PICK p \in Callers : WakeWaiter(Environment, p) /\ task' = task
    BY <1>8 DEF GetLock
  <2>2. Environment \in Keys
    BY RegistryAssumption
  <2>3. ASSUME NEW t \in Callers PROVE StageOK(t)'
    <3>1. /\ uses' = uses
          /\ (HoldsPermit(t)' \/ WaitsForPermit(t)') <=> (HoldsPermit(t) \/ WaitsForPermit(t))
      BY <2>1, <2>2, WakeQueues
    <3>2. Op(t)' = Op(t)
      BY <2>1 DEF Op
    <3>3. StageOK(t)
      BY DEF Stages
    <3>4. task'[t].stage = "asked" => Op(t)' # "none" /\ (HoldsPermit(t)' \/ WaitsForPermit(t)')
      BY <2>1, <3>1, <3>2, <3>3 DEF StageOK
    <3>5. task'[t].stage = "leaving" => ~HoldsPermit(t)' /\ ~WaitsForPermit(t)'
      BY <2>1, <3>1, <3>3 DEF StageOK
    <3> QED
      BY <2>1, <3>1, <3>3, <3>4, <3>5 DEF StageOK
  <2> QED
    BY <2>3 DEF Stages
<1>9. ASSUME NEW s \in Supervisors, Supervise(s) PROVE Stages'
  <2>1. PICK state : Becomes(s, state)
    BY <1>9 DEF Supervise, Attempt, ReadBearer, AttemptEnds, Resumes
  <2>2. CASE Stops(Learner(s))
    BY <2>2, StopsStages, FibersAreCallers
  <2> QED
    BY <2>1, <2>2, <1>1 DEF Becomes
<1>10. ASSUME NEW s \in Supervisors, Fiber(s) PROVE Stages'
  <2>1. CASE FiberStops(s)
    <3>1. PICK f \in Fibers(s) : Stops(f)
      BY <2>1 DEF FiberStops
    <3> QED
      BY <3>1, StopsStages, FibersAreCallers
  <2>2. CASE LearnRoutes(s)
    BY <2>2, FiberAsksStages, RequestNames, FibersAreCallers DEF LearnRoutes
  <2>3. CASE Watch(s)
    BY <2>3, FiberAsksStages, RequestNames, FibersAreCallers DEF Watch
  <2> QED
    BY <1>10, <2>1, <2>2, <2>3 DEF Fiber
<1>11. UNCHANGED vars => UNCHANGED lockVars /\ task' = task
  BY DEF vars
<1> QED
  BY <1>1, <1>2, <1>3, <1>4, <1>5, <1>6, <1>7, <1>8, <1>9, <1>10, <1>11 DEF Next

\* The guards of the steps that Progress is made of, in a state of the registry.
CanBegin(t) == task[t].stage = "asked" /\ Op(t) # "none" /\ HoldsPermit(t)
NeedsSupervisor(t) ==
  \/ Due(t, "install")
  \/ Due(t, "update") /\ lease = NoLease /\ Op(t) = "setEnabled" /\ task[t].request.flag
CanStep(t) ==
  /\ Working(t) /\ task[t].plan # <<>> /\ Head(task[t].plan) \in PlanSteps
  /\ Due(t, "install") \/ Due(t, "drop") => ScopeClosed
  /\ NeedsSupervisor(t) => \E s \in Supervisors : Open[s].status = "none"
CanFinish(t) == Working(t) /\ task[t].plan = <<>> /\ HoldsPermit(t)
CanLeave(t) ==
  /\ task[t].stage = "leaving"
  /\ uses[t] # NoUse /\ ~HoldsPermit(t) /\ ~WaitsForPermit(t)
CanBeServed ==
  \E s \in Callers : holder[Environment][s] = NoCaller /\ waiters[Environment][s] # <<>>
CanBeStopped(f) ==
  \/ task[f].stage = "asked" /\ WaitsForPermit(f)
  \/ task[f].stage \in {"asked", "working"} /\ HoldsPermit(f)

CanGoOn ==
  \/ \E t \in Callers : CanBegin(t) \/ CanStep(t) \/ CanFinish(t) \/ CanLeave(t)
  \/ CanBeServed
  \/ \E s \in Supervisors : Closing(s) /\ \E f \in Fibers(s) : CanBeStopped(f)

\* Whoever wants something of the registry, someone can go on.
SomeoneCanGoOn == (\E t \in Callers : task[t].stage # "idle") => CanGoOn

\* A fiber of a closing scope that has not stopped yet can be stopped or can leave.
LEMMA FibersCanStop ==
  ASSUME Types, WorkersHold, QueueInv, Stages, ~ScopeClosed
  PROVE  CanGoOn
<1>0. PICK s \in Supervisors : Closing(s) /\ \E f \in Fibers(s) : task[f].stage # "idle"
  BY DEF ScopeClosed
<1>1. PICK f \in Fibers(s) : Closing(s) /\ task[f].stage # "idle"
  BY <1>0
<1>2. f \in Callers
  BY <1>1, FibersAreCallers
<1>3. task[f].stage \in {"asked", "working", "leaving"}
  BY <1>1, <1>2 DEF Types, Tasks
<1>4. StageOK(f)
  BY <1>2 DEF Stages
<1>5. CASE task[f].stage = "asked"
  BY <1>1, <1>4, <1>5 DEF StageOK, CanBeStopped, CanGoOn
<1>6. CASE task[f].stage = "working"
  BY <1>1, <1>2, <1>6 DEF WorkersHold, Working, CanBeStopped, CanGoOn
<1>7. CASE task[f].stage = "leaving"
  BY <1>1, <1>2, <1>4, <1>7 DEF StageOK, CanLeave, CanGoOn
<1> QED
  BY <1>3, <1>5, <1>6, <1>7

\* A worker that makes a supervisor finds one: none is open, and what was closing
\* has closed.
LEMMA SupervisorIsFree ==
  ASSUME RegistryInv, Supervisors # {}, NEW t \in Callers, Working(t), NeedsSupervisor(t)
  PROVE  \E s \in Supervisors : Open[s].status = "none"
<1>1. Work(t)
  BY DEF RegistryInv, StateOK, WorkOK
<1>2. lease = NoLease
  <2>1. CASE Due(t, "install")
    <3>1. Leading(t)
      BY <1>1, WorkLeads
    <3>2. task[t].plan # <<>> /\ Head(task[t].plan) = "install"
      BY <2>1 DEF Due
    <3> QED
      BY <3>1, <3>2 DEF Leading, Leads
  <2> QED
    BY <2>1 DEF NeedsSupervisor
<1>3. PICK s \in Supervisors : TRUE
  OBVIOUS
<1>4. sup[s].status \in {"none", "closing"}
  BY <1>2, <1>3 DEF RegistryInv, Types, SupervisorStates, StateOK, LeaseOK
<1>5. Open[s].status = "none"
  BY <1>4, Constants DEF Open, Closing, NoSupervisor
<1> QED
  BY <1>5

LEMMA WorkersGoOn ==
  ASSUME RegistryInv, QueueInv, Stages, Supervisors # {}, NEW t \in Callers, Working(t)
  PROVE  CanGoOn
<1>1. HoldsPermit(t) /\ Types /\ WorkersHold
  BY DEF RegistryInv, WorkersHold
<1>2. CASE task[t].plan = <<>>
  BY <1>1, <1>2 DEF CanFinish, CanGoOn
<1>3. CASE task[t].plan # <<>>
  <2>1. Head(task[t].plan) \in PlanSteps
    <3>1. task[t].plan \in Seq(PlanSteps)
      BY <1>1 DEF Types, Tasks
    <3> QED
      BY <1>3, <3>1
  <2>2. NeedsSupervisor(t) => \E s \in Supervisors : Open[s].status = "none"
    BY SupervisorIsFree
  <2>3. CASE ScopeClosed
    BY <1>3, <2>1, <2>2, <2>3 DEF CanStep, CanGoOn
  <2>4. CASE ~ScopeClosed
    BY <1>1, <2>4, FibersCanStop
  <2> QED
    BY <2>3, <2>4
<1> QED
  BY <1>2, <1>3

LEMMA RegistryGoesOn ==
  ASSUME RegistryInv, QueueInv, Stages, Supervisors # {}
  PROVE  SomeoneCanGoOn
<1> SUFFICES ASSUME NEW t \in Callers, task[t].stage # "idle" PROVE CanGoOn
  BY DEF SomeoneCanGoOn
<1>1. task[t].stage \in {"asked", "working", "leaving"} /\ StageOK(t)
  BY DEF RegistryInv, Types, Tasks, Stages
<1>2. CASE task[t].stage = "leaving"
  BY <1>1, <1>2 DEF StageOK, CanLeave, CanGoOn
<1>3. CASE task[t].stage = "working"
  BY <1>3, WorkersGoOn DEF Working
<1>4. CASE task[t].stage = "asked" /\ HoldsPermit(t)
  BY <1>1, <1>4 DEF StageOK, CanBegin, CanGoOn
<1>5. CASE task[t].stage = "asked" /\ ~HoldsPermit(t)
  <2>1. WaitsForPermit(t) /\ uses[t] # NoUse
    BY <1>1, <1>5 DEF StageOK, WaitsForPermit
  <2>2. uses[t].key = Environment /\ uses[t].semaphore \in Callers
    BY <2>1, UseTyped, RegistryAssumption
  <2>3. PICK h : h = holder[uses[t].key][uses[t].semaphore]
    OBVIOUS
  <2>4. h = NoCaller \/ (h \in Callers /\ HoldsPermit(h))
    BY <2>1, <2>3, QueueServes DEF WaitersAreServed
  <2>5. CASE h = NoCaller
    <3>1. Queue(t) # <<>>
      BY <2>1 DEF WaitsForPermit
    <3> QED
      BY <2>2, <2>3, <2>5, <3>1 DEF Queue, CanBeServed, CanGoOn
  <2>6. CASE h \in Callers /\ HoldsPermit(h)
    <3>1. StageOK(h) /\ task[h].stage \in {"idle", "asked", "working", "leaving"}
          /\ uses[h] # NoUse
      BY <2>6 DEF RegistryInv, Types, Tasks, Stages, HoldsPermit
    <3>2. task[h].stage \in {"asked", "working"}
      BY <2>6, <3>1 DEF StageOK
    <3>3. CASE task[h].stage = "asked"
      BY <2>6, <3>1, <3>3 DEF StageOK, CanBegin, CanGoOn
    <3>4. CASE task[h].stage = "working"
      BY <2>6, <3>4, WorkersGoOn DEF Working
    <3> QED
      BY <3>2, <3>3, <3>4
  <2> QED
    BY <2>4, <2>5, <2>6
<1> QED
  BY <1>1, <1>2, <1>3, <1>4, <1>5

\* Each caller of the lock is where the lock has it: it holds or waits while it asks
\* or works, and an idle one has left.
THEOREM StagesFollowLock == Spec => [](QueueInv /\ Stages)
<1>1. Init => QueueInv /\ Stages
  <2> SUFFICES ASSUME Init PROVE QueueInv /\ Stages
    OBVIOUS
  <2>1. LockInit /\ task = [t \in Callers |-> NoTask]
    BY DEF Init
  <2>2. \A t \in Callers : task[t].stage = "idle" /\ uses[t] = NoUse
    BY <2>1 DEF LockInit, NoTask
  <2> QED
    BY <2>1, <2>2, QueueInitially DEF Stages, StageOK
<1>2. RegistryInv /\ QueueInv /\ Stages /\ [Next]_vars => (QueueInv /\ Stages)'
  <2>1. RegistryInv => Types /\ WorkersHold
    BY DEF RegistryInv
  <2> QED
    BY <2>1, StageStep, RegistryStep, QueueStep
<1> QED
  BY <1>1, <1>2, RegistryInvariant, PTL DEF Spec

\* closeServiceScope waits, with the lease lock in hand, for fibers that may wait for
\* that lock: no state is reached in which callers want something of the registry
\* and none of them can take a step, be handed the lock or be interrupted.
THEOREM NobodyWaitsForever ==
  ASSUME Supervisors # {}
  PROVE  Spec => []SomeoneCanGoOn
<1>1. RegistryInv /\ QueueInv /\ Stages => SomeoneCanGoOn
  BY RegistryGoesOn
<1> QED
  BY <1>1, RegistryInvariant, StagesFollowLock, PTL
=============================================================================
