# A TLA+ model of the T3 client runtime

The repository holds the client side of T3: an Effect-based client runtime
(`packages/client-runtime`), a React Native application (`apps/mobile`) that
drives it, and packages of contracts, provider adapters and shared helpers.
A client keeps connections to *environments* (machines that run coding
agents), reads their threads and projects over those connections, and sends
messages to them, from a phone that suspends, loses its network and restarts.

This directory models the parts of that code whose correctness depends on
interleavings, failures and timeouts, checks them with TLC on small instances
and proves the main results with TLAPS for all values of the constants.

## Inventory

| Component | Code | State it keeps | Hard behaviour |
| --- | --- | --- | --- |
| Environment supervisor | `client-runtime/src/connection/supervisor.ts` | intent, signal queue, backoff ladder, live session, route cooldowns | callers, timers, connectivity, wakeups and a checker fiber race one run loop |
| Connection driver | `connection/driver.ts` | scopes of the routes being tried | parallel route checks joined in order, half-open sessions |
| Environment registry | `connection/registry.ts` | catalog entries, a lease lock and a service scope per environment | fibers of a scope wait for the lock whose holder closes that scope |
| Routes, resolver, onboarding | `connection/routes.ts`, `resolver.ts`, `onboarding.ts` | saved routes and profiles | merging learned with saved routes |
| RPC session, subscriptions | `rpc/session.ts`, `rpc/client.ts`, `state/server.ts` | one socket, replayed configuration, the app's projection and its cache, retry counts | subscriptions move to the next session; sliding buffers lose updates |
| Thread and shell sync | `state/threads.ts`, `state/shell.ts` | snapshots, deltas, caches | late results for an old session |
| Terminal output, VCS | `state/terminalOutput.ts`, `state/vcs*.ts` | bounded buffers, status keyed by generation | replay after reconnecting |
| Relay, authorization | `relay/managedRelay.ts`, `authorization/service.ts` | token caches | concurrent refreshes, expiry |
| Device stream, commands | `device/stream.ts`, `operations/commands.ts` | streams in progress | cancellation |
| Thread outbox | `apps/mobile/src/state/thread-outbox-*.ts` | queue in memory, one file per message, revisions | optimistic publication, compare-and-set, crash between two store operations |
| Outbox drain | `use-thread-outbox-drain.ts`, `edit-pending-thread-message.ts`, `thread-outbox-removal.ts` | retry timers, the message being sent, the messages being edited | send versus edit, recovery and its rollback, attachment release |
| Composer drafts | `use-composer-drafts.ts` | drafts, attachment files | debounced writes, merges undone while the user types, reference-counting sweep |
| Background refresh | `apps/mobile/src/connection/background-*.ts` | a plan with deadlines | time-boxed connection while suspended |
| Shared workers | `packages/shared/src/{KeyedCoalescingWorker,DrainableWorker,KeyedLock}.ts` | queues and key sets | drain versus enqueue versus failure |
| Agent client protocol | `packages/effect-acp/src` | pending requests | cancellation, late answers |
| Provider sessions | `packages/provider-*/src/server` | an agent's session, its turns and permission requests | cancellation against late events |

The rest (contracts, source-control hosts, screens, native modules, scripts)
translates data or renders it and keeps little state of its own. `PROJECT.json` lists every component with what is modelled of it, and
every hazard with the line where it bites.

Modelled as a whole: the supervisor and the outbox. In part: the driver (as the
supervisor's environment), the registry, the configuration subscription, the
drain, the drafts and the shared workers. Nothing is modelled of the rest.

How they interact: the registry owns one supervisor per environment and tells
it `connect`, `disconnect` or `retryNow`; the supervisor calls the driver and
publishes a `session` and a `state`; subscriptions follow the session, and state
such as the VCS status is keyed by the generation announced with the connected
state; the outbox drain sends queued messages through the session of a
connected environment and removes them from the outbox when they are delivered.

What makes each of them correct:

- supervisor: no change of intent is lost; one session at a time, published
  only while wanted; failures back off and are shown; a route switch improves;
- registry: one supervisor per environment, and none for a removed one;
- driver: no session of a route that lost is left open;
- subscriptions: no value of an old session after a newer one, no lost update;
- outbox: the queue and the disk agree, nothing accepted is lost, nothing
  removed comes back, nothing is sent that was never written;
- drain: a message is sent at least once or its text goes back to the composer,
  nobody edits what is being sent, and its attachments outlive it;
- shared workers: no value is lost, and a drain returns only when idle.

## Modules

| Module | Models | Lines of code |
| --- | --- | --- |
| `EnvironmentSession` | what consumers of a supervisor rely on (abstract) | -- |
| `EnvironmentSupervisor` | `supervisor.ts`, with `driver.ts` as its environment | about 1050 |
| `EnvironmentSupervisor_proofs` | theorems about it | -- |
| `MCEnvironmentSupervisor` | instances for TLC | -- |
| `ThreadOutbox` | `thread-outbox-manager.ts`, its store and its callers | about 650 |
| `ThreadOutbox_proofs`, `ThreadOutboxFiles_proofs` | theorems about it | -- |
| `MCThreadOutbox` | instances for TLC | -- |
| `KeyedLock` | `KeyedLock.ts`, and `withLeaseLock` of the registry | about 70 |
| `EnvironmentRegistry` | `registry.ts` for one environment, with `layer.ts` and the stores it calls | about 1300 |
| `KeyedLock_proofs`, `EnvironmentRegistry_proofs` | theorems about them | -- |
| `MCEnvironmentRegistry` | instances for TLC | -- |
| `CoalescingBuffer` | what a keyed coalescing worker promises (abstract) | -- |
| `KeyedCoalescingWorker` | `KeyedCoalescingWorker.ts` | about 100 |
| `KeyedCoalescingWorker_proofs` | theorems about it | -- |
| `MCKeyedCoalescingWorker` | instances for TLC | -- |
| `ServerConfigSync` | the configuration from `session.ts` over `client.ts` to `state/server.ts` | about 350 |
| `ServerConfigSync_proofs` | theorems about it | -- |
| `MCServerConfigSync` | instances for TLC | -- |
| `OutboxDrain` | `use-thread-outbox-drain.ts`, `edit-pending-thread-message.ts` and the draft they merge into | about 650 |
| `OutboxDrain_proofs` | theorems about it | -- |
| `MCOutboxDrain` | instances for TLC | -- |

### EnvironmentSupervisor

The run loop of `supervisor.ts` is a program counter `pc`: `top` (the head of
the loop), `available`, `offline`, `blocked` and `backoff` (waiting for a
signal), `establishing` (a driver attempt raced with the queue), `connected`
and `probing` (the two loops of `monitorConnectedLease`), `releasing` (the
attempt is over and its scope closes) and `closed`. The other variables are the
`Ref`s and locals of the code under their own names.

- A caller sets the intent and posts its signal in two steps (`connect`,
  `disconnect`, `retryNow` and the connectivity stream all write a `Ref` before
  they offer to the queue); `posting` holds the signals between the two.
- An attempt first looks at the signals queued when it started (`backlog`),
  since the queue race is started before the driver's first suspension can
  resolve; the driver cannot land before they are taken.
- A session is identified by its generation and a route by its rank in the
  user's order. The driver opens any untried route, one at a time; going on to
  the next costs a disturbance. Its own order is left to `ConnectionDriver`
  (planned).
- Time is abstract: an armed timer (setup timeout, probe deadline, backoff,
  cooldown, the time after which a session counts as stable) may fire at any
  step. No property depends on durations.
- The published `state` and `session` of one assignment sequence without a
  suspension between are written in one step. Tracing, labels, interrupt-only
  outcomes and `retryAt` are left out.
- `issued`, `losses` and `excused` are history variables: the newest published
  generation, and the failures since the last reason to start the ladder over.

Bounds: `MaxDisturbances` counts calls, network changes, wakeups, faults, route
learning and shutdown together; three of them are a call, a fault and what follows
it (each mutant is caught with three, the two runs that expect a violation use four).
`MaxSignals` only stops the checker from signalling into a long queue.

Fairness (`FairSpec`): the run loop, a caller in the middle of a call, the
checker and a closing scope are fibers of one runtime and go on when they can;
every wait on the outside has a timeout in the code (setup, probe, preflight).
Faults, callers and the platform owe nothing.

### ThreadOutbox

`serialize` chains mutations: `pending` is the chain, `running` the mutation
whose turn it is and `stage` the store operation it waits for. Everything a
mutation does between two awaits is one step; callers run between any two.
`enqueue` publishes at once, so it changes `memory` and `revisions` while
another mutation waits for the store: that is where the hazards are.

- A payload is a number, larger for a later one, and stands for the identity of
  the message object that the code compares with `===`.
- `holds` is what a caller read before its slow work: a drain that confirmed a
  message and prepares or completes its delivery (`confirmed`), or a
  pending-task editor. `RemovePlainly` is the deletion by the user, which
  passes no revision; it is enabled by `PlainRemovals`.
- The store writes by renaming a complete file, so a crash leaves the old file
  or the new one. Any store operation may fail.
- A clear removes the files of an environment side by side, in any order. At
  most one clear is outstanding.
- The order of messages by creation time, the tracking of writes in flight for
  an update restart, and the attachment files are left out.
- `written`, `released`, `saved` and `unsettled` are history variables.
  `unsettled` marks a message for which an operation that undoes another failed
  or was cut short by a crash: the code logs those or leaves them to the
  next start, and the properties do not speak of them.

Bounds: three payloads of one message are enough for a stale writer, its winner
and a retry; two messages for an environment that is removed beside one that is
not. Fairness: the store answers every operation, one way or the other.

### KeyedLock and EnvironmentRegistry

`KeyedLock` is an entry per key with a semaphore and a count of users, deleted
with the last user. It stands for `KeyedLock.ts` and for `withLeaseLock`, which
spells out the same algorithm. The semaphore is the runtime's: a newcomer may
take a released permit before the longest waiter is woken.

`EnvironmentRegistry` extends it with the operations of the registry on one
environment. An operation is a request that asks for the lease lock, and then a
plan: one element per await (a store, the closing of a scope), each with the
assignments that follow that await. `task` holds the plans. The actions `Begin*`
are the checks an operation makes once it has the lock; `Write`, `Erase`,
`StoreBearer`, `DropBearer`, `Unshadow`, `Forget`, `StartClosing`, `Install`,
`Drop` and `Update` are the elements; any store may fail.

- The callers are the user, the fiber that reconciles what the host reports
  (`Platform`), relay discovery (`Discovery`), and two fibers of each supervisor:
  one saves learned routes, the other reports a rejection by the server's socket.
  The last two wait for the lock although whoever holds it may be closing their
  scope, and are interrupted by that.
- A supervisor is reduced to its published phase, whether it was retried, and
  the bearer its attempt has read.
- A route is its id and the place it leads to, which need not go together: an edit
  keeps the id under a new address, and pairing an address again may bring another
  id. `register` drops the saved or learned route to the address of the new one
  (`GivesWay`). A learned route has the id of the saved one whose credential it
  borrows.
- `unsettled` is a history variable: what a fault that the code only logs left
  behind. A shadowed registration that could not be erased stays in the store
  (`shadow`); an operation may fail right after the new bearer was stored and before it
  could cause a retry (`bearer`); learned routes whose save was interrupted may be in the store
  only (`learned`). `displaced` is another: the ids of saved routes that gave way to
  another id for their address.

Bounds: one user, two supervisor names (an old scope that closes and a new one), two
ids and two addresses that can be combined, the relay, the loopback route and two
bearers; ids and addresses are symmetric. `MaxEvents` counts calls,
reports, attempts that end and faults together. Three are enough for an operation
against a running scope with a fault, for a connection refused with a bearer that is
replaced meanwhile, and for routes learned over one that gives way to another id; with
the fourth, something happens to what that left.

### KeyedCoalescingWorker

The fiber takes a key from the queue (`Take`), starts its batch in a transaction
of its own (`Start`), and completes it (`Complete`), which finds the values that
came meanwhile. `Enqueue` and the transactions of `drainKey` interleave with
these. A failing `process` is logged and completes the key as a good one does.
`CoalescingBuffer` is the abstract specification: values pile up per key, one
batch is worked on at a time, and a drain returns when its key has nothing left.
Merging is union, so a lost or repeated value shows.

Bounds: three keys (one taken, one busy, one queued), four values that keep
coming without end, two drains. Fairness: the fiber runs, `process` ends, and a
drain that can return is resumed.

### ServerConfigSync

How the app learns the configuration of a server. A session's source folds the
server's events into a replay state (`Receive`) and publishes each in a later
step (`Publish`). The subscription follows `supervisor.session` (`Switch`),
subscribes to the session's sliding `PubSub`, reads the snapshot (`ReadSnapshot`)
and then follows the updates, replaying the whole state when one is not the
successor of the last (`Follow`). The app folds the chunks into its projection
(`Apply`), and a coalescing writer saves it (`StartSave`, `Saved`), with a
finalizer on `Close`.

- Every value carries the session and the revision it came with, so that a
  lost, repeated or stale update shows in the view.
- `log` keeps every replay state of a session, which the code does not: the
  properties compare the view with it.
- The delays of the writer (500 ms and then 10 s) are an arbitrary wait.
- Restarting the app's state is one step, whether its scope closed, its finalizer
  failed, or the process died.

Bounds: two sessions with one event and three, a sliding buffer and a
`switchMap` queue of one place, one field and one kind of machine state, two
starts. A buffer of one loses updates after two events; the code's 64 only makes
that rarer.

### OutboxDrain

The messages of one existing thread between the composer, the queue, the disk
and the server. `tasks` holds the dispatch (task 0) and the edits in progress
(task *m* for message *m*), each with the stage it is in; a message is *edited*
while its task is not idle, as the code holds it from before its first await, and
*dispatched* while task 0 works on it.

- A text is the sequence of the pieces typed, with a break for the blank line
  between two merged texts. `Merge` and `Undone` are `mergeComposerDraftText` and
  the text part of `undoComposerDraftMergeState`.
- `writes` is `persistenceQueue`: debounced and flushed writes read the draft when
  they run, the others carry the draft of the moment they were queued. A write
  reads, and replaces the file, in one step, or fails (`Misses`). `timer` and
  `retryNeeded` are `persistTimer` and `persistRetryNeeded`. `missed` is a history
  variable: the last write that was made failed.
- The outbox is what `ThreadOutbox` shows of it: a mutation is done or fails as a
  whole, and a confirmation waits for the write of the message.
- The server takes a command once, whatever is sent again; a lost answer leaves
  open whether it did. A rejection may come at any time.
- `safe` holds the pieces the app has promised to keep: those of saved messages,
  until their user erases them, sends them on, or removes their thread or
  environment. `taken` holds the pieces a rollback removed that no merge of its
  own had put in.

Bounds: two messages, two pieces, one failure and one event (an edit, a deleted
thread, a removed environment, a crash). With two events the safety properties
also hold (2.9 million states). Fairness: the store and the server answer or fail,
timers fire, and what an answer resolves goes on; the drain's effect runs again
after each change of the atoms it reads. The user owes nothing.

## Runs

| Run | Shows |
| --- | --- |
| `supervisor` | `TypeOK`, no lost intent, no retry flag left armed, the published session is the live one, the ladder starts over only for a reason, failed attempts wait, failures stay visible, a switch signal in a live session was found for that session, the refinement of `EnvironmentSession`; the connection converges, a disconnect is carried out, a retry is consumed. With all five wakeups, a learned and a relay route |
| `outbox_safety` | two messages, of which one belongs to a removed environment: queue and disk agree once all is quiet, what was removed is gone, what was saved survives, with a failing operation and a crash |
| `outbox_writers` | two writers of one message and deletions that carry no revision: an accepted update replaces what its writer read, a message about to be sent was written, whoever waits is answered |
| `registry` | one supervisor per environment, lease and store agree with the catalog whenever the lock is free, a learned route outlives its owner only when that gave way to another id, a socket verdict fits the routes, a replaced bearer is retried, nobody waits in a circle, and the lock excludes |
| `workers` | the worker implements `CoalescingBuffer`, its queue has no duplicates, a waiting value is scheduled, no key starves, drains end |
| `config` | the view follows its session's source, unsaved changes are pending, with all done the app is current, and it never goes back |
| `drain` | no saved text is lost (once something has failed, but for what a rollback takes of another's), no message is edited while it is sent, the draft reaches the disk unless its last write failed, the queue keeps emptying |

The types of `ThreadOutbox`, `KeyedCoalescingWorker`, `ServerConfigSync` and
`OutboxDrain` are not checked by a run: `TypeCorrect` proves them.

Deadlock is not checked: the system rests when it is connected or closed, or
when the outbox or the registry is quiet and the bounds are spent, or when there
is nothing left to send or to show.

Five runs show where the code and its comments or tests part:

| Run | Disagreement |
| --- | --- |
| `supervisor_offline_leak` | `replacing` survives a disconnect, and a later connect starts an attempt while the network reports offline |
| `supervisor_cooldown_gap` | a route switch whose whole attempt fails leaves no cooldown for the route |
| `registry_orphaned_routes` | pairing an address again under another id drops its saved route and that route's credential, and keeps the routes learned over it, which borrow that credential |
| `outbox_plain_removal` | a message enqueued while a removal without a revision waits for the store leaves the queue but stays on disk |
| `drain_rollback` | the rollback of a failed recovery compares with a draft read after the failed write, and takes out what the user typed during it |

Smaller observations, left to the reader of the modules:

- A rollback of an enqueue counts no revision, so when the file of a rolled-back
  retry cannot be dropped, the removal of *another* environment merges the earlier
  payload from disk back into the queue under the revision of the later one
  (`AcceptedOnWhatWasRead` excepts it).
- An update that loses its race has its stale payload on disk between its write
  and the compensating one (`UpdateWritten`, then `UpdateWinnerRestored`), so a
  crash there leaves it.
- Relay discovery (`layer.ts:42-60`) checks that the relay is an environment's
  only route, and then waits for the lease lock. `setCompatibility` looks at the
  entry again, but not at its routes: a direct route saved meanwhile is disabled
  by a verdict about the server behind the relay (`Discover`, `BeginRegister`,
  `BeginSetCompatibility`).
- When an edit of one message and the recovery of another overlap and one of
  their writes fails, the rollback of the first may take the whole text of the
  second out of the draft. `NothingLost` excepts what is in `taken`, and so does its
  theorem: that text is lost. With no failure it excepts nothing: no task backs out then,
  unless its environment was removed.
- A recovery that ends after its environment was removed puts its text into a
  draft of an environment that is no longer there.

## Proofs

The theorems of `EnvironmentSupervisor_proofs` hold for every set of routes,
networks and wakeups allowed by `ConstantsAssumption`.

- `TypeCorrect`. `TypeOK` is inductive; its three parts are proved separately
  (`FlagStep`, `ValueStep`, `StateStep`), one step per action.
- `RetryFlagBackedCorrect`, `IntentPendingCorrect`. Both are inductive with
  `TypeOK`; the lemmas about `Pending` say how a signal moves from `posting` to
  the queue and out of it.
- `SessionIsLiveCorrect`, from `SessionInv`, which adds how `generation`,
  `issued` and the lease are related: without it a new lease might carry an old
  generation.
- `ImplementsSessionCorrect`: every step of the supervisor is a step of
  `EnvironmentSession` or a stutter (`RefineStep`), from `SessionInv`.
- `LadderEscalatesCorrect`, `FailedAttemptsWaitCorrect`, from `LadderInv`: the
  count of failures follows the history through `outcome`, and an attempt that
  never connected leaves no probe marker.
- `FailureStaysVisibleCorrect`, from `VisibleInv`: `latestFailure` is there
  before the state that shows it.
- `SwitchImprovesCorrect`, from `CheckInv` (a check concerns a lease of its
  time, and what it may find ranked above it then) and `SwitchInv` (the
  backlog is drained before a session goes live, and callers never post a
  switch).
- `StopsWhereWantedCorrect`, from `StopInv`: with nothing announced and nothing in
  its queue, the run loop rests only as available and not wanted, offline without a
  network, blocked on something the user must change, or connected over a published
  session. `PlaceInv` ties the place the loop is at to the state it published;
  `AttemptInv` says that an attempt that drains a backlog has one, and that the
  saved routes are among those it may try; `FailureInv` that a user who gives up during an attempt
  that fails has a signal on the way which leads out of `blocked`. It is what
  `Converges` and `DisconnectReleases` rest on besides fairness.

The theorems of `ThreadOutbox_proofs` hold for every set of messages and writers
and every bound allowed by `OutboxAssumption`, with or without plain removals.

- `TypeCorrect`. `TypeOK` is inductive, proved by groups of actions: callers,
  starting mutations, and the steps of each kind of mutation.
- `ConfirmedWasWrittenCorrect`, from `Durable`. That a confirmed payload was
  written rests on the order of the queue: a payload on screen that was never
  written still has its enqueue ahead (`StillToWrite`), and a confirmation of
  it was submitted behind that enqueue (`AsksLater`, which needs that no
  payload is made twice, `MadeBefore`). When the confirmation has its turn and
  the payload is still on screen, the enqueue is done. Files, and what a clear
  merges back from them, hold written payloads only (`FilesWereWritten`,
  `PutBackWasWritten`). The proof first bounds how one step changes the queue,
  the files, the screen and the writers (`QueueSteps`, `StoreSteps`,
  `MemorySteps`, `HoldSteps`).

The first three theorems of `ThreadOutboxFiles_proofs` have the hypothesis
`~PlainRemovals`: every removal names the revision it is about, as after a delivery.
None of the three holds without it, because a removal that names none may cross an
enqueue of the same id: `Aligned` fails in the run `outbox_plain_removal`; after
enqueue, plain removal and enqueue again, the payload of the first enqueue, reported
as removed, is still written (`ReleasedStaysGone`); with more calls a saved payload goes
with a removal that was meant for an earlier one (`SavedSurvives`). `outbox_safety`
checks them under the same hypothesis. The other theorems have no such hypothesis, and
`outbox_writers` checks its property with plain removals too.

- `AlignedCorrect`, from `FilesInv`, which has two layers. `LineInv` is about the
  line of mutations alone: a later write carries a newer payload, an enqueue
  submitted behind an update, a removal or a clear has already moved the revision
  they expect (`Ordered`), nobody expects a revision that is still to come
  (`JobsSound`, `HoldsRead`, `Requested`), and the last enqueue of a message that
  waits carries what is on screen (`Published`, `Promised`). Hence a mutation
  whose revision still fits has no enqueue of its message behind it
  (`FitsIsAlone`, `TakenIsAlone`). `StagesOK` then says, for each store operation
  a mutation waits for, what the locals it read before are still worth: they are
  current, or an enqueue is promised that will write again. `InStep` names the
  only ways in which screen and file may differ: an enqueue promised or running,
  a removal or clear being undone, or a file that was not read yet.
- `SavedSurvivesCorrect`, from `SavedInv`: what waits to be written is newer than
  everything reported as saved (`Fresh`), a saved message that a mutation or a
  writer is about is on screen (`AllKnown`), and neither its file nor the screen
  is older at any stage of the mutations that rewrite it (`SavedOK`).
- `ReleasedStaysGoneCorrect`, from `ReleasedInv`. A payload may return from the
  line, from the value a mutation restores, from a clear's locals or from a file.
  The invariant says of each that it is not a released payload (`WaitingOK`,
  `PutBackOK`, `GoneOK`). When one is released, that nothing holds it any more
  follows from its having been written (`LeavesOK`), so that no enqueue of it is to
  come, from its belonging to one message (`Owned`), the one that is removed, and
  from no payload being made twice (`Spent`).
- `AcceptedCorrect`, from `ReadInv`, which has to do without `FilesInv`. A writer
  waits for one mutation, which carries the revision it has read (`Linked`). While the
  revision stands, the payload does, or the message is gone from the screen, or its
  file was left apart and no enqueue of it is under way (`ReadOK`): a clear may put
  such a file on screen again. That no other step brings an older payload back under
  a revision somebody has read needs that of several enqueues of a message
  only the last can be on screen (`Superseded`), that the payload of one still in line is in
  no file and in no clear's locals while the message is off the screen (`NotYetStored`), that
  what is put back on disk belongs to a message on screen (`PutBackShown`), and that the
  file a failed enqueue drops does not (`DropsUnshown`).
- `WritersAreNotForgotten`, from `WorkInv`: whoever waits has its own mutation in the
  line (`Awaited`, `Linked`), which reports to it, and the line can go on: the next
  mutation can start, or the running one is at a stage that has a step for either
  answer of the store (`AtWork`).
- `QueueAdvances`: no step of a mutation is for nothing, and callers join behind those
  that wait. Each step takes a mutation from the line, ends the running one, moves it to
  a later stage, or leaves a clear fewer messages. With `WritersAreNotForgotten` only
  fairness is missing for `WritersAreAnswered`.

`KeyedLock_proofs` and `EnvironmentRegistry_proofs`, for every set of keys,
callers, supervisors, routes and bearers:

- `MutualExclusionCorrect`. The semaphore of a key is deleted and made anew, so
  exclusion per semaphore is not enough. `LockInv` adds that an entry counts its
  users (`Counted`) and that they all use its semaphore (`SameSemaphore`): an
  entry goes only with its last user.
- `WaitersServed`, from `QueueInv`: who waits finds the permit free, so that
  someone is woken next, or held by another caller of the same key. A semaphore that is
  deleted, or left by an interrupted waiter, strands nobody: its holder is one of its
  users (`Served`), and so are those in its line, each in one place of one line
  (`Lined`).
- `RegistryFollowsLock`: every step of the registry is a step of the lock or
  leaves it alone, interrupted fibers included. `LeaseLockExcludes` follows.
- `RegistryInvariant`: `RegistryInv` is inductive, and with it `RegistryTypes`,
  `SupervisorIsAlone`, `LeaseIsCatalogs`, `SavedIsCatalogs`,
  `OrphanedRoutesWereDisplaced`, `SocketVerdictsFit` and `ReplacedBearersRetried`.
  The properties speak of the moments between operations; the invariant has to
  say what an operation has left apart at each of its steps. `Work` does: for
  the one caller that holds the lock (`WorkersHold`), it names the steps its plan
  still has to take and what holds before each of them (`Replaces`, `Places`,
  `Erases`, `Drops`, `Updates`, `Takes`, `Unshadows`, `Releases`, `Ends`), so
  that catalog, disk, lease and supervisors agree again when the plan is empty.
  `OrphanedRoutesWereDisplaced` rests on `ParentInv` besides: what a plan is about to
  write (`PlanParented`), and the routes a supervisor learns over (`OwnersParented`),
  name only routes that are still saved or were displaced.
  The operations of fibers need more, because a fiber read the routes before it
  had the lock: `FibersOK` ties what it asks for to the routes its supervisor was
  made with, and `LeaseOK` ties those to the entry while the supervisor is open.
  That a supervisor is closing says that somebody works who will install or drop
  its successor. `BearersOK` says who will renew an attempt with a replaced bearer.
- `StagesFollowLock`: each caller's stage agrees with its place at the lock, which
  makes what `QueueInv` says of waiters available in the registry.
- `NobodyWaitsForever`: `NoCircularWait` with the guards of `Progress` written out in
  place of `ENABLED`. Whoever asks is served by the lock unless somebody works; whoever
  works has a plan, and the invariant says that its next step can be taken. The step
  that closes a scope waits for fibers; each of them is idle, or waits for the lock and
  can be interrupted there, or works, which excludes the one that closes. The theorem
  assumes `Supervisors # {}`: a plan that opens a supervisor names one from a constant
  set, where the code makes one at will.

`KeyedCoalescingWorker_proofs`, for every set of keys, values and drains:

- `TypeCorrect`, `QueuedOnceCorrect`, `WaitingIsScheduledCorrect`, which are
  inductive together with `OneAtATime`.
- `ImplementsBufferCorrect`: every step is a step of `CoalescingBuffer` or a
  stutter. `DrainReturns` needs that a key that is not scheduled has nothing
  waiting, and one that is taken still counts as queued.
- `NobodyIsStuck`: while a value waits the fiber has something to do, and a drain that
  cannot return waits for work that can go on. `TurnsAreKept`: a key moves only forward
  in the queue, and its turn takes up all that waits for it. They are what `DrainsEnd`
  and `NoKeyStarves` rest on besides fairness.

`ServerConfigSync_proofs`, for any fields, kinds, sizes and numbers of sessions
and events:

- `TypeCorrect`, from `Base`: chunks are of revisions their session has
  (`PlacesOK`), a source is at most one event ahead of what it published
  (`PublishedOK`), and each entry of a log follows from the one before (`LogOK`).
- `UnsavedIsPendingCorrect`, from `SaveInv`, which follows a projection through
  the writer's queue.
- `ViewFollowsSourceCorrect`, from `ViewInv`: the chunks on their way follow one
  another without gaps, or start with a snapshot (`ChainOK`, `RevisionOK`), and
  what is left of the chunk being applied is what the view still lacks (`AtOK`).
- `QuietIsCurrentCorrect`, from `SeenInv`, which adds that the buffer's newest
  event is the newest published one (`InboxOK`).
- `NeverGoesBackCorrect`, from `OrderInv`: the sessions on the way to the
  subscription (`ChangesOK`) and the chunks on the way to the app (`ChunksOK`)
  are in order.
- `StopsWhenCurrentCorrect`, from `SeenInv`, `OrderInv` and `FollowInv`: when none of
  publisher, subscription and projection can go on, there is no session, its source
  has ended, or the app shows the last configuration of the published session.
  `QuietIsCurrent` speaks of states in which nothing is left to do; this says that
  the parts come to rest in no others, so that they never wait for one another.
  `FollowInv` says that the subscription is at the published session or will hear of
  it (`changes`).

`OutboxDrain_proofs`, for any numbers of messages, pieces, failures and events:

- `TypeCorrect` and `OneOwnerCorrect`. A task that waits for a write is moved on
  when that write lands, so `OneOwner` alone is not inductive: `WritesOK` says that
  an awaited write has its task waiting in the stage it was made in (`Backed`), and
  that a task waits for one write at a time. Whoever is moved by a write is then
  past its checks, and the checks themselves see the other's hold (`OwnerKept`).
- `DraftReachesDiskCorrect`, from `SettlesInv`, with any failures. Unless the timer is
  set, the newest write in the queue that carries a text carries the draft's; if none is
  left that does, the disk has it, or the last write failed. A failed merge or flush
  appends the write of its undoing, so what was missed before does not matter.
- `NothingLostCorrect`, from `Kept` and `NothingFailed`. `NothingFailed` says that until
  a write or a request fails, whatever a task is busy with is in the queue (`Untroubled`)
  or the environment's messages are gone (`Emptied`): so no task backs out and nothing is
  `taken`. After a failure text in `taken` is excepted, and `Kept` has four parts. The
  queue keeps the order of sending (`QueueOK`), and a task that is past its checks works
  on a saved message (`TasksOK`). A piece of text that no file and no server has *lasts*:
  it is in the
  disk's draft and in every write that may replace it (`LostOK`, `Lasts`). And a
  piece that only the file a task is about to remove still has *comes*: from the
  task's merge on, every write has it, and once the merge is written it lasts
  (`NeededOK`, `Comes`). A recovery puts back several files one after another:
  `Later` says which of them still count for it. The proof follows pieces through
  merges and rollbacks (`Pieces` lemmas) and the queue of writes (`DraftStep`
  lemmas), one lemma per action.
- `TasksGoOn`: a task that waits for a save or a write has its own write still in the
  queue of writes (`WritesDue`), or its save under way, and its stage is one of its kind of task
  (`AllFit`), for which the next step has no guard it could miss. `QueueMovesOn`
  follows with the order of sending: of the messages in the queue one comes first,
  and it can be begun, or has its retry timer set, or is the one worked on. They are
  what `QueueEmpties` rests on besides fairness and a store that works at times.

Every proof rests on the assumptions named in the modules (sets of constants that
do not overlap, bounds that are naturals, a finite set of callers; in the registry
also that users, the platform, discovery and the fibers of a supervisor are
different callers, and that no one may save a loopback route).

Only model-checked: the liveness properties (`Converges`, `DisconnectReleases`, `RetryConsumed`,
`WritersAreAnswered`, `DrainsEnd`, `NoKeyStarves`, `QueueEmpties`), and `NoCircularWait`
as it stands, which is about `ENABLED`. Liveness, `ENABLED` and what recursive
definitions compute are beyond the prover. What is proved instead is the part of them
that does not need fairness: no state from which the parts concerned cannot go on
(`StopsWhereWantedCorrect`, `WritersAreNotForgotten`, `NobodyWaitsForever`,
`NobodyIsStuck`, `TasksGoOn`, `QueueMovesOn`, `StopsWhenCurrentCorrect`) and, where the
order of service matters, progress towards the end (`QueueAdvances`, `TurnsAreKept`).
These theorems write "can go on" as the guards of the actions. TLC was used to compare
those guards with `ENABLED` of the actions, on the instances of the runs (for the outbox a
smaller one): they agree in every state, and for the supervisor they imply it.

## Not modelled

- Registry: interruption of callers, the order of routes, profiles, trust records
  (but for a removal that fails), managed SSH backends, cached data, the finalizer
  of the whole registry, other environments.
- Workers: the closing of a worker's scope (a drain of a dirty key would then not
  return), and `DrainableWorker`.
- Configuration: a snapshot of another environment, other subscribers of the
  session, subscriptions with their own input, retries (a failing configuration
  stream has the shape of a lost transport, which ends the session), the welcome
  state, opening and probing the socket. A published session has its initial
  configuration, so its exit does not come before that.
- Drain: creations and the pending-task editor, attachments (uploads, their limit,
  blocked recoveries, the release of files), the settings sent before a turn, lost
  access, several threads at once, the loading of the stores.
- Thread and shell synchronisation, terminal output, VCS state, relay tokens, the
  device stream, background refresh, agent awareness, the agent client protocol and
  the provider adapters: not reached yet, although the shared protocol runtimes
  would be worth it.
- Most of the repository by size is schemas, translation of provider events,
  requests to hosts, and screens: data and rendering without a state machine.

## Plan

Done: the supervisor with its abstract specification, the outbox, the registry
over its lock, the coalescing worker with its abstract specification, the
configuration subscription, and the drain; each with proofs. What would come next:

1. `AttachmentSweep`: the release of attachment files against drafts, queued
   messages and sends in flight (`thread-outbox-removal.ts:26`).
2. `DurableSubscription`: retries and resubscription (`rpc/client.ts:319`).
3. `ConnectionDriver` (the order of the routes and their scopes) and `RouteList`
   (ranking and learning, against a reference definition).
4. `ThreadSync`, `TerminalOutput`, `BackgroundRefresh`, `RelayTokens`,
   `AcpProtocol`, `AcpSession`.
