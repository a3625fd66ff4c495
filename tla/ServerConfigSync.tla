--------------------------- MODULE ServerConfigSync ---------------------------
(***************************************************************************)
(* The server configuration of one environment, from a session's source to *)
(* the state the app shows and its cache on disk:                          *)
(*   rpc/session.ts            a session folds the server's events into a  *)
(*                             replay state and publishes each of them;    *)
(*   rpc/client.ts             a durable subscription follows the sessions *)
(*                             of the supervisor, one after the other;     *)
(*   state/serverConfigProjection.ts, state/server.ts                      *)
(*                             the app folds what the subscription yields  *)
(*                             into its view and saves it now and then.    *)
(*                                                                         *)
(* A configuration is a body, of Fields an update replaces one at a time,  *)
(* the machine state (themes, usage-limit sources) the server reports      *)
(* apart from it, one of Kinds each, and the kinds the server is capable   *)
(* of reporting.  Every value is stamped with the session and the revision *)
(* it came with.  The replay state of revision r of session s is the       *)
(* record log[s][r], and a published event is known by its revision.       *)
(*                                                                         *)
(* Bounds: sessions, events of a session, starts of the app's state        *)
(* (MaxSessions, MaxEvents, MaxStarts), the published events a subscriber   *)
(* may be behind (Capacity, 64 in the code) and the chunks switchMap holds *)
(* (QueueSize).                                                            *)
(***************************************************************************)
EXTENDS Naturals, Sequences

CONSTANTS None, Fields, Kinds, MaxSessions, MaxEvents, MaxStarts, Capacity, QueueSize

VARIABLES
  log,        \* per session, the replay state after each event that counted
  published,  \* per session, how many of them are published
  over,       \* the sessions whose source has ended
  opened,     \* the last session whose socket was opened
  session,    \* supervisor.session; 0 for none
  closed,     \* the last session whose scope was closed
  changes,    \* changes of session the subscription has not seen
  inner,      \* the subscription's stream of one session
  queue,      \* chunks that stream has yielded and the app has not taken
  at,         \* the chunk the app is applying, with the parts it has left
  view,       \* the projection the app shows
  pending,    \* pendingPersistence: the projection that is not saved
  offered,    \* the sliding queue of runCachePersistence
  saver,      \* what runCachePersistence is saving
  cache,      \* what the disk holds
  starts      \* how often the app's state was started

serverVars == <<log, published, over>>
sessionVars == <<opened, session, closed>>
saveVars == <<pending, offered, saver, cache>>
vars == <<serverVars, sessionVars, changes, inner, queue, at, view, saveVars, starts>>

Sessions == 1 .. MaxSessions
Absent == <<0, 0>>
Stamps == Nat \X Nat
Unknown == <<>>

Events ==
  [type : {"snapshot"}, body : [Fields -> Stamps], capable : SUBSET Kinds]
    \cup [type : {"field"}, of : Fields, value : Stamps]
    \cup [type : {"machine"}, of : Kinds, value : Stamps]
Projections == [body : [Fields -> Stamps], capable : SUBSET Kinds, machine : [Kinds -> Stamps]]
Entries == [event : Events, projection : Projections, latest : [Kinds -> Stamps \cup {Unknown}]]
Parts == {"event", "snapshot"} \cup Kinds
Chunks == [session : Sessions, revision : Nat \ {0}, left : SUBSET Parts]
Stages == {"idle", "asked", "subscribed", "replaying", "following", "drained"}
Nowhere == [session |-> 0, revision |-> 0, left |-> {}]
Idle == [session |-> 0, stage |-> "idle", inbox |-> <<>>, revision |-> 0, out |-> Nowhere]

ASSUME ConfigAssumption ==
  /\ MaxSessions \in Nat /\ MaxEvents \in Seq(Nat) /\ Len(MaxEvents) = MaxSessions
  /\ MaxStarts \in Nat
  /\ Capacity \in Nat \ {0} /\ QueueSize \in Nat \ {0}
  /\ Kinds \cap {"event", "snapshot"} = {}
  /\ None \notin Projections

-----------------------------------------------------------------------------
(* Projections. *)

SnapshotOf(body, capable) == [type |-> "snapshot", body |-> body, capable |-> capable]
FieldEvent(f, v) == [type |-> "field", of |-> f, value |-> v]
MachineEvent(k, v) == [type |-> "machine", of |-> k, value |-> v]

\* applyServerConfigProjection: an update without a snapshot before it is
\* dropped, and a snapshot of a capable server keeps the machine state.
Project(current, e) ==
  IF e.type = "snapshot"
    THEN [body |-> e.body, capable |-> e.capable,
          machine |-> [k \in Kinds |-> IF k \in e.capable /\ current # None
                                         THEN current.machine[k] ELSE Absent]]
  ELSE IF current = None THEN None
  ELSE IF e.type = "field" THEN [current EXCEPT !.body = [@ EXCEPT ![e.of] = e.value]]
  ELSE [current EXCEPT !.machine = [@ EXCEPT ![e.of] = e.value]]

\* withoutEnvironmentThemes
Stripped(p) == [p EXCEPT !.machine = [k \in Kinds |-> Absent]]

\* The last event of each kind, which a snapshot of an incapable server forgets.
Latest(known, e) ==
  [k \in Kinds |-> IF e.type = "machine" /\ e.of = k THEN e.value
                   ELSE IF e.type = "snapshot" /\ k \notin e.capable THEN Unknown
                   ELSE known[k]]

\* serverConfigReplayEvents: a snapshot without machine state, and the last
\* event of each kind that had one.
ReplayParts(entry) == {"snapshot"} \cup {k \in Kinds : entry.latest[k] # Unknown}

\* The event that a part of a chunk stands for.
EventOf(entry, part) ==
  IF part = "event" THEN entry.event
  ELSE IF part = "snapshot" THEN SnapshotOf(entry.projection.body, entry.projection.capable)
  ELSE MachineEvent(part, entry.latest[part])

-----------------------------------------------------------------------------
(* A session and its configuration source. *)

Init ==
  /\ log = [s \in Sessions |-> <<>>]
  /\ published = [s \in Sessions |-> 0]
  /\ over = {}
  /\ opened = 0 /\ session = 0 /\ closed = 0
  /\ changes = <<0>>
  /\ inner = Idle /\ queue = <<>> /\ at = Nowhere
  /\ view = None
  /\ pending = None /\ offered = None /\ cache = None
  /\ saver = None
  /\ starts = 1

\* The source runs in the session's scope, from before the session is ready
\* until another one replaces it.
Running(s) == s \in {session, opened} /\ s > closed /\ s \notin over
ReplayState(s) == log[s][Len(log[s])]
Projected(s) == IF log[s] = <<>> THEN None ELSE ReplayState(s).projection
Known(s) == IF log[s] = <<>> THEN [k \in Kinds |-> Unknown] ELSE ReplayState(s).latest

ServerEvents(v) ==
  {SnapshotOf([f \in Fields |-> v], capable) : capable \in SUBSET Kinds}
    \cup {FieldEvent(f, v) : f \in Fields}
    \cup {MachineEvent(k, w) : k \in Kinds, w \in {v, Absent}}

\* Ref.modify of the replay state; the event is published in a step of its own.
Receive(s) ==
  /\ Running(s) /\ published[s] = Len(log[s]) /\ Len(log[s]) < MaxEvents[s]
  /\ \E e \in ServerEvents(<<s, Len(log[s]) + 1>>) :
       LET p == Project(Projected(s), e) IN
       /\ p # None
       /\ log' = [log EXCEPT ![s] =
                    Append(@, [event |-> e, projection |-> p, latest |-> Latest(Known(s), e)])]
  /\ UNCHANGED <<published, over, sessionVars, changes, inner, queue, at, view, saveVars, starts>>

\* A subscriber that is Capacity behind loses its oldest event.
Slide(inbox, r) == LET all == Append(inbox, r) IN
                   IF Len(all) > Capacity THEN Tail(all) ELSE all

Subscribed(s) == inner.session = s /\ inner.stage \in {"subscribed", "replaying", "following"}

Publish(s) ==
  /\ Running(s) /\ published[s] < Len(log[s])
  /\ published' = [published EXCEPT ![s] = @ + 1]
  /\ inner' = IF Subscribed(s) THEN [inner EXCEPT !.inbox = Slide(@, Len(log[s]))] ELSE inner
  /\ UNCHANGED <<log, over, sessionVars, changes, queue, at, view, saveVars, starts>>

\* initialConfigDeferred
Initialised(s) == \E r \in 1 .. published[s] : log[s][r].event.type = "snapshot"

\* The source's stream ends or fails; the exit is kept for the subscribers.
EndSource(s) ==
  /\ Running(s) /\ published[s] = Len(log[s])
  /\ over' = over \cup {s}
  /\ UNCHANGED <<log, published, sessionVars, changes, inner, queue, at, view, saveVars, starts>>

OpenSession ==
  /\ opened < MaxSessions
  /\ opened' = opened + 1
  /\ UNCHANGED <<serverVars, session, closed, changes, inner, queue, at, view, saveVars, starts>>

SetSession(s) ==
  /\ session' = s /\ closed' = IF session = 0 THEN closed ELSE session
  /\ changes' = Append(changes, s)
  /\ UNCHANGED <<serverVars, opened, inner, queue, at, view, saveVars, starts>>

\* The supervisor publishes a session that is ready, over an older one or none.
Establish ==
  /\ opened > session /\ opened > closed /\ Initialised(opened)
  /\ SetSession(opened)
LoseSession == session # 0 /\ SetSession(0)

-----------------------------------------------------------------------------
(* The durable subscription. *)

Switch ==
  /\ changes # <<>>
  /\ changes' = Tail(changes)
  /\ inner' = IF Head(changes) = 0 THEN Idle
              ELSE [Idle EXCEPT !.session = Head(changes), !.stage = "asked"]
  /\ UNCHANGED <<serverVars, sessionVars, queue, at, view, saveVars, starts>>

\* The stream waits for the initial configuration.  A published session has it, so
\* the exit of the source never beats it.
Subscribe ==
  /\ inner.stage = "asked" /\ Initialised(inner.session)
  /\ inner' = [inner EXCEPT !.stage = "subscribed"]
  /\ UNCHANGED <<serverVars, sessionVars, changes, queue, at, view, saveVars, starts>>

ReplayOf(s, r) == [session |-> s, revision |-> r, left |-> ReplayParts(log[s][r])]
LiveOf(s, r) == [session |-> s, revision |-> r, left |-> {"event"}]

ReadSnapshot ==
  /\ inner.stage = "subscribed"
  /\ LET r == Len(log[inner.session]) IN
     inner' = [inner EXCEPT !.stage = "replaying", !.revision = r, !.out = ReplayOf(inner.session, r)]
  /\ UNCHANGED <<serverVars, sessionVars, changes, queue, at, view, saveVars, starts>>

\* An update that is not the next one shows that others were lost.
BugIgnoresGaps(r) == LiveOf(inner.session, r)
Update(r) == IF r = inner.revision + 1 THEN LiveOf(inner.session, r) ELSE ReplayOf(inner.session, r)

BugReapplies(r) == TRUE
BugSkipsNext(r) == r > inner.revision + 1
New(r) == r > inner.revision

Follow ==
  /\ inner.stage = "following" /\ inner.out = Nowhere /\ inner.inbox # <<>>
  /\ LET r == Head(inner.inbox) IN
     inner' = IF New(r) THEN [inner EXCEPT !.inbox = Tail(@), !.revision = r, !.out = Update(r)]
              ELSE [inner EXCEPT !.inbox = Tail(@)]
  /\ UNCHANGED <<serverVars, sessionVars, changes, queue, at, view, saveVars, starts>>

Yield ==
  /\ inner.out # Nowhere /\ Len(queue) < QueueSize
  /\ queue' = Append(queue, inner.out)
  /\ inner' = [inner EXCEPT !.stage = "following", !.out = Nowhere]
  /\ UNCHANGED <<serverVars, sessionVars, changes, at, view, saveVars, starts>>

\* The exit ends the updates, whatever is left of them.
SourceOver ==
  /\ inner.stage = "following" /\ inner.session \in over
  /\ inner' = [inner EXCEPT !.stage = "drained", !.inbox = <<>>, !.out = Nowhere]
  /\ UNCHANGED <<serverVars, sessionVars, changes, queue, at, view, saveVars, starts>>

-----------------------------------------------------------------------------
(* The app's state and its cache. *)

TakeChunk ==
  /\ at.left = {} /\ queue # <<>>
  /\ at' = Head(queue) /\ queue' = Tail(queue)
  /\ UNCHANGED <<serverVars, sessionVars, changes, inner, view, saveVars, starts>>

\* A snapshot comes before the machine state it leaves out.
NextParts == IF "snapshot" \in at.left THEN {"snapshot"} ELSE at.left

Apply ==
  /\ \E part \in NextParts :
       LET next == Project(view, EventOf(log[at.session][at.revision], part)) IN
       /\ at' = [at EXCEPT !.left = @ \ {part}]
       /\ IF next = None THEN UNCHANGED <<view, pending, offered>>
          ELSE view' = next /\ pending' = next /\ offered' = next
  /\ UNCHANGED <<serverVars, sessionVars, changes, inner, queue, saver, cache, starts>>

\* The writer sleeps before the first save and after each, as long as it may be,
\* and then saves what was offered last.
StartSave ==
  /\ saver = None /\ offered # None
  /\ saver' = offered /\ offered' = None
  /\ UNCHANGED <<serverVars, sessionVars, changes, inner, queue, at, view, pending, cache, starts>>

\* A save clears the pending projection if that is what it saved.
BugClearsAny(saved) == None
PendingAfter(saved) == IF pending = saved THEN None ELSE pending

Saved ==
  /\ saver # None
  /\ cache' = Stripped(saver) /\ pending' = PendingAfter(saver)
  /\ saver' = None
  /\ UNCHANGED <<serverVars, sessionVars, changes, inner, queue, at, view, offered, starts>>

SaveFails ==
  /\ saver # None /\ saver' = None
  /\ UNCHANGED <<serverVars, sessionVars, changes, inner, queue, at, view, pending, offered, cache, starts>>

\* The app's state starts over from what the disk holds, if it can be read;
\* until then nothing of it is there, and nothing of it is missed.
Restart ==
  /\ starts < MaxStarts /\ starts' = starts + 1
  /\ changes' = <<session>>
  /\ inner' = Idle /\ queue' = <<>> /\ at' = Nowhere
  /\ view' \in {IF cache' = None THEN None ELSE Stripped(cache'), None}
  /\ pending' = None /\ offered' = None /\ saver' = None
  /\ UNCHANGED <<serverVars, sessionVars>>

\* Its scope closes: the finalizer saves what is pending.
Close ==
  /\ cache' = IF pending = None THEN cache ELSE Stripped(pending)
  /\ Restart

\* The finalizer fails, or the process dies; a save in flight may reach the disk.
Crash ==
  /\ \/ saver # None /\ cache' = Stripped(saver)
     \/ cache' = cache
  /\ Restart

-----------------------------------------------------------------------------
Server == \E s \in Sessions : Receive(s) \/ EndSource(s)
Publishing == \E s \in Sessions : Publish(s)
Supervisor == OpenSession \/ Establish \/ LoseSession
Subscription == Switch \/ Subscribe \/ ReadSnapshot \/ Follow \/ Yield \/ SourceOver
Applying == TakeChunk \/ Apply
Saving == StartSave \/ Saved \/ SaveFails
Lifecycle == Close \/ Crash

Next == Server \/ Publishing \/ Supervisor \/ Subscription \/ Applying \/ Saving \/ Lifecycle
Spec == Init /\ [][Next]_vars

-----------------------------------------------------------------------------
EntryOf(c) == log[c.session][c.revision]

\* A view agrees with a replay state on the body and on the machine state that
\* is known; of a capable server that has not reported yet the view keeps what
\* it had.
Agrees(v, entry, kinds) ==
  /\ v.body = entry.projection.body /\ v.capable = entry.projection.capable
  /\ \A k \in kinds : entry.latest[k] # Unknown \/ k \notin v.capable
                        => v.machine[k] = entry.projection.machine[k]

\* The values each variable takes; a subscriber is at most Capacity behind.
TypeOK ==
  /\ log \in [Sessions -> Seq(Entries)] /\ published \in [Sessions -> Nat] /\ over \subseteq Sessions
  /\ {opened, session, closed} \subseteq 0 .. MaxSessions /\ changes \in Seq(0 .. MaxSessions)
  /\ inner \in [session : 0 .. MaxSessions, stage : Stages, inbox : Seq(Nat), revision : Nat,
                out : Chunks \cup {Nowhere}]
  /\ Len(inner.inbox) <= Capacity
  /\ queue \in Seq(Chunks) /\ Len(queue) <= QueueSize /\ at \in Chunks \cup {Nowhere}
  /\ {view, pending, offered, saver, cache} \subseteq Projections \cup {None}
  /\ starts \in Nat

\* What the app shows is what the source of a session held after the last
\* event of the chunk it applied, events lost by the sliding buffer included:
\* no update is skipped, applied twice or undone (serverConfigEvents).
ViewFollowsSource ==
  at # Nowhere /\ at.left = {} => view # None /\ Agrees(view, EntryOf(at), Kinds)

\* The cache holds what the app shows, or the app remembers that it does not
\* (pendingPersistence): the finalizer then saves it.
UnsavedIsPending ==
  view # None /\ pending = None => cache = Stripped(view)

\* The chunks the app applies go forward: never to an older session, nor to an
\* older revision of the same one.
NeverGoesBack ==
  [][at' # at /\ at' # Nowhere
       => \/ at'.session > at.session
          \/ at'.session = at.session /\ at'.revision >= at.revision]_vars

\* When every fiber has done its work, the app shows the last configuration of
\* the session, whatever was lost on the way: a subscription that starts between
\* an event and its publication, or falls behind, misses nothing for good.
Quiet ==
  /\ changes = <<>> /\ queue = <<>> /\ at.left = {}
  /\ inner.stage = "following" /\ inner.inbox = <<>> /\ inner.out = Nowhere
  /\ published[inner.session] = Len(log[inner.session])
QuietIsCurrent ==
  Quiet => /\ at.session = inner.session
           /\ at.revision = Len(log[inner.session])
=============================================================================
