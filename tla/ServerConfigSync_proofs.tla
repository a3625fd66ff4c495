----------------------- MODULE ServerConfigSync_proofs -----------------------
(***************************************************************************)
(* The app's view of the server configuration follows the sessions'        *)
(* sources whatever the sliding buffer loses, and what is not on disk is   *)
(* pending; the parts of the way rest only when the view is current: for   *)
(* any fields, kinds of machine state, buffer sizes and numbers of         *)
(* sessions and events.                                                    *)
(***************************************************************************)
EXTENDS ServerConfigSync, TLAPS

\* A chunk is of a revision its session has, and what is left of it is the
\* event itself or parts that the replay has.
Placed(c, logs) ==
  c # Nowhere => /\ c \in Chunks /\ c.revision <= Len(logs[c.session])
                 /\ c.left \subseteq {"event"} \/ c.left \subseteq ReplayParts(logs[c.session][c.revision])

PlacesOK == /\ Placed(at, log) /\ Placed(inner.out, log)
            /\ \A i \in 1 .. Len(queue) : Placed(queue[i], log)

PublishedOK == \A s \in Sessions : published[s] \in {Len(log[s]) - 1, Len(log[s])}

\* A stream reads from a session that has a snapshot, and holds a chunk only
\* between taking it from the source and yielding it.
InnerOK ==
  /\ inner.stage # "idle" => inner.session \in Sessions
  /\ inner.stage \in {"idle", "asked"} => inner.inbox = <<>>
  /\ inner.stage \notin {"idle", "asked"} =>
       \A i \in 1 .. Len(inner.inbox) : inner.inbox[i] \in 1 .. Len(log[inner.session])
  /\ inner.stage \in {"subscribed", "replaying", "following"} => log[inner.session] # <<>>
  /\ inner.stage \in {"idle", "asked", "subscribed", "drained"} => inner.out = Nowhere

\* The last event of a kind is what the projection shows of it, and what an
\* incapable server has not reported is absent.
Reported(entry) ==
  \A k \in Kinds : /\ entry.latest[k] # Unknown => entry.projection.machine[k] = entry.latest[k]
                   /\ entry.latest[k] = Unknown /\ k \notin entry.projection.capable
                        => entry.projection.machine[k] = Absent

LogOK ==
  \A s \in Sessions : \A r \in 1 .. Len(log[s]) :
    /\ Reported(log[s][r])
    /\ r > 1 => /\ log[s][r].projection = Project(log[s][r - 1].projection, log[s][r].event)
                /\ log[s][r].latest = Latest(log[s][r - 1].latest, log[s][r].event)

Base == TypeOK /\ PlacesOK /\ PublishedOK /\ InnerOK /\ LogOK

\* Logs grow, and what they hold stays.
Grows(logs, more) ==
  \A t \in Sessions : /\ Len(logs[t]) \in Nat /\ Len(more[t]) \in Nat /\ Len(more[t]) >= Len(logs[t])
                      /\ \A r \in 1 .. Len(logs[t]) : more[t][r] = logs[t][r]

-----------------------------------------------------------------------------
(* Sequences. *)

LEMMA AppendFacts ==
  ASSUME NEW S, NEW q \in Seq(S), NEW x \in S
  PROVE  /\ Append(q, x) \in Seq(S) /\ Len(Append(q, x)) = Len(q) + 1 /\ Len(q) \in Nat
         /\ \A i \in 1 .. Len(q) : Append(q, x)[i] = q[i]
         /\ Append(q, x)[Len(q) + 1] = x
  OBVIOUS

LEMMA TailFacts ==
  ASSUME NEW S, NEW q \in Seq(S), q # <<>>
  PROVE  /\ Head(q) \in S /\ Head(q) = q[1] /\ Len(q) \in Nat \ {0}
         /\ Tail(q) \in Seq(S) /\ Len(Tail(q)) = Len(q) - 1
         /\ \A i \in 1 .. Len(q) - 1 : Tail(q)[i] = q[i + 1]
  OBVIOUS

LEMMA SlideFacts ==
  ASSUME NEW q \in Seq(Nat), NEW r \in Nat, Len(q) <= Capacity
  PROVE  /\ Slide(q, r) \in Seq(Nat) /\ Len(Slide(q, r)) <= Capacity /\ Slide(q, r) # <<>>
         /\ Len(Slide(q, r)) > 0 /\ Slide(q, r)[Len(Slide(q, r))] = r
         /\ \A i \in 1 .. Len(Slide(q, r)) :
              Slide(q, r)[i] = r \/ \E j \in 1 .. Len(q) : Slide(q, r)[i] = q[j]
<1> DEFINE all == Append(q, r)
<1>1. /\ all \in Seq(Nat) /\ Len(all) = Len(q) + 1 /\ Len(q) \in Nat /\ all # <<>>
      /\ all[Len(q) + 1] = r /\ \A i \in 1 .. Len(q) : all[i] = q[i]
  OBVIOUS
<1>2. /\ Tail(all) \in Seq(Nat) /\ Len(Tail(all)) = Len(q)
      /\ \A i \in 1 .. Len(q) : Tail(all)[i] = all[i + 1]
  BY <1>1
<1>3. Capacity \in Nat \ {0}
  BY ConfigAssumption
<1> HIDE DEF all
<1>4. CASE Len(all) > Capacity
  <2>1. Slide(q, r) = Tail(all)
    BY <1>4 DEF Slide, all
  <2>2. Len(q) > 0 /\ Tail(all)[Len(q)] = r
    BY <1>1, <1>2, <1>3, <1>4
  <2>3. ASSUME NEW i \in 1 .. Len(q) PROVE Tail(all)[i] = r \/ \E j \in 1 .. Len(q) : Tail(all)[i] = q[j]
    <3>1. CASE i = Len(q)
      BY <2>2, <3>1
    <3>2. CASE i # Len(q)
      <4>0. Len(q) \in Nat /\ Tail(all)[i] = all[i + 1]
        BY <1>1, <1>2
      <4>j. i + 1 \in 1 .. Len(q)
        BY <3>2, <4>0
      <4>1. i + 1 \in 1 .. Len(q) /\ Tail(all)[i] = q[i + 1]
        BY <1>1, <4>0, <4>j
      <4> QED
        BY <4>1
    <3> QED
      BY <3>1, <3>2
  <2>4. Tail(all) # <<>>
    <3>1. Len(Tail(all)) > 0 /\ Len(Tail(all)) # 0
      BY <1>2, <2>2
    <3>2. Len(<<>>) = 0
      OBVIOUS
    <3> QED
      BY <3>1, <3>2, Zenon
  <2>5. Len(Tail(all)) = Len(q) /\ Tail(all) \in Seq(Nat)
    BY <1>2
  <2> QED
    BY <2>1, <2>2, <2>3, <2>4, <2>5
<1>5. CASE ~(Len(all) > Capacity)
  <2>1. Slide(q, r) = all
    BY <1>5 DEF Slide, all
  <2>2. ASSUME NEW i \in 1 .. Len(all) PROVE all[i] = r \/ \E j \in 1 .. Len(q) : all[i] = q[j]
    <3>1. i \in 1 .. Len(q) \/ i = Len(q) + 1
      BY <1>1
    <3> QED
      BY <1>1, <3>1
  <2>3. Len(all) \in Nat /\ Len(all) > 0 /\ Len(all) <= Capacity /\ all[Len(all)] = r
    BY <1>1, <1>3, <1>5
  <2>4. all \in Seq(Nat) /\ all # <<>>
    BY <1>1
  <2> QED
    BY <2>1, <2>2, <2>3, <2>4
<1> QED
  BY <1>4, <1>5

-----------------------------------------------------------------------------
(* Projections. *)

LEMMA ProjectType ==
  ASSUME NEW p \in Projections \cup {None}, NEW e \in Events
  PROVE  /\ Project(p, e) \in Projections \cup {None}
         /\ e.type = "snapshot" \/ p # None => Project(p, e) \in Projections /\ Project(p, e) # None
<1>1. None \notin Projections
  BY ConfigAssumption
<1>2. CASE e.type = "snapshot"
  <2>1. e.body \in [Fields -> Stamps] /\ e.capable \in SUBSET Kinds
    BY <1>2 DEF Events
  <2>2. Absent \in Stamps
    BY DEF Absent, Stamps
  <2>3. Project(p, e) \in Projections
    BY <1>2, <2>1, <2>2 DEF Project, Projections
  <2> QED
    BY <1>1, <2>3
<1>3. CASE e.type # "snapshot" /\ p = None
  BY <1>3 DEF Project
<1>4. CASE e.type = "field" /\ p # None
  <2>1. e.of \in Fields /\ e.value \in Stamps
    BY <1>4 DEF Events
  <2>2. Project(p, e) \in Projections
    BY <1>4, <2>1 DEF Project, Projections
  <2> QED
    BY <1>1, <2>2
<1>5. CASE e.type = "machine" /\ p # None
  <2>1. e.of \in Kinds /\ e.value \in Stamps
    BY <1>5 DEF Events
  <2>2. Project(p, e) \in Projections
    BY <1>5, <2>1 DEF Project, Projections
  <2> QED
    BY <1>1, <2>2
<1>6. e.type \in {"snapshot", "field", "machine"}
  BY DEF Events
<1> QED
  BY <1>2, <1>3, <1>4, <1>5, <1>6

LEMMA StampKnown == \A v \in Stamps : v # Unknown
<1> SUFFICES ASSUME NEW a \in Nat, NEW b \in Nat PROVE <<a, b>> # <<>>
  BY DEF Stamps, Unknown
<1>1. Len(<<a, b>>) = 2 /\ Len(<<>>) = 0
  OBVIOUS
<1> QED
  BY <1>1

LEMMA LatestType ==
  ASSUME NEW known \in [Kinds -> Stamps \cup {Unknown}], NEW e \in Events
  PROVE  Latest(known, e) \in [Kinds -> Stamps \cup {Unknown}]
<1> SUFFICES ASSUME NEW k \in Kinds
             PROVE  Latest(known, e)[k] \in Stamps \cup {Unknown}
  BY DEF Latest
<1>1. e.type = "machine" => e.value \in Stamps
  BY DEF Events
<1> QED
  BY <1>1 DEF Latest

\* What a part of a replay, or the event itself, stands for is an event.
LEMMA EventOfType ==
  ASSUME NEW entry \in Entries, NEW part, part = "event" \/ part \in ReplayParts(entry)
  PROVE  /\ EventOf(entry, part) \in Events
         /\ part = "snapshot" => EventOf(entry, part).type = "snapshot"
<1>1. /\ entry.event \in Events /\ entry.projection \in Projections
      /\ entry.latest \in [Kinds -> Stamps \cup {Unknown}]
  BY DEF Entries
<1>2. CASE part = "event"
  BY <1>1, <1>2 DEF EventOf
<1>3. CASE part = "snapshot"
  <2>1. /\ entry.projection.body \in [Fields -> Stamps] /\ entry.projection.capable \in SUBSET Kinds
    BY <1>1 DEF Projections
  <2> QED
    BY <1>3, <2>1 DEF EventOf, SnapshotOf, Events
<1>4. CASE part \notin {"event", "snapshot"}
  <2>1. part \in Kinds /\ entry.latest[part] \in Stamps
    BY <1>1, <1>4 DEF ReplayParts
  <2> QED
    BY <1>4, <2>1 DEF EventOf, MachineEvent, Events
<1> QED
  BY <1>2, <1>3, <1>4

LEMMA StrippedFacts ==
  ASSUME NEW p \in Projections
  PROVE  Stripped(p) \in Projections /\ Stripped(Stripped(p)) = Stripped(p)
<1>1. Absent \in Stamps
  BY DEF Absent, Stamps
<1> QED
  BY <1>1 DEF Stripped, Projections

LEMMA ServerEventsType ==
  ASSUME NEW v \in Stamps, NEW e \in ServerEvents(v)
  PROVE  e \in Events
<1>1. Absent \in Stamps
  BY DEF Absent, Stamps
<1> QED
  BY <1>1 DEF ServerEvents, Events, SnapshotOf, FieldEvent, MachineEvent

-----------------------------------------------------------------------------
(* What is known of the places of the chunks, in every reachable state. *)

\* The only step that changes a log appends a well-formed entry to it.
LEMMA ReceiveFacts ==
  ASSUME Base, NEW s \in Sessions, Receive(s)
  PROVE  /\ log' \in [Sessions -> Seq(Entries)]
         /\ LogOK'
         /\ Grows(log, log')
         /\ Len(log'[s]) = Len(log[s]) + 1
         /\ \A t \in Sessions : t # s => log'[t] = log[t]
<1> DEFINE n == Len(log[s])
<1>0. /\ log \in [Sessions -> Seq(Entries)] /\ log[s] \in Seq(Entries) /\ n \in Nat
      /\ s \in Nat /\ s # 0 /\ LogOK
  <2>1. log \in [Sessions -> Seq(Entries)] /\ LogOK
    BY DEF Base, TypeOK
  <2>2. log[s] \in Seq(Entries)
    BY <2>1
  <2>3. s \in Nat /\ s # 0
    BY ConfigAssumption DEF Sessions
  <2> QED
    BY <2>1, <2>2, <2>3
<1>1. PICK e \in ServerEvents(<<s, n + 1>>) :
        /\ Project(Projected(s), e) # None
        /\ log' = [log EXCEPT ![s] = Append(@, [event |-> e, projection |-> Project(Projected(s), e),
                                                 latest |-> Latest(Known(s), e)])]
  BY DEF Receive
<1> DEFINE entry == [event |-> e, projection |-> Project(Projected(s), e), latest |-> Latest(Known(s), e)]
<1>2. e \in Events
  <2>1. <<s, n + 1>> \in Stamps
    BY <1>0 DEF Stamps
  <2> QED
    BY <2>1, ServerEventsType
<1>3. /\ log[s] # <<>> => n \in 1 .. n /\ log[s][n] \in Entries
      /\ log[s] = <<>> => n = 0
  BY <1>0
<1>4. /\ Projected(s) \in Projections \cup {None} /\ Known(s) \in [Kinds -> Stamps \cup {Unknown}]
      /\ Project(Projected(s), e) \in Projections
  <2>1. /\ Projected(s) \in Projections \cup {None} /\ Known(s) \in [Kinds -> Stamps \cup {Unknown}]
    BY <1>3 DEF Projected, Known, ReplayState, Entries
  <2> QED
    BY <1>1, <1>2, <2>1, ProjectType
<1>5. entry \in Entries
  BY <1>2, <1>4, LatestType DEF Entries
<1>6. log' = [log EXCEPT ![s] = Append(@, entry)]
  BY <1>1
<1>7. entry.event = e /\ entry.projection = Project(Projected(s), e) /\ entry.latest = Latest(Known(s), e)
  OBVIOUS
<1> HIDE DEF entry
<1>8. /\ log' \in [Sessions -> Seq(Entries)] /\ log'[s] = Append(log[s], entry)
      /\ \A t \in Sessions : t # s => log'[t] = log[t]
  BY <1>0, <1>5, <1>6
<1>9. /\ Len(log'[s]) = n + 1 /\ log'[s][n + 1] = entry
      /\ \A r \in 1 .. n : log'[s][r] = log[s][r]
  BY <1>0, <1>5, <1>8, AppendFacts
<1>10. \A t \in Sessions : /\ Len(log[t]) \in Nat /\ Len(log'[t]) \in Nat
                           /\ Len(log'[t]) >= Len(log[t])
                           /\ \A r \in 1 .. Len(log[t]) : log'[t][r] = log[t][r]
  <2> SUFFICES ASSUME NEW t \in Sessions
               PROVE  /\ Len(log[t]) \in Nat /\ Len(log'[t]) \in Nat /\ Len(log'[t]) >= Len(log[t])
                      /\ \A r \in 1 .. Len(log[t]) : log'[t][r] = log[t][r]
    OBVIOUS
  <2>1. Len(log[t]) \in Nat
    BY <1>0
  <2>2. CASE t = s
    BY <1>0, <1>9, <2>2
  <2>3. CASE t # s
    BY <1>8, <2>1, <2>3
  <2> QED
    BY <2>2, <2>3
<1>11. Reported(entry)
  <2> SUFFICES ASSUME NEW k \in Kinds
               PROVE  /\ entry.latest[k] # Unknown => entry.projection.machine[k] = entry.latest[k]
                      /\ entry.latest[k] = Unknown /\ k \notin entry.projection.capable
                           => entry.projection.machine[k] = Absent
    BY DEF Reported
  <2>1. CASE log[s] = <<>>
    <3>1. e.type = "snapshot" /\ Projected(s) = None /\ Known(s)[k] = Unknown
      BY <1>1, <2>1 DEF Project, Projected, Known
    <3>2. entry.latest[k] = Unknown /\ entry.projection.machine[k] = Absent
      BY <1>7, <3>1 DEF Project, Latest
    <3> QED
      BY <3>2
  <2>2. CASE log[s] # <<>>
    <3> DEFINE last == log[s][n]
    <3>1. /\ Projected(s) = last.projection /\ Known(s) = last.latest
          /\ last.projection \in Projections /\ last.projection # None /\ Reported(last)
      <4>1. Reported(last)
        BY <1>0, <1>3, <2>2 DEF LogOK
      <4>2. last.projection \in Projections
        BY <1>3, <2>2 DEF Entries
      <4> QED
        BY <2>2, <4>1, <4>2, ConfigAssumption DEF Projected, Known, ReplayState
    <3>2. /\ last.latest[k] # Unknown => last.projection.machine[k] = last.latest[k]
          /\ last.latest[k] = Unknown /\ k \notin last.projection.capable
               => last.projection.machine[k] = Absent
      BY <3>1 DEF Reported
    <3> HIDE DEF last
    <3>3. CASE e.type = "snapshot"
      <4>1. /\ entry.projection.capable = e.capable
            /\ entry.projection.machine[k] = IF k \in e.capable THEN last.projection.machine[k] ELSE Absent
            /\ entry.latest[k] = IF k \notin e.capable THEN Unknown ELSE last.latest[k]
        BY <1>7, <3>1, <3>3 DEF Project, Latest
      <4> QED
        BY <1>2, <3>2, <3>3, <4>1 DEF Unknown, Absent
    <3>4. CASE e.type = "field"
      <4>1. /\ entry.projection.capable = last.projection.capable
            /\ entry.projection.machine = last.projection.machine
            /\ entry.latest[k] = last.latest[k]
        BY <1>7, <3>1, <3>4 DEF Project, Latest, Projections
      <4> QED
        BY <3>2, <4>1
    <3>5. CASE e.type = "machine"
      <4>1. e.value \in Stamps /\ e.value # Unknown /\ e.of \in Kinds
        BY <1>2, <3>5, StampKnown DEF Events
      <4>2. /\ entry.projection.capable = last.projection.capable
            /\ entry.projection.machine[k] = IF k = e.of THEN e.value ELSE last.projection.machine[k]
            /\ entry.latest[k] = IF k = e.of THEN e.value ELSE last.latest[k]
        BY <1>7, <3>1, <3>5, <4>1 DEF Project, Latest, Projections
      <4> QED
        BY <3>2, <4>1, <4>2
    <3> QED
      BY <1>2, <3>3, <3>4, <3>5 DEF Events
  <2> QED
    BY <2>1, <2>2
<1>12. LogOK'
  <2> SUFFICES ASSUME NEW t \in Sessions, NEW r \in 1 .. Len(log'[t])
               PROVE  /\ Reported(log'[t][r])
                      /\ r > 1 => /\ log'[t][r].projection = Project(log'[t][r - 1].projection, log'[t][r].event)
                                  /\ log'[t][r].latest = Latest(log'[t][r - 1].latest, log'[t][r].event)
    BY DEF LogOK, Reported
  <2>1. CASE t # s \/ r <= n
    <3>1. r \in 1 .. Len(log[t]) /\ log'[t][r] = log[t][r]
      BY <1>0, <1>8, <1>9, <1>10, <2>1
    <3>2. r > 1 => r - 1 \in 1 .. Len(log[t]) /\ log'[t][r - 1] = log[t][r - 1]
      BY <1>10, <3>1
    <3> QED
      BY <1>0, <3>1, <3>2 DEF LogOK
  <2>2. CASE t = s /\ r = n + 1
    <3>1. log'[t][r] = entry
      BY <1>9, <2>2
    <3>2. r > 1 => log'[t][r - 1] = log[s][n] /\ Projected(s) = log[s][n].projection /\ Known(s) = log[s][n].latest
      <4>1. r > 1 => n \in 1 .. n /\ log[s] # <<>> /\ r - 1 = n
        BY <1>0, <2>2
      <4> QED
        BY <1>9, <2>2, <4>1 DEF Projected, Known, ReplayState
    <3> QED
      BY <1>7, <1>11, <3>1, <3>2
  <2> QED
    BY <1>0, <1>9, <2>1, <2>2
<1> QED
  BY <1>8, <1>9, <1>10, <1>12 DEF Grows

LEMMA GrowsPlaced ==
  ASSUME NEW logs, NEW more, Grows(logs, more), NEW c, Placed(c, logs)
  PROVE  Placed(c, more)
<1> SUFFICES ASSUME c # Nowhere PROVE Placed(c, more)
  BY DEF Placed
<1>1. /\ c \in Chunks /\ c.session \in Sessions /\ c.revision \in Nat \ {0}
      /\ c.revision <= Len(logs[c.session])
  BY DEF Placed, Chunks
<1>2. c.revision \in 1 .. Len(logs[c.session]) /\ c.revision <= Len(more[c.session])
  BY <1>1 DEF Grows
<1>3. more[c.session][c.revision] = logs[c.session][c.revision]
  BY <1>1, <1>2 DEF Grows
<1> QED
  BY <1>1, <1>2, <1>3 DEF Placed

LEMMA BaseInit == Init => Base
<1> SUFFICES ASSUME Init PROVE Base
  OBVIOUS
<1> USE ConfigAssumption DEF Init
<1>1. TypeOK
  <2>1. log \in [Sessions -> Seq(Entries)]
    OBVIOUS
  <2>2. changes \in Seq(0 .. MaxSessions) /\ queue \in Seq(Chunks) /\ Len(queue) = 0 /\ 0 \in 0 .. MaxSessions
    OBVIOUS
  <2>3. /\ inner \in [session : 0 .. MaxSessions, stage : Stages, inbox : Seq(Nat), revision : Nat,
                      out : Chunks \cup {Nowhere}]
        /\ Len(inner.inbox) = 0
    BY <2>2 DEF Idle, Stages
  <2> QED
    BY <2>1, <2>2, <2>3 DEF TypeOK
<1>2. PlacesOK /\ PublishedOK /\ InnerOK /\ LogOK
  BY DEF PlacesOK, Placed, PublishedOK, InnerOK, LogOK, Idle
<1> QED
  BY <1>1, <1>2 DEF Base

InnerType == [session : 0 .. MaxSessions, stage : Stages, inbox : Seq(Nat), revision : Nat,
              out : Chunks \cup {Nowhere}]

LEMMA ReplayPlaced ==
  ASSUME log \in [Sessions -> Seq(Entries)], NEW s \in Sessions, NEW r \in 1 .. Len(log[s])
  PROVE  /\ ReplayOf(s, r) \in Chunks /\ Placed(ReplayOf(s, r), log) /\ ReplayOf(s, r) # Nowhere
         /\ LiveOf(s, r) \in Chunks /\ Placed(LiveOf(s, r), log) /\ LiveOf(s, r) # Nowhere
<1>1. r \in Nat \ {0} /\ s # 0
  BY DEF Sessions
<1>2. ReplayParts(log[s][r]) \subseteq Parts
  BY DEF ReplayParts, Parts
<1> QED
  BY <1>1, <1>2 DEF ReplayOf, LiveOf, Chunks, Placed, Nowhere, Parts

LEMMA BaseSubscription ==
  ASSUME Base, Subscription
  PROVE  Base'
<1>0. /\ log \in [Sessions -> Seq(Entries)] /\ inner \in InnerType /\ Len(inner.inbox) <= Capacity
      /\ changes \in Seq(0 .. MaxSessions) /\ queue \in Seq(Chunks) /\ Len(queue) <= QueueSize
      /\ PlacesOK /\ InnerOK /\ Capacity \in Nat /\ MaxSessions \in Nat
  BY ConfigAssumption DEF Base, TypeOK, InnerType
<1>1. UNCHANGED <<serverVars, sessionVars, at, view, saveVars, starts>>
  BY DEF Subscription, Switch, Subscribe, ReadSnapshot, Follow, Yield, SourceOver
<1>2. LogOK' /\ PublishedOK'
  BY <1>1 DEF Base, LogOK, PublishedOK, serverVars
<1>3. SUFFICES /\ inner' \in InnerType /\ Len(inner.inbox)' <= Capacity
               /\ changes' \in Seq(0 .. MaxSessions) /\ queue' \in Seq(Chunks) /\ Len(queue') <= QueueSize
               /\ Placed(inner'.out, log) /\ \A i \in 1 .. Len(queue') : Placed(queue'[i], log)
               /\ InnerOK'
  <2>1. TypeOK'
    BY <1>1, <1>3 DEF Base, TypeOK, InnerType, serverVars, sessionVars, saveVars
  <2>2. PlacesOK'
    BY <1>0, <1>1, <1>3 DEF PlacesOK, serverVars
  <2> QED
    BY <1>2, <1>3, <2>1, <2>2 DEF Base
<1> USE DEF serverVars
<1>4. Placed(inner.out, log) /\ \A i \in 1 .. Len(queue) : Placed(queue[i], log)
  BY <1>0 DEF PlacesOK
<1>5. Placed(Nowhere, log)
  BY DEF Placed
<1>6. CASE Switch
  <2>1. Head(changes) \in 0 .. MaxSessions /\ changes' \in Seq(0 .. MaxSessions)
    BY <1>0, <1>6 DEF Switch
  <2>2. CASE Head(changes) = 0
    <3>1. inner' = Idle /\ UNCHANGED <<queue, log>>
      BY <1>1, <1>6, <2>2 DEF Switch
    <3> QED
      BY <1>0, <1>4, <1>5, <2>1, <3>1 DEF Idle, InnerType, Stages, InnerOK
  <2>3. CASE Head(changes) # 0
    <3>1. inner' = [Idle EXCEPT !.session = Head(changes), !.stage = "asked"] /\ UNCHANGED <<queue, log>>
      BY <1>1, <1>6, <2>3 DEF Switch
    <3>2. Head(changes) \in Sessions
      BY <2>1, <2>3, <1>0 DEF Sessions
    <3>3. /\ inner'.session \in Sessions /\ inner'.stage = "asked" /\ inner'.inbox = <<>>
          /\ inner'.out = Nowhere /\ inner'.revision = 0
      BY <3>1, <3>2 DEF Idle
    <3>4. inner' \in InnerType
      <4>1. inner' = [session |-> Head(changes), stage |-> "asked", inbox |-> <<>>, revision |-> 0,
                      out |-> Nowhere]
        BY <3>1 DEF Idle
      <4>2. <<>> \in Seq(Nat) /\ "asked" \in Stages
        BY DEF Stages
      <4> QED
        BY <2>1, <4>1, <4>2 DEF InnerType
    <3>5. InnerOK' /\ Len(inner'.inbox) <= Capacity
      BY <1>0, <3>3 DEF InnerOK
    <3> QED
      BY <1>0, <1>4, <1>5, <2>1, <3>1, <3>3, <3>4, <3>5
  <2> QED
    BY <2>2, <2>3
<1>8. CASE Subscribe
  <2>1. /\ inner.stage = "asked" /\ inner' = [inner EXCEPT !.stage = "subscribed"]
        /\ UNCHANGED <<log, changes, queue>> /\ Initialised(inner.session)
    BY <1>8 DEF Subscribe
  <2>2. inner.out = Nowhere /\ inner.inbox = <<>> /\ inner.session \in Sessions
    BY <1>0, <2>1 DEF InnerOK
  <2>3. log[inner.session] # <<>>
    <3>1. /\ published[inner.session] \in {Len(log[inner.session]) - 1, Len(log[inner.session])}
          /\ published[inner.session] \in Nat
      BY <2>2 DEF Base, PublishedOK, TypeOK
    <3>2. published[inner.session] >= 1
      BY <2>1, <3>1 DEF Initialised
    <3> QED
      BY <1>0, <2>2, <3>1, <3>2
  <2>4. /\ inner'.session = inner.session /\ inner'.stage = "subscribed" /\ inner'.inbox = <<>>
        /\ inner'.out = Nowhere /\ inner' \in InnerType
    BY <1>0, <2>1, <2>2 DEF InnerType, Stages
  <2>5. InnerOK' /\ Len(inner'.inbox) <= Capacity
    BY <1>0, <2>1, <2>2, <2>3, <2>4 DEF InnerOK
  <2> QED
    BY <1>0, <1>4, <1>5, <2>1, <2>4, <2>5
<1>9. CASE ReadSnapshot
  <2> DEFINE r == Len(log[inner.session])
  <2>1. /\ inner.stage = "subscribed" /\ UNCHANGED <<log, changes, queue>>
        /\ inner' = [inner EXCEPT !.stage = "replaying", !.revision = r, !.out = ReplayOf(inner.session, r)]
    BY <1>9 DEF ReadSnapshot
  <2>2. inner.session \in Sessions /\ log[inner.session] # <<>> /\ log[inner.session] \in Seq(Entries)
    BY <1>0, <2>1 DEF InnerOK
  <2>3. r \in 1 .. r /\ r \in Nat
    BY <2>2
  <2>4. ReplayOf(inner.session, r) \in Chunks /\ Placed(ReplayOf(inner.session, r), log)
    BY <1>0, <2>2, <2>3, ReplayPlaced
  <2> HIDE DEF r
  <2> QED
    BY <1>0, <1>4, <2>1, <2>2, <2>3, <2>4 DEF InnerType, Stages, InnerOK
<1>10. CASE Follow
  <2> DEFINE r == Head(inner.inbox)
             next == IF New(r) THEN [inner EXCEPT !.inbox = Tail(@), !.revision = r, !.out = Update(r)]
                     ELSE [inner EXCEPT !.inbox = Tail(@)]
  <2>1. /\ inner.stage = "following" /\ inner.out = Nowhere /\ inner.inbox # <<>>
        /\ UNCHANGED <<log, changes, queue>> /\ inner' = next
    BY <1>10 DEF Follow
  <2>2. /\ inner.session \in Sessions /\ log[inner.session] # <<>>
        /\ \A i \in 1 .. Len(inner.inbox) : inner.inbox[i] \in 1 .. Len(log[inner.session])
        /\ inner.inbox \in Seq(Nat)
    BY <1>0, <2>1 DEF InnerOK, InnerType
  <2>3. /\ r \in Nat /\ r = inner.inbox[1] /\ Len(inner.inbox) \in Nat \ {0}
        /\ Tail(inner.inbox) \in Seq(Nat) /\ Len(Tail(inner.inbox)) = Len(inner.inbox) - 1
        /\ \A i \in 1 .. Len(inner.inbox) - 1 : Tail(inner.inbox)[i] = inner.inbox[i + 1]
    BY <2>1, <2>2, TailFacts
  <2>4. r \in 1 .. Len(log[inner.session])
    BY <2>2, <2>3
  <2>5. Update(r) \in Chunks /\ Placed(Update(r), log)
    BY <1>0, <2>2, <2>4, ReplayPlaced DEF Update
  <2>6. /\ inner'.inbox = Tail(inner.inbox) /\ inner'.stage = "following" /\ inner'.session = inner.session
        /\ inner'.out \in {Update(r), Nowhere} /\ inner' \in InnerType
    <3> HIDE DEF r
    <3> QED
      BY <1>0, <2>1, <2>3, <2>5 DEF InnerType, Stages
  <2>7. \A i \in 1 .. Len(inner'.inbox) : inner'.inbox[i] \in 1 .. Len(log[inner.session])
    <3> SUFFICES ASSUME NEW i \in 1 .. Len(inner'.inbox) PROVE inner'.inbox[i] \in 1 .. Len(log[inner.session])
      OBVIOUS
    <3>1. i + 1 \in 1 .. Len(inner.inbox) /\ i \in 1 .. Len(inner.inbox) - 1
      BY <2>3, <2>6
    <3> QED
      BY <2>2, <2>3, <2>6, <3>1
  <2>8. Len(inner'.inbox) <= Capacity
    BY <1>0, <2>3, <2>6
  <2> HIDE DEF r, next
  <2> QED
    BY <1>0, <1>4, <1>5, <2>1, <2>2, <2>5, <2>6, <2>7, <2>8 DEF InnerOK
<1>11. CASE Yield
  <2>1. /\ inner.out # Nowhere /\ queue' = Append(queue, inner.out) /\ Len(queue) < QueueSize
        /\ inner' = [inner EXCEPT !.stage = "following", !.out = Nowhere] /\ UNCHANGED <<log, changes>>
    BY <1>11 DEF Yield
  <2>2. inner.stage \in {"replaying", "following"} /\ inner.out \in Chunks
    BY <1>0, <2>1 DEF InnerOK, InnerType, Stages
  <2>3. /\ queue' \in Seq(Chunks) /\ Len(queue') = Len(queue) + 1 /\ Len(queue) \in Nat
        /\ \A i \in 1 .. Len(queue) : queue'[i] = queue[i]
        /\ queue'[Len(queue) + 1] = inner.out
    BY <1>0, <2>1, <2>2, AppendFacts
  <2>4. \A i \in 1 .. Len(queue') : Placed(queue'[i], log)
    BY <1>4, <2>3
  <2>5. Len(queue') <= QueueSize /\ QueueSize \in Nat
    BY <2>1, <2>3, ConfigAssumption
  <2>6. inner' \in InnerType /\ inner'.inbox = inner.inbox
    BY <1>0, <2>1 DEF InnerType, Stages
  <2>7. InnerOK'
    BY <1>0, <2>1, <2>2, <2>6 DEF InnerOK, InnerType
  <2> QED
    BY <1>0, <1>5, <2>1, <2>3, <2>4, <2>5, <2>6, <2>7 DEF InnerType
<1>12. CASE SourceOver
  <2>1. /\ inner.stage = "following" /\ UNCHANGED <<log, changes, queue>>
        /\ inner' = [inner EXCEPT !.stage = "drained", !.inbox = <<>>, !.out = Nowhere]
    BY <1>12 DEF SourceOver
  <2>2. /\ inner'.stage = "drained" /\ inner'.inbox = <<>> /\ inner'.out = Nowhere
        /\ inner'.session = inner.session /\ <<>> \in Seq(Nat) /\ Len(<<>>) = 0
    BY <1>0, <2>1 DEF InnerType
  <2>5. inner' \in InnerType /\ Len(inner'.inbox) = 0
    BY <1>0, <2>1, <2>2 DEF InnerType, Stages
  <2>3. InnerOK'
    BY <1>0, <2>1, <2>2 DEF InnerOK, InnerType
  <2> QED
    BY <1>0, <1>4, <1>5, <2>1, <2>2, <2>3, <2>5
<1> QED
  BY <1>6, <1>8, <1>9, <1>10, <1>11, <1>12 DEF Subscription

LEMMA BaseApplying ==
  ASSUME Base, Applying
  PROVE  Base'
<1>0. /\ log \in [Sessions -> Seq(Entries)] /\ inner \in InnerType
      /\ queue \in Seq(Chunks) /\ Len(queue) <= QueueSize /\ at \in Chunks \cup {Nowhere}
      /\ {view, pending, offered, saver, cache} \subseteq Projections \cup {None}
      /\ PlacesOK /\ InnerOK /\ QueueSize \in Nat
  BY ConfigAssumption DEF Base, TypeOK, InnerType
<1>1. UNCHANGED <<serverVars, sessionVars, changes, inner, saver, cache, starts>>
  BY DEF Applying, TakeChunk, Apply, saveVars
<1>2. LogOK' /\ PublishedOK' /\ InnerOK'
  BY <1>0, <1>1 DEF Base, LogOK, PublishedOK, InnerOK, serverVars
<1>3. SUFFICES /\ queue' \in Seq(Chunks) /\ Len(queue') <= QueueSize /\ at' \in Chunks \cup {Nowhere}
               /\ {view', pending', offered'} \subseteq Projections \cup {None}
               /\ Placed(at', log) /\ \A i \in 1 .. Len(queue') : Placed(queue'[i], log)
  <2>1. TypeOK'
    BY <1>0, <1>1, <1>3 DEF Base, TypeOK, serverVars, sessionVars
  <2>2. PlacesOK'
    BY <1>0, <1>1, <1>3 DEF PlacesOK, serverVars
  <2> QED
    BY <1>2, <1>3, <2>1, <2>2 DEF Base
<1>4. CASE TakeChunk
  <2>1. queue # <<>> /\ at' = Head(queue) /\ queue' = Tail(queue) /\ UNCHANGED <<view, saveVars>>
    BY <1>4 DEF TakeChunk
  <2>2. /\ Head(queue) \in Chunks /\ Head(queue) = queue[1] /\ Len(queue) \in Nat \ {0}
        /\ Tail(queue) \in Seq(Chunks) /\ Len(Tail(queue)) = Len(queue) - 1
        /\ \A i \in 1 .. Len(queue) - 1 : Tail(queue)[i] = queue[i + 1]
    BY <1>0, <2>1, TailFacts
  <2>3. Placed(at', log) /\ \A i \in 1 .. Len(queue') : Placed(queue'[i], log)
    BY <1>0, <2>1, <2>2 DEF PlacesOK
  <2> QED
    BY <1>0, <2>1, <2>2, <2>3 DEF saveVars
<1>5. CASE Apply
  <2>1. PICK part \in NextParts :
          /\ at' = [at EXCEPT !.left = @ \ {part}]
          /\ LET next == Project(view, EventOf(EntryOf(at), part))
             IN  IF next = None THEN UNCHANGED <<view, pending, offered>>
                 ELSE view' = next /\ pending' = next /\ offered' = next
    BY <1>5 DEF Apply, EntryOf
  <2>2. part \in at.left
    BY <2>1 DEF NextParts
  <2>3. at \in Chunks /\ Placed(at, log) /\ at # Nowhere
    BY <1>0, <2>2 DEF PlacesOK, Nowhere
  <2>4. /\ at.session \in Sessions /\ at.revision \in 1 .. Len(log[at.session])
        /\ EntryOf(at) \in Entries
        /\ part = "event" \/ part \in ReplayParts(EntryOf(at))
    BY <1>0, <2>2, <2>3 DEF Placed, Chunks, EntryOf
  <2>5. Project(view, EventOf(EntryOf(at), part)) \in Projections \cup {None}
    BY <1>0, <2>4, EventOfType, ProjectType
  <2>6. at' \in Chunks /\ Placed(at', log)
    BY <2>1, <2>3 DEF Chunks, Placed
  <2>7. UNCHANGED queue
    BY <1>5 DEF Apply
  <2> QED
    BY <1>0, <2>1, <2>5, <2>6, <2>7 DEF PlacesOK
<1> QED
  BY <1>4, <1>5 DEF Applying

LEMMA BaseServer ==
  ASSUME Base, NEW s \in Sessions, Receive(s) \/ Publish(s) \/ EndSource(s)
  PROVE  Base'
<1>0. /\ log \in [Sessions -> Seq(Entries)] /\ log[s] \in Seq(Entries) /\ published \in [Sessions -> Nat]
      /\ inner \in InnerType /\ Len(inner.inbox) <= Capacity /\ PlacesOK /\ InnerOK /\ PublishedOK
      /\ at \in Chunks \cup {Nowhere} /\ over \subseteq Sessions
  BY DEF Base, TypeOK, InnerType
<1>1. UNCHANGED <<sessionVars, changes, queue, at, view, saveVars, starts>>
  BY DEF Receive, Publish, EndSource
<1>2. CASE Receive(s)
  <2>1. UNCHANGED <<published, over, inner>> /\ published[s] = Len(log[s])
    BY <1>2 DEF Receive
  <2>2. /\ log' \in [Sessions -> Seq(Entries)] /\ LogOK' /\ Grows(log, log')
        /\ Len(log'[s]) = Len(log[s]) + 1 /\ \A t \in Sessions : t # s => log'[t] = log[t]
    BY <1>2, ReceiveFacts
  <2>3. TypeOK'
    BY <1>1, <2>1, <2>2 DEF Base, TypeOK, sessionVars, saveVars
  <2>4. PlacesOK'
    BY <1>0, <1>1, <2>1, <2>2, GrowsPlaced DEF PlacesOK
  <2>5. PublishedOK'
    <3>1. ASSUME NEW t \in Sessions
          PROVE  Len(log'[t]) = Len(log[t]) \/ (t = s /\ Len(log'[t]) = published[t] + 1)
      BY <2>1, <2>2
    <3>2. ASSUME NEW t \in Sessions PROVE Len(log[t]) \in Nat /\ published[t] \in Nat
      BY <1>0
    <3> QED
      BY <1>0, <2>1, <3>1, <3>2 DEF PublishedOK
  <2>6. InnerOK'
    <3>1. inner.stage # "idle" => Len(log[inner.session]) \in Nat /\ Len(log'[inner.session]) >= Len(log[inner.session])
                                  /\ Len(log'[inner.session]) \in Nat
      BY <1>0, <2>2 DEF InnerOK, Grows
    <3>2. inner.stage \notin {"idle", "asked"} =>
            \A i \in 1 .. Len(inner.inbox) : inner.inbox[i] \in 1 .. Len(log'[inner.session])
      BY <1>0, <3>1 DEF InnerOK
    <3>3. inner.stage \in {"subscribed", "replaying", "following"} => log'[inner.session] # <<>>
      <4> SUFFICES ASSUME inner.stage \in {"subscribed", "replaying", "following"}
                   PROVE  log'[inner.session] # <<>>
        OBVIOUS
      <4>1. inner.session \in Sessions /\ log[inner.session] # <<>>
        BY <1>0 DEF InnerOK
      <4>2. Len(log[inner.session]) > 0
        BY <1>0, <4>1
      <4>3. Len(log'[inner.session]) > 0
        BY <3>1, <4>2
      <4> QED
        BY <2>2, <4>1, <4>3
    <3> QED
      BY <1>0, <2>1, <3>2, <3>3 DEF InnerOK
  <2> QED
    BY <2>2, <2>3, <2>4, <2>5, <2>6 DEF Base
<1>3. CASE Publish(s)
  <2>1. /\ UNCHANGED <<log, over>> /\ published[s] < Len(log[s])
        /\ published' = [published EXCEPT ![s] = @ + 1]
        /\ inner' = IF Subscribed(s) THEN [inner EXCEPT !.inbox = Slide(@, Len(log[s]))] ELSE inner
    BY <1>3 DEF Publish
  <2>2. PublishedOK' /\ published' \in [Sessions -> Nat]
    BY <1>0, <2>1 DEF PublishedOK
  <2>3. Len(log[s]) \in Nat /\ Len(log[s]) \in 1 .. Len(log[s])
    BY <1>0, <2>1
  <2>4. /\ inner' \in InnerType /\ Len(inner'.inbox) <= Capacity /\ InnerOK' /\ inner'.out = inner.out
    <3>1. CASE ~Subscribed(s)
      BY <1>0, <2>1, <3>1 DEF InnerOK
    <3>2. CASE Subscribed(s)
      <4> DEFINE slid == Slide(inner.inbox, Len(log[s]))
      <4>1. /\ slid \in Seq(Nat) /\ Len(slid) <= Capacity
            /\ \A i \in 1 .. Len(slid) : slid[i] = Len(log[s]) \/ \E j \in 1 .. Len(inner.inbox) : slid[i] = inner.inbox[j]
        BY <1>0, <2>3, SlideFacts DEF InnerType
      <4>2. inner' = [inner EXCEPT !.inbox = slid]
        BY <2>1, <3>2
      <4>3. inner.session = s /\ inner.stage \in {"subscribed", "replaying", "following"}
        BY <3>2 DEF Subscribed
      <4> HIDE DEF slid
      <4>4. /\ inner' \in InnerType /\ inner'.inbox = slid /\ inner'.out = inner.out
            /\ inner'.stage = inner.stage /\ inner'.session = inner.session
        BY <1>0, <4>1, <4>2 DEF InnerType
      <4>5. \A i \in 1 .. Len(slid) : slid[i] \in 1 .. Len(log[s])
        BY <1>0, <2>3, <4>1, <4>3 DEF InnerOK
      <4> QED
        BY <1>0, <2>1, <4>1, <4>3, <4>4, <4>5 DEF InnerOK
    <3> QED
      BY <3>1, <3>2
  <2>5. TypeOK'
    BY <1>1, <2>1, <2>2, <2>4 DEF Base, TypeOK, InnerType, sessionVars, saveVars
  <2>6. PlacesOK' /\ LogOK'
    BY <1>0, <1>1, <2>1, <2>4 DEF Base, PlacesOK, LogOK
  <2> QED
    BY <2>2, <2>4, <2>5, <2>6 DEF Base
<1>4. CASE EndSource(s)
  <2>1. UNCHANGED <<log, published, inner>> /\ over' = over \cup {s}
    BY <1>4 DEF EndSource
  <2>2. TypeOK'
    BY <1>0, <1>1, <2>1 DEF Base, TypeOK, sessionVars, saveVars
  <2> QED
    BY <1>1, <2>1, <2>2 DEF Base, PlacesOK, LogOK, PublishedOK, InnerOK
<1> QED
  BY <1>2, <1>3, <1>4

LEMMA BaseSupervisor ==
  ASSUME Base, Supervisor
  PROVE  Base'
<1>0. /\ changes \in Seq(0 .. MaxSessions) /\ {opened, session, closed} \subseteq 0 .. MaxSessions
      /\ MaxSessions \in Nat
  BY ConfigAssumption DEF Base, TypeOK
<1>1. UNCHANGED <<serverVars, inner, queue, at, view, saveVars, starts>>
  BY DEF Supervisor, OpenSession, Establish, LoseSession, SetSession
<1>2. /\ changes' \in Seq(0 .. MaxSessions) /\ {opened', session', closed'} \subseteq 0 .. MaxSessions
  <2>1. CASE OpenSession
    BY <1>0, <2>1 DEF OpenSession
  <2>2. CASE Establish \/ LoseSession
    <3>1. PICK s \in {opened, 0} : SetSession(s)
      BY <2>2 DEF Establish, LoseSession
    <3>2. s \in 0 .. MaxSessions
      BY <1>0, <3>1
    <3> QED
      BY <1>0, <3>1, <3>2, AppendFacts DEF SetSession
  <2> QED
    BY <2>1, <2>2 DEF Supervisor
<1>3. TypeOK'
  BY <1>1, <1>2 DEF Base, TypeOK, serverVars, saveVars
<1> QED
  BY <1>1, <1>3 DEF Base, PlacesOK, LogOK, PublishedOK, InnerOK, serverVars

LEMMA BaseSaving ==
  ASSUME Base, Saving
  PROVE  Base'
<1>0. {view, pending, offered, saver, cache} \subseteq Projections \cup {None}
  BY DEF Base, TypeOK
<1>1. UNCHANGED <<serverVars, sessionVars, changes, inner, queue, at, view, starts>>
  BY DEF Saving, StartSave, Saved, SaveFails
<1>2. {pending', offered', saver', cache'} \subseteq Projections \cup {None}
  <2>1. CASE StartSave \/ SaveFails
    BY <1>0, <2>1 DEF StartSave, SaveFails
  <2>2. CASE Saved
    BY <1>0, <2>2, StrippedFacts DEF Saved, PendingAfter
  <2> QED
    BY <2>1, <2>2 DEF Saving
<1>3. TypeOK'
  BY <1>0, <1>1, <1>2 DEF Base, TypeOK, serverVars, sessionVars
<1> QED
  BY <1>1, <1>3 DEF Base, PlacesOK, LogOK, PublishedOK, InnerOK, serverVars

LEMMA BaseLifecycle ==
  ASSUME Base, Lifecycle
  PROVE  Base'
<1>0. /\ {view, pending, offered, saver, cache} \subseteq Projections \cup {None}
      /\ session \in 0 .. MaxSessions /\ starts \in Nat /\ Capacity \in Nat /\ QueueSize \in Nat
      /\ 0 \in 0 .. MaxSessions
  BY ConfigAssumption DEF Base, TypeOK
<1>1. Restart /\ cache' \in Projections \cup {None}
  BY <1>0, StrippedFacts DEF Lifecycle, Close, Crash
<1>2. /\ UNCHANGED <<serverVars, sessionVars>> /\ changes' = <<session>> /\ inner' = Idle
      /\ queue' = <<>> /\ at' = Nowhere /\ pending' = None /\ offered' = None /\ saver' = None
      /\ starts' = starts + 1 /\ view' \in Projections \cup {None}
  BY <1>1, StrippedFacts DEF Restart
<1>3. /\ changes' \in Seq(0 .. MaxSessions) /\ queue' \in Seq(Chunks) /\ Len(queue') = 0
      /\ inner' \in InnerType /\ inner'.inbox = <<>> /\ Len(inner'.inbox) = 0 /\ inner'.stage = "idle"
      /\ inner'.out = Nowhere
  <2>1. inner' = [session |-> 0, stage |-> "idle", inbox |-> <<>>, revision |-> 0, out |-> Nowhere]
    BY <1>2 DEF Idle
  <2>2. <<>> \in Seq(Nat) /\ Len(<<>>) = 0 /\ <<>> \in Seq(Chunks) /\ "idle" \in Stages
    BY DEF Stages
  <2> QED
    BY <1>0, <1>2, <2>1, <2>2 DEF InnerType
<1>4. TypeOK'
  BY <1>0, <1>1, <1>2, <1>3 DEF Base, TypeOK, InnerType, serverVars, sessionVars
<1>5. PlacesOK' /\ InnerOK'
  BY <1>2, <1>3 DEF PlacesOK, Placed, InnerOK
<1> QED
  BY <1>2, <1>4, <1>5 DEF Base, LogOK, PublishedOK, serverVars

LEMMA BaseStep == Base /\ [Next]_vars => Base'
<1> SUFFICES ASSUME Base, [Next]_vars PROVE Base'
  OBVIOUS
<1>1. CASE Server \/ Publishing
  BY <1>1, BaseServer DEF Server, Publishing
<1>2. CASE Supervisor \/ Subscription \/ Applying
  BY <1>2, BaseSupervisor, BaseSubscription, BaseApplying
<1>3. CASE Saving \/ Lifecycle
  BY <1>3, BaseSaving, BaseLifecycle
<1>4. CASE UNCHANGED vars
  BY <1>4 DEF vars, serverVars, sessionVars, saveVars, Base, TypeOK, PlacesOK, LogOK, PublishedOK, InnerOK
<1> QED
  BY <1>1, <1>2, <1>3, <1>4 DEF Next

\* Every variable keeps to its type, and a subscriber is never more than
\* Capacity events behind (session.ts, PubSub.sliding).
THEOREM TypeCorrect == Spec => []TypeOK
<1>1. Base => TypeOK
  BY DEF Base
<1> QED
  BY <1>1, BaseInit, BaseStep, PTL DEF Spec

-----------------------------------------------------------------------------
(* What is shown and not on disk is pending. *)

PendingIsShown == /\ pending # None => pending = view
                  /\ offered # None => offered = view
                  /\ saver # None /\ pending = None => saver = view
                  /\ cache # None => cache = Stripped(cache)
SaveInv == Base /\ PendingIsShown /\ UnsavedIsPending

LEMMA SaveStep == SaveInv /\ [Next]_vars => SaveInv'
<1> SUFFICES ASSUME SaveInv, [Next]_vars PROVE PendingIsShown' /\ UnsavedIsPending'
  BY BaseStep DEF SaveInv
<1>0. /\ {view, pending, offered, saver, cache} \subseteq Projections \cup {None}
      /\ PendingIsShown /\ UnsavedIsPending /\ None \notin Projections
  BY ConfigAssumption DEF SaveInv, Base, TypeOK
<1>1. CASE UNCHANGED <<view, saveVars>>
  BY <1>0, <1>1 DEF saveVars, PendingIsShown, UnsavedIsPending
<1>2. CASE Apply
  BY <1>0, <1>2 DEF Apply, PendingIsShown, UnsavedIsPending
<1>3. CASE StartSave \/ SaveFails
  BY <1>0, <1>3 DEF StartSave, SaveFails, PendingIsShown, UnsavedIsPending
<1>4. CASE Saved
  <2>1. saver \in Projections /\ cache' = Stripped(saver) /\ Stripped(cache') = cache' /\ view' = view
    BY <1>0, <1>4, StrippedFacts DEF Saved
  <2>2. pending' = (IF pending = saver THEN None ELSE pending) /\ saver' = None /\ offered' = offered
    BY <1>4 DEF Saved, PendingAfter
  <2>3. CASE pending = saver
    BY <1>0, <2>1, <2>2, <2>3 DEF PendingIsShown, UnsavedIsPending
  <2>4. CASE pending # saver /\ pending # None
    BY <1>0, <2>1, <2>2, <2>4 DEF PendingIsShown, UnsavedIsPending
  <2>5. CASE pending = None /\ view # None
    BY <1>0, <1>4, <2>1, <2>2, <2>5 DEF PendingIsShown, UnsavedIsPending, Saved
  <2>6. CASE pending = None /\ view = None
    BY <1>0, <2>1, <2>2, <2>6 DEF PendingIsShown, UnsavedIsPending
  <2> QED
    BY <2>3, <2>4, <2>5, <2>6
<1>5. CASE Lifecycle
  <2>1. Restart /\ cache' \in Projections \cup {None} /\ (cache' # None => Stripped(cache') = cache')
    BY <1>0, <1>5, StrippedFacts DEF Lifecycle, Close, Crash, PendingIsShown
  <2>2. pending' = None /\ offered' = None /\ saver' = None /\ (view' # None => view' = Stripped(cache') /\ cache' # None)
    BY <2>1 DEF Restart
  <2> QED
    BY <2>1, <2>2 DEF PendingIsShown, UnsavedIsPending
<1>6. CASE Server \/ Publishing \/ Supervisor \/ Subscription \/ TakeChunk
  BY <1>1, <1>6 DEF Server, Publishing, Supervisor, Subscription, Receive, EndSource, Publish, OpenSession,
     Establish, LoseSession, SetSession, Switch, Subscribe, ReadSnapshot, Follow, Yield, SourceOver, TakeChunk
<1> QED
  BY <1>1, <1>2, <1>3, <1>4, <1>5, <1>6 DEF Next, Applying, Saving, vars

\* The app's view of the configuration is on disk, but for its machine state,
\* or is pending and saved by the finalizer (state/server.ts, persistPending):
\* an update that arrives during a save is never taken for saved.
THEOREM UnsavedIsPendingCorrect == Spec => []UnsavedIsPending
<1>1. Init => SaveInv
  BY BaseInit DEF Init, SaveInv, PendingIsShown, UnsavedIsPending
<1>2. SaveInv => UnsavedIsPending
  BY DEF SaveInv
<1> QED
  BY <1>1, <1>2, SaveStep, PTL DEF Spec

-----------------------------------------------------------------------------
(* Applying a chunk keeps the view in agreement with the source. *)

\* A live event takes a view that agrees with a replay state to the next one.
LEMMA LiveAgrees ==
  ASSUME NEW v \in Projections, NEW a \in Entries, NEW b \in Entries,
         b.projection = Project(a.projection, b.event), b.latest = Latest(a.latest, b.event),
         Agrees(v, a, Kinds)
  PROVE  Agrees(Project(v, b.event), b, Kinds)
<1> DEFINE e == b.event
           w == Project(v, e)
<1>1. /\ a.projection \in Projections /\ b.projection \in Projections /\ e \in Events
      /\ a.latest \in [Kinds -> Stamps \cup {Unknown}] /\ b.latest \in [Kinds -> Stamps \cup {Unknown}]
      /\ v # None /\ a.projection # None
  BY ConfigAssumption DEF Entries
<1>2. /\ v.body = a.projection.body /\ v.capable = a.projection.capable
      /\ \A k \in Kinds : a.latest[k] # Unknown \/ k \notin v.capable => v.machine[k] = a.projection.machine[k]
  BY DEF Agrees
<1>3. CASE e.type = "snapshot"
  <2>1. /\ w.body = e.body /\ b.projection.body = e.body /\ w.capable = e.capable /\ b.projection.capable = e.capable
        /\ \A k \in Kinds : /\ w.machine[k] = IF k \in e.capable THEN v.machine[k] ELSE Absent
                            /\ b.projection.machine[k] = IF k \in e.capable THEN a.projection.machine[k] ELSE Absent
                            /\ b.latest[k] = IF k \notin e.capable THEN Unknown ELSE a.latest[k]
    BY <1>1, <1>3 DEF Project, Latest
  <2> HIDE DEF e, w
  <2>2. ASSUME NEW k \in Kinds, b.latest[k] # Unknown \/ k \notin w.capable
        PROVE  w.machine[k] = b.projection.machine[k]
    BY <1>2, <2>1, <2>2
  <2> QED
    BY <2>1, <2>2 DEF Agrees, w, e
<1>4. CASE e.type = "field"
  <2>1. e.of \in Fields /\ e.value \in Stamps
    BY <1>1, <1>4 DEF Events
  <2>2. /\ w.body = [v.body EXCEPT ![e.of] = e.value] /\ b.projection.body = [a.projection.body EXCEPT ![e.of] = e.value]
        /\ w.capable = v.capable /\ b.projection.capable = a.projection.capable
        /\ w.machine = v.machine /\ b.projection.machine = a.projection.machine
    BY <1>1, <1>4, <2>1 DEF Project, Projections
  <2>3. \A k \in Kinds : b.latest[k] = a.latest[k]
    BY <1>4 DEF Latest
  <2> HIDE DEF e, w
  <2> QED
    BY <1>2, <2>2, <2>3 DEF Agrees, w, e
<1>5. CASE e.type = "machine"
  <2>1. e.of \in Kinds /\ e.value \in Stamps
    BY <1>1, <1>5 DEF Events
  <2>2. /\ w.body = v.body /\ b.projection.body = a.projection.body
        /\ w.capable = v.capable /\ b.projection.capable = a.projection.capable
        /\ \A k \in Kinds : /\ w.machine[k] = IF k = e.of THEN e.value ELSE v.machine[k]
                            /\ b.projection.machine[k] = IF k = e.of THEN e.value ELSE a.projection.machine[k]
                            /\ b.latest[k] = IF k = e.of THEN e.value ELSE a.latest[k]
    BY <1>1, <1>5, <2>1 DEF Project, Projections, Latest
  <2> HIDE DEF e, w
  <2> QED
    BY <1>2, <2>2 DEF Agrees, w, e
<1> QED
  BY <1>1, <1>3, <1>4, <1>5 DEF Events

\* The snapshot of a replay leaves only the kinds that the replay has open.
LEMMA SnapshotAgrees ==
  ASSUME NEW v \in Projections \cup {None}, NEW entry \in Entries, Reported(entry)
  PROVE  Agrees(Project(v, EventOf(entry, "snapshot")), entry, Kinds \ ReplayParts(entry))
<1> DEFINE w == Project(v, EventOf(entry, "snapshot"))
<1>1. EventOf(entry, "snapshot") = [type |-> "snapshot", body |-> entry.projection.body,
                                    capable |-> entry.projection.capable]
  BY DEF EventOf, SnapshotOf
<1>2. /\ w.body = entry.projection.body /\ w.capable = entry.projection.capable
      /\ \A k \in Kinds : k \notin w.capable => w.machine[k] = Absent
  BY <1>1 DEF Project
<1>3. ASSUME NEW k \in Kinds \ ReplayParts(entry), entry.latest[k] # Unknown \/ k \notin w.capable
      PROVE  w.machine[k] = entry.projection.machine[k]
  <2>1. entry.latest[k] = Unknown /\ k \notin w.capable
    BY <1>3 DEF ReplayParts
  <2> QED
    BY <1>2, <2>1 DEF Reported
<1> QED
  BY <1>2, <1>3 DEF Agrees

\* The event of a kind closes that kind.
LEMMA PartAgrees ==
  ASSUME NEW v \in Projections, NEW entry \in Entries, Reported(entry), NEW kinds \in SUBSET Kinds,
         Agrees(v, entry, Kinds \ kinds), NEW part \in kinds, part \in ReplayParts(entry)
  PROVE  Agrees(Project(v, EventOf(entry, part)), entry, Kinds \ (kinds \ {part}))
<1> DEFINE w == Project(v, EventOf(entry, part))
<1>1. part \notin {"event", "snapshot"} /\ entry.latest[part] # Unknown /\ v # None
  BY ConfigAssumption DEF ReplayParts
<1>2. EventOf(entry, part) = [type |-> "machine", of |-> part, value |-> entry.latest[part]]
  BY <1>1 DEF EventOf, MachineEvent
<1>3. /\ w.body = v.body /\ w.capable = v.capable
      /\ \A k \in Kinds : w.machine[k] = IF k = part THEN entry.latest[part] ELSE v.machine[k]
  BY <1>1, <1>2 DEF Project, Projections
<1>4. entry.projection.machine[part] = entry.latest[part]
  BY <1>1 DEF Reported
<1> QED
  BY <1>3, <1>4 DEF Agrees

-----------------------------------------------------------------------------
(* What the app shows. *)

Whole(c, logs) == c.left = {"event"} \/ c.left = ReplayParts(logs[c.session][c.revision])

\* A chunk with a live event comes right after the one of the revision before.
Succeeds(c, d) ==
  d.left = {"event"} => c # Nowhere /\ d.session = c.session /\ d.revision = c.revision + 1

Before(i) == IF i = 1 THEN at ELSE queue[i - 1]
LastChunk == IF queue = <<>> THEN at ELSE queue[Len(queue)]

ChainOK ==
  /\ \A i \in 1 .. Len(queue) : Whole(queue[i], log) /\ Succeeds(Before(i), queue[i])
  /\ inner.out # Nowhere => Whole(inner.out, log) /\ Succeeds(LastChunk, inner.out)

\* The stream's revision is the one of the last chunk it made.
RevisionOK ==
  /\ inner.stage = "replaying" => inner.out # Nowhere
  /\ inner.stage \in {"replaying", "following"} =>
       LET c == IF inner.out = Nowhere THEN LastChunk ELSE inner.out IN
       c # Nowhere /\ c.session = inner.session /\ c.revision = inner.revision

\* The view agrees with the source but for what the current chunk has left.
AtOK ==
  at # Nowhere =>
    \/ /\ at.left = {"event"} /\ at.revision > 1 /\ view # None
       /\ Agrees(view, log[at.session][at.revision - 1], Kinds)
    \/ at.left = ReplayParts(EntryOf(at))
    \/ /\ at.left \subseteq Kinds /\ view # None
       /\ Agrees(view, EntryOf(at), Kinds \ at.left)

ViewInv == Base /\ ChainOK /\ RevisionOK /\ AtOK

LEMMA ViewInit == Init => ViewInv
<1> SUFFICES ASSUME Init PROVE ChainOK /\ RevisionOK /\ AtOK
  BY BaseInit DEF ViewInv
<1> QED
  BY DEF Init, Idle, ChainOK, RevisionOK, AtOK

LEMMA ViewFollows == ViewInv => ViewFollowsSource
<1> SUFFICES ASSUME ViewInv, at # Nowhere, at.left = {}
             PROVE  view # None /\ Agrees(view, EntryOf(at), Kinds)
  BY DEF ViewFollowsSource
<1>1. AtOK
  BY DEF ViewInv
<1>2. "snapshot" \in ReplayParts(EntryOf(at)) /\ Kinds \ {} = Kinds
  BY DEF ReplayParts
<1> QED
  BY <1>1, <1>2 DEF AtOK

LEMMA ViewReceive ==
  ASSUME ViewInv, NEW s \in Sessions, Receive(s)
  PROVE  ChainOK' /\ RevisionOK' /\ AtOK'
<1>1. UNCHANGED <<inner, queue, at, view>> /\ Grows(log, log')
  <2>1. Base
    BY DEF ViewInv
  <2> QED
    BY <2>1, ReceiveFacts DEF Receive
<1>2. PlacesOK /\ ChainOK /\ RevisionOK /\ AtOK
  BY DEF ViewInv, Base
<1>3. ASSUME NEW c, c # Nowhere, Placed(c, log)
      PROVE  /\ log'[c.session][c.revision] = log[c.session][c.revision]
             /\ c.revision > 1 => log'[c.session][c.revision - 1] = log[c.session][c.revision - 1]
  <2>1. c.session \in Sessions /\ c.revision \in 1 .. Len(log[c.session]) /\ Len(log[c.session]) \in Nat
    BY <1>1, <1>3 DEF Placed, Chunks, Grows
  <2>2. c.revision > 1 => c.revision - 1 \in 1 .. Len(log[c.session])
    BY <2>1
  <2> QED
    BY <1>1, <2>1, <2>2 DEF Grows
<1>4. ChainOK'
  <2>1. ASSUME NEW i \in 1 .. Len(queue) PROVE Whole(queue[i], log')
    <3>1. Placed(queue[i], log) /\ queue[i] # Nowhere /\ Whole(queue[i], log)
      <4>1. queue[i] \in Chunks
        BY DEF ViewInv, Base, TypeOK
      <4> QED
        BY <1>2, <4>1 DEF PlacesOK, ChainOK, Chunks, Nowhere, Sessions
    <3> QED
      BY <1>3, <3>1 DEF Whole
  <2>2. inner.out # Nowhere => Whole(inner.out, log')
    BY <1>2, <1>3 DEF PlacesOK, ChainOK, Whole
  <2> QED
    BY <1>1, <1>2, <2>1, <2>2 DEF ChainOK, Before, LastChunk
<1>5. RevisionOK'
  BY <1>1, <1>2 DEF RevisionOK, LastChunk
<1>6. AtOK'
  <2>1. Placed(at, log)
    BY <1>2 DEF PlacesOK
  <2> QED
    BY <1>1, <1>2, <1>3, <2>1 DEF AtOK, EntryOf
<1> QED
  BY <1>4, <1>5, <1>6

LEMMA ViewSubscription ==
  ASSUME ViewInv, Subscription
  PROVE  ChainOK' /\ RevisionOK' /\ AtOK'
<1>0. /\ inner \in InnerType /\ queue \in Seq(Chunks) /\ log \in [Sessions -> Seq(Entries)]
      /\ ChainOK /\ RevisionOK /\ AtOK /\ InnerOK /\ PlacesOK
  BY DEF ViewInv, Base, TypeOK, InnerType
<1>1. UNCHANGED <<log, at, view>>
  BY DEF Subscription, Switch, Subscribe, ReadSnapshot, Follow, Yield, SourceOver, serverVars
<1>2. AtOK'
  BY <1>0, <1>1 DEF AtOK, EntryOf
<1>3. CASE Switch \/ Subscribe \/ SourceOver
  <2>1. UNCHANGED queue
    BY <1>3 DEF Switch, Subscribe, SourceOver
  <2>2. inner'.out = Nowhere /\ inner'.stage \notin {"replaying", "following"}
    <3>1. CASE Switch
      BY <3>1 DEF Switch, Idle
    <3>2. CASE Subscribe \/ SourceOver
      BY <1>0, <3>2 DEF Subscribe, SourceOver, InnerOK, InnerType
    <3> QED
      BY <1>3, <3>1, <3>2
  <2> QED
    BY <1>0, <1>1, <1>2, <2>1, <2>2 DEF ChainOK, RevisionOK, Before
<1>4. CASE ReadSnapshot
  <2> DEFINE r == Len(log[inner.session])
  <2>1. /\ inner.stage = "subscribed" /\ UNCHANGED queue
        /\ inner' = [inner EXCEPT !.stage = "replaying", !.revision = r, !.out = ReplayOf(inner.session, r)]
    BY <1>4 DEF ReadSnapshot
  <2>2. inner.session \in Sessions /\ log[inner.session] # <<>> /\ log[inner.session] \in Seq(Entries)
    BY <1>0, <2>1 DEF InnerOK
  <2>3. r \in 1 .. r
    BY <2>2
  <2> HIDE DEF r
  <2>4. /\ inner'.stage = "replaying" /\ inner'.revision = r /\ inner'.session = inner.session
        /\ inner'.out = ReplayOf(inner.session, r)
    BY <1>0, <2>1 DEF InnerType
  <2>5. /\ inner'.out # Nowhere /\ inner'.out.session = inner.session /\ inner'.out.revision = r
        /\ inner'.out.left = ReplayParts(log[inner.session][r]) /\ inner'.out.left # {"event"}
    <3>1. /\ inner'.out.session = inner.session /\ inner'.out.revision = r
          /\ inner'.out.left = ReplayParts(log[inner.session][r])
      BY <2>4 DEF ReplayOf
    <3>2. "snapshot" \in inner'.out.left
      BY <3>1 DEF ReplayParts
    <3>3. inner.session # 0
      BY <2>2 DEF Sessions
    <3> QED
      BY <3>1, <3>2, <3>3 DEF Nowhere
  <2> QED
    BY <1>0, <1>1, <1>2, <2>1, <2>4, <2>5 DEF ChainOK, RevisionOK, Before, Whole, Succeeds
<1>5. CASE Follow
  <2> DEFINE r == Head(inner.inbox)
  <2>1. /\ inner.stage = "following" /\ inner.out = Nowhere /\ inner.inbox # <<>> /\ UNCHANGED queue
        /\ inner' = IF New(r) THEN [inner EXCEPT !.inbox = Tail(@), !.revision = r, !.out = Update(r)]
                    ELSE [inner EXCEPT !.inbox = Tail(@)]
    BY <1>5 DEF Follow
  <2>2. /\ inner.session \in Sessions /\ LastChunk # Nowhere
        /\ LastChunk.session = inner.session /\ LastChunk.revision = inner.revision
    BY <1>0, <2>1 DEF RevisionOK, InnerOK
  <2> HIDE DEF r
  <2>3. CASE ~New(r)
    <3>1. inner'.out = Nowhere /\ inner'.stage = "following" /\ UNCHANGED <<inner.session, inner.revision>>
      BY <1>0, <2>1, <2>3 DEF InnerType
    <3> QED
      BY <1>0, <1>1, <1>2, <2>1, <2>2, <3>1 DEF ChainOK, RevisionOK, Before, LastChunk
  <2>4. CASE New(r)
    <3>1. /\ inner'.out = Update(r) /\ inner'.stage = "following" /\ inner'.session = inner.session
          /\ inner'.revision = r
      BY <1>0, <2>1, <2>4 DEF InnerType
    <3>2. /\ Update(r) # Nowhere /\ Update(r).session = inner.session /\ Update(r).revision = r
          /\ Whole(Update(r), log) /\ Succeeds(LastChunk, Update(r))
      BY <2>2 DEF Update, LiveOf, ReplayOf, ReplayParts, Whole, Succeeds, Nowhere, Sessions
    <3> QED
      BY <1>0, <1>1, <1>2, <2>1, <3>1, <3>2 DEF ChainOK, RevisionOK, Before, LastChunk
  <2> QED
    BY <2>3, <2>4
<1>6. CASE Yield
  <2>1. /\ inner.out # Nowhere /\ queue' = Append(queue, inner.out)
        /\ inner' = [inner EXCEPT !.stage = "following", !.out = Nowhere]
    BY <1>6 DEF Yield
  <2>2. inner.stage \in {"replaying", "following"} /\ inner.out \in Chunks
    BY <1>0, <2>1 DEF InnerOK, InnerType, Stages
  <2>3. /\ queue' \in Seq(Chunks) /\ Len(queue') = Len(queue) + 1 /\ Len(queue) \in Nat
        /\ \A i \in 1 .. Len(queue) : queue'[i] = queue[i]
        /\ queue'[Len(queue) + 1] = inner.out
    BY <1>0, <2>1, <2>2, AppendFacts
  <2>4. inner'.out = Nowhere /\ inner'.stage = "following" /\ UNCHANGED <<inner.session, inner.revision>>
    BY <1>0, <2>1 DEF InnerType
  <2>5. queue' # <<>> /\ LastChunk' = inner.out
    BY <2>3 DEF LastChunk
  <2>6. ASSUME NEW i \in 1 .. Len(queue')
        PROVE  Whole(queue'[i], log) /\ Succeeds((IF i = 1 THEN at ELSE queue'[i - 1]), queue'[i])
    <3>1. CASE i \in 1 .. Len(queue)
      <4>1. i # 1 => i - 1 \in 1 .. Len(queue)
        BY <2>3, <3>1
      <4> QED
        BY <1>0, <2>3, <3>1, <4>1 DEF ChainOK, Before
    <3>2. CASE i = Len(queue) + 1
      <4>1. (IF i = 1 THEN at ELSE queue'[i - 1]) = LastChunk
        <5>1. CASE queue = <<>>
          BY <2>3, <3>2, <5>1 DEF LastChunk
        <5>2. CASE queue # <<>>
          <6>1. Len(queue) > 0
            BY <1>0, <5>2
          <6> QED
            BY <2>3, <3>2, <5>2, <6>1 DEF LastChunk
        <5> QED
          BY <5>1, <5>2
      <4> QED
        BY <1>0, <2>1, <2>3, <3>2, <4>1 DEF ChainOK
    <3> QED
      BY <2>3, <3>1, <3>2
  <2> QED
    BY <1>0, <1>1, <1>2, <2>1, <2>2, <2>4, <2>5, <2>6 DEF ChainOK, RevisionOK, Before
<1> QED
  BY <1>3, <1>4, <1>5, <1>6 DEF Subscription

LEMMA ViewApplying ==
  ASSUME ViewInv, Applying
  PROVE  ChainOK' /\ RevisionOK' /\ AtOK'
<1>0. /\ inner \in InnerType /\ queue \in Seq(Chunks) /\ at \in Chunks \cup {Nowhere}
      /\ log \in [Sessions -> Seq(Entries)] /\ view \in Projections \cup {None}
      /\ ChainOK /\ RevisionOK /\ AtOK /\ PlacesOK /\ LogOK
  BY DEF ViewInv, Base, TypeOK, InnerType
<1>1. CASE TakeChunk
  <2>1. /\ at.left = {} /\ queue # <<>> /\ at' = Head(queue) /\ queue' = Tail(queue)
        /\ UNCHANGED <<log, inner, view>>
    BY <1>1 DEF TakeChunk, serverVars
  <2>2. /\ at' = queue[1] /\ Len(queue) \in Nat \ {0} /\ queue' \in Seq(Chunks) /\ Len(queue') = Len(queue) - 1
        /\ \A i \in 1 .. Len(queue) - 1 : queue'[i] = queue[i + 1]
        /\ at' \in Chunks
    BY <1>0, <2>1, TailFacts
  <2>3. LastChunk' = LastChunk
    <3>1. CASE Len(queue) = 1
      BY <2>1, <2>2, <3>1 DEF LastChunk
    <3>2. CASE Len(queue) > 1
      <4>1. queue' # <<>> /\ Len(queue) - 1 \in 1 .. Len(queue) - 1
        BY <2>2, <3>2
      <4> QED
        BY <2>1, <2>2, <4>1 DEF LastChunk
    <3> QED
      BY <2>2, <3>1, <3>2
  <2>4. ASSUME NEW i \in 1 .. Len(queue') PROVE Whole(queue'[i], log) /\ Succeeds(Before(i)', queue'[i])
    <3>1. i + 1 \in 1 .. Len(queue) /\ i + 1 # 1 /\ (i + 1) - 1 = i /\ queue'[i] = queue[i + 1]
      BY <2>2
    <3>2. Whole(queue[i + 1], log) /\ Succeeds(Before(i + 1), queue[i + 1])
      BY <1>0, <3>1 DEF ChainOK
    <3>3. Before(i + 1) = queue[i]
      BY <3>1 DEF Before
    <3>4. Before(i)' = queue[i]
      <4>1. CASE i = 1
        BY <2>2, <4>1 DEF Before
      <4>2. CASE i # 1
        <5>1. i - 1 \in 1 .. Len(queue) - 1 /\ (i - 1) + 1 = i
          BY <2>2, <4>2
        <5> QED
          BY <2>2, <4>2, <5>1 DEF Before
      <4> QED
        BY <4>1, <4>2
    <3> QED
      BY <3>1, <3>2, <3>3, <3>4
  <2>5. ChainOK'
    BY <1>0, <2>1, <2>3, <2>4 DEF ChainOK
  <2>6. RevisionOK'
    BY <1>0, <2>1, <2>3 DEF RevisionOK
  <2>7. AtOK'
    <3>1. Whole(at', log) /\ Succeeds(at, at') /\ 1 \in 1 .. Len(queue)
      BY <1>0, <2>2 DEF ChainOK, Before
    <3>2. CASE at'.left = {"event"}
      <4>1. at # Nowhere /\ at'.session = at.session /\ at'.revision = at.revision + 1 /\ at.revision \in Nat \ {0}
        BY <1>0, <3>1, <3>2 DEF Succeeds, Chunks
      <4>2. view # None /\ Agrees(view, log[at.session][at.revision], Kinds)
        BY <2>1, <4>1, ViewFollows DEF ViewFollowsSource, EntryOf
      <4>3. at'.revision > 1 /\ at'.revision - 1 = at.revision
        BY <4>1
      <4> QED
        BY <2>1, <3>2, <4>1, <4>2, <4>3 DEF AtOK
    <3> QED
      BY <2>1, <3>1, <3>2 DEF AtOK, Whole, EntryOf
  <2> QED
    BY <2>5, <2>6, <2>7
<1>2. CASE Apply
  <2>1. PICK part \in NextParts :
          LET next == Project(view, EventOf(EntryOf(at), part)) IN
          /\ at' = [at EXCEPT !.left = @ \ {part}]
          /\ next = None => UNCHANGED view
          /\ next # None => view' = next
    BY <1>2 DEF Apply, EntryOf
  <2>2. UNCHANGED <<log, inner, queue>>
    BY <1>2 DEF Apply, serverVars
  <2> DEFINE next == Project(view, EventOf(EntryOf(at), part))
  <2>3. part \in at.left /\ at \in Chunks
    BY <1>0 DEF NextParts, Nowhere
  <2>4. /\ at'.session = at.session /\ at'.revision = at.revision /\ at'.left = at.left \ {part}
        /\ at' # Nowhere /\ at # Nowhere
    BY <2>1, <2>3 DEF Chunks, Sessions, Nowhere
  <2>5. /\ EntryOf(at) \in Entries /\ EntryOf(at)' = EntryOf(at) /\ Reported(EntryOf(at))
        /\ at.session \in Sessions /\ at.revision \in 1 .. Len(log[at.session])
        /\ at.left \subseteq {"event"} \/ at.left \subseteq ReplayParts(EntryOf(at))
    <3>1. at.session \in Sessions /\ log[at.session] \in Seq(Entries) /\ at.revision \in 1 .. Len(log[at.session])
          /\ (at.left \subseteq {"event"} \/ at.left \subseteq ReplayParts(EntryOf(at)))
      BY <1>0, <2>3, <2>4 DEF PlacesOK, Placed, Chunks, EntryOf
    <3> QED
      BY <1>0, <2>2, <2>4, <3>1 DEF EntryOf, LogOK
  <2>6. ChainOK'
    <3>1. /\ \A d : Succeeds(at', d) <=> Succeeds(at, d)
          /\ \A d : Succeeds(LastChunk', d) <=> Succeeds(LastChunk, d)
      BY <2>2, <2>4 DEF Succeeds, LastChunk
    <3>2. \A i \in 1 .. Len(queue) : \A d : Succeeds(Before(i)', d) <=> Succeeds(Before(i), d)
      BY <2>2, <3>1 DEF Before
    <3> QED
      BY <1>0, <2>2, <3>1, <3>2 DEF ChainOK
  <2>7. RevisionOK'
    <3>1. /\ LastChunk'.session = LastChunk.session /\ LastChunk'.revision = LastChunk.revision
          /\ LastChunk # Nowhere => LastChunk' # Nowhere
      BY <2>2, <2>4 DEF LastChunk
    <3> QED
      BY <1>0, <2>2, <3>1 DEF RevisionOK
  <2> HIDE DEF next
  <2>8. ASSUME at.left = {"event"}, at.revision > 1, view # None, Agrees(view, log[at.session][at.revision - 1], Kinds)
        PROVE  AtOK'
    <3> DEFINE a == log[at.session][at.revision - 1]
               b == log[at.session][at.revision]
    <3>1. part = "event" /\ at'.left = {} /\ view \in Projections /\ next = Project(view, b.event)
      BY <1>0, <2>3, <2>4, <2>8 DEF next, EventOf, EntryOf
    <3>2. a \in Entries /\ b \in Entries
      BY <1>0, <2>5, <2>8
    <3>3. b.projection = Project(a.projection, b.event) /\ b.latest = Latest(a.latest, b.event)
      BY <1>0, <2>5, <2>8 DEF LogOK
    <3>4. b.event \in Events /\ next # None
      <4>1. b.event \in Events
        BY <3>2 DEF Entries
      <4> QED
        BY <2>8, <3>1, <4>1, ProjectType
    <3> HIDE DEF a, b
    <3>5. Agrees(next, b, Kinds)
      BY <2>8, <3>1, <3>2, <3>3, LiveAgrees DEF a
    <3>6. view' = next /\ Kinds \ {} = Kinds
      BY <2>1, <3>4 DEF next
    <3> QED
      BY <2>2, <2>4, <3>1, <3>4, <3>5, <3>6 DEF AtOK, EntryOf, b
  <2>9. ASSUME at.left = ReplayParts(EntryOf(at)) PROVE AtOK'
    <3>1. part = "snapshot"
      BY <2>9 DEF NextParts, ReplayParts
    <3>2. at'.left \subseteq Kinds /\ Kinds \ at'.left = Kinds \ ReplayParts(EntryOf(at))
      BY <2>4, <2>9, <3>1, ConfigAssumption DEF ReplayParts
    <3>3. next # None
      <4>1. EventOf(EntryOf(at), part) \in Events /\ EventOf(EntryOf(at), part).type = "snapshot"
        BY <2>3, <2>5, <2>9, <3>1, EventOfType
      <4> QED
        BY <1>0, <4>1, ProjectType DEF next
    <3>4. Agrees(next, EntryOf(at), Kinds \ ReplayParts(EntryOf(at)))
      BY <1>0, <2>5, <3>1, SnapshotAgrees DEF next
    <3>5. view' = next
      BY <2>1, <3>3 DEF next
    <3> QED
      BY <2>2, <2>4, <3>2, <3>3, <3>4, <3>5 DEF AtOK, EntryOf
  <2>10. ASSUME at.left \subseteq Kinds, view # None, Agrees(view, EntryOf(at), Kinds \ at.left) PROVE AtOK'
    <3>1. part \in Kinds /\ part \in ReplayParts(EntryOf(at)) /\ at.left \in SUBSET Kinds /\ view \in Projections
      BY <1>0, <2>3, <2>5, <2>10, ConfigAssumption
    <3>2. next # None
      <4>1. EventOf(EntryOf(at), part) \in Events
        BY <2>5, <3>1, EventOfType
      <4> QED
        BY <3>1, <4>1, <2>10, ProjectType DEF next
    <3>3. Agrees(next, EntryOf(at), Kinds \ (at.left \ {part}))
      BY <2>3, <2>5, <2>10, <3>1, PartAgrees DEF next
    <3>4. view' = next
      BY <2>1, <3>2 DEF next
    <3> QED
      BY <2>2, <2>4, <2>10, <3>2, <3>3, <3>4 DEF AtOK, EntryOf
  <2>11. AtOK'
    BY <1>0, <2>4, <2>8, <2>9, <2>10 DEF AtOK, EntryOf
  <2> QED
    BY <2>6, <2>7, <2>11
<1> QED
  BY <1>1, <1>2 DEF Applying

LEMMA ViewStep == ViewInv /\ [Next]_vars => ViewInv'
<1> SUFFICES ASSUME ViewInv, [Next]_vars PROVE ChainOK' /\ RevisionOK' /\ AtOK'
  BY BaseStep DEF ViewInv
<1>0. /\ inner \in InnerType /\ ChainOK /\ RevisionOK /\ AtOK
  BY DEF ViewInv, Base, TypeOK, InnerType
<1>1. CASE Server
  <2>1. CASE \E s \in Sessions : Receive(s)
    BY <2>1, ViewReceive
  <2>2. CASE \E s \in Sessions : EndSource(s)
    BY <1>0, <2>2 DEF EndSource, ChainOK, RevisionOK, AtOK, Before, LastChunk, EntryOf
  <2> QED
    BY <1>1, <2>1, <2>2 DEF Server
<1>2. CASE Publishing
  <2>1. UNCHANGED <<log, queue, at, view>> /\ inner'.session = inner.session /\ inner'.stage = inner.stage
        /\ inner'.revision = inner.revision /\ inner'.out = inner.out
    BY <1>0, <1>2 DEF Publishing, Publish, InnerType
  <2> QED
    BY <1>0, <2>1 DEF ChainOK, RevisionOK, AtOK, Before, LastChunk, EntryOf
<1>3. CASE Supervisor \/ Saving \/ UNCHANGED vars
  <2>1. UNCHANGED <<log, inner, queue, at, view>>
    BY <1>3 DEF Supervisor, OpenSession, Establish, LoseSession, SetSession, Saving, StartSave, Saved, SaveFails,
       vars, serverVars
  <2> QED
    BY <1>0, <2>1 DEF ChainOK, RevisionOK, AtOK, Before, LastChunk, EntryOf
<1>4. CASE Lifecycle
  <2>1. inner' = Idle /\ queue' = <<>> /\ at' = Nowhere
    BY <1>4 DEF Lifecycle, Close, Crash, Restart
  <2> QED
    BY <2>1 DEF Idle, ChainOK, RevisionOK, AtOK
<1> QED
  BY <1>1, <1>2, <1>3, <1>4, ViewSubscription, ViewApplying DEF Next

\* Once a chunk is applied, the app shows what the session's source held after
\* its last event, however many updates the sliding buffer lost and whatever the
\* app showed before (rpc/session.ts, serverConfigEvents; serverConfigProjection.ts).
THEOREM ViewFollowsSourceCorrect == Spec => []ViewFollowsSource
<1> QED
  BY ViewInit, ViewStep, ViewFollows, PTL DEF Spec

-----------------------------------------------------------------------------
(* What the subscription has seen. *)

\* Nothing that is published is lost for good: a stream has read it, or holds it
\* as the last update of its inbox.
InboxOK ==
  /\ inner.stage = "subscribed" /\ inner.inbox # <<>>
       => inner.inbox[Len(inner.inbox)] = published[inner.session]
  /\ inner.stage \in {"replaying", "following"} =>
       IF inner.inbox = <<>> THEN inner.revision >= published[inner.session]
       ELSE inner.inbox[Len(inner.inbox)] = published[inner.session]

SeenInv == ViewInv /\ InboxOK

LEMMA SeenSubscription ==
  ASSUME SeenInv, Subscription
  PROVE  InboxOK'
<1>0. /\ inner \in InnerType /\ published \in [Sessions -> Nat] /\ log \in [Sessions -> Seq(Entries)]
      /\ InboxOK /\ InnerOK /\ PublishedOK
  BY DEF SeenInv, ViewInv, Base, TypeOK, InnerType
<1>1. UNCHANGED published
  BY DEF Subscription, Switch, Subscribe, ReadSnapshot, Follow, Yield, SourceOver, serverVars
<1>2. CASE Switch \/ SourceOver
  <2>1. inner'.stage \notin {"subscribed", "replaying", "following"}
    <3>1. CASE Switch
      BY <3>1 DEF Switch, Idle
    <3>2. CASE SourceOver
      BY <1>0, <3>2 DEF SourceOver, InnerType
    <3> QED
      BY <1>2, <3>1, <3>2
  <2> QED
    BY <2>1 DEF InboxOK
<1>3. CASE Subscribe
  <2>1. inner'.stage = "subscribed" /\ inner'.inbox = <<>>
    BY <1>0, <1>3 DEF Subscribe, InnerType, InnerOK
  <2> QED
    BY <2>1 DEF InboxOK
<1>4. CASE ReadSnapshot
  <2>1. /\ inner.stage = "subscribed" /\ inner'.stage = "replaying" /\ inner'.inbox = inner.inbox
        /\ inner'.session = inner.session /\ inner'.revision = Len(log[inner.session])
    BY <1>0, <1>4 DEF ReadSnapshot, InnerType
  <2>2. inner.session \in Sessions
    BY <1>0, <2>1 DEF InnerOK
  <2>3. inner'.revision >= published[inner.session]
    <3>1. Len(log[inner.session]) \in Nat /\ published[inner.session] \in {Len(log[inner.session]) - 1, Len(log[inner.session])}
      BY <1>0, <2>2 DEF PublishedOK
    <3> QED
      BY <2>1, <3>1
  <2> QED
    BY <1>0, <1>1, <2>1, <2>3 DEF InboxOK
<1>5. CASE Follow
  <2> DEFINE r == Head(inner.inbox)
  <2>1. /\ inner.stage = "following" /\ inner.inbox # <<>> /\ inner'.stage = "following"
        /\ inner'.session = inner.session /\ inner'.inbox = Tail(inner.inbox)
        /\ inner'.revision = IF r > inner.revision THEN r ELSE inner.revision
    BY <1>0, <1>5 DEF Follow, New, InnerType
  <2>2. /\ inner.inbox \in Seq(Nat) /\ inner.revision \in Nat /\ inner.session \in Sessions
        /\ inner.inbox[Len(inner.inbox)] = published[inner.session]
    BY <1>0, <2>1 DEF InnerType, InboxOK, InnerOK
  <2>3. /\ r = inner.inbox[1] /\ r \in Nat /\ Len(inner.inbox) \in Nat \ {0}
        /\ inner'.inbox \in Seq(Nat) /\ Len(inner'.inbox) = Len(inner.inbox) - 1
        /\ \A i \in 1 .. Len(inner.inbox) - 1 : inner'.inbox[i] = inner.inbox[i + 1]
    BY <2>1, <2>2, TailFacts
  <2> DEFINE n == Len(inner.inbox)
             p == published[inner.session]
  <2>4. n \in Nat \ {0} /\ Len(inner'.inbox) = n - 1 /\ inner.inbox[n] = p
    BY <2>2, <2>3
  <2>5. \A i \in 1 .. n - 1 : inner'.inbox[i] = inner.inbox[i + 1]
    BY <2>3
  <2> HIDE DEF r, n, p
  <2>6. CASE n = 1
    <3>1. r = p
      BY <2>3, <2>6, <2>4
    <3>2. inner'.inbox = <<>>
      BY <2>3, <2>6, <2>4
    <3>3. inner'.revision >= published[inner.session]
      BY <2>1, <2>2, <2>3, <3>1 DEF p
    <3> QED
      BY <1>1, <2>1, <3>2, <3>3 DEF InboxOK
  <2>7. CASE n > 1
    <3>1. n - 1 \in 1 .. n - 1 /\ (n - 1) + 1 = n
      BY <2>7, <2>4
    <3>2. inner'.inbox[n - 1] = inner.inbox[(n - 1) + 1]
      BY <2>5, <3>1
    <3>3. inner'.inbox # <<>>
      BY <2>7, <2>4
    <3> QED
      BY <1>1, <2>1, <2>4, <3>1, <3>2, <3>3 DEF InboxOK, p
  <2>8. n = 1 \/ n > 1
    BY <2>4
  <2> QED
    BY <2>6, <2>7, <2>8
<1>6. CASE Yield
  <2>1. /\ inner.stage \in {"replaying", "following"} /\ inner'.stage = "following"
        /\ UNCHANGED <<inner.inbox, inner.session, inner.revision>>
    BY <1>0, <1>6 DEF Yield, InnerOK, InnerType, Stages
  <2> QED
    BY <1>0, <1>1, <2>1 DEF InboxOK
<1> QED
  BY <1>2, <1>3, <1>4, <1>5, <1>6 DEF Subscription

LEMMA SeenStep == SeenInv /\ [Next]_vars => SeenInv'
<1> SUFFICES ASSUME SeenInv, [Next]_vars PROVE InboxOK'
  BY ViewStep DEF SeenInv
<1>0. /\ inner \in InnerType /\ Len(inner.inbox) <= Capacity /\ published \in [Sessions -> Nat]
      /\ log \in [Sessions -> Seq(Entries)] /\ InboxOK /\ InnerOK /\ PublishedOK
  BY DEF SeenInv, ViewInv, Base, TypeOK, InnerType
<1>1. CASE Publishing
  <2>1. PICK s \in Sessions : Publish(s)
    BY <1>1 DEF Publishing
  <2>2. /\ published[s] < Len(log[s]) /\ published' = [published EXCEPT ![s] = @ + 1]
        /\ inner' = IF Subscribed(s) THEN [inner EXCEPT !.inbox = Slide(@, Len(log[s]))] ELSE inner
    BY <2>1 DEF Publish
  <2>3. published'[s] = Len(log[s]) /\ Len(log[s]) \in Nat /\ \A t \in Sessions \ {s} : published'[t] = published[t]
    BY <1>0, <2>2 DEF PublishedOK
  <2>4. CASE Subscribed(s)
    <3>1. /\ inner'.stage = inner.stage /\ inner'.session = s
          /\ inner'.inbox = Slide(inner.inbox, Len(log[s]))
      BY <1>0, <2>2, <2>4 DEF Subscribed, InnerType
    <3>2. inner'.inbox # <<>> /\ inner'.inbox[Len(inner'.inbox)] = Len(log[s])
      <4>1. inner.inbox \in Seq(Nat) /\ Len(inner.inbox) <= Capacity /\ Len(log[s]) \in Nat
        BY <1>0, <2>3 DEF InnerType
      <4> DEFINE slid == Slide(inner.inbox, Len(log[s]))
      <4>2. slid # <<>> /\ slid[Len(slid)] = Len(log[s])
        BY <4>1, SlideFacts
      <4>3. inner'.inbox = slid
        BY <3>1
      <4> HIDE DEF slid
      <4> QED
        BY <4>2, <4>3
    <3> QED
      BY <2>3, <3>1, <3>2 DEF InboxOK
  <2>5. CASE ~Subscribed(s)
    <3>1. /\ UNCHANGED inner
          /\ inner.stage \in {"subscribed", "replaying", "following"} => published'[inner.session] = published[inner.session]
      BY <1>0, <2>2, <2>3, <2>5 DEF Subscribed, InnerOK
    <3> QED
      BY <1>0, <3>1 DEF InboxOK
  <2> QED
    BY <2>4, <2>5
<1>2. CASE Lifecycle
  <2>1. inner' = Idle
    BY <1>2 DEF Lifecycle, Close, Crash, Restart
  <2> QED
    BY <2>1 DEF Idle, InboxOK
<1>3. CASE Server \/ Supervisor \/ Applying \/ Saving \/ UNCHANGED vars
  <2>1. UNCHANGED <<published, inner>>
    BY <1>3 DEF Server, Receive, EndSource, Supervisor, OpenSession, Establish, LoseSession, SetSession,
       Applying, TakeChunk, Apply, Saving, StartSave, Saved, SaveFails, vars, serverVars
  <2> QED
    BY <1>0, <2>1 DEF InboxOK
<1> QED
  BY <1>1, <1>2, <1>3, SeenSubscription DEF Next

LEMMA SeenIsCurrent == SeenInv => QuietIsCurrent
<1> SUFFICES ASSUME SeenInv, Quiet
             PROVE  at.session = inner.session /\ at.revision = Len(log[inner.session])
  BY DEF QuietIsCurrent
<1>1. LastChunk = at /\ at # Nowhere /\ at.session = inner.session /\ at.revision = inner.revision
  BY DEF Quiet, SeenInv, ViewInv, RevisionOK, LastChunk
<1>2. inner.revision >= published[inner.session] /\ published[inner.session] = Len(log[inner.session])
  BY DEF Quiet, SeenInv, InboxOK
<1>3. at \in Chunks /\ at.revision <= Len(log[at.session]) /\ log[at.session] \in Seq(Entries)
  BY <1>1 DEF SeenInv, ViewInv, Base, TypeOK, PlacesOK, Placed, Chunks
<1> QED
  BY <1>1, <1>2, <1>3 DEF Chunks

\* When every fiber has done its work, the app is at the last configuration of
\* its session: what the sliding buffer dropped, and what arrived between the
\* subscription and the snapshot it reads, is never missed for good
\* (rpc/session.ts, serverConfigEvents).
THEOREM QuietIsCurrentCorrect == Spec => []QuietIsCurrent
<1>1. Init => SeenInv
  BY ViewInit DEF SeenInv, Init, Idle, InboxOK
<1> QED
  BY <1>1, SeenStep, SeenIsCurrent, PTL DEF Spec

-----------------------------------------------------------------------------
(* The order of chunks. *)

NotAfter(c, d) == c.session < d.session \/ (c.session = d.session /\ c.revision <= d.revision)

\* The last session the supervisor published.
Front == IF session = 0 THEN closed ELSE session

\* Chunks go forward along the queue, and the sessions the subscription has yet
\* to see go forward from them.
ChunksOK ==
  /\ \A i \in 1 .. Len(queue) : NotAfter(Before(i), queue[i])
  /\ inner.out # Nowhere => NotAfter(LastChunk, inner.out)
  /\ inner.stage \in {"asked", "subscribed"} => LastChunk.session < inner.session
ChangesOK ==
  /\ session # 0 => session > closed
  /\ LastChunk.session <= Front /\ inner.session <= Front
  /\ \A i \in 1 .. Len(changes) : changes[i] # 0 =>
       LastChunk.session < changes[i] /\ inner.session < changes[i] /\ changes[i] <= Front
  /\ \A i \in 1 .. Len(changes) : \A j \in 1 .. Len(changes) :
       i < j /\ changes[i] # 0 /\ changes[j] # 0 => changes[i] < changes[j]
OrderInv == ViewInv /\ ChunksOK /\ ChangesOK

OrderTypes ==
  /\ inner \in InnerType /\ inner.session \in Nat /\ inner.revision \in Nat
  /\ queue \in Seq(Chunks) /\ changes \in Seq(Nat)
  /\ opened \in Nat /\ session \in Nat /\ closed \in Nat /\ Front \in Nat
  /\ at.session \in Nat /\ at.revision \in Nat
  /\ LastChunk.session \in Nat /\ LastChunk.revision \in Nat

LEMMA TypesOfOrder == ViewInv => OrderTypes
<1> SUFFICES ASSUME ViewInv PROVE OrderTypes
  OBVIOUS
<1>1. /\ inner \in InnerType /\ queue \in Seq(Chunks) /\ changes \in Seq(0 .. MaxSessions)
      /\ {opened, session, closed} \subseteq 0 .. MaxSessions /\ at \in Chunks \cup {Nowhere}
      /\ MaxSessions \in Nat
  BY ConfigAssumption DEF ViewInv, Base, TypeOK, InnerType
<1>2. \A c \in Chunks \cup {Nowhere} : c.session \in Nat /\ c.revision \in Nat
  BY <1>1 DEF Chunks, Nowhere, Sessions
<1>3. LastChunk \in Chunks \cup {Nowhere}
  <2>1. CASE queue = <<>>
    BY <1>1, <2>1 DEF LastChunk
  <2>2. CASE queue # <<>>
    <3>1. Len(queue) \in 1 .. Len(queue)
      BY <1>1, <2>2
    <3> QED
      BY <1>1, <2>2, <3>1 DEF LastChunk
  <2> QED
    BY <2>1, <2>2
<1>4. changes \in Seq(Nat)
  <2>1. \A i \in 1 .. Len(changes) : changes[i] \in Nat
    BY <1>1
  <2> QED
    BY <1>1, <2>1
<1>5. inner.session \in Nat /\ inner.revision \in Nat
  BY <1>1 DEF InnerType
<1> QED
  BY <1>1, <1>2, <1>3, <1>4, <1>5 DEF OrderTypes, Front

LEMMA OrderSubscription ==
  ASSUME OrderInv, Subscription
  PROVE  ChunksOK' /\ ChangesOK'
<1>0. OrderTypes /\ ChunksOK /\ ChangesOK /\ RevisionOK /\ InnerOK
  BY TypesOfOrder DEF OrderInv, ViewInv, Base
<1>1. UNCHANGED <<at, session, closed>>
  BY DEF Subscription, Switch, Subscribe, ReadSnapshot, Follow, Yield, SourceOver, sessionVars
<1>2. CASE Switch
  <2>1. /\ changes # <<>> /\ changes' = Tail(changes) /\ UNCHANGED queue
        /\ inner'.out = Nowhere /\ inner'.session = Head(changes)
        /\ inner'.stage \in {"asked", "subscribed"} => Head(changes) # 0
    BY <1>2 DEF Switch, Idle
  <2>2. /\ Head(changes) \in Nat /\ Head(changes) = changes[1] /\ Len(changes) \in Nat \ {0}
        /\ Len(changes') = Len(changes) - 1
        /\ \A i \in 1 .. Len(changes) - 1 : changes'[i] = changes[i + 1]
    BY <1>0, <2>1, TailFacts DEF OrderTypes
  <2>3. UNCHANGED <<LastChunk, Front>> /\ 1 \in 1 .. Len(changes)
    BY <1>1, <2>1, <2>2 DEF LastChunk, Front
  <2>4. ChunksOK'
    BY <1>0, <1>1, <2>1, <2>2, <2>3 DEF ChunksOK, ChangesOK, Before
  <2>5. ASSUME NEW i \in 1 .. Len(changes')
        PROVE  i + 1 \in 1 .. Len(changes) /\ 1 < i + 1 /\ changes'[i] = changes[i + 1] /\ changes'[i] \in Nat
    <3>1. i \in 1 .. Len(changes) - 1 /\ i + 1 \in 1 .. Len(changes) /\ 1 < i + 1
      BY <2>2
    <3>2. changes'[i] = changes[i + 1]
      BY <2>2, <3>1
    <3>3. changes[i + 1] \in Nat
      <4>1. changes \in Seq(Nat)
        BY <1>0 DEF OrderTypes
      <4> QED
        BY <3>1, <4>1
    <3> QED
      BY <3>1, <3>2, <3>3
  <2>6. inner'.session <= Front /\ LastChunk.session <= Front /\ (session # 0 => session > closed)
    BY <1>0, <2>1, <2>2, <2>3 DEF ChangesOK, OrderTypes
  <2>7. ASSUME NEW i \in 1 .. Len(changes'), changes'[i] # 0
        PROVE  LastChunk.session < changes'[i] /\ inner'.session < changes'[i] /\ changes'[i] <= Front
    BY <1>0, <2>1, <2>2, <2>3, <2>5, <2>7 DEF ChangesOK
  <2>8. ASSUME NEW i \in 1 .. Len(changes'), NEW j \in 1 .. Len(changes'), i < j, changes'[i] # 0, changes'[j] # 0
        PROVE  changes'[i] < changes'[j]
    <3>1. i + 1 < j + 1
      BY <2>2, <2>8
    <3> QED
      BY <1>0, <2>5, <2>8, <3>1 DEF ChangesOK
  <2> QED
    BY <1>1, <2>3, <2>4, <2>6, <2>7, <2>8 DEF ChangesOK
<1>3. CASE Subscribe \/ SourceOver \/ ReadSnapshot \/ Follow
  <2>1. UNCHANGED <<changes, queue, inner.session, LastChunk, Front>>
    BY <1>0, <1>1, <1>3 DEF Subscribe, SourceOver, ReadSnapshot, Follow, OrderTypes, InnerType, LastChunk, Front
  <2>2. ChangesOK'
    BY <1>0, <1>1, <2>1 DEF ChangesOK
  <2>3. /\ inner'.out # Nowhere => NotAfter(LastChunk, inner'.out)
        /\ inner'.stage \in {"asked", "subscribed"} => inner.stage \in {"asked", "subscribed"}
    <3>1. CASE Subscribe \/ SourceOver
      BY <1>0, <3>1 DEF Subscribe, SourceOver, InnerOK, OrderTypes, InnerType
    <3>2. CASE ReadSnapshot
      BY <1>0, <3>2 DEF ReadSnapshot, ReplayOf, ChunksOK, NotAfter, OrderTypes, InnerType
    <3>3. CASE Follow
      <4> DEFINE r == Head(inner.inbox)
      <4>1. /\ inner.stage = "following" /\ inner.out = Nowhere /\ inner.inbox # <<>> /\ inner.inbox \in Seq(Nat)
            /\ inner'.stage = "following" /\ inner'.out = IF r > inner.revision THEN Update(r) ELSE Nowhere
        BY <1>0, <3>3 DEF Follow, New, OrderTypes, InnerType
      <4>2. LastChunk.session = inner.session /\ LastChunk.revision = inner.revision
        BY <1>0, <4>1 DEF RevisionOK
      <4>3. r \in Nat
        BY <4>1, TailFacts
      <4> HIDE DEF r
      <4>4. Update(r).session = inner.session /\ Update(r).revision = r
        BY DEF Update, LiveOf, ReplayOf
      <4> QED
        BY <1>0, <4>1, <4>2, <4>3, <4>4 DEF NotAfter, OrderTypes
    <3> QED
      BY <1>3, <3>1, <3>2, <3>3
  <2> QED
    BY <1>0, <1>1, <2>1, <2>2, <2>3 DEF ChunksOK, Before
<1>4. CASE Yield
  <2>1. /\ inner.out # Nowhere /\ queue' = Append(queue, inner.out) /\ UNCHANGED changes
        /\ inner'.stage = "following" /\ inner'.out = Nowhere /\ UNCHANGED inner.session
    BY <1>0, <1>4 DEF Yield, OrderTypes, InnerType
  <2>2. inner.out \in Chunks /\ inner.out.session = inner.session
    <3>1. inner.stage \in {"replaying", "following"} /\ inner.out \in Chunks
      BY <1>0, <2>1 DEF InnerOK, OrderTypes, InnerType, Stages
    <3> QED
      BY <1>0, <2>1, <3>1 DEF RevisionOK
  <2>3. /\ queue' \in Seq(Chunks) /\ Len(queue') = Len(queue) + 1 /\ Len(queue) \in Nat
        /\ \A i \in 1 .. Len(queue) : queue'[i] = queue[i]
        /\ queue'[Len(queue) + 1] = inner.out
    BY <1>0, <2>1, <2>2, AppendFacts DEF OrderTypes
  <2>4. LastChunk' = inner.out
    BY <2>3 DEF LastChunk
  <2>5. ASSUME NEW i \in 1 .. Len(queue')
        PROVE  NotAfter((IF i = 1 THEN at ELSE queue'[i - 1]), queue'[i])
    <3>1. CASE i \in 1 .. Len(queue)
      <4>1. i # 1 => i - 1 \in 1 .. Len(queue)
        BY <2>3, <3>1
      <4> QED
        BY <1>0, <2>3, <3>1, <4>1 DEF ChunksOK, Before
    <3>2. CASE i = Len(queue) + 1
      <4>1. (IF i = 1 THEN at ELSE queue'[i - 1]) = LastChunk
        <5>1. CASE queue = <<>>
          BY <2>3, <3>2, <5>1 DEF LastChunk
        <5>2. CASE queue # <<>>
          <6>1. Len(queue) > 0
            BY <1>0, <5>2 DEF OrderTypes
          <6> QED
            BY <2>3, <3>2, <5>2, <6>1 DEF LastChunk
        <5> QED
          BY <5>1, <5>2
      <4> QED
        BY <1>0, <2>1, <2>3, <3>2, <4>1 DEF ChunksOK
    <3> QED
      BY <2>3, <3>1, <3>2
  <2>6. ChunksOK'
    BY <1>1, <2>1, <2>5 DEF ChunksOK, Before
  <2>7. UNCHANGED Front
    BY <1>1 DEF Front
  <2> QED
    BY <1>0, <1>1, <2>1, <2>2, <2>4, <2>6, <2>7 DEF ChangesOK
<1> QED
  BY <1>2, <1>3, <1>4 DEF Subscription

\* Taking a chunk, or applying a part of it, moves along the order.
LEMMA OrderApplying ==
  ASSUME OrderInv, Applying
  PROVE  ChunksOK' /\ ChangesOK' /\ (at' # at => NotAfter(at, at'))
<1>0. OrderTypes /\ ChunksOK /\ ChangesOK /\ at \in Chunks \cup {Nowhere}
  BY TypesOfOrder DEF OrderInv, ViewInv, Base, TypeOK
<1>1. UNCHANGED <<inner, changes, session, closed>>
  BY DEF Applying, TakeChunk, Apply, sessionVars
<1>2. CASE TakeChunk
  <2>1. at.left = {} /\ queue # <<>> /\ at' = Head(queue) /\ queue' = Tail(queue)
    BY <1>2 DEF TakeChunk
  <2>2. /\ at' = queue[1] /\ Len(queue) \in Nat \ {0} /\ queue' \in Seq(Chunks) /\ Len(queue') = Len(queue) - 1
        /\ \A i \in 1 .. Len(queue) - 1 : queue'[i] = queue[i + 1]
    BY <1>0, <2>1, TailFacts DEF OrderTypes
  <2>3. LastChunk' = LastChunk
    <3>1. CASE Len(queue) = 1
      BY <2>1, <2>2, <3>1 DEF LastChunk
    <3>2. CASE Len(queue) > 1
      <4>1. queue' # <<>> /\ Len(queue) - 1 \in 1 .. Len(queue) - 1
        BY <2>2, <3>2
      <4> QED
        BY <2>1, <2>2, <4>1 DEF LastChunk
    <3> QED
      BY <2>2, <3>1, <3>2
  <2>4. ASSUME NEW i \in 1 .. Len(queue') PROVE NotAfter(Before(i)', queue'[i])
    <3>1. i + 1 \in 1 .. Len(queue) /\ i + 1 # 1 /\ (i + 1) - 1 = i /\ queue'[i] = queue[i + 1]
      BY <2>2
    <3>2. NotAfter(queue[i], queue[i + 1])
      BY <1>0, <3>1 DEF ChunksOK, Before
    <3>3. Before(i)' = queue[i]
      <4>1. CASE i = 1
        BY <2>2, <4>1 DEF Before
      <4>2. CASE i # 1
        <5>1. i - 1 \in 1 .. Len(queue) - 1 /\ (i - 1) + 1 = i
          BY <2>2, <4>2
        <5> QED
          BY <2>2, <4>2, <5>1 DEF Before
      <4> QED
        BY <4>1, <4>2
    <3> QED
      BY <3>1, <3>2, <3>3
  <2>5. NotAfter(at, at')
    <3>1. 1 \in 1 .. Len(queue)
      BY <2>2
    <3> QED
      BY <1>0, <2>2, <3>1 DEF ChunksOK, Before
  <2>6. UNCHANGED Front
    BY <1>1 DEF Front
  <2> QED
    BY <1>0, <1>1, <2>3, <2>4, <2>5, <2>6 DEF ChunksOK, ChangesOK
<1>3. CASE Apply
  <2>1. UNCHANGED queue /\ at'.session = at.session /\ at'.revision = at.revision
    <3>1. PICK part \in NextParts : at' = [at EXCEPT !.left = @ \ {part}]
      BY <1>3 DEF Apply
    <3> QED
      BY <1>0, <1>3, <3>1 DEF Apply, Chunks, Nowhere
  <2>2. /\ \A d : NotAfter(at', d) <=> NotAfter(at, d)
        /\ \A d : NotAfter(LastChunk', d) <=> NotAfter(LastChunk, d)
        /\ LastChunk'.session = LastChunk.session
    BY <2>1 DEF NotAfter, LastChunk
  <2>3. \A i \in 1 .. Len(queue) : \A d : NotAfter(Before(i)', d) <=> NotAfter(Before(i), d)
    BY <2>1, <2>2 DEF Before
  <2>4. NotAfter(at, at')
    BY <1>0, <2>1 DEF NotAfter, OrderTypes
  <2>5. UNCHANGED Front
    BY <1>1 DEF Front
  <2>6. ChunksOK'
    BY <1>0, <1>1, <2>1, <2>2, <2>3 DEF ChunksOK
  <2> QED
    BY <1>0, <1>1, <2>2, <2>4, <2>5, <2>6 DEF ChangesOK
<1> QED
  BY <1>2, <1>3 DEF Applying

LEMMA OrderSupervisor ==
  ASSUME OrderInv, Supervisor
  PROVE  ChunksOK' /\ ChangesOK'
<1>0. OrderTypes /\ ChunksOK /\ ChangesOK
  BY TypesOfOrder DEF OrderInv
<1>1. UNCHANGED <<inner, queue, at, LastChunk>>
  BY DEF Supervisor, OpenSession, Establish, LoseSession, SetSession, LastChunk
<1>2. ChunksOK'
  BY <1>0, <1>1 DEF ChunksOK, Before
<1>3. CASE OpenSession
  <2>1. UNCHANGED <<changes, session, closed, Front>>
    BY <1>3 DEF OpenSession, Front
  <2> QED
    BY <1>0, <1>1, <1>2, <2>1 DEF ChangesOK
<1>4. ASSUME NEW s \in Nat, SetSession(s), s = 0 \/ (s > session /\ s > closed)
      PROVE  ChangesOK'
  <2>1. session' = s /\ closed' = (IF session = 0 THEN closed ELSE session) /\ changes' = Append(changes, s)
    BY <1>4 DEF SetSession
  <2>2. /\ Len(changes') = Len(changes) + 1 /\ Len(changes) \in Nat /\ changes'[Len(changes) + 1] = s
        /\ \A i \in 1 .. Len(changes) : changes'[i] = changes[i] /\ changes[i] \in Nat
    <3>1. changes \in Seq(Nat)
      BY <1>0 DEF OrderTypes
    <3>2. \A i \in 1 .. Len(changes) : changes[i] \in Nat
      BY <3>1
    <3> QED
      BY <2>1, <3>1, <3>2, AppendFacts
  <2>3. /\ Front <= Front' /\ s <= Front' /\ Front' \in Nat /\ (s # 0 => Front < s) /\ (s # 0 => s > closed')
    <3>1. /\ closed \in Nat /\ session \in Nat /\ (session # 0 => session > closed)
          /\ Front = (IF session = 0 THEN closed ELSE session)
          /\ Front' = (IF s = 0 THEN Front ELSE s)
      BY <1>0, <2>1 DEF ChangesOK, OrderTypes, Front
    <3> QED
      BY <1>4, <2>1, <3>1
  <2>4. LastChunk.session <= Front /\ inner.session <= Front
    BY <1>0 DEF ChangesOK
  <2>5. ASSUME NEW i \in 1 .. Len(changes'), changes'[i] # 0
        PROVE  LastChunk.session < changes'[i] /\ inner.session < changes'[i] /\ changes'[i] <= Front'
    <3>1. CASE i \in 1 .. Len(changes)
      <4>1. changes'[i] = changes[i] /\ changes[i] # 0 /\ changes[i] \in Nat
        BY <2>2, <2>5, <3>1
      <4>2. LastChunk.session < changes[i] /\ inner.session < changes[i] /\ changes[i] <= Front
        BY <1>0, <3>1, <4>1 DEF ChangesOK
      <4> QED
        BY <1>0, <2>3, <4>1, <4>2 DEF OrderTypes
    <3>2. CASE i = Len(changes) + 1
      <4>1. changes'[i] = s /\ s # 0
        BY <2>2, <2>5, <3>2
      <4>2. LastChunk.session \in Nat /\ inner.session \in Nat /\ Front \in Nat
        BY <1>0 DEF OrderTypes
      <4>3. LastChunk.session <= Front /\ inner.session <= Front /\ Front < s /\ s <= Front' /\ Front' \in Nat
        BY <2>3, <2>4, <4>1
      <4>4. LastChunk.session < s /\ inner.session < s
        BY <4>2, <4>3, <1>4
      <4> QED
        BY <2>4, <4>1, <4>3, <4>4
    <3> QED
      BY <2>2, <3>1, <3>2
  <2>6. ASSUME NEW i \in 1 .. Len(changes'), NEW j \in 1 .. Len(changes'), i < j, changes'[i] # 0, changes'[j] # 0
        PROVE  changes'[i] < changes'[j]
    <3>1. i \in 1 .. Len(changes)
      BY <2>2, <2>6
    <3>2. CASE j \in 1 .. Len(changes)
      BY <1>0, <2>2, <2>6, <3>1, <3>2 DEF ChangesOK
    <3>3. CASE j = Len(changes) + 1
      <4>1. changes[i] <= Front /\ changes[i] \in Nat /\ changes'[i] = changes[i]
        BY <1>0, <2>2, <2>6, <3>1 DEF ChangesOK
      <4>2. Front \in Nat /\ changes'[j] = s /\ Front < s
        BY <1>0, <2>2, <2>3, <2>6, <3>3 DEF OrderTypes
      <4> QED
        BY <1>4, <4>1, <4>2
    <3> QED
      BY <2>2, <3>2, <3>3
  <2>7. /\ session' # 0 => session' > closed'
        /\ LastChunk'.session <= Front' /\ inner'.session <= Front'
    BY <1>0, <1>1, <2>1, <2>3, <2>4 DEF OrderTypes
  <2> QED
    BY <1>1, <2>5, <2>6, <2>7 DEF ChangesOK
<1>5. CASE Establish
  BY <1>0, <1>2, <1>4, <1>5 DEF Establish, OrderTypes
<1>6. CASE LoseSession
  BY <1>2, <1>4, <1>6 DEF LoseSession
<1> QED
  BY <1>2, <1>3, <1>5, <1>6 DEF Supervisor

LEMMA OrderStep ==
  ASSUME OrderInv, [Next]_vars
  PROVE  /\ OrderInv'
         /\ at' # at /\ at' # Nowhere => NotAfter(at, at')
<1>0. OrderTypes /\ ChunksOK /\ ChangesOK /\ ViewInv'
  BY TypesOfOrder, ViewStep DEF OrderInv
<1>1. CASE Subscription
  <2>1. UNCHANGED at
    BY <1>1 DEF Subscription, Switch, Subscribe, ReadSnapshot, Follow, Yield, SourceOver
  <2> QED
    BY <1>0, <1>1, <2>1, OrderSubscription DEF OrderInv
<1>2. CASE Applying
  BY <1>0, <1>2, OrderApplying DEF OrderInv
<1>3. CASE Supervisor
  <2>1. UNCHANGED at
    BY <1>3 DEF Supervisor, OpenSession, Establish, LoseSession, SetSession
  <2> QED
    BY <1>0, <1>3, <2>1, OrderSupervisor DEF OrderInv
<1>4. CASE Lifecycle
  <2>1. inner' = Idle /\ queue' = <<>> /\ at' = Nowhere /\ changes' = <<session>> /\ UNCHANGED <<session, closed>>
    BY <1>4 DEF Lifecycle, Close, Crash, Restart, sessionVars
  <2>2. LastChunk'.session = 0 /\ inner'.session = 0
    BY <2>1 DEF LastChunk, Nowhere, Idle
  <2>3. ChunksOK'
    BY <2>1 DEF ChunksOK, Idle
  <2>4. session <= Front /\ 0 <= Front /\ Front' = Front /\ Len(changes') = 1 /\ changes'[1] = session
    BY <1>0, <2>1 DEF OrderTypes, Front
  <2>5. ChangesOK'
    <3>1. \A i \in 1 .. 1 : i = 1
      OBVIOUS
    <3> QED
      BY <1>0, <2>1, <2>2, <2>4, <3>1 DEF ChangesOK, OrderTypes
  <2> QED
    BY <1>0, <2>1, <2>3, <2>5 DEF OrderInv
<1>5. CASE Server \/ Publishing \/ Saving \/ UNCHANGED vars
  <2>1. UNCHANGED <<queue, at, changes, session, closed>>
    BY <1>5 DEF Server, Receive, EndSource, Publishing, Publish, Saving, StartSave, Saved, SaveFails, vars, sessionVars
  <2>2. /\ inner'.out = inner.out /\ inner'.stage = inner.stage /\ inner'.session = inner.session
    <3>1. CASE Publishing
      BY <1>0, <3>1 DEF Publishing, Publish, OrderTypes, InnerType
    <3>2. CASE Server \/ Saving \/ UNCHANGED vars
      BY <3>2 DEF Server, Receive, EndSource, Saving, StartSave, Saved, SaveFails, vars
    <3> QED
      BY <1>5, <3>1, <3>2
  <2>3. UNCHANGED <<LastChunk, Front>>
    BY <2>1 DEF LastChunk, Front
  <2>4. ChunksOK' /\ ChangesOK'
    BY <1>0, <2>1, <2>2, <2>3 DEF ChunksOK, ChangesOK, Before
  <2> QED
    BY <1>0, <2>1, <2>4 DEF OrderInv
<1> QED
  BY <1>1, <1>2, <1>3, <1>4, <1>5 DEF Next

LEMMA OrderInit == Init => OrderInv
<1> SUFFICES ASSUME Init PROVE ChunksOK /\ ChangesOK
  BY ViewInit DEF OrderInv
<1>1. LastChunk.session = 0 /\ inner.session = 0 /\ Front = 0 /\ Len(changes) = 1 /\ changes[1] = 0
  BY DEF Init, LastChunk, Nowhere, Idle, Front
<1>2. \A i \in 1 .. 1 : i = 1
  OBVIOUS
<1> QED
  BY <1>1, <1>2 DEF Init, ChunksOK, ChangesOK, Idle

\* The app never applies a chunk of a session, or of a revision, behind the one
\* it was at: the sessions it follows are the ones the supervisor published, in
\* their order, and a stream that is switched away from yields no more
\* (rpc/client.ts, subscribeDurable; rpc/session.ts, serverConfigEvents).
THEOREM NeverGoesBackCorrect == Spec => NeverGoesBack
<1>1. Init => OrderInv
  BY OrderInit
<1>2. OrderInv /\ [Next]_vars => OrderInv'
  BY OrderStep
<1>3. OrderInv /\ [Next]_vars
        => [at' # at /\ at' # Nowhere
              => \/ at'.session > at.session
                 \/ at'.session = at.session /\ at'.revision >= at.revision]_vars
  <2> SUFFICES ASSUME OrderInv, [Next]_vars, at' # at, at' # Nowhere
               PROVE  \/ at'.session > at.session
                      \/ at'.session = at.session /\ at'.revision >= at.revision
    OBVIOUS
  <2>1. NotAfter(at, at')
    BY OrderStep
  <2>2. at.session \in Nat /\ at.revision \in Nat /\ at'.session \in Nat /\ at'.revision \in Nat
    <3>1. at \in Chunks \cup {Nowhere} /\ at' \in Chunks \cup {Nowhere}
      BY OrderStep DEF OrderInv, ViewInv, Base, TypeOK
    <3> QED
      BY <3>1 DEF Chunks, Nowhere, Sessions
  <2> QED
    BY <2>1, <2>2 DEF NotAfter
<1> QED
  BY <1>1, <1>2, <1>3, PTL DEF Spec, NeverGoesBack

-----------------------------------------------------------------------------
(* Where the subscription stops.                                           *)

\* The guards of Publishing, Subscription and Applying.
CanPublish == \E s \in Sessions : Running(s) /\ published[s] < Len(log[s])
CanFollow ==
  \/ changes # <<>>
  \/ inner.stage = "asked" /\ Initialised(inner.session)
  \/ inner.stage = "subscribed"
  \/ /\ inner.stage = "following"
     /\ inner.session \in over \/ (inner.out = Nowhere /\ inner.inbox # <<>>)
  \/ inner.out # Nowhere /\ Len(queue) < QueueSize
CanApply == at.left # {} \/ queue # <<>>

\* The app is at the last configuration of the session that is published, and shows it.
ShowsSession ==
  /\ session \in Sessions \ over /\ inner.session = session
  /\ at.session = session /\ at.revision = Len(log[session]) /\ at.left = {}
  /\ view # None /\ Agrees(view, ReplayState(session), Kinds)
StopsWhenCurrent ==
  ~(CanPublish \/ CanFollow \/ CanApply) =>
    \/ session = 0 /\ inner.stage = "idle"
    \/ session \in over /\ inner.stage = "drained"
    \/ ShowsSession

\* The published session has its initial configuration, the changes that the subscription has
\* not seen lead to it, and a stream ends with its source.
FollowInv ==
  /\ session # 0 => session \in Sessions /\ Initialised(session)
  /\ IF changes = <<>> THEN inner.session = session ELSE changes[Len(changes)] = session
  /\ inner.stage = "idle" <=> inner.session = 0
  /\ inner.stage = "drained" => inner.session \in over

LEMMA InitialisedStays ==
  ASSUME Base, NEW s \in Sessions, Initialised(s),
         \/ UNCHANGED <<log, published>>
         \/ \E t \in Sessions : Receive(t) \/ Publish(t)
  PROVE  Initialised(s)'
<1>0. /\ log \in [Sessions -> Seq(Entries)] /\ published \in [Sessions -> Nat]
      /\ \A t \in Sessions : published[t] <= Len(log[t]) /\ Len(log[t]) \in Nat
  <2>1. log \in [Sessions -> Seq(Entries)] /\ published \in [Sessions -> Nat]
    BY DEF Base, TypeOK
  <2>2. \A t \in Sessions : Len(log[t]) \in Nat
    BY <2>1
  <2> QED
    BY <2>1, <2>2 DEF Base, PublishedOK
<1>1. PICK r \in 1 .. published[s] : log[s][r].event.type = "snapshot"
  BY DEF Initialised
<1>2. CASE UNCHANGED <<log, published>>
  BY <1>1, <1>2 DEF Initialised
<1>3. ASSUME NEW t \in Sessions, Receive(t) PROVE Initialised(s)'
  <2>1. Grows(log, log') /\ published' = published
    BY <1>3, ReceiveFacts DEF Receive
  <2>2. r \in 1 .. Len(log[s])
    BY <1>0, <1>1
  <2>3. log'[s][r] = log[s][r]
    BY <2>1, <2>2 DEF Grows
  <2> QED
    BY <1>1, <2>1, <2>3 DEF Initialised
<1>4. ASSUME NEW t \in Sessions, Publish(t) PROVE Initialised(s)'
  <2>1. log' = log /\ published' = [published EXCEPT ![t] = @ + 1]
    BY <1>4 DEF Publish
  <2>2. published'[s] \in Nat /\ published[s] <= published'[s]
    BY <1>0, <2>1
  <2>3. r \in 1 .. published'[s]
    BY <1>0, <1>1, <2>2
  <2> QED
    BY <1>1, <2>1, <2>3 DEF Initialised
<1> QED
  BY <1>2, <1>3, <1>4

LEMMA FollowInit == Init => FollowInv
<1> SUFFICES ASSUME Init PROVE FollowInv
  OBVIOUS
<1>1. changes = <<0>> /\ Len(changes) = 1 /\ changes[1] = 0 /\ session = 0
  BY DEF Init
<1> QED
  BY <1>1 DEF Init, Idle, FollowInv

LEMMA FollowSubscription ==
  ASSUME Base, FollowInv, Subscription
  PROVE  FollowInv'
<1>0. /\ inner \in InnerType /\ changes \in Seq(0 .. MaxSessions) /\ InnerOK
  BY DEF Base, TypeOK, InnerType
<1>1. UNCHANGED <<log, published, over, session>>
  BY DEF Subscription, Switch, Subscribe, ReadSnapshot, Follow, Yield, SourceOver, serverVars,
         sessionVars
<1>2. session # 0 => session \in Sessions /\ Initialised(session)'
  BY <1>1, InitialisedStays DEF FollowInv
<1>3. CASE Switch
  <2>1. changes # <<>> /\ changes' = Tail(changes)
    BY <1>3 DEF Switch
  <2>2. /\ Head(changes) = changes[1] /\ Len(changes') = Len(changes) - 1 /\ Len(changes) \in Nat \ {0}
        /\ \A i \in 1 .. Len(changes') : changes'[i] = changes[i + 1]
    BY <1>0, <2>1, TailFacts
  <2>3. changes[Len(changes)] = session
    BY <2>1 DEF FollowInv
  <2>4. inner'.session = Head(changes) /\ inner'.stage # "drained"
    BY <1>3 DEF Switch, Idle
  <2>5. inner'.stage = "idle" <=> inner'.session = 0
    BY <1>3 DEF Switch, Idle
  <2>6. CASE changes' = <<>>
    <3>1. Len(changes) = 1
      BY <2>2, <2>6
    <3> QED
      BY <1>1, <1>2, <2>2, <2>3, <2>4, <2>5, <2>6, <3>1 DEF FollowInv
  <2>7. CASE changes' # <<>>
    <3>1. Len(changes') \in 1 .. Len(changes')
      BY <1>0, <2>1, <2>7, TailFacts
    <3>2. changes'[Len(changes')] = changes[Len(changes)]
      BY <2>2, <3>1
    <3> QED
      BY <1>1, <1>2, <2>3, <2>4, <2>5, <2>7, <3>2 DEF FollowInv
  <2> QED
    BY <2>6, <2>7
<1>4. CASE Subscribe \/ ReadSnapshot \/ Follow \/ Yield \/ SourceOver
  <2>1. changes' = changes /\ inner'.session = inner.session /\ inner.stage # "idle"
    BY <1>0, <1>4 DEF Subscribe, ReadSnapshot, Follow, Yield, SourceOver, InnerType, InnerOK
  <2>2. inner'.stage \in {"subscribed", "replaying", "following", "drained"}
    BY <1>0, <1>4 DEF Subscribe, ReadSnapshot, Follow, Yield, SourceOver, InnerType, Stages
  <2>3. inner'.stage = "drained" => inner.session \in over
    BY <1>0, <1>4 DEF Subscribe, ReadSnapshot, Follow, Yield, SourceOver, InnerType, Stages
  <2> QED
    BY <1>1, <1>2, <2>1, <2>2, <2>3 DEF FollowInv
<1> QED
  BY <1>3, <1>4 DEF Subscription

LEMMA FollowSupervisor ==
  ASSUME Base, FollowInv, Supervisor
  PROVE  FollowInv'
<1>0. /\ changes \in Seq(0 .. MaxSessions) /\ {opened, session, closed} \subseteq 0 .. MaxSessions
      /\ MaxSessions \in Nat
  BY ConfigAssumption DEF Base, TypeOK
<1>1. UNCHANGED <<log, published, over, inner>>
  BY DEF Supervisor, OpenSession, Establish, LoseSession, SetSession, serverVars
<1>2. CASE OpenSession
  BY <1>1, <1>2, InitialisedStays DEF OpenSession, FollowInv
<1>3. ASSUME NEW s \in 0 .. MaxSessions, SetSession(s), s # 0 => Initialised(s)
      PROVE  FollowInv'
  <2>1. session' = s /\ changes' = Append(changes, s)
    BY <1>3 DEF SetSession
  <2>2. Len(changes') = Len(changes) + 1 /\ Len(changes) \in Nat /\ changes'[Len(changes) + 1] = s
    BY <1>0, <2>1, AppendFacts
  <2>3. changes' # <<>> /\ changes'[Len(changes')] = s
    BY <2>2
  <2>4. s # 0 => s \in Sessions /\ Initialised(s)'
    BY <1>0, <1>1, <1>3, InitialisedStays DEF Sessions
  <2> QED
    BY <1>1, <2>1, <2>3, <2>4 DEF FollowInv
<1>4. CASE Establish
  BY <1>0, <1>3, <1>4 DEF Establish
<1>5. CASE LoseSession
  BY <1>0, <1>3, <1>5 DEF LoseSession
<1> QED
  BY <1>2, <1>4, <1>5 DEF Supervisor

LEMMA FollowStep == Base /\ FollowInv /\ [Next]_vars => FollowInv'
<1> SUFFICES ASSUME Base, FollowInv, [Next]_vars PROVE FollowInv'
  OBVIOUS
<1>1. CASE Server \/ Publishing
  <2>1. PICK s \in Sessions : Receive(s) \/ EndSource(s) \/ Publish(s)
    BY <1>1 DEF Server, Publishing
  <2>2. UNCHANGED <<session, changes>> /\ over \subseteq over'
    BY <2>1 DEF Receive, EndSource, Publish, sessionVars
  <2>3. session # 0 => session \in Sessions /\ Initialised(session)'
    <3>1. UNCHANGED <<log, published>> \/ \E t \in Sessions : Receive(t) \/ Publish(t)
      BY <2>1 DEF EndSource
    <3>2. ASSUME NEW t \in Sessions, Initialised(t) PROVE Initialised(t)'
      BY <3>1, <3>2, InitialisedStays
    <3> QED
      BY <2>2, <3>2 DEF FollowInv
  <2>4. inner'.stage = inner.stage /\ inner'.session = inner.session
    BY <2>1 DEF Receive, EndSource, Publish, Base, TypeOK
  <2> QED
    BY <2>2, <2>3, <2>4 DEF FollowInv
<1>2. CASE Lifecycle
  <2>1. /\ UNCHANGED <<log, published, over, session>> /\ changes' = <<session>>
        /\ inner' = Idle
    BY <1>2 DEF Lifecycle, Close, Crash, Restart, sessionVars, serverVars
  <2>2. changes' # <<>> /\ Len(changes') = 1 /\ changes'[1] = session
    BY <2>1
  <2>3. session # 0 => session \in Sessions /\ Initialised(session)'
    BY <2>1, InitialisedStays DEF FollowInv
  <2> QED
    BY <2>1, <2>2, <2>3 DEF FollowInv, Idle
<1>3. CASE Applying \/ Saving \/ UNCHANGED vars
  <2>1. UNCHANGED <<log, published, over, session, changes, inner>>
    BY <1>3 DEF Applying, TakeChunk, Apply, Saving, StartSave, Saved, SaveFails, vars, sessionVars,
                serverVars
  <2>2. session # 0 => session \in Sessions /\ Initialised(session)'
    BY <2>1, InitialisedStays DEF FollowInv
  <2> QED
    BY <2>1, <2>2 DEF FollowInv
<1> QED
  BY <1>1, <1>2, <1>3, FollowSubscription, FollowSupervisor DEF Next

LEMMA StopIsCurrent ==
  ASSUME SeenInv, OrderInv, FollowInv
  PROVE  StopsWhenCurrent
<1> SUFFICES ASSUME ~CanPublish, ~CanFollow, ~CanApply, session # 0,
                    ~(session \in over /\ inner.stage = "drained")
             PROVE  ShowsSession
  <2>1. CASE session = 0
    <3>1. inner.stage = "idle" \/ CanFollow
      BY <2>1 DEF FollowInv, CanFollow
    <3> QED
      BY <2>1, <3>1 DEF StopsWhenCurrent
  <2> QED
    BY <2>1 DEF StopsWhenCurrent
<1>0. /\ Base /\ inner \in InnerType /\ QueueSize \in Nat \ {0}
      /\ log \in [Sessions -> Seq(Entries)] /\ published \in [Sessions -> Nat]
  BY ConfigAssumption DEF SeenInv, ViewInv, Base, TypeOK, InnerType
<1>1. changes = <<>> /\ queue = <<>> /\ at.left = {} /\ Len(queue) = 0
  BY DEF CanFollow, CanApply
<1>2. session \in Sessions /\ Initialised(session) /\ inner.session = session /\ session > closed
  BY <1>1 DEF FollowInv, OrderInv, ChangesOK
<1>3. inner.out = Nowhere
  BY <1>0, <1>1 DEF CanFollow
<1>4. inner.stage \in {"following", "drained"}
  <2>1. inner.stage \in Stages /\ inner.stage # "idle"
    BY <1>0, <1>2 DEF InnerType, FollowInv, Sessions
  <2>2. inner.stage # "asked" /\ inner.stage # "subscribed"
    BY <1>2 DEF CanFollow
  <2>3. inner.stage # "replaying"
    BY <1>3 DEF SeenInv, ViewInv, RevisionOK
  <2> QED
    BY <2>1, <2>2, <2>3 DEF Stages
<1>5. inner.stage = "following" /\ session \notin over /\ inner.inbox = <<>>
  BY <1>2, <1>3, <1>4 DEF CanFollow, FollowInv
<1>6. published[session] = Len(log[session])
  <2>1. Running(session)
    BY <1>2, <1>5 DEF Running
  <2>2. ~(published[session] < Len(log[session]))
    BY <1>2, <2>1 DEF CanPublish
  <2>3. published[session] \in {Len(log[session]) - 1, Len(log[session])}
    BY <1>0, <1>2 DEF Base, PublishedOK
  <2>4. Len(log[session]) \in Nat
    BY <1>0, <1>2
  <2> QED
    BY <2>2, <2>3, <2>4
<1>7. Quiet
  BY <1>1, <1>2, <1>3, <1>5, <1>6 DEF Quiet
<1>8. at.session = session /\ at.revision = Len(log[session])
  BY <1>2, <1>7, SeenIsCurrent DEF QuietIsCurrent
<1>9. at # Nowhere
  BY <1>2, <1>8 DEF Nowhere, Sessions
<1>10. view # None /\ Agrees(view, EntryOf(at), Kinds)
  BY <1>1, <1>9, ViewFollows DEF ViewFollowsSource, SeenInv
<1>11. EntryOf(at) = ReplayState(session)
  BY <1>8 DEF EntryOf, ReplayState
<1> QED
  BY <1>1, <1>2, <1>5, <1>8, <1>10, <1>11 DEF ShowsSession

\* rpc/session.ts, rpc/client.ts (subscribeDurable) and state/server.ts: publisher, durable
\* subscription and projection come to a stop only where there is no session, where the
\* source of the session has ended, or where the app shows the last configuration of the
\* session that the supervisor publishes. No lost update, change of session, restart or full
\* queue leaves them waiting for each other while the view is behind.
THEOREM StopsWhenCurrentCorrect == Spec => []StopsWhenCurrent
<1>1. Init => SeenInv /\ OrderInv /\ FollowInv
  <2> SUFFICES ASSUME Init PROVE SeenInv /\ OrderInv /\ FollowInv
    OBVIOUS
  <2>1. SeenInv
    BY ViewInit DEF SeenInv, Init, Idle, InboxOK
  <2>2. OrderInv
    BY OrderInit
  <2> QED
    BY <2>1, <2>2, FollowInit
<1>2. SeenInv /\ OrderInv /\ FollowInv /\ [Next]_vars => (SeenInv /\ OrderInv /\ FollowInv)'
  BY SeenStep, OrderStep, FollowStep DEF SeenInv, ViewInv
<1>3. SeenInv /\ OrderInv /\ FollowInv => StopsWhenCurrent
  BY StopIsCurrent
<1> QED
  BY <1>1, <1>2, <1>3, PTL DEF Spec
=============================================================================
