------------------------- MODULE OutboxDrain_proofs -------------------------
(***************************************************************************)
(* The drain and the editors never both work on a message; once the writes *)
(* are made the draft is on disk, unless the last of them failed; and a    *)
(* saved text is on disk or with the server, but for what a rollback takes *)
(* after a failure.                                                        *)
(* No task waits for what nobody will do, and no message blocks the queue. *)
(* For any numbers of messages, pieces, failures and events.               *)
(***************************************************************************)
EXTENDS OutboxDrain, WellFoundedInduction, TLAPS

USE DrainAssumption

\* The writes a task waits for, and the stage it waits in.
Awaited == {"merge", "flush", "turn", "undo"}
Backed(w, ts) ==
  /\ w.kind = "merge" => ts[w.owner].stage = "merging"
  /\ w.kind \in {"flush", "turn"} => ts[w.owner].stage = "flushing"
  /\ w.kind = "undo" => ts[w.owner].stage = "undoing"

\* A task waits for no write of this queue.
Free(ws, o) == \A i \in 1 .. Len(ws) : ws[i].owner = o => ws[i].kind \notin Awaited

\* An awaited write has its task waiting in the stage it was made in, and a
\* task waits for one write at a time: a write that lands moves only a task
\* that is past its checks.
WritesOK(ws, ts) ==
  /\ \A i \in 1 .. Len(ws) : Backed(ws[i], ts)
  /\ \A i, j \in 1 .. Len(ws) :
       ws[i].owner = ws[j].owner /\ ws[i].kind \in Awaited /\ ws[j].kind \in Awaited => i = j

Inv == TypeOK /\ WritesOK(writes, tasks) /\ OneOwner

-----------------------------------------------------------------------------
(* Texts and sequences. *)

LEMMA AppendFacts ==
  ASSUME NEW S, NEW q \in Seq(S), NEW x \in S
  PROVE  /\ Append(q, x) \in Seq(S) /\ Len(Append(q, x)) = Len(q) + 1 /\ Len(q) \in Nat
         /\ \A i \in 1 .. Len(q) : Append(q, x)[i] = q[i]
         /\ Append(q, x)[Len(q) + 1] = x
  OBVIOUS

LEMMA TailFacts ==
  ASSUME NEW S, NEW q \in Seq(S), q # <<>>
  PROVE  /\ Tail(q) \in Seq(S) /\ Head(q) \in S /\ Head(q) = q[1]
         /\ Len(Tail(q)) = Len(q) - 1 /\ Len(q) \in Nat \ {0}
         /\ \A i \in 1 .. Len(Tail(q)) : Tail(q)[i] = q[i + 1]
  OBVIOUS

LEMMA PiecesType ==
  ASSUME NEW text \in Texts
  PROVE  Pieces(text) \subseteq Nat
  BY DEF Pieces, ToSet, Texts

LEMMA MergeType ==
  ASSUME NEW text \in Texts, NEW incoming \in Texts
  PROVE  Merge(text, incoming) \in Texts
<1>1. text \o incoming \in Texts
  BY DEF Texts
<1>2. <<Break>> \in Texts
  BY DEF Texts, Break
<1>3. text \o <<Break>> \o incoming \in Texts
  BY <1>2 DEF Texts
<1>4. QED
  BY <1>1, <1>3 DEF Merge

LEMMA PartType ==
  ASSUME NEW text \in Texts, NEW a \in Nat, NEW b \in Nat, a >= 1, b <= Len(text)
  PROVE  SubSeq(text, a, b) \in Texts
  BY DEF Texts

LEMMA UndoneType ==
  ASSUME NEW text \in Texts, NEW snapshot \in Texts, NEW merged \in Texts
  PROVE  Undone(text, snapshot, merged) \in Texts
<1> DEFINE inserted == IF IsPrefix(snapshot, merged)
                         THEN SubSeq(merged, Len(snapshot) + 1, Len(merged)) ELSE <<>>
<1>1. Len(text) \in Nat /\ Len(snapshot) \in Nat /\ Len(merged) \in Nat
  BY DEF Texts
<1>2. inserted \in Texts
  <2>1. SubSeq(merged, Len(snapshot) + 1, Len(merged)) \in Texts
    BY <1>1, PartType
  <2>2. QED
    BY <2>1 DEF Texts
<1>3. snapshot \o SubSeq(text, Len(merged) + 1, Len(text)) \in Texts
  <2>1. SubSeq(text, Len(merged) + 1, Len(text)) \in Texts
    BY <1>1, PartType
  <2>2. QED
    BY <2>1 DEF Texts
<1>4. SubSeq(text, 1, Len(text) - Len(inserted)) \in Texts
  <2>1. Len(inserted) \in Nat
    BY <1>2 DEF Texts
  <2>2. Len(text) - Len(inserted) <= Len(text) /\ Len(text) - Len(inserted) \in Int
    BY <1>1, <2>1
  <2>3. QED
    BY <1>1, <2>2 DEF Texts
<1>5. QED
  BY <1>2, <1>3, <1>4 DEF Undone

LEMMA TaskType ==
  ASSUME NEW stage \in Stages, NEW m \in Owners
  PROVE  Task(stage, m) \in Tasks /\ Task(stage, m).stage = stage /\ Task(stage, m).id = m
  BY DEF Task, Tasks, Texts

LEMMA IdleType == Idle \in Tasks /\ Idle.stage = "idle"
  BY TaskType DEF Idle, Owners, Stages

-----------------------------------------------------------------------------
(* The writes and the tasks. *)

LEMMA WritesMoved ==
  ASSUME NEW ws \in Seq(Records), NEW ts, NEW us, NEW o,
         WritesOK(ws, ts), Free(ws, o), \A p \in Owners : p # o => us[p] = ts[p]
  PROVE  WritesOK(ws, us)
<1>1. ASSUME NEW i \in 1 .. Len(ws) PROVE Backed(ws[i], us)
  <2>1. ws[i] \in Records /\ Backed(ws[i], ts)
    BY DEF WritesOK
  <2>2. CASE ws[i].kind \in Awaited
    <3>1. ws[i].owner # o /\ ws[i].owner \in Owners
      BY <2>1, <2>2 DEF Free, Records
    <3>2. us[ws[i].owner] = ts[ws[i].owner]
      BY <3>1
    <3>3. QED
      BY <2>1, <3>2 DEF Backed
  <2>3. CASE ws[i].kind \notin Awaited
    BY <2>3 DEF Backed, Awaited
  <2>4. QED
    BY <2>2, <2>3
<1>2. QED
  BY <1>1 DEF WritesOK

LEMMA WritesAwaited ==
  ASSUME NEW ws \in Seq(Records), NEW ts, NEW us, NEW w \in Records,
         WritesOK(ws, ts), Free(ws, w.owner), Backed(w, us),
         \A p \in Owners : p # w.owner => us[p] = ts[p]
  PROVE  WritesOK(Append(ws, w), us)
<1>1. WritesOK(ws, us)
  BY WritesMoved
<1>2. QED
  <2> DEFINE vs == Append(ws, w)
  <2>1. /\ Len(vs) = Len(ws) + 1 /\ Len(ws) \in Nat /\ vs[Len(ws) + 1] = w
        /\ \A i \in 1 .. Len(ws) : vs[i] = ws[i]
    BY AppendFacts
  <2>2. \A i \in 1 .. Len(vs) : i = Len(ws) + 1 \/ i \in 1 .. Len(ws)
    BY <2>1
  <2> HIDE DEF vs
  <2>3. \A i \in 1 .. Len(vs) : Backed(vs[i], us)
    BY <1>1, <2>1, <2>2 DEF WritesOK
  <2>4. ASSUME NEW i \in 1 .. Len(vs), NEW j \in 1 .. Len(vs),
               vs[i].owner = vs[j].owner, vs[i].kind \in Awaited, vs[j].kind \in Awaited
        PROVE  i = j
    BY <1>1, <2>1, <2>2, <2>4 DEF WritesOK, Free
  <2>5. WritesOK(vs, us)
    BY <2>3, <2>4 DEF WritesOK
  <2>6. QED
    BY <2>5 DEF vs

LEMMA WritesUnawaited ==
  ASSUME NEW ws \in Seq(Records), NEW ts, NEW w \in Records, WritesOK(ws, ts), w.kind \notin Awaited
  PROVE  WritesOK(Append(ws, w), ts)
<1> DEFINE vs == Append(ws, w)
<1>1. /\ Len(vs) = Len(ws) + 1 /\ Len(ws) \in Nat /\ vs[Len(ws) + 1] = w
      /\ \A i \in 1 .. Len(ws) : vs[i] = ws[i]
  BY AppendFacts
<1>2. \A i \in 1 .. Len(vs) : i = Len(ws) + 1 \/ i \in 1 .. Len(ws)
  BY <1>1
<1> HIDE DEF vs
<1>3. Backed(w, ts)
  BY DEF Backed, Awaited
<1>4. WritesOK(vs, ts)
  BY <1>1, <1>2, <1>3 DEF WritesOK
<1>5. QED
  BY <1>4 DEF vs

LEMMA WritesTaken ==
  ASSUME NEW ws \in Seq(Records), NEW ts, WritesOK(ws, ts), ws # <<>>
  PROVE  /\ Tail(ws) \in Seq(Records) /\ WritesOK(Tail(ws), ts) /\ Head(ws) \in Records
         /\ Backed(Head(ws), ts)
         /\ Head(ws).kind \in Awaited => Free(Tail(ws), Head(ws).owner)
<1>1. /\ Tail(ws) \in Seq(Records) /\ Head(ws) \in Records /\ Head(ws) = ws[1]
      /\ Len(Tail(ws)) = Len(ws) - 1 /\ Len(ws) \in Nat \ {0}
      /\ \A i \in 1 .. Len(Tail(ws)) : Tail(ws)[i] = ws[i + 1]
  BY TailFacts
<1> DEFINE vs == Tail(ws)
<1>2. \A i \in 1 .. Len(vs) : i + 1 \in 1 .. Len(ws) /\ vs[i] = ws[i + 1] /\ i + 1 # 1 /\ i \in Nat
  BY <1>1
<1>3. 1 \in 1 .. Len(ws)
  BY <1>1
<1> HIDE DEF vs
<1>4. \A i \in 1 .. Len(vs) : Backed(vs[i], ts)
  BY <1>2 DEF WritesOK
<1>5. ASSUME NEW i \in 1 .. Len(vs), NEW j \in 1 .. Len(vs),
             vs[i].owner = vs[j].owner, vs[i].kind \in Awaited, vs[j].kind \in Awaited
      PROVE  i = j
  <2>1. i + 1 = j + 1
    BY <1>2, <1>5 DEF WritesOK
  <2>2. QED
    BY <1>2, <2>1
<1>6. ASSUME ws[1].kind \in Awaited PROVE Free(vs, ws[1].owner)
  BY <1>2, <1>3, <1>6 DEF WritesOK, Free
<1>7. WritesOK(vs, ts) /\ Backed(ws[1], ts)
  BY <1>3, <1>4, <1>5 DEF WritesOK
<1>8. QED
  BY <1>1, <1>6, <1>7 DEF vs

LEMMA WorkingIsFree ==
  ASSUME NEW ws \in Seq(Records), NEW ts, NEW o, WritesOK(ws, ts),
         ts[o].stage \notin {"merging", "flushing", "undoing"}
  PROVE  Free(ws, o)
  BY DEF WritesOK, Backed, Free, Awaited

LEMMA OwnerKept ==
  ASSUME TypeOK, OneOwner, NEW o \in Owners,
         \A p \in Owners : p # o => tasks'[p] = tasks[p],
         o = Drain => \/ tasks'[Drain].stage \in Checking \cup {"idle"}
                      \/ /\ tasks[Drain].stage \notin Checking \cup {"idle"}
                         /\ tasks'[Drain].id = tasks[Drain].id,
         o # Drain => Editing(o) \/ ~Dispatching(o)
  PROVE  OneOwner'
<1>1. Messages \subseteq Owners /\ Drain \in Owners /\ Drain \notin Messages
  BY DEF Messages, Owners, Drain
<1>2. SUFFICES ASSUME NEW m \in Messages, (Dispatching(m) /\ Editing(m))'
               PROVE  tasks'[Drain].stage \in Checking
  BY DEF OneOwner
<1>3. CASE o = Drain
  <2>1. tasks'[m] = tasks[m]
    BY <1>1, <1>3
  <2>2. QED
    BY <1>2, <1>3, <2>1 DEF OneOwner, Dispatching, Editing
<1>4. CASE o # Drain
  <2>1. tasks'[Drain] = tasks[Drain]
    BY <1>1, <1>4
  <2>2. Dispatching(m)
    BY <1>2, <2>1 DEF Dispatching
  <2>3. Editing(m)
    BY <1>1, <1>2, <1>4, <2>2 DEF Editing
  <2>4. QED
    BY <2>1, <2>2, <2>3 DEF OneOwner
<1>5. QED
  BY <1>3, <1>4

-----------------------------------------------------------------------------
(* What the parts of the actions do to the tasks and their writes. *)

USE DEF queueVars, draftVars, drainVars, serverVars, boundVars, historyVars

LEMMA Constants ==
  /\ Messages \subseteq Owners /\ Drain \in Owners /\ Drain \notin Messages
  /\ <<>> \in Texts
  BY DEF Messages, Owners, Drain, Texts

LEMMA EndKeeps ==
  ASSUME Inv, NEW o \in Owners, NEW retry \in BOOLEAN, End(o, retry)
  PROVE  /\ tasks' \in [Owners -> Tasks] /\ waiting' \subseteq Owners
         /\ tasks'[o] = Idle /\ tasks'[o].stage = "idle"
         /\ \A p \in Owners : p # o => tasks'[p] = tasks[p]
<1>1. tasks \in [Owners -> Tasks] /\ waiting \subseteq Owners /\ tasks[o].id \in Owners
  BY DEF Inv, TypeOK, Tasks
<1>2. QED
  BY <1>1, IdleType DEF End, Become

LEMMA GoKeeps ==
  ASSUME Inv, NEW o \in Owners, NEW stage \in Stages, Go(o, stage)
  PROVE  /\ tasks' \in [Owners -> Tasks]
         /\ tasks'[o].stage = stage /\ tasks'[o].id = tasks[o].id
         /\ \A p \in Owners : p # o => tasks'[p] = tasks[p]
<1> DEFINE task == [tasks[o] EXCEPT !.stage = stage]
<1>1. tasks \in [Owners -> Tasks] /\ tasks[o] \in Tasks
  BY DEF Inv, TypeOK
<1>2. task \in Tasks /\ task.stage = stage /\ task.id = tasks[o].id
  BY <1>1 DEF Tasks
<1>3. tasks' = [tasks EXCEPT ![o] = task]
  BY DEF Go
<1> HIDE DEF task
<1>4. QED
  BY <1>1, <1>2, <1>3

LEMMA BecomeKeeps ==
  ASSUME Inv, NEW o \in Owners, NEW task \in Tasks, Become(o, task)
  PROVE  /\ tasks' \in [Owners -> Tasks] /\ tasks'[o] = task
         /\ \A p \in Owners : p # o => tasks'[p] = tasks[p]
  BY DEF Inv, TypeOK, Become

LEMMA StartMergeKeeps ==
  ASSUME Inv, NEW o \in Owners, NEW m \in Messages, StartMerge(o, m),
         tasks[o].stage \notin {"merging", "flushing", "undoing"}
  PROVE  /\ tasks' \in [Owners -> Tasks] /\ draft' \in Texts /\ timer' \in BOOLEAN
         /\ tasks'[o].stage = "merging" /\ tasks'[o].id = m
         /\ \A p \in Owners : p # o => tasks'[p] = tasks[p]
         /\ writes' \in Seq(Records) /\ WritesOK(writes', tasks')
<1>1. /\ draft \in Texts /\ content[m] \in Texts /\ m \in Owners /\ tasks \in [Owners -> Tasks]
      /\ writes \in Seq(Records) /\ WritesOK(writes, tasks)
  BY Constants DEF Inv, TypeOK, Records
<1>2. draft' \in Texts
  BY <1>1, MergeType DEF StartMerge
<1> DEFINE task == [Task("merging", m) EXCEPT !.snapshot = draft]
<1>3. task \in Tasks /\ task.stage = "merging" /\ task.id = m
  <2>1. /\ Task("merging", m) \in Tasks
        /\ Task("merging", m).stage = "merging" /\ Task("merging", m).id = m
    BY <1>1, TaskType DEF Stages
  <2> QED
    BY <1>1, <2>1 DEF Tasks
<1>4. /\ tasks' \in [Owners -> Tasks] /\ tasks'[o] = task
      /\ \A p \in Owners : p # o => tasks'[p] = tasks[p]
  BY <1>3, BecomeKeeps DEF StartMerge
<1> DEFINE w == Write("merge", o, draft')
<1>5. w \in Records /\ w.owner = o /\ w.kind = "merge"
  BY <1>2 DEF Write, Records, Kinds
<1>6. Free(writes, o)
  BY <1>1, WorkingIsFree
<1>7. Backed(w, tasks')
  BY <1>3, <1>4, <1>5 DEF Backed
<1> HIDE DEF w, task
<1>8. WritesOK(Append(writes, w), tasks')
  BY <1>1, <1>4, <1>5, <1>6, <1>7, WritesAwaited
<1>9. writes' = Append(writes, w) /\ timer' = FALSE
  BY DEF StartMerge, w
<1>10. QED
  BY <1>1, <1>2, <1>3, <1>4, <1>5, <1>8, <1>9, AppendFacts

LEMMA StartUndoKeeps ==
  ASSUME Inv, NEW o \in Owners, NEW snapshot \in Texts, NEW merged \in Texts,
         NEW retry \in BOOLEAN, NEW rest \in Seq(Records),
         StartUndo(o, snapshot, merged, retry, rest), WritesOK(rest, tasks), Free(rest, o)
  PROVE  /\ tasks' \in [Owners -> Tasks] /\ draft' \in Texts /\ timer' \in BOOLEAN
         /\ tasks'[o].stage = "undoing" /\ tasks'[o].id = tasks[o].id
         /\ \A p \in Owners : p # o => tasks'[p] = tasks[p]
         /\ writes' \in Seq(Records) /\ WritesOK(writes', tasks') /\ taken' \subseteq Nat
<1>1. draft \in Texts /\ taken \subseteq Nat /\ tasks \in [Owners -> Tasks]
  BY DEF Inv, TypeOK
<1>2. draft' \in Texts
  BY <1>1, UndoneType DEF StartUndo
<1>3. /\ tasks' \in [Owners -> Tasks] /\ tasks'[o].stage = "undoing" /\ tasks'[o].id = tasks[o].id
      /\ \A p \in Owners : p # o => tasks'[p] = tasks[p]
  <2> DEFINE task == [tasks[o] EXCEPT !.stage = "undoing", !.retry = retry]
  <2>1. tasks[o] \in Tasks
    BY <1>1
  <2>2. task \in Tasks /\ task.stage = "undoing" /\ task.id = tasks[o].id
    BY <2>1 DEF Tasks, Stages
  <2>3. tasks' = [tasks EXCEPT ![o] = task]
    BY <1>1 DEF StartUndo
  <2> HIDE DEF task
  <2>4. QED
    BY <1>1, <2>2, <2>3
<1> DEFINE w == Write("undo", o, draft')
<1>4. w \in Records /\ w.owner = o /\ w.kind = "undo"
  BY <1>2 DEF Write, Records, Kinds
<1>5. Backed(w, tasks')
  BY <1>3, <1>4 DEF Backed
<1>6. taken' \subseteq Nat
  BY <1>1, PiecesType DEF StartUndo
<1> HIDE DEF w
<1>7. WritesOK(Append(rest, w), tasks')
  BY <1>3, <1>4, <1>5, WritesAwaited
<1>8. writes' = Append(rest, w) /\ timer' = FALSE
  BY DEF StartUndo, w
<1>9. QED
  BY <1>2, <1>3, <1>4, <1>6, <1>7, <1>8, AppendFacts

-----------------------------------------------------------------------------
(* The steps. *)

\* Steps that touch neither a task nor the writes.
LEMMA PlainStep ==
  ASSUME Inv, Type \/ Erase \/ Send \/ DeleteThread \/ ClearOutbox
                \/ \E m \in Messages : Saved(m) \/ RetryFires(m)
  PROVE  Inv'
<1>1. UNCHANGED <<tasks, writes>>
  BY DEF Type, Erase, Send, DeleteThread, ClearOutbox, Saved, RetryFires
<1>2. WritesOK(writes', tasks') /\ OneOwner'
  BY <1>1 DEF Inv, OneOwner, Dispatching, Editing
<1>3. TypeOK'
  <2>1. CASE Type
    <3>1. typed' \in Nat /\ draft \in Texts
      BY <2>1 DEF Inv, TypeOK, Type
    <3>2. draft' \in Texts
      BY <2>1, <3>1, AppendFacts DEF Type, Texts
    <3>3. QED
      BY <2>1, <3>1, <3>2 DEF Inv, TypeOK, Type
  <2>2. CASE Erase
    BY <2>2, Constants DEF Inv, TypeOK, Erase
  <2>3. CASE Send
    <3>1. sent' \in Messages /\ sent' \in 0 .. MaxMessages
      BY <2>3 DEF Inv, TypeOK, Send, Messages
    <3>2. content' \in [Messages -> Texts]
      BY <2>3, <3>1 DEF Inv, TypeOK, Send
    <3>3. QED
      BY <2>3, <3>1, <3>2, Constants DEF Inv, TypeOK, Send
  <2>4. CASE DeleteThread
    BY <2>4 DEF Inv, TypeOK, DeleteThread, Event
  <2>5. CASE ClearOutbox
    <3>1. events' \in Nat /\ faults' \in Nat /\ typed' \in Nat
      BY <2>5 DEF Inv, TypeOK, ClearOutbox, Fault
    <3>2. queued' \subseteq Messages /\ files' \subseteq Messages /\ safe' \subseteq Nat
      BY <2>5 DEF Inv, TypeOK, ClearOutbox
    <3>3. QED
      BY <2>5, <3>1, <3>2 DEF Inv, TypeOK, ClearOutbox
  <2>6. CASE \E m \in Messages : Saved(m)
    <3>1. PICK m \in Messages : Saved(m)
      BY <2>6
    <3>2. Pieces(content[m]) \subseteq Nat
      BY PiecesType DEF Inv, TypeOK
    <3>3. QED
      BY <3>1, <3>2 DEF Inv, TypeOK, Saved
  <2>7. CASE \E m \in Messages : RetryFires(m)
    BY <2>7 DEF Inv, TypeOK, RetryFires
  <2>8. QED
    BY <2>1, <2>2, <2>3, <2>4, <2>5, <2>6, <2>7
<1>4. QED
  BY <1>2, <1>3 DEF Inv

\* Steps that queue a write nothing waits for.
LEMMA UnawaitedStep ==
  ASSUME Inv, RemoveEnvironment \/ FireTimer \/ \E m \in Messages : NotSaved(m)
  PROVE  Inv'
<1> DEFINE Queues(kind) == \E text \in Texts : writes' = Append(writes, Write(kind, Drain, text))
<1>1. writes \in Seq(Records) /\ draft \in Texts
  BY DEF Inv, TypeOK, Records
<1>2. ASSUME NEW m \in Messages, NotSaved(m) PROVE draft' \in Texts
  <2>1. content[m] \in Texts
    BY DEF Inv, TypeOK
  <2>2. QED
    BY <1>1, <1>2, <2>1, MergeType DEF NotSaved
<1>3. \E kind \in {"plain", "debounced"} : Queues(kind)
  BY <1>2, Constants DEF RemoveEnvironment, FireTimer, NotSaved
<1>4. PICK kind \in {"plain", "debounced"}, text \in Texts :
        writes' = Append(writes, Write(kind, Drain, text))
  BY <1>3
<1> DEFINE w == Write(kind, Drain, text)
<1>5. w \in Records /\ w.kind \notin Awaited
  BY Constants DEF Write, Records, Kinds, Awaited
<1> HIDE DEF w
<1>6. writes' = Append(writes, w)
  BY <1>4 DEF w
<1>7. tasks' = tasks
  BY DEF RemoveEnvironment, FireTimer, NotSaved
<1>8. writes' \in Seq(Records) /\ WritesOK(writes', tasks')
  BY <1>1, <1>5, <1>6, <1>7, AppendFacts, WritesUnawaited DEF Inv
<1>9. OneOwner'
  BY <1>7 DEF Inv, OneOwner, Dispatching, Editing
<1>10. TypeOK'
  <2>1. CASE RemoveEnvironment
    <3>1. events' \in Nat /\ typed' \in Nat /\ faults' \in Nat
      BY <2>1 DEF Inv, TypeOK, RemoveEnvironment, Event
    <3>2. draft' \in Texts /\ timer' \in BOOLEAN /\ retryNeeded' \in BOOLEAN /\ disk' \in Texts
      BY <2>1, Constants DEF Inv, TypeOK, RemoveEnvironment
    <3>3. QED
      BY <2>1, <3>1, <3>2, <1>8 DEF Inv, TypeOK, RemoveEnvironment
  <2>2. CASE FireTimer
    BY <2>2, <1>8 DEF Inv, TypeOK, FireTimer
  <2>3. CASE \E m \in Messages : NotSaved(m)
    <3>1. PICK m \in Messages : NotSaved(m)
      BY <2>3
    <3>2. draft' \in Texts
      BY <3>1, <1>2
    <3>3. events' \in Nat /\ typed' \in Nat /\ faults' \in Nat
      BY <3>1 DEF Inv, TypeOK, NotSaved, Fault
    <3>4. timer' \in BOOLEAN /\ retryNeeded' \in BOOLEAN /\ disk' \in Texts
      BY <3>1 DEF Inv, TypeOK, NotSaved
    <3>5. QED
      BY <3>1, <3>2, <3>3, <3>4, <1>8 DEF Inv, TypeOK, NotSaved
  <2>4. QED
    BY <2>1, <2>2, <2>3
<1>11. QED
  BY <1>8, <1>9, <1>10 DEF Inv

LEMMA LandsType ==
  ASSUME Inv, writes # <<>>, Lands \/ Misses
  PROVE  disk' \in Texts /\ missed' \in BOOLEAN
<1>1. Head(writes).text \in Texts
  <2>1. Head(writes) \in Records
    BY TailFacts DEF Inv, TypeOK
  <2>2. QED
    BY <2>1 DEF Records
<1>2. QED
  BY <1>1 DEF Lands, Misses, Inv, TypeOK

\* Writes nothing waits for are made, or fail.
LEMMA WriteStep ==
  ASSUME Inv, WriteDebounced \/ WritePlain
  PROVE  Inv'
<1>1. writes # <<>> /\ writes' = Tail(writes) /\ tasks' = tasks
  BY DEF WriteDebounced, WritePlain, First, Unheeded
<1>2. writes \in Seq(Records) /\ WritesOK(writes, tasks)
  BY DEF Inv, TypeOK, Records
<1>3. writes' \in Seq(Records) /\ WritesOK(writes', tasks')
  BY <1>1, <1>2, WritesTaken
<1>4. OneOwner'
  BY <1>1 DEF Inv, OneOwner, Dispatching, Editing
<1>5. disk' \in Texts /\ missed' \in BOOLEAN
  BY <1>1, LandsType DEF WriteDebounced, WritePlain
<1>6. TypeOK'
  <2>1. events' \in Nat /\ typed' \in Nat /\ faults' \in Nat
    BY DEF Inv, TypeOK, WriteDebounced, WritePlain, Fault
  <2>2. timer' \in BOOLEAN /\ retryNeeded' \in BOOLEAN
    BY DEF Inv, TypeOK, WriteDebounced, WritePlain, Unheeded
  <2>3. QED
    BY <1>3, <1>5, <2>1, <2>2 DEF Inv, TypeOK, WriteDebounced, WritePlain, Unheeded
<1>7. QED
  BY <1>3, <1>4, <1>6 DEF Inv

LEMMA MoveKeeps ==
  ASSUME Inv, NEW o \in Owners, writes' = writes,
         tasks[o].stage \notin {"merging", "flushing", "undoing"},
         \A p \in Owners : p # o => tasks'[p] = tasks[p]
  PROVE  writes' \in Seq(Records) /\ WritesOK(writes', tasks')
  BY WorkingIsFree, WritesMoved DEF Inv, TypeOK

\* The drain and the editors before they merge, and what ends a task.
LEMMA EditStep ==
  ASSUME Inv, NEW m \in Messages, Edit(m)
  PROVE  Inv'
<1>1. m \in Owners /\ Task("confirming", m) \in Tasks
  BY Constants, TaskType DEF Stages
<1>2. tasks' \in [Owners -> Tasks] /\ \A p \in Owners : p # m => tasks'[p] = tasks[p]
  BY <1>1, BecomeKeeps DEF Edit
<1>3. WritesOK(writes', tasks')
  BY <1>1, <1>2, MoveKeeps DEF Edit, Editing
<1>4. OneOwner'
  BY <1>1, <1>2, Constants, OwnerKept DEF Edit, Inv
<1>5. TypeOK'
  BY <1>2 DEF Inv, TypeOK, Edit, Event
<1>6. QED
  BY <1>3, <1>4, <1>5 DEF Inv

LEMMA EditConfirmedStep ==
  ASSUME Inv, NEW m \in Messages, EditConfirmed(m)
  PROVE  Inv'
<1>1. m \in Owners /\ m # Drain
  BY Constants
<1>2. tasks[m].stage = "confirming"
  BY DEF EditConfirmed, At
<1>3. /\ tasks' \in [Owners -> Tasks] /\ draft' \in Texts /\ timer' \in BOOLEAN
      /\ \A p \in Owners : p # m => tasks'[p] = tasks[p]
      /\ writes' \in Seq(Records) /\ WritesOK(writes', tasks')
  <2>1. CASE m \in queued
    BY <2>1, <1>1, <1>2, StartMergeKeeps DEF EditConfirmed
  <2>2. CASE m \notin queued
    <3>1. tasks' \in [Owners -> Tasks] /\ \A p \in Owners : p # m => tasks'[p] = tasks[p]
      BY <2>2, <1>1, IdleType, BecomeKeeps DEF EditConfirmed
    <3>2. writes' = writes /\ draft' = draft /\ timer' = timer
      BY <2>2 DEF EditConfirmed
    <3>3. QED
      BY <1>1, <1>2, <3>1, <3>2, MoveKeeps DEF Inv, TypeOK
  <2>3. QED
    BY <2>1, <2>2
<1>4. OneOwner'
  BY <1>1, <1>2, <1>3, OwnerKept DEF Inv, Editing
<1>5. TypeOK'
  BY <1>3 DEF Inv, TypeOK, EditConfirmed
<1>6. QED
  BY <1>3, <1>4, <1>5 DEF Inv

LEMMA BeginStep ==
  ASSUME Inv, NEW m \in Messages, Begin(m)
  PROVE  Inv'
<1>1. Drain \in Owners /\ m \in Owners
  BY Constants
<1>2. PICK stage \in Checking : Become(Drain, Task(stage, m))
  BY DEF Begin, Checking
<1>3. Task(stage, m) \in Tasks /\ Task(stage, m).stage = stage
  BY <1>1, TaskType DEF Checking, Stages
<1>4. /\ tasks' \in [Owners -> Tasks] /\ tasks'[Drain].stage \in Checking
      /\ \A p \in Owners : p # Drain => tasks'[p] = tasks[p]
  BY <1>1, <1>2, <1>3, BecomeKeeps
<1>5. WritesOK(writes', tasks')
  BY <1>1, <1>4, MoveKeeps DEF Begin, At
<1>6. OneOwner'
  BY <1>1, <1>4, OwnerKept DEF Inv
<1>7. TypeOK'
  BY <1>4 DEF Inv, TypeOK, Begin
<1>8. QED
  BY <1>5, <1>6, <1>7 DEF Inv

\* A dispatch that ends, or goes on past its checks.
LEMMA DispatchKeeps ==
  ASSUME Inv, writes' = writes, tasks' \in [Owners -> Tasks],
         \A p \in Owners : p # Drain => tasks'[p] = tasks[p],
         tasks[Drain].stage \notin {"merging", "flushing", "undoing"},
         \/ tasks'[Drain].stage = "idle"
         \/ /\ tasks[Drain].stage \notin Checking \cup {"idle"}
            /\ tasks'[Drain].id = tasks[Drain].id
  PROVE  WritesOK(writes', tasks') /\ OneOwner'
<1>1. WritesOK(writes', tasks')
  BY Constants, MoveKeeps
<1>2. OneOwner'
  BY Constants, OwnerKept DEF Inv
<1>3. QED
  BY <1>1, <1>2

LEMMA ConfirmedStep ==
  ASSUME Inv, NEW m \in Messages, Confirmed(m)
  PROVE  Inv'
<1>1. Drain \in Owners /\ Drain # m /\ m \in Owners
  BY Constants
<1>2. tasks[Drain].stage \in {"confirming", "leaving"} /\ tasks[Drain].id = m
  BY DEF Confirmed, At, Dispatching
<1>3. CASE End(Drain, FALSE)
  <2>1. /\ tasks' \in [Owners -> Tasks] /\ waiting' \subseteq Owners /\ tasks'[Drain].stage = "idle"
        /\ \A p \in Owners : p # Drain => tasks'[p] = tasks[p]
    BY <1>1, <1>3, EndKeeps
  <2>2. WritesOK(writes', tasks') /\ OneOwner'
    BY <1>2, <2>1, DispatchKeeps DEF Confirmed
  <2>3. TypeOK'
    BY <2>1 DEF Inv, TypeOK, Confirmed
  <2>4. QED
    BY <2>2, <2>3 DEF Inv
<1>4. CASE /\ waiting' = waiting /\ ~Editing(m)
           /\ \E stage \in {"sending", "dropping"} : Go(Drain, stage)
  <2>1. PICK stage \in {"sending", "dropping"} : Go(Drain, stage)
    BY <1>4
  <2>2. /\ tasks' \in [Owners -> Tasks] /\ tasks'[Drain].id = m
        /\ \A p \in Owners : p # Drain => tasks'[p] = tasks[p]
    BY <1>1, <1>2, <2>1, GoKeeps DEF Stages
  <2>3. WritesOK(writes', tasks')
    BY <1>1, <1>2, <2>2, MoveKeeps DEF Confirmed
  <2>4. OneOwner'
    BY <1>1, <1>4, <2>2 DEF OneOwner, Dispatching, Editing
  <2>5. TypeOK'
    BY <1>4, <2>2 DEF Inv, TypeOK, Confirmed
  <2>6. QED
    BY <2>3, <2>4, <2>5 DEF Inv
<1>5. ~Gone(Drain) => ~Editing(m)
  BY <1>2 DEF Gone
<1>6. QED
  BY <1>3, <1>4, <1>5 DEF Confirmed

\* The request is answered.
LEMMA AnswerStep ==
  ASSUME Inv, NEW m \in Messages, Delivered(m) \/ Rejected(m)
  PROVE  Inv'
<1>1. tasks[Drain].stage = "sending" /\ Drain \in Owners
  BY Constants DEF Delivered, Rejected, At
<1>2. PICK stage \in {"completing", "restoring"} : Go(Drain, stage)
  BY DEF Delivered, Rejected
<1>3. /\ tasks' \in [Owners -> Tasks] /\ tasks'[Drain].id = tasks[Drain].id
      /\ \A p \in Owners : p # Drain => tasks'[p] = tasks[p]
  BY <1>1, <1>2, GoKeeps DEF Stages
<1>4. writes' = writes
  BY DEF Delivered, Rejected
<1>5. WritesOK(writes', tasks') /\ OneOwner'
  BY <1>1, <1>3, <1>4, DispatchKeeps DEF Checking
<1>6. TypeOK'
  BY <1>3 DEF Inv, TypeOK, Delivered, Rejected
<1>7. QED
  BY <1>5, <1>6 DEF Inv

\* The dispatch ends, with or without a retry.
LEMMA EndStep ==
  ASSUME Inv, NEW m \in Messages, AnswerLost(m) \/ Cleared(m) \/ NotCleared(m)
  PROVE  Inv'
<1>1. tasks[Drain].stage \in {"sending", "completing", "dropping", "cleaning"} /\ Drain \in Owners
  BY Constants DEF AnswerLost, Cleared, NotCleared, At
<1>2. PICK retry \in BOOLEAN : End(Drain, retry)
  BY DEF AnswerLost, Cleared, NotCleared
<1>3. /\ tasks' \in [Owners -> Tasks] /\ waiting' \subseteq Owners /\ tasks'[Drain].stage = "idle"
      /\ \A p \in Owners : p # Drain => tasks'[p] = tasks[p]
  BY <1>1, <1>2, EndKeeps
<1>4. writes' = writes
  BY DEF AnswerLost, Cleared, NotCleared
<1>5. WritesOK(writes', tasks') /\ OneOwner'
  BY <1>1, <1>3, <1>4, DispatchKeeps
<1>6. TypeOK'
  <2>1. CASE AnswerLost(m)
    <3>1. accepted' \subseteq Messages
      BY <2>1 DEF Inv, TypeOK, AnswerLost
    <3>2. faults' \in Nat
      BY <2>1 DEF Inv, TypeOK, AnswerLost, Fault
    <3>3. QED
      BY <2>1, <1>3, <3>1, <3>2 DEF Inv, TypeOK, AnswerLost
  <2>2. CASE Cleared(m)
    <3>1. queued' \subseteq Messages /\ files' \subseteq Messages /\ acknowledged' \subseteq Messages
      BY <2>2 DEF Inv, TypeOK, Cleared
    <3>2. safe' \subseteq Nat
      BY <2>2 DEF Inv, TypeOK, Cleared
    <3>3. QED
      BY <2>2, <1>3, <3>1, <3>2 DEF Inv, TypeOK, Cleared
  <2>3. CASE NotCleared(m)
    <3>1. faults' \in Nat
      BY <2>3 DEF Inv, TypeOK, NotCleared, Fault
    <3>2. QED
      BY <2>3, <1>3, <3>1 DEF Inv, TypeOK, NotCleared
  <2>4. QED
    BY <2>1, <2>2, <2>3
<1>7. QED
  BY <1>5, <1>6 DEF Inv

LEMMA RestoreStep ==
  ASSUME Inv, NEW m \in Messages, Restore(m)
  PROVE  Inv'
<1>1. /\ tasks[Drain].stage = "restoring" /\ tasks[Drain].id = m /\ Drain \in Owners
  BY Constants DEF Restore, At, Dispatching
<1>2. CASE Gone(Drain)
  <2>1. End(Drain, FALSE) /\ writes' = writes /\ draft' = draft /\ timer' = timer
    BY <1>2 DEF Restore
  <2>2. /\ tasks' \in [Owners -> Tasks] /\ waiting' \subseteq Owners /\ tasks'[Drain].stage = "idle"
        /\ \A p \in Owners : p # Drain => tasks'[p] = tasks[p]
    BY <1>1, <2>1, EndKeeps
  <2>3. WritesOK(writes', tasks') /\ OneOwner'
    BY <1>1, <2>1, <2>2, DispatchKeeps
  <2>4. TypeOK'
    BY <2>1, <2>2 DEF Inv, TypeOK, Restore
  <2>5. QED
    BY <2>3, <2>4 DEF Inv
<1>3. CASE ~Gone(Drain)
  <2>1. StartMerge(Drain, m) /\ waiting' = waiting
    BY <1>3 DEF Restore
  <2>2. /\ tasks' \in [Owners -> Tasks] /\ draft' \in Texts /\ timer' \in BOOLEAN
        /\ tasks'[Drain].id = m
        /\ \A p \in Owners : p # Drain => tasks'[p] = tasks[p]
        /\ writes' \in Seq(Records) /\ WritesOK(writes', tasks')
    BY <1>1, <2>1, StartMergeKeeps
  <2>3. OneOwner'
    BY <1>1, <2>2, OwnerKept DEF Inv, Checking
  <2>4. TypeOK'
    BY <2>1, <2>2 DEF Inv, TypeOK, Restore
  <2>5. QED
    BY <2>2, <2>3, <2>4 DEF Inv
<1>4. QED
  BY <1>2, <1>3

\* A task in these stages goes on to another of them, or ends.
Working == {"merging", "flushing", "checking", "removing", "undoing"}

LEMMA OwnerWorks ==
  ASSUME Inv, NEW o \in Owners, tasks[o].stage \in Working,
         \A p \in Owners : p # o => tasks'[p] = tasks[p],
         tasks'[o].stage = "idle" \/ tasks'[o].id = tasks[o].id
  PROVE  OneOwner'
<1>1. tasks[o].stage \notin Checking \cup {"idle"} /\ Editing(o)
  BY DEF Working, Checking, Editing
<1>2. QED
  BY <1>1, OwnerKept DEF Inv

\* The write a task waits for is first in the queue.
LEMMA FirstFacts ==
  ASSUME Inv, NEW o \in Owners, NEW kind \in Awaited, First(kind), Head(writes).owner = o
  PROVE  /\ writes # <<>> /\ Tail(writes) \in Seq(Records) /\ WritesOK(Tail(writes), tasks)
         /\ Free(Tail(writes), o) /\ tasks[o].stage \in Working
         /\ tasks[o] \in Tasks /\ tasks[o].id \in Owners /\ tasks[o].retry \in BOOLEAN
         /\ tasks[o].snapshot \in Texts /\ tasks[o].merged \in Texts
<1>1. /\ writes \in Seq(Records) /\ writes # <<>> /\ WritesOK(writes, tasks) /\ Head(writes).kind = kind
  BY DEF Inv, TypeOK, First
<1>2. /\ Tail(writes) \in Seq(Records) /\ WritesOK(Tail(writes), tasks)
      /\ Backed(Head(writes), tasks) /\ Free(Tail(writes), o)
  BY <1>1, WritesTaken
<1>3. tasks[o].stage \in Working
  BY <1>1, <1>2 DEF Backed, Awaited, Working
<1>4. tasks[o] \in Tasks
  BY DEF Inv, TypeOK
<1>5. QED
  BY <1>1, <1>2, <1>3, <1>4 DEF Tasks

LEMMA FlushKeeps ==
  ASSUME Inv, NEW o \in Owners, NEW due \in BOOLEAN, Flush(o, due),
         Tail(writes) \in Seq(Records), WritesOK(Tail(writes), tasks), Free(Tail(writes), o),
         tasks'[o].stage = "flushing", \A p \in Owners : p # o => tasks'[p] = tasks[p]
  PROVE  /\ writes' \in Seq(Records) /\ WritesOK(writes', tasks')
         /\ timer' \in BOOLEAN /\ retryNeeded' \in BOOLEAN
<1> DEFINE rest == Tail(writes)
<1>1. PICK kind \in {"flush", "turn"} : writes' = Append(rest, Write(kind, o, <<>>))
  BY DEF Flush
<1> DEFINE w == Write(kind, o, <<>>)
<1>2. w \in Records /\ w.owner = o /\ w.kind \in {"flush", "turn"}
  BY Constants DEF Write, Records, Kinds
<1>3. Backed(w, tasks')
  BY <1>2 DEF Backed
<1>4. writes' = Append(rest, w)
  BY <1>1
<1>5. rest \in Seq(Records) /\ WritesOK(rest, tasks) /\ Free(rest, w.owner)
  BY <1>2
<1> HIDE DEF w, rest
<1>6. \A p \in Owners : p # w.owner => tasks'[p] = tasks[p]
  BY <1>2
<1>7. WritesOK(Append(rest, w), tasks')
  BY <1>2, <1>3, <1>5, <1>6, WritesAwaited
<1>8. QED
  BY <1>2, <1>4, <1>5, <1>7, AppendFacts DEF Flush

\* The awaited writes land, or fail.
LEMMA MergedStep ==
  ASSUME Inv, NEW o \in Owners, Merged(o)
  PROVE  Inv'
<1>1. /\ writes # <<>> /\ Tail(writes) \in Seq(Records) /\ WritesOK(Tail(writes), tasks)
      /\ Free(Tail(writes), o) /\ tasks[o].stage \in Working /\ tasks[o] \in Tasks
  BY FirstFacts DEF Merged, Awaited
<1> DEFINE task == [tasks[o] EXCEPT !.stage = "flushing", !.merged = draft]
<1>2. task \in Tasks /\ task.stage = "flushing" /\ task.id = tasks[o].id
  BY <1>1 DEF Tasks, Stages, Inv, TypeOK
<1>3. tasks' = [tasks EXCEPT ![o] = task] /\ tasks \in [Owners -> Tasks]
  BY DEF Merged, Inv, TypeOK
<1> HIDE DEF task
<1>4. /\ tasks' \in [Owners -> Tasks] /\ tasks'[o].stage = "flushing" /\ tasks'[o].id = tasks[o].id
      /\ \A p \in Owners : p # o => tasks'[p] = tasks[p]
  BY <1>2, <1>3
<1>5. /\ writes' \in Seq(Records) /\ WritesOK(writes', tasks')
      /\ timer' \in BOOLEAN /\ retryNeeded' \in BOOLEAN
  BY <1>1, <1>4, FlushKeeps DEF Merged
<1>6. OneOwner'
  BY <1>1, <1>4, OwnerWorks
<1>7. disk' \in Texts /\ missed' \in BOOLEAN
  BY <1>1, LandsType DEF Merged
<1>8. TypeOK'
  BY <1>4, <1>5, <1>7 DEF Inv, TypeOK, Merged
<1>9. QED
  BY <1>5, <1>6, <1>8 DEF Inv

LEMMA FlushedStep ==
  ASSUME Inv, NEW o \in Owners, Flushed(o)
  PROVE  Inv'
<1>1. /\ writes # <<>> /\ Tail(writes) \in Seq(Records) /\ WritesOK(Tail(writes), tasks)
      /\ Free(Tail(writes), o) /\ tasks[o].stage = "flushing"
  <2>1. Backed(Head(writes), tasks)
    BY WritesTaken DEF Flushed, First, Inv, TypeOK
  <2>2. QED
    BY <2>1, FirstFacts DEF Flushed, First, Awaited, Backed
<1>2. tasks' = tasks /\ tasks \in [Owners -> Tasks]
  BY DEF Flushed, Inv, TypeOK
<1>3. timer \/ retryNeeded \in BOOLEAN
  BY DEF Inv, TypeOK
<1>4. /\ writes' \in Seq(Records) /\ WritesOK(writes', tasks')
      /\ timer' \in BOOLEAN /\ retryNeeded' \in BOOLEAN
  BY <1>1, <1>2, <1>3, FlushKeeps DEF Flushed
<1>5. OneOwner'
  BY <1>2 DEF Inv, OneOwner, Dispatching, Editing
<1>6. disk' \in Texts /\ missed' \in BOOLEAN
  BY <1>1, LandsType DEF Flushed
<1>7. TypeOK'
  BY <1>2, <1>4, <1>6 DEF Inv, TypeOK, Flushed
<1>8. QED
  BY <1>4, <1>5, <1>7 DEF Inv

LEMMA TurnStep ==
  ASSUME Inv, NEW o \in Owners, Turn(o)
  PROVE  Inv'
<1>1. /\ writes # <<>> /\ Tail(writes) \in Seq(Records) /\ WritesOK(Tail(writes), tasks)
      /\ Free(Tail(writes), o) /\ tasks[o].stage = "flushing"
  <2>1. Backed(Head(writes), tasks)
    BY WritesTaken DEF Turn, First, Inv, TypeOK
  <2>2. QED
    BY <2>1, FirstFacts DEF Turn, First, Awaited, Backed
<1>2. tasks \in [Owners -> Tasks]
  BY DEF Inv, TypeOK
<1>3. CASE timer \/ retryNeeded
  <2>1. Flush(o, TRUE) /\ tasks' = tasks
    BY <1>3 DEF Turn
  <2>2. /\ writes' \in Seq(Records) /\ WritesOK(writes', tasks')
        /\ timer' \in BOOLEAN /\ retryNeeded' \in BOOLEAN
    BY <1>1, <2>1, FlushKeeps
  <2>3. OneOwner'
    BY <2>1 DEF Inv, OneOwner, Dispatching, Editing
  <2>4. TypeOK'
    BY <1>2, <2>1, <2>2 DEF Inv, TypeOK, Turn
  <2>5. QED
    BY <2>2, <2>3, <2>4 DEF Inv
<1>4. CASE ~(timer \/ retryNeeded)
  <2>1. PICK stage \in {"checking", "removing"} : Go(o, stage)
    BY <1>4 DEF Turn
  <2>2. /\ tasks' \in [Owners -> Tasks] /\ tasks'[o].id = tasks[o].id
        /\ \A p \in Owners : p # o => tasks'[p] = tasks[p]
    BY <2>1, GoKeeps DEF Stages
  <2>3. writes' = Tail(writes) /\ timer' = timer /\ retryNeeded' = retryNeeded
    BY <1>4 DEF Turn
  <2> DEFINE rest == Tail(writes)
  <2>4. WritesOK(writes', tasks')
    <3>1. rest \in Seq(Records) /\ WritesOK(rest, tasks) /\ Free(rest, o) /\ writes' = rest
      BY <1>1, <2>3
    <3> HIDE DEF rest
    <3>2. QED
      BY <2>2, <3>1, WritesMoved
  <2>5. OneOwner'
    BY <1>1, <2>2, OwnerWorks DEF Working
  <2>6. TypeOK'
    BY <1>1, <2>2, <2>3 DEF Inv, TypeOK, Turn
  <2>7. QED
    BY <2>4, <2>5, <2>6 DEF Inv
<1>5. QED
  BY <1>3, <1>4

LEMMA UndidStep ==
  ASSUME Inv, NEW o \in Owners, Undid(o)
  PROVE  Inv'
<1>1. /\ writes # <<>> /\ Tail(writes) \in Seq(Records) /\ WritesOK(Tail(writes), tasks)
      /\ Free(Tail(writes), o) /\ tasks[o].stage \in Working /\ tasks[o].retry \in BOOLEAN
  BY FirstFacts DEF Undid, Awaited
<1>2. End(o, tasks[o].retry) /\ writes' = Tail(writes)
  BY DEF Undid
<1>3. /\ tasks' \in [Owners -> Tasks] /\ waiting' \subseteq Owners /\ tasks'[o].stage = "idle"
      /\ \A p \in Owners : p # o => tasks'[p] = tasks[p]
  BY <1>1, <1>2, EndKeeps
<1>4. WritesOK(writes', tasks')
  BY <1>1, <1>2, <1>3, WritesMoved
<1>5. OneOwner'
  BY <1>1, <1>3, OwnerWorks
<1>6. disk' \in Texts /\ missed' \in BOOLEAN
  BY <1>1, LandsType DEF Undid
<1>7. TypeOK'
  BY <1>1, <1>2, <1>3, <1>6 DEF Inv, TypeOK, Undid
<1>8. QED
  BY <1>4, <1>5, <1>7 DEF Inv

\* A rollback starts.
LEMMA UndoKeeps ==
  ASSUME Inv, NEW o \in Owners, NEW snapshot \in Texts, NEW merged \in Texts,
         NEW retry \in BOOLEAN, NEW rest \in Seq(Records),
         StartUndo(o, snapshot, merged, retry, rest), WritesOK(rest, tasks), Free(rest, o),
         tasks[o].stage \in Working, retryNeeded' \in BOOLEAN, faults' \in Nat,
         disk' \in Texts, missed' \in BOOLEAN,
         UNCHANGED <<queueVars, acknowledged, waiting, serverVars, typed, events, safe>>
  PROVE  Inv'
<1>1. /\ tasks' \in [Owners -> Tasks] /\ draft' \in Texts /\ timer' \in BOOLEAN
      /\ tasks'[o].id = tasks[o].id
      /\ \A p \in Owners : p # o => tasks'[p] = tasks[p]
      /\ writes' \in Seq(Records) /\ WritesOK(writes', tasks') /\ taken' \subseteq Nat
  BY StartUndoKeeps
<1>2. OneOwner'
  BY <1>1, OwnerWorks
<1>3. TypeOK'
  BY <1>1 DEF Inv, TypeOK
<1>4. QED
  BY <1>1, <1>2, <1>3 DEF Inv

LEMMA NotWrittenStep ==
  ASSUME Inv, NEW o \in Owners, NotMerged(o) \/ NotFlushed(o)
  PROVE  Inv'
<1>1. /\ writes # <<>> /\ Tail(writes) \in Seq(Records) /\ WritesOK(Tail(writes), tasks)
      /\ Free(Tail(writes), o) /\ tasks[o].stage \in Working
      /\ tasks[o].snapshot \in Texts /\ tasks[o].merged \in Texts
  BY FirstFacts DEF NotMerged, NotFlushed, Awaited
<1>2. /\ draft \in Texts /\ retryNeeded' \in BOOLEAN /\ faults' \in Nat
      /\ disk' \in Texts /\ missed' \in BOOLEAN
      /\ UNCHANGED <<queueVars, acknowledged, waiting, serverVars, typed, events, safe>>
  <2>1. draft \in Texts /\ retryNeeded \in BOOLEAN /\ faults \in Nat
    BY DEF Inv, TypeOK
  <2>2. retryNeeded' \in BOOLEAN
    BY <2>1 DEF NotMerged, NotFlushed
  <2>3. faults' \in Nat
    <3>1. Fault
      BY DEF NotMerged, NotFlushed
    <3>2. QED
      BY <2>1, <3>1 DEF Fault
  <2>4. UNCHANGED <<queueVars, acknowledged, waiting, serverVars, typed, events, safe>>
    BY DEF NotMerged, NotFlushed
  <2>5. disk' \in Texts /\ missed' \in BOOLEAN
    BY <1>1, LandsType DEF NotMerged, NotFlushed
  <2>6. QED
    BY <2>1, <2>2, <2>3, <2>4, <2>5
<1>3. PICK merged \in Texts : StartUndo(o, tasks[o].snapshot, merged, TRUE, Tail(writes))
  BY <1>1, <1>2 DEF NotMerged, NotFlushed
<1> DEFINE rest == Tail(writes)
           snapshot == tasks[o].snapshot
<1>4. /\ rest \in Seq(Records) /\ WritesOK(rest, tasks) /\ Free(rest, o) /\ snapshot \in Texts
      /\ StartUndo(o, snapshot, merged, TRUE, rest)
  BY <1>1, <1>3
<1> HIDE DEF rest, snapshot
<1>5. QED
  BY <1>1, <1>2, <1>4, UndoKeeps

LEMMA NotUndoneStep ==
  ASSUME Inv, NEW o \in Owners, NotUndone(o)
  PROVE  Inv'
<1>1. /\ writes # <<>> /\ Tail(writes) \in Seq(Records) /\ WritesOK(Tail(writes), tasks)
      /\ Free(Tail(writes), o) /\ tasks[o].stage \in Working /\ tasks[o].retry \in BOOLEAN
      /\ tasks[o].snapshot \in Texts /\ tasks[o].merged \in Texts
  BY FirstFacts DEF NotUndone, Awaited
<1>2. /\ retryNeeded' \in BOOLEAN /\ faults' \in Nat
      /\ disk' \in Texts /\ missed' \in BOOLEAN
      /\ UNCHANGED <<queueVars, retryNeeded, acknowledged, serverVars, typed, events, safe>>
  <2>1. disk' \in Texts /\ missed' \in BOOLEAN
    BY <1>1, LandsType DEF NotUndone
  <2>2. QED
    BY <2>1 DEF Inv, TypeOK, NotUndone, Fault
<1>3. CASE o = Drain /\ ~tasks[o].retry
  <2> DEFINE rest == Tail(writes)
             snapshot == tasks[o].snapshot
             merged == tasks[o].merged
  <2>1. /\ rest \in Seq(Records) /\ WritesOK(rest, tasks) /\ Free(rest, o)
        /\ snapshot \in Texts /\ merged \in Texts
        /\ StartUndo(o, snapshot, merged, TRUE, rest) /\ waiting' = waiting
    BY <1>1, <1>3 DEF NotUndone
  <2> HIDE DEF rest, snapshot, merged
  <2>2. QED
    BY <1>1, <1>2, <2>1, UndoKeeps
<1>4. CASE ~(o = Drain /\ ~tasks[o].retry)
  <2>1. /\ End(o, tasks[o].retry) /\ writes' = Tail(writes)
        /\ draft' = draft /\ timer' = timer /\ taken' = taken
    BY <1>4 DEF NotUndone
  <2>2. /\ tasks' \in [Owners -> Tasks] /\ waiting' \subseteq Owners /\ tasks'[o].stage = "idle"
        /\ \A p \in Owners : p # o => tasks'[p] = tasks[p]
    BY <1>1, <2>1, EndKeeps
  <2>3. WritesOK(writes', tasks')
    BY <1>1, <2>1, <2>2, WritesMoved
  <2>4. OneOwner'
    BY <1>1, <2>2, OwnerWorks
  <2>5. TypeOK'
    BY <1>1, <1>2, <2>1, <2>2 DEF Inv, TypeOK
  <2>6. QED
    BY <2>3, <2>4, <2>5 DEF Inv
<1>5. QED
  BY <1>3, <1>4

\* The end of a recovery, and a rollback that no write led to.
LEMMA BackOutStep ==
  ASSUME Inv, NEW o \in Owners, NEW retry \in BOOLEAN, BackOut(o, retry),
         tasks[o].stage \in {"checking", "removing"}, faults' \in Nat
  PROVE  Inv'
<1>1. writes \in Seq(Records) /\ WritesOK(writes, tasks) /\ Free(writes, o)
  BY WorkingIsFree DEF Inv, TypeOK
<1>2. tasks[o] \in Tasks /\ retryNeeded' \in BOOLEAN
  BY DEF Inv, TypeOK, BackOut
<1> DEFINE snapshot == tasks[o].snapshot
           merged == tasks[o].merged
<1>3. snapshot \in Texts /\ merged \in Texts /\ StartUndo(o, snapshot, merged, retry, writes)
  BY <1>2 DEF Tasks, BackOut
<1>4. tasks[o].stage \in Working
  BY DEF Working
<1>5. /\ UNCHANGED <<queueVars, acknowledged, waiting, serverVars, typed, events, safe>>
      /\ disk' \in Texts /\ missed' \in BOOLEAN
  BY DEF BackOut, Inv, TypeOK
<1> HIDE DEF snapshot, merged
<1>6. QED
  BY <1>1, <1>2, <1>3, <1>4, <1>5, UndoKeeps

LEMMA ReconfirmedStep ==
  ASSUME Inv, Reconfirmed
  PROVE  Inv'
<1>1. tasks[Drain].stage = "checking" /\ Drain \in Owners
  BY Constants DEF Reconfirmed, At
<1>2. CASE BackOut(Drain, FALSE) /\ faults' = faults
  BY <1>1, <1>2, BackOutStep DEF Inv, TypeOK
<1>3. CASE /\ Go(Drain, "removing")
           /\ UNCHANGED <<queueVars, draftVars, drainVars, serverVars, boundVars, historyVars>>
  <2>1. /\ tasks' \in [Owners -> Tasks] /\ tasks'[Drain].id = tasks[Drain].id
        /\ \A p \in Owners : p # Drain => tasks'[p] = tasks[p]
    BY <1>1, <1>3, GoKeeps DEF Stages
  <2>2. WritesOK(writes', tasks') /\ OneOwner'
    BY <1>1, <1>3, <2>1, DispatchKeeps DEF Checking
  <2>3. TypeOK'
    BY <1>3, <2>1 DEF Inv, TypeOK
  <2>4. QED
    BY <2>2, <2>3 DEF Inv
<1>4. QED
  BY <1>2, <1>3 DEF Reconfirmed

LEMMA RecoveredStep ==
  ASSUME Inv, NEW o \in Owners, Recovered(o)
  PROVE  Inv'
<1>1. tasks[o].stage = "removing" /\ End(o, FALSE) /\ writes' = writes
  BY DEF Recovered, At
<1>2. /\ tasks' \in [Owners -> Tasks] /\ waiting' \subseteq Owners /\ tasks'[o].stage = "idle"
      /\ \A p \in Owners : p # o => tasks'[p] = tasks[p]
  BY <1>1, EndKeeps
<1>3. WritesOK(writes', tasks')
  BY <1>1, <1>2, MoveKeeps
<1>4. OneOwner'
  BY <1>1, <1>2, OwnerWorks DEF Working
<1>5. TypeOK'
  BY <1>2 DEF Inv, TypeOK, Recovered
<1>6. QED
  BY <1>3, <1>4, <1>5 DEF Inv

LEMMA NotRecoveredStep ==
  ASSUME Inv, NEW o \in Owners, NotRecovered(o)
  PROVE  Inv'
<1>1. tasks[o].stage = "removing"
  BY DEF NotRecovered, At
<1>2. PICK retry \in BOOLEAN : BackOut(o, retry)
  BY DEF NotRecovered
<1>3. faults' \in Nat
  <2>1. faults \in Nat
    BY DEF Inv, TypeOK
  <2>2. faults' = faults \/ faults' = faults + 1
    BY DEF NotRecovered, Fault
  <2>3. QED
    BY <2>1, <2>2
<1>4. QED
  BY <1>1, <1>2, <1>3, BackOutStep

LEMMA CrashStep ==
  ASSUME Inv, Crash
  PROVE  Inv'
<1>1. /\ writes' = <<>> /\ writes' \in Seq(Records) /\ Len(writes') = 0
      /\ tasks' = [o \in Owners |-> Idle]
  BY DEF Crash
<1>2. tasks' \in [Owners -> Tasks] /\ \A o \in Owners : tasks'[o].stage = "idle"
  BY <1>1, IdleType
<1>3. WritesOK(writes', tasks')
  BY <1>1 DEF WritesOK
<1>4. OneOwner'
  BY <1>2, Constants DEF OneOwner, Dispatching
<1>5. events' \in Nat
  BY DEF Inv, TypeOK, Crash, Event
<1>6. TypeOK'
  BY <1>1, <1>2, <1>5 DEF Inv, TypeOK, Crash
<1>7. QED
  BY <1>3, <1>4, <1>6 DEF Inv

-----------------------------------------------------------------------------
(* The theorems. *)

LEMMA Start == Init => Inv
<1> SUFFICES ASSUME Init PROVE Inv
  OBVIOUS
<1>1. /\ writes = <<>> /\ writes \in Seq(Records) /\ Len(writes) = 0
      /\ tasks = [o \in Owners |-> Idle]
  BY DEF Init
<1>2. tasks \in [Owners -> Tasks] /\ \A o \in Owners : tasks[o].stage = "idle"
  BY <1>1, IdleType
<1>3. WritesOK(writes, tasks)
  BY <1>1 DEF WritesOK
<1>4. OneOwner
  BY <1>2, Constants DEF OneOwner, Dispatching
<1>5. TypeOK
  <2>1. sent \in 0 .. MaxMessages /\ content \in [Messages -> Texts]
    BY Constants DEF Init
  <2>2. QED
    BY <1>1, <1>2, <2>1, Constants DEF Init, TypeOK
<1>6. QED
  BY <1>3, <1>4, <1>5 DEF Inv

LEMMA RecoveringStep ==
  ASSUME Inv, NEW o \in Owners, Recovering(o)
  PROVE  Inv'
  BY MergedStep, FlushedStep, TurnStep, UndidStep, NotWrittenStep, NotUndoneStep,
     RecoveredStep, NotRecoveredStep DEF Recovering

LEMMA Step == Inv /\ [Next]_vars => Inv'
<1> SUFFICES ASSUME Inv, [Next]_vars PROVE Inv'
  OBVIOUS
<1>1. CASE User \/ ClearOutbox
  BY <1>1, PlainStep, UnawaitedStep DEF User
<1>2. CASE Saving
  BY <1>2, PlainStep, UnawaitedStep DEF Saving
<1>3. CASE Delivering
  BY <1>3, Constants, BeginStep, ConfirmedStep, AnswerStep, EndStep, RestoreStep, ReconfirmedStep,
     RecoveringStep, PlainStep DEF Delivering, Draining
<1>4. CASE Writing
  BY <1>4, UnawaitedStep, WriteStep DEF Writing
<1>5. CASE \E m \in Messages : Edit(m) \/ Editor(m)
  BY <1>5, Constants, EditStep, EditConfirmedStep, RecoveringStep DEF Editor
<1>6. CASE Crash
  BY <1>6, CrashStep
<1>7. CASE UNCHANGED vars
  <2>1. WritesOK(writes', tasks') /\ OneOwner'
    BY <1>7 DEF Inv, vars, OneOwner, Dispatching, Editing
  <2>2. TypeOK'
    BY <1>7 DEF Inv, vars, TypeOK
  <2>3. QED
    BY <2>1, <2>2 DEF Inv
<1>8. QED
  BY <1>1, <1>2, <1>3, <1>4, <1>5, <1>6, <1>7 DEF Next

\* The variables of the drain, the editors and the draft keep their types.
THEOREM TypeCorrect == Spec => []TypeOK
<1>1. Inv => TypeOK
  BY DEF Inv
<1>2. QED
  BY <1>1, Start, Step, PTL DEF Spec

\* editPendingThreadMessage holds a message before its first await and
\* sendQueuedMessage looks at the hold after its last: a message is never
\* edited while it is being sent, given up or put back by the drain.
THEOREM OneOwnerCorrect == Spec => []OneOwner
<1>1. Inv => OneOwner
  BY DEF Inv
<1>2. QED
  BY <1>1, Start, Step, PTL DEF Spec

-----------------------------------------------------------------------------
(* The writes that are still to be made leave the disk with the draft, or   *)
(* with a write that has failed.                                           *)

\* A write that puts the draft on disk as it is now, and so do the writes that
\* come after it, which put nothing there.
Current(w) == w.kind \in {"debounced", "flush"} \/ (w.kind # "turn" /\ w.text = draft)
Settles ==
  \E i \in 0 .. Len(writes) :
    /\ IF i = 0 THEN missed \/ disk = draft ELSE Current(writes[i])
    /\ \A j \in i + 1 .. Len(writes) : writes[j].kind = "turn"
SettlesInv == ~timer => Settles

LEMMA SettlesLast ==
  ASSUME NEW rest \in Seq(Records), NEW w \in Records, writes' = Append(rest, w), Current(w)'
  PROVE  Settles'
<1> DEFINE n == Len(rest) + 1
<1>1. Len(writes') = n /\ writes'[n] = w /\ n \in Nat \ {0} /\ n \in 0 .. Len(writes')
  BY AppendFacts
<1>2. Current(writes[n])'
  BY <1>1 DEF Current
<1>3. \A j \in n + 1 .. Len(writes') : writes'[j].kind = "turn"
  BY <1>1
<1> HIDE DEF n
<1>4. QED
  BY <1>1, <1>2, <1>3 DEF Settles

\* The first write has been made or has failed, and nothing or a turn is added.
LEMMA SettlesHead ==
  ASSUME TypeOK, Settles, writes # <<>>, draft' = draft,
         \/ Head(writes).kind = "turn" /\ disk' = disk /\ missed' = missed
         \/ Head(writes).kind # "turn" /\ (Lands \/ Misses),
         \/ writes' = Tail(writes)
         \/ \E o \in Owners : writes' = Append(Tail(writes), Write("turn", o, <<>>))
  PROVE  Settles'
<1>1. /\ Tail(writes) \in Seq(Records) /\ Head(writes) = writes[1]
      /\ Len(Tail(writes)) = Len(writes) - 1 /\ Len(writes) \in Nat \ {0}
      /\ \A k \in 1 .. Len(Tail(writes)) : Tail(writes)[k] = writes[k + 1]
  BY TailFacts DEF TypeOK
<1>2. /\ Len(writes') \in Nat /\ Len(writes') >= Len(writes) - 1
      /\ \A k \in 1 .. Len(writes') :
           IF k <= Len(writes) - 1 THEN writes'[k] = writes[k + 1] ELSE writes'[k].kind = "turn"
  <2>1. CASE writes' = Tail(writes)
    BY <1>1, <2>1
  <2>2. CASE \E o \in Owners : writes' = Append(Tail(writes), Write("turn", o, <<>>))
    <3>1. PICK o \in Owners : writes' = Append(Tail(writes), Write("turn", o, <<>>))
      BY <2>2
    <3> DEFINE w == Write("turn", o, <<>>)
    <3>2. w \in Records /\ w.kind = "turn"
      BY Constants DEF Write, Records, Kinds
    <3>3. writes' = Append(Tail(writes), w)
      BY <3>1
    <3> HIDE DEF w
    <3>4. /\ Len(writes') = Len(writes) /\ writes'[Len(writes)] = w
          /\ \A k \in 1 .. Len(writes) - 1 : writes'[k] = writes[k + 1]
      <4> DEFINE rest == Tail(writes)
      <4>1. rest \in Seq(Records) /\ Len(rest) = Len(writes) - 1 /\ writes' = Append(rest, w)
            /\ \A k \in 1 .. Len(rest) : rest[k] = writes[k + 1]
        BY <1>1, <3>3
      <4> HIDE DEF rest
      <4>2. /\ Len(writes') = Len(rest) + 1 /\ writes'[Len(rest) + 1] = w
            /\ \A k \in 1 .. Len(rest) : writes'[k] = rest[k]
        BY <3>2, <4>1, AppendFacts
      <4>3. QED
        <5> HIDE DEF w
        <5>1. Len(rest) + 1 = Len(writes)
          <6>1. Len(writes) \in Nat /\ Len(rest) = Len(writes) - 1
            BY <1>1, <4>1
          <6>2. \A a, b : a \in Nat /\ b = a - 1 => b + 1 = a
            OBVIOUS
          <6>3. QED
            BY <6>1, <6>2, Zenon
        <5>2. QED
          BY <4>1, <4>2, <5>1
    <3>5. QED
      BY <1>1, <3>2, <3>4
  <2>3. QED
    BY <2>1, <2>2
<1>3. PICK i \in 0 .. Len(writes) :
        /\ IF i = 0 THEN missed \/ disk = draft ELSE Current(writes[i])
        /\ \A j \in i + 1 .. Len(writes) : writes[j].kind = "turn"
  BY DEF Settles
<1>4. CASE i = 0 \/ i = 1
  <2>1. missed' \/ disk' = draft'
    <3>1. CASE i = 0
      <4>1. Head(writes).kind = "turn"
        BY <1>1, <1>3, <3>1
      <4>2. QED
        BY <1>3, <3>1, <4>1
    <3>2. CASE i = 1
      BY <1>1, <1>3, <3>2 DEF Current, Lands, Misses
    <3>3. QED
      BY <1>4, <3>1, <3>2
  <2>2. \A j \in 1 .. Len(writes') : writes'[j].kind = "turn"
    <3> SUFFICES ASSUME NEW j \in 1 .. Len(writes') PROVE writes'[j].kind = "turn"
      OBVIOUS
    <3>1. CASE j <= Len(writes) - 1
      <4>1. writes'[j] = writes[j + 1] /\ j + 1 \in i + 1 .. Len(writes)
        BY <1>1, <1>2, <1>4, <3>1
      <4>2. QED
        BY <1>3, <4>1
    <3>2. CASE ~(j <= Len(writes) - 1)
      BY <1>2, <3>2
    <3>3. QED
      BY <3>1, <3>2
  <2>3. QED
    BY <1>2, <2>1, <2>2 DEF Settles
<1>5. CASE i >= 2
  <2> DEFINE k == i - 1
  <2>1. k \in 1 .. Len(writes') /\ k <= Len(writes) - 1 /\ k + 1 = i
    BY <1>1, <1>2, <1>3, <1>5
  <2>2. writes'[k] = writes[i] /\ k # 0 /\ k \in 0 .. Len(writes')
    BY <1>2, <2>1
  <2>3. Current(writes[k])'
    BY <1>3, <1>5, <2>2 DEF Current
  <2>4. \A j \in k + 1 .. Len(writes') : writes'[j].kind = "turn"
    <3> SUFFICES ASSUME NEW j \in k + 1 .. Len(writes') PROVE writes'[j].kind = "turn"
      OBVIOUS
    <3>1. j \in 1 .. Len(writes')
      BY <1>2, <2>1
    <3>2. CASE j <= Len(writes) - 1
      <4>1. writes'[j] = writes[j + 1] /\ j + 1 \in i + 1 .. Len(writes)
        BY <1>1, <1>2, <2>1, <3>1, <3>2
      <4>2. QED
        BY <1>3, <4>1
    <3>3. CASE ~(j <= Len(writes) - 1)
      BY <1>2, <3>1, <3>3
    <3>4. QED
      BY <3>2, <3>3
  <2> HIDE DEF k
  <2>5. QED
    BY <2>2, <2>3, <2>4 DEF Settles
<1>6. QED
  BY <1>3, <1>4, <1>5

\* Steps that leave the draft and its writes alone, and those that put a write at
\* the end of the queue.
LEMMA SettlesStays ==
  ASSUME Settles, UNCHANGED <<draft, disk, missed, writes>>
  PROVE  Settles'
<1>1. PICK i \in 0 .. Len(writes) :
        /\ IF i = 0 THEN missed \/ disk = draft ELSE Current(writes[i])
        /\ \A j \in i + 1 .. Len(writes) : writes[j].kind = "turn"
  BY DEF Settles
<1>2. \A w : Current(w)' <=> w.kind \in {"debounced", "flush"} \/ (w.kind # "turn" /\ w.text = draft)
  BY DEF Current
<1>3. /\ IF i = 0 THEN missed' \/ disk' = draft' ELSE Current(writes[i])'
      /\ \A j \in i + 1 .. Len(writes') : writes'[j].kind = "turn"
  BY <1>1 DEF Current
<1>4. i \in 0 .. Len(writes')
  BY <1>1
<1>5. QED
  BY <1>3, <1>4 DEF Settles

LEMMA SettlesText ==
  ASSUME TypeOK, NEW text \in Texts, draft' = text,
         NEW o \in Owners, NEW kind \in {"plain", "merge", "undo"},
         NEW rest \in Seq(Records), writes' = Append(rest, Write(kind, o, text))
  PROVE  Settles'
<1> DEFINE w == Write(kind, o, text)
<1>1. w \in Records /\ w.kind = kind /\ w.text = text
  BY DEF Write, Records, Kinds
<1>2. writes' = Append(rest, w)
  OBVIOUS
<1>3. w.kind # "turn" /\ w.text = draft'
  BY <1>1
<1> HIDE DEF w
<1>4. Current(w)'
  BY <1>3 DEF Current
<1>5. QED
  BY <1>1, <1>2, <1>4, SettlesLast

LEMMA SettlesFlush ==
  ASSUME TypeOK, writes # <<>>, NEW o \in Owners, Flush(o, TRUE)
  PROVE  Settles'
<1> DEFINE w == Write("flush", o, <<>>)
           rest == Tail(writes)
<1>1. w \in Records /\ w.kind = "flush" /\ writes' = Append(rest, w) /\ rest \in Seq(Records)
  BY TailFacts, Constants DEF Flush, Write, Records, Kinds, TypeOK
<1> HIDE DEF w, rest
<1>2. Current(w)'
  BY <1>1 DEF Current
<1>3. QED
  BY <1>1, <1>2, SettlesLast

LEMMA SettlesAppended ==
  ASSUME TypeOK, TypeOK', NEW o \in Owners, NEW m, NEW retry, NEW snapshot, NEW merged,
         NEW rest \in Seq(Records),
         StartMerge(o, m) \/ StartUndo(o, snapshot, merged, retry, rest)
  PROVE  Settles'
<1>1. writes \in Seq(Records) /\ \E text \in Texts : draft' = text
  BY DEF TypeOK
<1> PICK text \in Texts : draft' = text
  BY <1>1
<1>2. CASE StartMerge(o, m)
  <2>1. writes' = Append(writes, Write("merge", o, text))
    BY <1>2 DEF StartMerge
  <2>2. QED
    BY <1>1, <2>1, SettlesText
<1>3. CASE StartUndo(o, snapshot, merged, retry, rest)
  <2>1. writes' = Append(rest, Write("undo", o, text))
    BY <1>3 DEF StartUndo
  <2>2. QED
    BY <1>1, <2>1, SettlesText
<1>4. QED
  BY <1>2, <1>3

LEMMA SettlesRecovering ==
  ASSUME TypeOK, TypeOK', SettlesInv, NEW o \in Owners, Recovering(o)
  PROVE  SettlesInv'
<1> SUFFICES ASSUME timer' = FALSE PROVE Settles'
  BY DEF SettlesInv, TypeOK
<1>1. writes \in Seq(Records)
  BY DEF TypeOK
<1>2. writes # <<>> => Tail(writes) \in Seq(Records)
  BY <1>1, TailFacts
<1>3. CASE Merged(o)
  BY <1>3, SettlesFlush DEF Merged, First
<1>4. CASE Flushed(o)
  <2>1. writes # <<>> /\ Head(writes).kind = "flush" /\ Lands /\ draft' = draft
    BY <1>4 DEF Flushed, First
  <2>2. CASE timer \/ retryNeeded
    BY <1>4, <2>1, <2>2, SettlesFlush DEF Flushed, Flush
  <2>3. CASE ~(timer \/ retryNeeded)
    <3>1. writes' = Append(Tail(writes), Write("turn", o, <<>>))
      BY <1>4, <2>3 DEF Flushed, Flush
    <3>2. Settles
      BY <2>1, <2>3 DEF SettlesInv
    <3>3. QED
      BY <2>1, <3>1, <3>2, SettlesHead
  <2>4. QED
    BY <2>2, <2>3
<1>5. CASE Turn(o)
  <2>1. writes # <<>> /\ Head(writes).kind = "turn" /\ draft' = draft
        /\ disk' = disk /\ missed' = missed
    BY <1>5 DEF Turn, First
  <2>2. CASE timer \/ retryNeeded
    BY <1>5, <2>1, <2>2, SettlesFlush DEF Turn
  <2>3. CASE ~(timer \/ retryNeeded)
    <3>1. writes' = Tail(writes)
      BY <1>5, <2>3 DEF Turn
    <3>2. Settles
      BY <2>1, <2>3 DEF SettlesInv
    <3>3. QED
      BY <2>1, <3>1, <3>2, SettlesHead
  <2>4. QED
    BY <2>2, <2>3
<1>6. CASE Undid(o)
  <2>1. /\ writes # <<>> /\ Head(writes).kind = "undo" /\ Lands /\ draft' = draft
        /\ timer' = timer /\ writes' = Tail(writes)
    BY <1>6 DEF Undid, First
  <2>2. Settles
    BY <2>1 DEF SettlesInv
  <2>3. QED
    BY <2>1, <2>2, SettlesHead
<1>7. CASE Recovered(o)
  <2>1. UNCHANGED <<draft, disk, missed, writes>> /\ timer' = timer
    BY <1>7 DEF Recovered, draftVars
  <2>2. QED
    BY <2>1, SettlesStays DEF SettlesInv
<1>8. CASE NotRecovered(o)
  <2>1. PICK retry \in BOOLEAN : BackOut(o, retry)
    BY <1>8 DEF NotRecovered
  <2>2. QED
    BY <1>1, <2>1, SettlesAppended DEF BackOut
<1>9. ASSUME NEW snapshot, NEW merged, NEW retry, writes # <<>>,
             StartUndo(o, snapshot, merged, retry, Tail(writes))
      PROVE  Settles'
  BY <1>2, <1>9, SettlesAppended
<1>10. CASE NotMerged(o) \/ NotFlushed(o)
  BY <1>9, <1>10 DEF NotMerged, NotFlushed, First
<1>11. CASE NotUndone(o)
  <2>1. writes # <<>> /\ Head(writes).kind = "undo" /\ Misses
    BY <1>11 DEF NotUndone, First
  <2>2. CASE o = Drain /\ ~tasks[o].retry
    BY <1>9, <1>11, <2>1, <2>2 DEF NotUndone
  <2>3. CASE ~(o = Drain /\ ~tasks[o].retry)
    <3>1. draft' = draft /\ timer' = timer /\ writes' = Tail(writes)
      BY <1>11, <2>3 DEF NotUndone
    <3>2. Settles
      BY <3>1 DEF SettlesInv
    <3>3. QED
      BY <2>1, <3>1, <3>2, SettlesHead
  <2>4. QED
    BY <2>2, <2>3
<1>12. QED
  BY <1>3, <1>4, <1>5, <1>6, <1>7, <1>8, <1>10, <1>11 DEF Recovering

LEMMA SettlesStep ==
  ASSUME TypeOK, TypeOK', SettlesInv, [Next]_vars
  PROVE  SettlesInv'
<1>0. draft' \in Texts /\ writes \in Seq(Records)
  BY DEF TypeOK
<1>1. CASE UNCHANGED <<draft, disk, missed, writes, timer>>
  BY <1>1, SettlesStays DEF SettlesInv
<1>2. CASE timer' = TRUE
  BY <1>2 DEF SettlesInv
<1>3. CASE Settles'
  BY <1>3 DEF SettlesInv
<1>4. ASSUME NEW m \in Messages, NotSaved(m) PROVE SettlesInv'
  <2>1. PICK text \in Texts : draft' = text
    BY <1>0
  <2>2. writes' = Append(writes, Write("plain", Drain, text))
    BY <1>4, <2>1 DEF NotSaved
  <2>3. Settles'
    BY <1>0, <2>1, <2>2, Constants, SettlesText
  <2>4. QED
    BY <1>3, <2>3
<1>5. CASE User \/ ClearOutbox \/ Saving
  <2>1. CASE RemoveEnvironment
    <3>1. PICK text \in Texts : draft' = text
      BY <1>0
    <3>2. writes' = Append(writes, Write("plain", Drain, text))
      BY <2>1, <3>1 DEF RemoveEnvironment
    <3>3. Settles'
      BY <1>0, <3>1, <3>2, Constants, SettlesText
    <3>4. QED
      BY <1>3, <3>3
  <2>2. CASE Type \/ Erase \/ Send \/ DeleteThread \/ ClearOutbox
    BY <1>1, <1>2, <2>2 DEF Type, Erase, Send, DeleteThread, ClearOutbox, draftVars
  <2>3. CASE Saving
    BY <1>1, <1>4, <2>3 DEF Saving, Saved, draftVars
  <2>4. QED
    BY <1>5, <2>1, <2>2, <2>3 DEF User
<1>6. CASE Draining \/ \E m \in Messages : RetryFires(m)
  <2>1. ASSUME NEW m \in Messages, Restore(m) PROVE SettlesInv'
    <3>1. CASE StartMerge(Drain, m)
      <4>1. Settles'
        BY <1>0, <3>1, Constants, SettlesAppended
      <4>2. QED
        BY <1>3, <4>1
    <3>2. CASE UNCHANGED <<draft, timer, writes>>
      BY <1>1, <2>1, <3>2 DEF Restore
    <3>3. QED
      BY <2>1, <3>1, <3>2 DEF Restore
  <2>2. ASSUME NEW m \in Messages,
               \/ Begin(m) \/ Confirmed(m) \/ Delivered(m) \/ AnswerLost(m) \/ Rejected(m)
               \/ Cleared(m) \/ NotCleared(m) \/ RetryFires(m)
        PROVE  SettlesInv'
    BY <1>1, <2>2 DEF Begin, Confirmed, Delivered, AnswerLost, Rejected, Cleared, NotCleared,
                      RetryFires, draftVars
  <2>3. QED
    BY <1>6, <2>1, <2>2 DEF Draining
<1>7. CASE Reconfirmed
  <2>1. CASE BackOut(Drain, FALSE)
    <3>1. Settles'
      BY <1>0, <2>1, Constants, SettlesAppended DEF BackOut
    <3>2. QED
      BY <1>3, <3>1
  <2>2. CASE UNCHANGED draftVars
    BY <1>1, <2>2 DEF draftVars
  <2>3. QED
    BY <1>7, <2>1, <2>2 DEF Reconfirmed
<1>8. CASE \E o \in Owners : Recovering(o)
  BY <1>8, SettlesRecovering
<1>9. CASE Writing
  <2>1. CASE FireTimer
    <3>1. Settles'
      <4> DEFINE w == Write("debounced", Drain, <<>>)
      <4>1. w \in Records /\ w.kind = "debounced" /\ writes' = Append(writes, w)
            /\ writes \in Seq(Records)
        BY <2>1, Constants DEF FireTimer, Write, Records, Kinds, TypeOK
      <4> HIDE DEF w
      <4>2. Current(w)'
        BY <4>1 DEF Current
      <4>3. QED
        BY <4>1, <4>2, SettlesLast
    <3>2. QED
      BY <1>3, <3>1
  <2>2. CASE WriteDebounced \/ WritePlain
    <3>1. /\ writes # <<>> /\ Head(writes).kind # "turn" /\ (Lands \/ Misses)
          /\ draft' = draft /\ timer' = timer /\ writes' = Tail(writes)
      BY <2>2 DEF WriteDebounced, WritePlain, First, Unheeded
    <3>2. Settles => Settles'
      BY <3>1, SettlesHead
    <3>3. QED
      BY <3>1, <3>2 DEF SettlesInv
  <2>3. QED
    BY <1>9, <2>1, <2>2 DEF Writing
<1>10. CASE \E m \in Messages : Edit(m) \/ EditConfirmed(m)
  <2>1. PICK m \in Messages : Edit(m) \/ EditConfirmed(m)
    BY <1>10
  <2>2. CASE EditConfirmed(m) /\ StartMerge(m, m)
    <3>1. Settles'
      BY <1>0, <2>2, Constants, SettlesAppended
    <3>2. QED
      BY <1>3, <3>1
  <2>3. CASE EditConfirmed(m) /\ ~StartMerge(m, m)
    BY <1>1, <2>3 DEF EditConfirmed
  <2>4. CASE Edit(m)
    BY <1>1, <2>4 DEF Edit, draftVars
  <2>5. QED
    BY <2>1, <2>2, <2>3, <2>4
<1>11. CASE Crash
  <2>1. disk' = draft' /\ writes' = <<>>
    BY <1>11 DEF Crash
  <2>2. Settles'
    BY <2>1 DEF Settles
  <2>3. QED
    BY <1>3, <2>2
<1>12. CASE UNCHANGED vars
  BY <1>1, <1>12 DEF vars, draftVars
<1>13. QED
  BY <1>5, <1>6, <1>7, <1>8, <1>9, <1>10, <1>11, <1>12, Constants DEF Next, Delivering, Editor

\* persistenceQueue and persistTimer: when no write is left to be made and the last
\* one did not fail, drafts.json has what the composer shows, whatever failed before.
THEOREM DraftReachesDiskCorrect == Spec => []DraftReachesDisk
<1>1. Inv /\ SettlesInv => DraftReachesDisk
  <2> SUFFICES ASSUME SettlesInv, ~missed, ~timer, writes = <<>> PROVE disk = draft
    BY DEF DraftReachesDisk
  <2>1. Settles
    BY DEF SettlesInv
  <2>2. QED
    BY <2>1 DEF Settles
<1>2. Init => SettlesInv
  BY DEF Init, SettlesInv, Settles
<1>3. Inv /\ Inv' /\ SettlesInv /\ [Next]_vars => SettlesInv'
  BY SettlesStep DEF Inv
<1>4. QED
  BY <1>1, <1>2, <1>3, Start, Step, PTL DEF Spec

-----------------------------------------------------------------------------
(* The pieces of a text. *)

LEMMA PiecesJoin ==
  ASSUME NEW a \in Texts, NEW b \in Texts
  PROVE  Pieces(a \o b) = Pieces(a) \cup Pieces(b)
<1> DEFINE c == a \o b
<1>1. /\ Len(a) \in Nat /\ Len(b) \in Nat /\ Len(c) = Len(a) + Len(b)
      /\ \A i \in 1 .. Len(c) : c[i] = IF i <= Len(a) THEN a[i] ELSE b[i - Len(a)]
      /\ DOMAIN a = 1 .. Len(a) /\ DOMAIN b = 1 .. Len(b) /\ DOMAIN c = 1 .. Len(c)
  BY DEF Texts
<1> HIDE DEF c
<1>2. ASSUME NEW i \in 1 .. Len(c) PROVE c[i] \in ToSet(a) \cup ToSet(b)
  <2>1. CASE i <= Len(a)
    BY <1>1, <1>2, <2>1 DEF ToSet
  <2>2. CASE ~(i <= Len(a))
    <3>1. i - Len(a) \in 1 .. Len(b) /\ c[i] = b[i - Len(a)]
      BY <1>1, <1>2, <2>2
    <3>2. QED
      BY <1>1, <3>1 DEF ToSet
  <2>3. QED
    BY <2>1, <2>2
<1>3. ASSUME NEW i \in 1 .. Len(a) PROVE a[i] \in ToSet(c)
  <2>1. i \in 1 .. Len(c) /\ c[i] = a[i]
    BY <1>1
  <2>2. QED
    BY <1>1, <2>1 DEF ToSet
<1>4. ASSUME NEW i \in 1 .. Len(b) PROVE b[i] \in ToSet(c)
  <2>1. i + Len(a) \in 1 .. Len(c) /\ ~(i + Len(a) <= Len(a)) /\ (i + Len(a)) - Len(a) = i
    BY <1>1
  <2>2. c[i + Len(a)] = b[i]
    BY <1>1, <2>1
  <2>3. QED
    BY <1>1, <2>1, <2>2 DEF ToSet
<1>5. ToSet(c) = ToSet(a) \cup ToSet(b)
  <2>1. ToSet(c) \subseteq ToSet(a) \cup ToSet(b)
    BY <1>1, <1>2 DEF ToSet
  <2>2. ToSet(a) \subseteq ToSet(c)
    BY <1>1, <1>3 DEF ToSet
  <2>3. ToSet(b) \subseteq ToSet(c)
    BY <1>1, <1>4 DEF ToSet
  <2>4. QED
    BY <2>1, <2>2, <2>3
<1>6. QED
  BY <1>5 DEF Pieces, c

LEMMA PiecesSuffix ==
  ASSUME NEW a \in Texts, NEW b \in Texts, IsSuffix(a, b)
  PROVE  Pieces(a) \subseteq Pieces(b)
<1>1. /\ Len(a) \in Nat /\ Len(b) \in Nat /\ DOMAIN a = 1 .. Len(a) /\ DOMAIN b = 1 .. Len(b)
  BY DEF Texts
<1> DEFINE ra == Reverse(a)
           rb == Reverse(b)
<1>2. /\ ra = [i \in 1 .. Len(a) |-> a[(Len(a) - i) + 1]]
      /\ rb = [i \in 1 .. Len(b) |-> b[(Len(b) - i) + 1]]
  BY DEF Reverse
<1>3. ra \in Seq(Nat) /\ rb \in Seq(Nat) /\ Len(ra) = Len(a) /\ Len(rb) = Len(b)
  <2>1. \A i \in 1 .. Len(a) : a[(Len(a) - i) + 1] \in Nat
    BY <1>1 DEF Texts
  <2>2. \A i \in 1 .. Len(b) : b[(Len(b) - i) + 1] \in Nat
    BY <1>1 DEF Texts
  <2>3. QED
    BY <1>1, <1>2, <2>1, <2>2
<1>4. Len(ra) <= Len(rb) /\ SubSeq(ra, 1, Len(ra)) = SubSeq(rb, 1, Len(ra))
  BY DEF IsSuffix, IsPrefix
<1>5. /\ \A i \in 1 .. Len(a) : ra[i] = a[(Len(a) - i) + 1]
      /\ \A i \in 1 .. Len(b) : rb[i] = b[(Len(b) - i) + 1]
  BY <1>2
<1> HIDE DEF ra, rb
<1>6. ASSUME NEW i \in 1 .. Len(a) PROVE ra[i] = rb[i]
  <2>1. SubSeq(ra, 1, Len(ra))[i] = ra[i] /\ SubSeq(rb, 1, Len(ra))[i] = rb[i]
    BY <1>1, <1>3, <1>4
  <2>2. QED
    BY <1>4, <2>1
<1>7. ASSUME NEW i \in 1 .. Len(a) PROVE \E j \in 1 .. Len(b) : b[j] = a[i]
  <2> DEFINE k == (Len(a) - i) + 1
  <2>1. k \in 1 .. Len(a) /\ (Len(a) - k) + 1 = i /\ k \in 1 .. Len(b)
        /\ (Len(b) - k) + 1 \in 1 .. Len(b)
    BY <1>1, <1>3, <1>4
  <2> HIDE DEF k
  <2>2. a[i] = ra[k] /\ rb[k] = b[(Len(b) - k) + 1] /\ ra[k] = rb[k]
    BY <1>5, <1>6, <2>1
  <2>3. QED
    BY <2>1, <2>2
<1>8. QED
  BY <1>1, <1>7 DEF Pieces, ToSet

\* A merge keeps the pieces of both texts.
LEMMA PiecesMerge ==
  ASSUME NEW text \in Texts, NEW incoming \in Texts
  PROVE  Pieces(text) \cup Pieces(incoming) \subseteq Pieces(Merge(text, incoming))
<1>1. <<Break>> \in Texts /\ <<Break>> \o incoming \in Texts
  BY DEF Texts, Break
<1>2. Pieces(text \o incoming) = Pieces(text) \cup Pieces(incoming)
  BY PiecesJoin
<1>3. Pieces(<<Break>> \o incoming) = Pieces(<<Break>>) \cup Pieces(incoming)
  BY <1>1, PiecesJoin
<1>4. text \o <<Break>> \o incoming = text \o (<<Break>> \o incoming)
  BY <1>1 DEF Texts
<1>5. Pieces(text \o (<<Break>> \o incoming)) = Pieces(text) \cup Pieces(<<Break>> \o incoming)
  BY <1>1, PiecesJoin
<1>6. CASE text = <<>> \/ incoming = <<>>
  BY <1>2, <1>6 DEF Merge
<1>7. CASE ~(text = <<>> \/ incoming = <<>>) /\ text = incoming
  BY <1>7 DEF Merge
<1>8. CASE ~(text = <<>> \/ incoming = <<>>) /\ IsSuffix(<<Break>> \o incoming, text)
  <2>1. Pieces(<<Break>> \o incoming) \subseteq Pieces(text)
    BY <1>1, <1>8, PiecesSuffix
  <2>2. QED
    BY <1>3, <1>8, <2>1 DEF Merge
<1>9. CASE /\ ~(text = <<>> \/ incoming = <<>>)
           /\ ~(text = incoming \/ IsSuffix(<<Break>> \o incoming, text))
  <2>1. Merge(text, incoming) = text \o (<<Break>> \o incoming)
    BY <1>4, <1>9 DEF Merge
  <2>2. QED
    BY <1>3, <1>5, <2>1
<1>10. QED
  BY <1>6, <1>7, <1>8, <1>9

LEMMA PiecesAppend ==
  ASSUME NEW text \in Texts, NEW piece \in Nat
  PROVE  Pieces(text) \subseteq Pieces(Append(text, piece))
<1> DEFINE more == Append(text, piece)
<1>1. /\ more \in Seq(Nat) /\ Len(more) = Len(text) + 1 /\ Len(text) \in Nat
      /\ \A i \in 1 .. Len(text) : more[i] = text[i]
  BY AppendFacts DEF Texts
<1>2. DOMAIN more = 1 .. Len(more) /\ DOMAIN text = 1 .. Len(text)
  BY <1>1 DEF Texts
<1> HIDE DEF more
<1>3. \A i \in 1 .. Len(text) : i \in 1 .. Len(more)
  BY <1>1
<1>4. ToSet(text) \subseteq ToSet(more)
  BY <1>1, <1>2, <1>3 DEF ToSet
<1>5. Pieces(text) \subseteq Pieces(more)
  BY <1>4 DEF Pieces
<1>6. QED
  BY <1>5 DEF more

-----------------------------------------------------------------------------
(* What the draft's writes do to a piece of it. *)

\* A piece is in the draft and on disk, and in every write that puts a text of
\* its own there: whatever is written and whatever fails, it stays.
Carries(w) == w.kind \in {"plain", "merge", "undo"}
Lasts(x) ==
  /\ x \in Pieces(draft) /\ x \in Pieces(disk)
  /\ \A i \in 1 .. Len(writes) : Carries(writes[i]) => x \in Pieces(writes[i].text)

\* A piece is in the draft, and lasts once the merge of a task is written.
Comes(x, o) ==
  /\ x \in Pieces(draft)
  /\ \A i \in 1 .. Len(writes) : writes[i].kind = "merge" /\ writes[i].owner = o =>
       \A j \in i .. Len(writes) : Carries(writes[j]) => x \in Pieces(writes[j].text)

\* What a step does to the disk and the writes: the first may be made, and one
\* may be added, which has the text of the draft as it becomes.
Queues(rest) ==
  \/ writes' = rest
  \/ \E w \in Records : writes' = Append(rest, w) /\ (Carries(w) => w.text = draft')
DraftStep ==
  \/ Queues(writes) /\ disk' = disk
  \/ /\ writes # <<>> /\ Queues(Tail(writes))
     /\ disk' = disk \/ (Lands /\ Head(writes).kind # "turn")

\* Where the writes of the next state come from.
LEMMA QueuesFacts ==
  ASSUME NEW rest \in Seq(Records), Queues(rest)
  PROVE  /\ Len(rest) \in Nat /\ Len(writes') \in {Len(rest), Len(rest) + 1}
         /\ \A i \in 1 .. Len(rest) : writes'[i] = rest[i]
         /\ Len(writes') = Len(rest) + 1 =>
              (Carries(writes'[Len(rest) + 1]) => writes'[Len(rest) + 1].text = draft')
<1>1. Len(rest) \in Nat
  OBVIOUS
<1>2. CASE writes' = rest
  BY <1>1, <1>2
<1>3. CASE \E w \in Records : writes' = Append(rest, w) /\ (Carries(w) => w.text = draft')
  <2>1. PICK w \in Records : writes' = Append(rest, w) /\ (Carries(w) => w.text = draft')
    BY <1>3
  <2>2. /\ Len(writes') = Len(rest) + 1 /\ writes'[Len(rest) + 1] = w
        /\ \A i \in 1 .. Len(rest) : writes'[i] = rest[i]
    BY <2>1, AppendFacts
  <2>3. QED
    BY <1>1, <2>1, <2>2
<1>4. QED
  BY <1>2, <1>3 DEF Queues

\* As a map of the places: the writes of the next state are those of this one,
\* moved up by one if the first was made, and at the end the one that was added.
LEMMA DraftStepFacts ==
  ASSUME writes \in Seq(Records), DraftStep
  PROVE  \E shift \in {0, 1} :
           /\ Len(writes) \in Nat /\ Len(writes') \in Nat
           /\ shift = 1 => writes # <<>> /\ 1 \in 1 .. Len(writes) /\ Head(writes) = writes[1]
           /\ shift = 0 => disk' = disk
           /\ disk' = disk \/ (Lands /\ Head(writes).kind # "turn")
           /\ \A i \in 1 .. Len(writes') :
                \/ i + shift \in 1 .. Len(writes) /\ writes'[i] = writes[i + shift]
                \/ i = Len(writes') /\ (Carries(writes'[i]) => writes'[i].text = draft')
<1>1. CASE Queues(writes) /\ disk' = disk
  <2>1. /\ Len(writes) \in Nat /\ Len(writes') \in {Len(writes), Len(writes) + 1}
        /\ \A i \in 1 .. Len(writes) : writes'[i] = writes[i]
        /\ Len(writes') = Len(writes) + 1 =>
             (Carries(writes'[Len(writes) + 1]) => writes'[Len(writes) + 1].text = draft')
    BY <1>1, QueuesFacts
  <2>2. \A i \in 1 .. Len(writes') :
          \/ i + 0 \in 1 .. Len(writes) /\ writes'[i] = writes[i + 0]
          \/ i = Len(writes') /\ (Carries(writes'[i]) => writes'[i].text = draft')
    BY <2>1
  <2>3. QED
    BY <1>1, <2>1, <2>2
<1>2. CASE /\ writes # <<>> /\ Queues(Tail(writes))
           /\ disk' = disk \/ (Lands /\ Head(writes).kind # "turn")
  <2> DEFINE rest == Tail(writes)
  <2>1. /\ rest \in Seq(Records) /\ Head(writes) = writes[1]
        /\ Len(rest) = Len(writes) - 1 /\ Len(writes) \in Nat \ {0}
        /\ \A i \in 1 .. Len(rest) : rest[i] = writes[i + 1]
    BY <1>2, TailFacts
  <2>2. Queues(rest)
    BY <1>2
  <2> HIDE DEF rest
  <2>3. /\ Len(rest) \in Nat /\ Len(writes') \in {Len(rest), Len(rest) + 1}
        /\ \A i \in 1 .. Len(rest) : writes'[i] = rest[i]
        /\ Len(writes') = Len(rest) + 1 =>
             (Carries(writes'[Len(rest) + 1]) => writes'[Len(rest) + 1].text = draft')
    BY <2>1, <2>2, QueuesFacts
  <2>4. \A i \in 1 .. Len(writes') :
          \/ i + 1 \in 1 .. Len(writes) /\ writes'[i] = writes[i + 1]
          \/ i = Len(writes') /\ (Carries(writes'[i]) => writes'[i].text = draft')
    BY <2>1, <2>3
  <2>5. 1 \in 1 .. Len(writes) /\ Len(writes') \in Nat
    BY <2>1, <2>3
  <2>6. QED
    BY <1>2, <2>1, <2>4, <2>5
<1>3. QED
  BY <1>1, <1>2 DEF DraftStep

\* A piece that lasts stays, unless a step takes it from the draft.
LEMMA LastsStays ==
  ASSUME TypeOK, DraftStep, NEW x, Lasts(x), x \in Pieces(draft')
  PROVE  Lasts(x)'
<1>1. writes \in Seq(Records)
  BY DEF TypeOK
<1>2. PICK shift \in {0, 1} :
           /\ Len(writes) \in Nat /\ Len(writes') \in Nat
           /\ shift = 1 => writes # <<>> /\ 1 \in 1 .. Len(writes) /\ Head(writes) = writes[1]
           /\ shift = 0 => disk' = disk
           /\ disk' = disk \/ (Lands /\ Head(writes).kind # "turn")
           /\ \A i \in 1 .. Len(writes') :
                \/ i + shift \in 1 .. Len(writes) /\ writes'[i] = writes[i + shift]
                \/ i = Len(writes') /\ (Carries(writes'[i]) => writes'[i].text = draft')
  BY <1>1, DraftStepFacts
<1>3. x \in Pieces(disk')
  <2>1. CASE disk' = disk
    BY <2>1 DEF Lasts
  <2>2. CASE disk' # disk
    <3>1. Lands /\ Head(writes) = writes[1] /\ 1 \in 1 .. Len(writes) /\ Head(writes).kind # "turn"
      BY <1>2, <2>2
    <3>2. writes[1].kind \in Kinds
      <4>1. writes[1] \in Records
        BY <1>1, <3>1
      <4>2. QED
        BY <4>1 DEF Records
    <3>3. CASE writes[1].kind \in {"debounced", "flush"}
      BY <3>1, <3>3 DEF Lands, Lasts
    <3>4. CASE writes[1].kind \notin {"debounced", "flush"}
      <4>1. Carries(writes[1]) /\ disk' = writes[1].text
        BY <3>1, <3>2, <3>4 DEF Lands, Kinds, Carries
      <4>2. QED
        BY <3>1, <4>1 DEF Lasts
    <3>5. QED
      BY <3>3, <3>4
  <2>3. QED
    BY <2>1, <2>2
<1>4. ASSUME NEW i \in 1 .. Len(writes'), Carries(writes'[i]) PROVE x \in Pieces(writes'[i].text)
  BY <1>2, <1>4 DEF Lasts
<1>5. \A w : Carries(w)' <=> Carries(w)
  BY DEF Carries
<1>6. \A text : Pieces(text)' = Pieces(text)
  BY DEF Pieces
<1>7. QED
  BY <1>3, <1>4 DEF Lasts, Carries, Pieces

LEMMA LastsComes ==
  ASSUME TypeOK, NEW x, NEW o, Lasts(x)
  PROVE  Comes(x, o)
<1>1. Len(writes) \in Nat
  BY DEF TypeOK
<1>2. \A i \in 1 .. Len(writes) : \A j \in i .. Len(writes) : j \in 1 .. Len(writes)
  BY <1>1
<1>3. QED
  BY <1>2 DEF Lasts, Comes

LEMMA ComesStays ==
  ASSUME TypeOK, DraftStep, NEW x, NEW o, Comes(x, o), x \in Pieces(draft')
  PROVE  Comes(x, o)'
<1>1. writes \in Seq(Records)
  BY DEF TypeOK
<1>2. PICK shift \in {0, 1} :
           /\ Len(writes) \in Nat /\ Len(writes') \in Nat
           /\ \A i \in 1 .. Len(writes') :
                \/ i + shift \in 1 .. Len(writes) /\ writes'[i] = writes[i + shift]
                \/ i = Len(writes') /\ (Carries(writes'[i]) => writes'[i].text = draft')
  BY <1>1, DraftStepFacts
<1>3. ASSUME NEW i \in 1 .. Len(writes'), writes'[i].kind = "merge", writes'[i].owner = o,
             NEW j \in i .. Len(writes'), Carries(writes'[j])
      PROVE  x \in Pieces(writes'[j].text)
  <2>1. j \in 1 .. Len(writes')
    BY <1>2
  <2>2. CASE j + shift \in 1 .. Len(writes) /\ writes'[j] = writes[j + shift]
    <3>1. CASE i + shift \in 1 .. Len(writes) /\ writes'[i] = writes[i + shift]
      <4>1. j + shift \in (i + shift) .. Len(writes)
        BY <1>2, <2>2, <3>1
      <4>2. QED
        BY <1>3, <2>2, <3>1, <4>1 DEF Comes
    <3>2. CASE i = Len(writes') /\ (Carries(writes'[i]) => writes'[i].text = draft')
      <4>1. i = j
        BY <1>2, <3>2
      <4>2. QED
        BY <1>3, <3>2, <4>1
    <3>3. QED
      BY <1>2, <3>1, <3>2
  <2>3. CASE Carries(writes'[j]) => writes'[j].text = draft'
    BY <1>3, <2>3
  <2>4. QED
    BY <1>2, <2>1, <2>2, <2>3
<1>4. QED
  BY <1>3 DEF Comes, Carries, Pieces

\* A merge that is queued with a piece brings it, and its write being made leaves
\* it everywhere.
LEMMA ComesStarts ==
  ASSUME TypeOK, NEW x, NEW o \in Owners, NEW w \in Records, Free(writes, o),
         writes' = Append(writes, w), w.text = draft', x \in Pieces(draft')
  PROVE  Comes(x, o)'
<1>1. writes \in Seq(Records)
  BY DEF TypeOK
<1>2. /\ Len(writes') = Len(writes) + 1 /\ Len(writes) \in Nat /\ writes'[Len(writes) + 1] = w
      /\ \A i \in 1 .. Len(writes) : writes'[i] = writes[i]
  BY <1>1, AppendFacts
<1>3. ASSUME NEW i \in 1 .. Len(writes'), writes'[i].kind = "merge", writes'[i].owner = o,
             NEW j \in i .. Len(writes')
      PROVE  x \in Pieces(writes'[j].text)
  <2>1. ~(i \in 1 .. Len(writes))
    <3>1. SUFFICES ASSUME i \in 1 .. Len(writes) PROVE FALSE
      OBVIOUS
    <3>2. writes[i].kind = "merge" /\ writes[i].owner = o
      BY <1>2, <1>3, <3>1
    <3>3. QED
      BY <3>1, <3>2 DEF Free, Awaited
  <2>2. j = Len(writes) + 1
    BY <1>2, <2>1
  <2>3. QED
    BY <1>2, <2>2
<1>4. QED
  BY <1>3 DEF Comes, Carries, Pieces

LEMMA ComesLands ==
  ASSUME TypeOK, NEW x, NEW o, Comes(x, o), First("merge"), Head(writes).owner = o,
         Lands, Queues(Tail(writes)), x \in Pieces(draft')
  PROVE  Lasts(x)'
<1>1. writes # <<>> /\ Head(writes).kind = "merge"
  BY DEF First
<1>2. Head(writes) = writes[1] /\ Len(writes) \in Nat \ {0}
  BY <1>1, TailFacts DEF TypeOK
<1>3. \A j \in 1 .. Len(writes) : Carries(writes[j]) => x \in Pieces(writes[j].text)
  <2>1. 1 \in 1 .. Len(writes) /\ writes[1].kind = "merge" /\ writes[1].owner = o
    BY <1>1, <1>2
  <2>2. QED
    BY <2>1 DEF Comes
<1>4. x \in Pieces(disk')
  <2>1. disk' = writes[1].text /\ Carries(writes[1]) /\ 1 \in 1 .. Len(writes)
    BY <1>1, <1>2 DEF Lands, Carries
  <2>2. QED
    BY <1>3, <2>1
<1>5. DraftStep
  BY <1>1 DEF DraftStep
<1>6. writes \in Seq(Records)
  BY DEF TypeOK
<1>7. PICK shift \in {0, 1} :
           /\ Len(writes) \in Nat /\ Len(writes') \in Nat
           /\ \A i \in 1 .. Len(writes') :
                \/ i + shift \in 1 .. Len(writes) /\ writes'[i] = writes[i + shift]
                \/ i = Len(writes') /\ (Carries(writes'[i]) => writes'[i].text = draft')
  BY <1>5, <1>6, DraftStepFacts
<1>8. ASSUME NEW i \in 1 .. Len(writes'), Carries(writes'[i]) PROVE x \in Pieces(writes'[i].text)
  BY <1>3, <1>7, <1>8
<1>9. QED
  BY <1>4, <1>8 DEF Lasts, Carries, Pieces

-----------------------------------------------------------------------------
(* What the queue, the tasks and the texts have to do with each other.      *)

\* Messages are saved in the order they were sent; what is queued and saved has
\* a file, and the server takes nothing that is not saved.
QueueOK ==
  /\ queued \subseteq 1 .. sent /\ unsaved \subseteq 1 .. sent
  /\ files \subseteq 1 .. sent /\ accepted \subseteq 1 .. sent
  /\ acknowledged \subseteq accepted /\ accepted \cap unsaved = {}
  /\ queued \ unsaved \subseteq files
  /\ \A m \in unsaved : \A n \in (1 .. sent) \ unsaved : n < m
  /\ thread = "removed" => unsaved = {}

\* Past its checks a task works on a saved message; what it clears away for the
\* server the server has, and what it puts back has a file till it is back,
\* unless the environment has been cleared.
TaskOK(o) ==
  /\ tasks[o].stage # "idle" /\ o # Drain => tasks[o].id = o
  /\ tasks[o].stage \notin {"idle", "confirming", "leaving"} => tasks[o].id \in (1 .. sent) \ unsaved
  /\ tasks[o].stage \in {"completing", "cleaning"} => tasks[o].id \in accepted
  /\ tasks[o].stage \in Working =>
       tasks[o].id \in files \cup accepted \/ (thread = "removed" /\ safe = {})
TasksOK == \A o \in Owners : TaskOK(o)

\* What no file and no server has is with the draft for good.
Loose == safe \ taken
Lost == Loose \ Held(files \cup accepted)
LostOK == \A x \in Lost : Lasts(x)

\* What no file has but those up to the message a task puts back, and is in that:
\* the task has it in the draft, and once its merge is written, for good.
Landed == {"flushing", "checking", "removing"}
Later(o) == {n \in files : n > tasks[o].id} \cup accepted
Needed(o) == Pieces(content[tasks[o].id]) \cap (Loose \ Held(Later(o)))
NeededFor(o) ==
  /\ tasks[o].stage = "merging" => \A x \in Needed(o) : Comes(x, o)
  /\ tasks[o].stage \in Landed => \A x \in Needed(o) : Lasts(x)
NeededOK == \A o \in Owners : NeededFor(o)

Kept == QueueOK /\ TasksOK /\ LostOK /\ NeededOK

\* What is kept is durable.
LEMMA KeptIsDurable == Kept => Loose \subseteq Durable
<1> SUFFICES ASSUME Kept, NEW x \in Loose PROVE x \in Durable
  OBVIOUS
<1>1. CASE x \in Lost
  BY <1>1 DEF Kept, LostOK, Lasts, Durable
<1>2. CASE x \in Held(files \cup accepted)
  BY <1>2 DEF Held, Durable
<1>3. QED
  BY <1>1, <1>2 DEF Lost

SameWork(o) ==
  /\ tasks'[o].id = tasks[o].id
  /\ tasks'[o].stage = tasks[o].stage \/ {tasks[o].stage, tasks'[o].stage} \subseteq Landed

\* A step keeps the texts if it takes no piece from the draft that is only there,
\* and makes no new piece needed.
LEMMA TextsKept ==
  ASSUME TypeOK, LostOK, NeededOK, DraftStep,
         \A x \in Lost' : x \in Pieces(draft') /\ (x \in Lost \/ Lasts(x)),
         \A o \in Owners : tasks'[o].stage \in Landed \cup {"merging"} => \A x \in Needed(o)' :
           \/ x \in Pieces(draft') /\ (Lasts(x) \/ (x \in Needed(o) /\ SameWork(o)))
           \/ tasks'[o].stage = "merging" /\ Comes(x, o)'
           \/ Lasts(x)'
  PROVE  LostOK' /\ NeededOK'
<1>1. LostOK'
  <2> SUFFICES ASSUME NEW x \in Lost' PROVE Lasts(x)'
    BY DEF LostOK
  <2>1. Lasts(x) /\ x \in Pieces(draft')
    BY DEF LostOK
  <2>2. QED
    BY <2>1, LastsStays
<1>2. ASSUME NEW o \in Owners, NEW x \in Needed(o)', tasks'[o].stage \in Landed \cup {"merging"}
      PROVE  /\ tasks'[o].stage = "merging" => Comes(x, o)'
             /\ tasks'[o].stage \in Landed => Lasts(x)'
  <2>1. CASE x \in Pieces(draft') /\ Lasts(x)
    <3>1. Comes(x, o)
      BY <2>1, LastsComes
    <3>2. QED
      BY <2>1, <3>1, LastsStays, ComesStays
  <2>2. CASE x \in Pieces(draft') /\ x \in Needed(o) /\ SameWork(o)
    <3>1. CASE tasks[o].stage = "merging"
      <4>1. tasks'[o].stage = "merging" /\ Comes(x, o)
        BY <2>2, <3>1 DEF SameWork, Landed, NeededOK, NeededFor
      <4>2. Comes(x, o)'
        BY <2>2, <4>1, ComesStays
      <4>3. QED
        BY <4>1, <4>2 DEF Landed
    <3>2. CASE tasks[o].stage # "merging"
      <4>1. tasks'[o].stage # "merging" /\ tasks[o].stage \in Landed
        BY <1>2, <2>2, <3>2 DEF SameWork, Landed
      <4>2. Lasts(x)
        BY <2>2, <4>1 DEF NeededOK, NeededFor
      <4>3. Lasts(x)'
        BY <2>2, <4>2, LastsStays
      <4>4. QED
        BY <4>1, <4>3
    <3>3. QED
      BY <3>1, <3>2
  <2>3. CASE tasks'[o].stage = "merging" /\ Comes(x, o)'
    BY <2>3 DEF Landed
  <2>4. CASE Lasts(x)'
    <3>1. Comes(x, o)'
      <4>1. x \in Pieces(draft')
        BY <2>4 DEF Lasts, Pieces
      <4>2. \A i \in 1 .. Len(writes') : Carries(writes'[i]) => x \in Pieces(writes'[i].text)
        BY <2>4 DEF Lasts, Carries, Pieces
      <4>3. \A i \in 1 .. Len(writes') : \A j \in i .. Len(writes') :
              Carries(writes'[j]) => x \in Pieces(writes'[j].text)
        <5> SUFFICES ASSUME NEW i \in 1 .. Len(writes'), NEW j \in i .. Len(writes')
                     PROVE  j \in 1 .. Len(writes')
          BY <4>2
        <5>1. Len(writes') \in Nat
          <6>1. writes \in Seq(Records)
            BY DEF TypeOK
          <6>2. QED
            BY <6>1, DraftStepFacts
        <5>2. QED
          BY <5>1
      <4>4. QED
        BY <4>1, <4>3 DEF Comes, Carries, Pieces
    <3>2. QED
      BY <2>4, <3>1
  <2>5. QED
    BY <1>2, <2>1, <2>2, <2>3, <2>4
<1>3. NeededOK'
  BY <1>2 DEF NeededOK, NeededFor, Landed
<1>4. QED
  BY <1>1, <1>3

\* Steps that take nothing away: nothing new is lost or needed.
LEMMA NothingTaken ==
  ASSUME UNCHANGED <<content, safe, taken>>, files \subseteq files', accepted \subseteq accepted'
  PROVE  /\ Lost' \subseteq Lost
         /\ \A o : tasks'[o].id = tasks[o].id => Needed(o)' \subseteq Needed(o)
<1>1. Held(files \cup accepted) \subseteq Held(files \cup accepted)'
  BY DEF Held, Pieces
<1>2. Loose' = Loose
  BY DEF Loose
<1>3. ASSUME NEW o, tasks'[o].id = tasks[o].id PROVE Needed(o)' \subseteq Needed(o)
  <2>1. Held(Later(o)) \subseteq Held(Later(o))'
    BY <1>3 DEF Held, Pieces, Later
  <2>2. QED
    BY <1>2, <1>3, <2>1 DEF Needed, Pieces
<1>4. QED
  BY <1>1, <1>2, <1>3 DEF Lost

LEMMA QueueStays ==
  ASSUME QueueOK, UNCHANGED <<sent, queued, unsaved, files, thread>>,
         accepted' \subseteq (1 .. sent) \ unsaved, acknowledged' \subseteq accepted'
  PROVE  QueueOK'
  BY DEF QueueOK

LEMMA TasksStay ==
  ASSUME TasksOK, UNCHANGED <<sent, unsaved, files, thread, safe>>, accepted \subseteq accepted',
         NEW o, TaskOK(o)', \A p \in Owners : p # o => tasks'[p] = tasks[p]
  PROVE  TasksOK'
<1> SUFFICES ASSUME NEW p \in Owners, p # o PROVE TaskOK(p)'
  BY DEF TasksOK
<1>1. TaskOK(p) /\ tasks'[p] = tasks[p]
  BY DEF TasksOK
<1>2. QED
  BY <1>1 DEF TaskOK

\* One task moves, the draft may be written to, and the server may take a message.
LEMMA QuietStep ==
  ASSUME TypeOK, Kept, DraftStep, Pieces(draft) \subseteq Pieces(draft'),
         UNCHANGED <<sent, content, queued, unsaved, files, thread, safe, taken>>,
         accepted \subseteq accepted', accepted' \subseteq (1 .. sent) \ unsaved,
         acknowledged' \subseteq accepted',
         NEW o, TaskOK(o)', \A p \in Owners : p # o => tasks'[p] = tasks[p],
         \/ tasks'[o].stage \notin Landed \cup {"merging"}
         \/ SameWork(o)
         \/ tasks'[o].stage = "merging" /\ \A x \in Needed(o)' : Comes(x, o)'
         \/ \A x \in Needed(o)' : Lasts(x)'
  PROVE  Kept'
<1>1. QueueOK' /\ TasksOK'
  BY QueueStays, TasksStay DEF Kept
<1>2. Lost' \subseteq Lost /\ \A p : tasks'[p].id = tasks[p].id => Needed(p)' \subseteq Needed(p)
  BY NothingTaken
<1>3. ASSUME NEW x \in Lost' PROVE x \in Pieces(draft') /\ x \in Lost
  BY <1>2 DEF Kept, LostOK, Lasts
<1>4. ASSUME NEW p \in Owners, tasks'[p].stage \in Landed \cup {"merging"}, NEW x \in Needed(p)'
      PROVE  \/ x \in Pieces(draft') /\ (Lasts(x) \/ (x \in Needed(p) /\ SameWork(p)))
             \/ tasks'[p].stage = "merging" /\ Comes(x, p)'
             \/ Lasts(x)'
  <2>1. CASE SameWork(p)
    <3>1. x \in Needed(p) /\ tasks[p].stage \in Landed \cup {"merging"}
      BY <1>2, <1>4, <2>1 DEF SameWork
    <3>2. x \in Pieces(draft)
      BY <3>1 DEF Kept, NeededOK, NeededFor, Comes, Lasts
    <3>3. QED
      BY <2>1, <3>1, <3>2
  <2>2. CASE ~SameWork(p)
    <3>1. p = o
      BY <2>2 DEF SameWork
    <3>2. QED
      BY <1>4, <2>2, <3>1
  <2>3. QED
    BY <2>1, <2>2
<1>5. LostOK' /\ NeededOK'
  BY <1>3, <1>4, TextsKept DEF Kept
<1>6. QED
  BY <1>1, <1>5 DEF Kept

-----------------------------------------------------------------------------
(* Every step keeps them.                                                   *)

LEMMA QueuesWrite ==
  ASSUME NEW rest, NEW kind \in Kinds, NEW o \in Owners, NEW text \in Texts,
         writes' = Append(rest, Write(kind, o, text)),
         kind \in {"plain", "merge", "undo"} => text = draft'
  PROVE  Queues(rest)
<1> DEFINE w == Write(kind, o, text)
<1>1. w \in Records /\ w.kind = kind /\ w.text = text /\ writes' = Append(rest, w)
  BY DEF Write, Records
<1>2. Carries(w) => w.text = draft'
  BY <1>1 DEF Carries
<1> HIDE DEF w
<1>3. QED
  BY <1>1, <1>2 DEF Queues

LEMMA FlushQueues ==
  ASSUME NEW o \in Owners, NEW due, Flush(o, due)
  PROVE  Queues(Tail(writes))
<1>1. \/ writes' = Append(Tail(writes), Write("flush", o, <<>>))
      \/ writes' = Append(Tail(writes), Write("turn", o, <<>>))
  BY DEF Flush
<1>2. QED
  BY <1>1, Constants, QueuesWrite DEF Kinds

\* Steps of the draft and of timers.
LEMMA StillStep ==
  ASSUME TypeOK, Kept, DraftStep, Pieces(draft) \subseteq Pieces(draft'),
         UNCHANGED <<queueVars, tasks, serverVars, historyVars, acknowledged>>
  PROVE  Kept'
<1>1. TaskOK(Drain)'
  BY Constants DEF Kept, TasksOK, TaskOK
<1>2. SameWork(Drain)
  BY DEF SameWork
<1>3. accepted' \subseteq (1 .. sent) \ unsaved /\ acknowledged' \subseteq accepted'
  BY DEF Kept, QueueOK
<1>4. QED
  BY <1>1, <1>2, <1>3, QuietStep

LEMMA DraftKept ==
  ASSUME Inv, Kept,
         \/ Type \/ Writing \/ UNCHANGED vars
         \/ \E o \in Owners : Flushed(o) \/ RetryFires(o)
  PROVE  Kept'
<1>1. TypeOK /\ draft \in Texts
  BY DEF Inv, TypeOK
<1>2. UNCHANGED <<queueVars, tasks, serverVars, historyVars, acknowledged>>
  BY DEF Type, Writing, FireTimer, WriteDebounced, WritePlain, Unheeded, Flushed, RetryFires, vars
<1>3. CASE Type
  <2>1. Pieces(draft) \subseteq Pieces(draft')
    <3>1. typed' \in Nat /\ draft' = Append(draft, typed')
      BY <1>1, <1>3 DEF Type, TypeOK
    <3>2. PICK piece \in Nat : piece = typed'
      BY <3>1
    <3>3. QED
      BY <1>1, <3>1, <3>2, PiecesAppend
  <2>2. DraftStep
    BY <1>3 DEF Type, DraftStep, Queues
  <2>3. QED
    BY <1>1, <1>2, <2>1, <2>2, StillStep
<1>4. CASE Writing
  <2>1. draft' = draft
    BY <1>4 DEF Writing, FireTimer, WriteDebounced, WritePlain, Unheeded
  <2>2. DraftStep
    <3>1. CASE FireTimer
      <4>1. Queues(writes)
        BY <3>1, Constants, QueuesWrite DEF FireTimer, Kinds
      <4>2. QED
        BY <3>1, <4>1 DEF FireTimer, DraftStep
    <3>2. CASE WriteDebounced \/ WritePlain
      BY <3>2 DEF WriteDebounced, WritePlain, First, Misses, DraftStep, Queues
    <3>3. QED
      BY <1>4, <3>1, <3>2 DEF Writing
  <2>3. QED
    BY <1>1, <1>2, <2>1, <2>2, StillStep
<1>5. CASE UNCHANGED vars \/ \E o \in Owners : RetryFires(o)
  <2>1. draft' = draft /\ disk' = disk /\ writes' = writes
    BY <1>5 DEF RetryFires, vars
  <2>2. DraftStep
    BY <2>1 DEF DraftStep, Queues
  <2>3. QED
    BY <1>1, <1>2, <2>1, <2>2, StillStep
<1>6. CASE \E o \in Owners : Flushed(o)
  <2>1. PICK o \in Owners : Flushed(o)
    BY <1>6
  <2>2. draft' = draft
    BY <2>1 DEF Flushed
  <2>3. DraftStep
    <3>1. Queues(Tail(writes))
      BY <2>1, FlushQueues DEF Flushed
    <3>2. QED
      BY <2>1, <3>1 DEF Flushed, First, DraftStep
  <2>4. QED
    BY <1>1, <1>2, <2>2, <2>3, StillStep
<1>7. QED
  BY <1>3, <1>4, <1>5, <1>6

\* The user clears the composer: what is only there is promised no more.
LEMMA ComposerKept ==
  ASSUME Inv, Kept, Erase \/ Send
  PROVE  Kept'
<1>1. TypeOK /\ sent \in Nat
  BY DEF Inv, TypeOK
<1>2. /\ UNCHANGED <<files, tasks, thread, accepted, acknowledged, taken, disk, writes>>
      /\ safe' = safe \ Pieces(draft) /\ thread = "live"
  BY DEF Erase, Send
<1>3. /\ \/ UNCHANGED <<sent, content, queued, unsaved>>
         \/ /\ sent' = sent + 1 /\ queued' = queued \cup {sent + 1}
            /\ unsaved' = unsaved \cup {sent + 1}
      /\ \A m \in 1 .. sent : content'[m] = content[m]
  <2>1. CASE Erase
    BY <2>1 DEF Erase
  <2>2. CASE Send
    <3>1. content' = [content EXCEPT ![sent + 1] = draft]
      BY <2>2 DEF Send
    <3>2. \A m \in 1 .. sent : m \in Messages /\ m # sent + 1
      BY <1>1 DEF Inv, TypeOK, Messages
    <3>3. \A m \in 1 .. sent : content'[m] = content[m]
      BY <1>1, <3>1, <3>2 DEF TypeOK
    <3>4. QED
      BY <2>2, <3>3 DEF Send
  <2>3. QED
    BY <2>1, <2>2
<1>4. QueueOK'
  <2>1. QueueOK
    BY DEF Kept
  <2>2. CASE UNCHANGED <<sent, content, queued, unsaved>>
    BY <1>2, <2>1, <2>2 DEF QueueOK
  <2>3. CASE /\ sent' = sent + 1 /\ queued' = queued \cup {sent + 1}
             /\ unsaved' = unsaved \cup {sent + 1}
    <3>1. 1 .. sent \subseteq 1 .. sent' /\ sent + 1 \in 1 .. sent' /\ sent + 1 \notin 1 .. sent
      BY <1>1, <2>3
    <3>2. queued' \subseteq 1 .. sent' /\ unsaved' \subseteq 1 .. sent'
      BY <2>1, <2>3, <3>1 DEF QueueOK
    <3>3. /\ files' \subseteq 1 .. sent' /\ accepted' \subseteq 1 .. sent'
          /\ acknowledged' \subseteq accepted' /\ accepted' \cap unsaved' = {}
      BY <1>2, <2>1, <2>3, <3>1 DEF QueueOK
    <3>4. queued' \ unsaved' \subseteq files'
      BY <1>2, <2>1, <2>3 DEF QueueOK
    <3>5. ASSUME NEW m \in unsaved', NEW n \in (1 .. sent') \ unsaved' PROVE n < m
      <4>1. n \in (1 .. sent) \ unsaved
        BY <1>1, <2>3
      <4>2. QED
        BY <1>1, <2>1, <2>3, <4>1 DEF QueueOK
    <3>6. QED
      BY <1>2, <3>2, <3>3, <3>4, <3>5 DEF QueueOK
  <2>4. QED
    BY <1>3, <2>2, <2>3
<1>5. TasksOK'
  <2> SUFFICES ASSUME NEW o \in Owners PROVE TaskOK(o)'
    BY DEF TasksOK
  <2>1. TaskOK(o)
    BY DEF Kept, TasksOK
  <2>2. (1 .. sent) \ unsaved \subseteq (1 .. sent') \ unsaved'
    BY <1>1, <1>3
  <2>3. QED
    BY <1>2, <2>1, <2>2 DEF TaskOK
<1>6. files \cup accepted \subseteq 1 .. sent
  BY DEF Kept, QueueOK
<1>7. \A ms \in SUBSET (1 .. sent) : UNION {Pieces(content'[m]) : m \in ms} = Held(ms)
  BY <1>3 DEF Held
<1>8. Loose' = Loose \ Pieces(draft)
  BY <1>2 DEF Loose
<1>9. Lost' = {}
  <2>1. Held(files \cup accepted)' = Held(files \cup accepted)
    BY <1>2, <1>6, <1>7 DEF Held, Pieces
  <2>2. Lost \subseteq Pieces(draft)
    BY DEF Kept, LostOK, Lasts
  <2>3. QED
    BY <1>8, <2>1, <2>2 DEF Lost
<1>10. ASSUME NEW o \in Owners, tasks'[o].stage \in Landed \cup {"merging"} PROVE Needed(o)' = {}
  <2>1. tasks'[o] = tasks[o] /\ tasks[o].id \in 1 .. sent
    <3>1. tasks[o].stage \notin {"idle", "confirming", "leaving"} /\ tasks' = tasks
      BY <1>2, <1>10 DEF Landed
    <3>2. QED
      BY <3>1 DEF Kept, TasksOK, TaskOK
  <2>2. Later(o)' = Later(o) /\ Later(o) \subseteq 1 .. sent
    BY <1>2, <1>6, <2>1 DEF Later
  <2>3. Held(Later(o))' = Held(Later(o))
    BY <1>7, <2>2 DEF Held, Pieces
  <2>4. Pieces(content[tasks[o].id])' = Pieces(content[tasks[o].id])
    BY <1>3, <2>1 DEF Pieces
  <2>5. Needed(o) \subseteq Pieces(draft)
    BY <1>10, <2>1 DEF Kept, NeededOK, NeededFor, Comes, Lasts
  <2>6. QED
    BY <1>8, <2>3, <2>4, <2>5 DEF Needed
<1>11. LostOK'
  BY <1>9 DEF LostOK
<1>12. NeededOK'
  BY <1>10 DEF NeededOK, NeededFor
<1>13. QED
  BY <1>4, <1>5, <1>11, <1>12 DEF Kept

LEMMA SavedKept ==
  ASSUME Inv, Kept, NEW m \in Messages, Saved(m)
  PROVE  Kept'
<1>1. TypeOK /\ sent \in Nat /\ QueueOK
  BY DEF Inv, TypeOK, Kept
<1>2. /\ UNCHANGED <<sent, content, queued, tasks, thread, accepted, acknowledged, taken, disk, draft, writes>>
      /\ unsaved' = unsaved \ {m} /\ files' = files \cup {m}
      /\ safe' = safe \cup Pieces(content[m])
      /\ m \in unsaved /\ \A n \in unsaved : m <= n
  BY DEF Saved, Writes
<1>3. QueueOK'
  <2>1. m \in 1 .. sent /\ unsaved \subseteq 1 .. sent
    BY <1>1, <1>2 DEF QueueOK
  <2>2. ASSUME NEW n \in unsaved', NEW k \in (1 .. sent') \ unsaved' PROVE k < n
    <3>1. CASE k = m
      BY <1>2, <2>1, <2>2, <3>1
    <3>2. CASE k # m
      BY <1>1, <1>2, <2>2, <3>2 DEF QueueOK
    <3>3. QED
      BY <3>1, <3>2
  <2>3. files' \subseteq 1 .. sent' /\ queued' \ unsaved' \subseteq files' /\ unsaved' \subseteq 1 .. sent'
    BY <1>1, <1>2, <2>1 DEF QueueOK
  <2>4. thread' # "removed" /\ accepted' \cap unsaved' = {}
    BY <1>1, <1>2 DEF QueueOK
  <2>5. QED
    BY <1>1, <1>2, <2>2, <2>3, <2>4 DEF QueueOK
<1>4. TasksOK'
  <2> SUFFICES ASSUME NEW o \in Owners PROVE TaskOK(o)'
    BY DEF TasksOK
  <2>1. TaskOK(o) /\ thread # "removed"
    BY <1>1, <1>2 DEF Kept, TasksOK, QueueOK
  <2>2. QED
    BY <1>2, <2>1 DEF TaskOK
<1>5. /\ Held(files \cup accepted)' = Held(files \cup accepted) \cup Pieces(content[m])
      /\ Loose' \subseteq Loose \cup Pieces(content[m])
  BY <1>2 DEF Held, Pieces, Loose
<1>6. Lost' \subseteq Lost
  BY <1>5 DEF Lost
<1>7. ASSUME NEW o \in Owners, tasks'[o].stage \in Landed \cup {"merging"}
      PROVE  Needed(o)' \subseteq Needed(o)
  <2>1. tasks[o].id \in (1 .. sent) \ unsaved
    <3>1. tasks[o].stage \notin {"idle", "confirming", "leaving"} /\ tasks' = tasks
      BY <1>2, <1>7 DEF Landed
    <3>2. QED
      BY <3>1 DEF Kept, TasksOK, TaskOK
  <2>2. tasks[o].id < m
    BY <1>1, <1>2, <2>1 DEF QueueOK
  <2>3. Later(o)' = Later(o) \cup {m}
    BY <1>2, <2>2 DEF Later
  <2>4. Held(Later(o))' = Held(Later(o)) \cup Pieces(content[m])
    BY <1>2, <2>3 DEF Held, Pieces
  <2>5. Pieces(content[tasks[o].id])' = Pieces(content[tasks[o].id])
    BY <1>2 DEF Pieces
  <2>6. QED
    BY <1>5, <2>4, <2>5 DEF Needed
<1>8. DraftStep
  BY <1>2 DEF DraftStep, Queues
<1>9. LostOK' /\ NeededOK'
  <2>1. \A x \in Lost' : x \in Pieces(draft') /\ x \in Lost
    BY <1>2, <1>6 DEF Kept, LostOK, Lasts
  <2>2. ASSUME NEW o \in Owners, tasks'[o].stage \in Landed \cup {"merging"}, NEW x \in Needed(o)'
        PROVE  x \in Pieces(draft') /\ x \in Needed(o) /\ SameWork(o)
    <3>1. x \in Needed(o) /\ tasks' = tasks /\ draft' = draft
      BY <1>2, <1>7, <2>2
    <3>2. x \in Pieces(draft)
      BY <2>2, <3>1 DEF Kept, NeededOK, NeededFor, Comes, Lasts
    <3>3. QED
      BY <3>1, <3>2 DEF SameWork
  <2>3. QED
    BY <1>1, <1>8, <2>1, <2>2, TextsKept DEF Kept
<1>10. QED
  BY <1>3, <1>4, <1>9 DEF Kept

LEMMA NotSavedKept ==
  ASSUME Inv, Kept, NEW m \in Messages, NotSaved(m)
  PROVE  Kept'
<1>1. TypeOK /\ sent \in Nat /\ QueueOK /\ draft \in Texts /\ content[m] \in Texts
  BY DEF Inv, TypeOK, Kept
<1>2. /\ UNCHANGED <<sent, content, files, tasks, thread, accepted, acknowledged, safe, taken, disk>>
      /\ m \in unsaved /\ \A n \in unsaved : m <= n
      /\ unsaved' = unsaved \ {m} /\ queued' = queued \ {m}
      /\ draft' = Merge(draft, content[m])
      /\ writes' = Append(writes, Write("plain", Drain, draft'))
  BY DEF NotSaved, Writes
<1>3. QueueOK'
  <2>1. m \in 1 .. sent /\ unsaved \subseteq 1 .. sent
    BY <1>1, <1>2 DEF QueueOK
  <2>2. ASSUME NEW n \in unsaved', NEW k \in (1 .. sent') \ unsaved' PROVE k < n
    <3>1. CASE k = m
      BY <1>2, <2>1, <2>2, <3>1
    <3>2. CASE k # m
      BY <1>1, <1>2, <2>2, <3>2 DEF QueueOK
    <3>3. QED
      BY <3>1, <3>2
  <2>3. queued' \ unsaved' \subseteq files' /\ unsaved' \subseteq 1 .. sent' /\ queued' \subseteq 1 .. sent'
    BY <1>1, <1>2, <2>1 DEF QueueOK
  <2>4. thread' # "removed" /\ accepted' \cap unsaved' = {}
    BY <1>1, <1>2 DEF QueueOK
  <2>5. QED
    BY <1>1, <1>2, <2>2, <2>3, <2>4 DEF QueueOK
<1>4. TasksOK'
  <2> SUFFICES ASSUME NEW o \in Owners PROVE TaskOK(o)'
    BY DEF TasksOK
  <2>1. TaskOK(o)
    BY DEF Kept, TasksOK
  <2>2. QED
    BY <1>2, <2>1 DEF TaskOK
<1>5. Pieces(draft) \subseteq Pieces(draft')
  BY <1>1, <1>2, PiecesMerge
<1>6. DraftStep
  <2>1. PICK text \in Texts : draft' = text
    BY <1>1, <1>2, MergeType
  <2>2. writes' = Append(writes, Write("plain", Drain, text))
    BY <1>2, <2>1
  <2>3. Queues(writes)
    BY <2>1, <2>2, Constants, QueuesWrite DEF Kinds
  <2>4. QED
    BY <1>2, <2>3 DEF DraftStep
<1>7. LostOK' /\ NeededOK'
  <2>1. Lost' \subseteq Lost /\ \A o : Needed(o)' \subseteq Needed(o)
    BY <1>2, NothingTaken
  <2>2. \A x \in Lost' : x \in Pieces(draft') /\ x \in Lost
    BY <1>5, <2>1 DEF Kept, LostOK, Lasts
  <2>3. ASSUME NEW o \in Owners, tasks'[o].stage \in Landed \cup {"merging"}, NEW x \in Needed(o)'
        PROVE  x \in Pieces(draft') /\ x \in Needed(o) /\ SameWork(o)
    <3>1. x \in Needed(o) /\ tasks' = tasks
      BY <1>2, <2>1
    <3>2. x \in Pieces(draft)
      BY <2>3, <3>1 DEF Kept, NeededOK, NeededFor, Comes, Lasts
    <3>3. QED
      BY <1>5, <3>1, <3>2 DEF SameWork
  <2>4. QED
    BY <1>1, <1>6, <2>2, <2>3, TextsKept DEF Kept
<1>8. QED
  BY <1>3, <1>4, <1>7 DEF Kept

\* What becomes of the thread and the environment: a removal takes back the
\* promise, and clears the outbox when no file is being written.
LEMMA ThreadKept ==
  ASSUME Inv, Kept, DeleteThread \/ RemoveEnvironment \/ ClearOutbox
  PROVE  Kept'
<1>1. TypeOK /\ QueueOK /\ thread # "removed"
  BY DEF Inv, Kept, DeleteThread, RemoveEnvironment, ClearOutbox
<1>2. /\ UNCHANGED <<sent, content, unsaved, tasks, accepted, acknowledged, taken, disk>>
      /\ thread' = "removed" => unsaved = {}
      /\ UNCHANGED <<queued, files>> \/ (queued' = {} /\ files' = {} /\ safe' = {} /\ thread' = "removed")
      /\ safe' = safe \/ safe' = {}
  BY DEF DeleteThread, RemoveEnvironment, ClearOutbox
<1>3. QueueOK'
  BY <1>1, <1>2 DEF QueueOK
<1>4. TasksOK'
  <2> SUFFICES ASSUME NEW o \in Owners PROVE TaskOK(o)'
    BY DEF TasksOK
  <2>1. TaskOK(o)
    BY DEF Kept, TasksOK
  <2>2. QED
    BY <1>1, <1>2, <2>1 DEF TaskOK
<1>5. CASE safe' = {}
  <2>1. Lost' = {} /\ \A o : Needed(o)' = {}
    BY <1>5 DEF Lost, Needed, Loose
  <2>2. QED
    BY <1>3, <1>4, <2>1 DEF Kept, LostOK, NeededOK, NeededFor
<1>6. CASE safe' # {}
  <2>1. /\ UNCHANGED <<files, safe>>
        /\ UNCHANGED <<draft, writes>>
    BY <1>2, <1>6 DEF DeleteThread, RemoveEnvironment, ClearOutbox
  <2>2. DraftStep
    BY <1>2, <2>1 DEF DraftStep, Queues
  <2>3. Lost' \subseteq Lost /\ \A o : Needed(o)' \subseteq Needed(o)
    BY <1>2, <2>1, NothingTaken
  <2>4. \A x \in Lost' : x \in Pieces(draft') /\ x \in Lost
    BY <2>1, <2>3 DEF Kept, LostOK, Lasts
  <2>5. ASSUME NEW o \in Owners, tasks'[o].stage \in Landed \cup {"merging"}, NEW x \in Needed(o)'
        PROVE  x \in Pieces(draft') /\ x \in Needed(o) /\ SameWork(o)
    <3>1. x \in Needed(o) /\ tasks' = tasks
      BY <1>2, <2>3
    <3>2. x \in Pieces(draft)
      BY <2>5, <3>1 DEF Kept, NeededOK, NeededFor, Comes, Lasts
    <3>3. QED
      BY <2>1, <3>1, <3>2 DEF SameWork
  <2>6. LostOK' /\ NeededOK'
    BY <1>1, <2>2, <2>4, <2>5, TextsKept DEF Kept
  <2>7. QED
    BY <1>3, <1>4, <2>6 DEF Kept
<1>7. QED
  BY <1>5, <1>6

LEMMA IdleOK ==
  ASSUME NEW o, tasks'[o].stage = "idle"
  PROVE  TaskOK(o)' /\ tasks'[o].stage \notin Landed \cup {"merging"}
  BY DEF TaskOK, Working, Landed

LEMMA NoDraftStep ==
  ASSUME UNCHANGED <<draft, disk, writes>>
  PROVE  DraftStep /\ Pieces(draft) \subseteq Pieces(draft')
  BY DEF DraftStep, Queues

\* A dispatch or an edit begins.
LEMMA BegunKept ==
  ASSUME Inv, Kept, NEW m \in Messages, Edit(m) \/ Begin(m)
  PROVE  Kept'
<1>1. PICK o \in {Drain, m}, stage \in Checking :
        /\ Become(o, Task(stage, m)) /\ (stage = "cleaning" => m \in acknowledged)
        /\ UNCHANGED <<queueVars, draftVars, serverVars, historyVars, acknowledged, thread>>
  BY DEF Edit, Begin, Checking
<1>2. o \in Owners /\ m \in Owners /\ (o # Drain => o = m)
  BY Constants
<1>3. Task(stage, m) \in Tasks /\ Task(stage, m).stage = stage /\ Task(stage, m).id = m
  BY <1>2, TaskType DEF Checking, Stages
<1>4. tasks'[o].stage = stage /\ tasks'[o].id = m /\ \A p \in Owners : p # o => tasks'[p] = tasks[p]
  BY <1>1, <1>2, <1>3, BecomeKeeps
<1>5. QueueOK
  BY DEF Kept
<1>6. stage = "cleaning" => m \in accepted /\ m \in (1 .. sent) \ unsaved
  BY <1>1, <1>5 DEF QueueOK
<1>7. TaskOK(o)' /\ tasks'[o].stage \notin Landed \cup {"merging"}
  BY <1>1, <1>2, <1>4, <1>6 DEF TaskOK, Checking, Working, Landed
<1>8. accepted' \subseteq (1 .. sent) \ unsaved /\ acknowledged' \subseteq accepted'
  BY <1>1, <1>5 DEF QueueOK
<1>9. DraftStep /\ Pieces(draft) \subseteq Pieces(draft') /\ TypeOK
  BY <1>1, NoDraftStep DEF Inv
<1>10. QED
  BY <1>1, <1>4, <1>7, <1>8, <1>9, QuietStep

\* The drain goes on to a message that is saved and queued, or its task ends.
LEMMA ConfirmedKept ==
  ASSUME Inv, Kept, NEW m \in Messages, Confirmed(m)
  PROVE  Kept'
<1>1. /\ UNCHANGED <<queueVars, draftVars, serverVars, historyVars, acknowledged, thread>>
      /\ tasks[Drain].id = m /\ m \notin unsaved /\ Drain \in Owners /\ QueueOK
  BY Constants DEF Confirmed, Dispatching, Kept
<1>2. accepted' \subseteq (1 .. sent) \ unsaved /\ acknowledged' \subseteq accepted'
  BY <1>1 DEF QueueOK
<1>3. DraftStep /\ Pieces(draft) \subseteq Pieces(draft') /\ TypeOK
  BY <1>1, NoDraftStep DEF Inv
<1>4. CASE End(Drain, FALSE)
  <2>1. tasks'[Drain].stage = "idle" /\ \A p \in Owners : p # Drain => tasks'[p] = tasks[p]
    BY <1>1, <1>4, EndKeeps
  <2>2. QED
    BY <1>1, <1>2, <1>3, <2>1, IdleOK, QuietStep
<1>5. CASE ~Gone(Drain) /\ \E stage \in {"sending", "dropping"} : Go(Drain, stage)
  <2>1. PICK stage \in {"sending", "dropping"} : Go(Drain, stage)
    BY <1>5
  <2>2. /\ tasks'[Drain].stage = stage /\ tasks'[Drain].id = m
        /\ \A p \in Owners : p # Drain => tasks'[p] = tasks[p]
    BY <1>1, <2>1, GoKeeps DEF Stages
  <2>3. m \in (1 .. sent) \ unsaved
    BY <1>1, <1>5 DEF Gone, QueueOK
  <2>4. TaskOK(Drain)' /\ tasks'[Drain].stage \notin Landed \cup {"merging"}
    BY <1>1, <2>2, <2>3 DEF TaskOK, Working, Landed
  <2>5. QED
    BY <1>1, <1>2, <1>3, <2>2, <2>4, QuietStep
<1>6. QED
  BY <1>4, <1>5 DEF Confirmed

\* The request is answered, or the answer is lost, and clearing away fails.
LEMMA AnsweredKept ==
  ASSUME Inv, Kept, NEW m \in Messages,
         Delivered(m) \/ AnswerLost(m) \/ Rejected(m) \/ NotCleared(m)
  PROVE  Kept'
<1>1. /\ UNCHANGED <<queueVars, draftVars, historyVars, thread>>
      /\ tasks[Drain].id = m /\ Drain \in Owners /\ QueueOK
      /\ tasks[Drain].stage \in {"sending", "completing", "dropping", "cleaning"}
  BY Constants DEF Delivered, AnswerLost, Rejected, NotCleared, Dispatching, At, Kept
<1>2. m \in (1 .. sent) \ unsaved
  <2>1. TaskOK(Drain)
    BY Constants DEF Kept, TasksOK
  <2>2. QED
    BY <1>1, <2>1 DEF TaskOK
<1>3. /\ accepted \subseteq accepted' /\ accepted' \subseteq accepted \cup {m}
      /\ acknowledged' = acknowledged \/ (Delivered(m) /\ m \in accepted' /\ acknowledged' = acknowledged \cup {m})
  BY DEF Delivered, AnswerLost, Rejected, NotCleared
<1>4. accepted' \subseteq (1 .. sent) \ unsaved /\ acknowledged' \subseteq accepted'
  BY <1>1, <1>2, <1>3 DEF QueueOK
<1>5. DraftStep /\ Pieces(draft) \subseteq Pieces(draft') /\ TypeOK
  BY <1>1, NoDraftStep DEF Inv
<1>6. CASE End(Drain, TRUE)
  <2>1. tasks'[Drain].stage = "idle" /\ \A p \in Owners : p # Drain => tasks'[p] = tasks[p]
    BY <1>1, <1>6, EndKeeps
  <2>2. QED
    BY <1>1, <1>3, <1>4, <1>5, <2>1, IdleOK, QuietStep
<1>7. CASE \/ Delivered(m) /\ Go(Drain, "completing")
           \/ Go(Drain, "restoring")
  <2>1. PICK stage \in {"completing", "restoring"} :
          Go(Drain, stage) /\ (stage = "completing" => m \in accepted')
    BY <1>7 DEF Delivered
  <2>2. /\ tasks'[Drain].stage = stage /\ tasks'[Drain].id = m
        /\ \A p \in Owners : p # Drain => tasks'[p] = tasks[p]
    BY <1>1, <2>1, GoKeeps DEF Stages
  <2>3. TaskOK(Drain)' /\ tasks'[Drain].stage \notin Landed \cup {"merging"}
    BY <1>1, <1>2, <2>1, <2>2 DEF TaskOK, Working, Landed
  <2>4. QED
    BY <1>1, <1>3, <1>4, <1>5, <2>2, <2>3, QuietStep
<1>8. QED
  BY <1>6, <1>7 DEF Delivered, AnswerLost, Rejected, NotCleared

\* Nobody else works on what the drain works on past its checks.
LEMMA WorksAlone ==
  ASSUME Inv, TasksOK, NEW o \in Owners, NEW p \in Owners, o # p, tasks[p].stage \in Working,
         tasks[o].stage \in Working \cup {"dropping"}, tasks[o].id \in Messages
  PROVE  tasks[p].id # tasks[o].id
<1> SUFFICES ASSUME tasks[p].id = tasks[o].id PROVE FALSE
  OBVIOUS
<1>1. TaskOK(o) /\ TaskOK(p)
  BY DEF TasksOK
<1>2. \A q \in {o, p} : tasks[q].stage \notin Checking \cup {"idle"}
  BY DEF Working, Checking
<1>3. CASE o # Drain /\ p # Drain
  BY <1>1, <1>2, <1>3 DEF TaskOK
<1>4. CASE o = Drain
  <2>1. tasks[p].id = p
    BY <1>1, <1>2, <1>4 DEF TaskOK
  <2>2. Dispatching(p) /\ Editing(p) /\ p \in Messages
    BY <1>2, <1>4, <2>1 DEF Dispatching, Editing
  <2>3. QED
    BY <1>2, <1>4, <2>2 DEF Inv, OneOwner
<1>5. CASE p = Drain
  <2>1. tasks[o].id = o
    BY <1>1, <1>2, <1>5 DEF TaskOK
  <2>2. Dispatching(o) /\ Editing(o) /\ o \in Messages
    BY <1>2, <1>5, <2>1 DEF Dispatching, Editing
  <2>3. QED
    BY <1>2, <1>5, <2>2 DEF Inv, OneOwner
<1>6. QED
  BY <1>3, <1>4, <1>5

\* The message leaves the outbox: the server has it, or it is given up.
LEMMA ClearedKept ==
  ASSUME Inv, Kept, NEW m \in Messages, Cleared(m)
  PROVE  Kept'
<1>1. /\ UNCHANGED <<sent, content, unsaved, draftVars, serverVars, thread, accepted, taken>>
      /\ tasks[Drain].id = m /\ Drain \in Owners /\ QueueOK /\ TasksOK /\ TypeOK
      /\ tasks[Drain].stage \in {"completing", "dropping", "cleaning"}
  BY Constants DEF Cleared, Dispatching, At, Kept, Inv
<1>2. DraftStep /\ Pieces(draft) \subseteq Pieces(draft')
  BY <1>1, NoDraftStep
<1>3. PICK retry \in BOOLEAN : End(Drain, retry)
  BY DEF Cleared
<1>4. tasks'[Drain].stage = "idle" /\ \A p \in Owners : p # Drain => tasks'[p] = tasks[p]
  BY <1>1, <1>3, EndKeeps
<1>5. CASE At(Drain, "completing") /\ Gone(Drain)
  <2>1. UNCHANGED <<queued, files, acknowledged, safe>>
    BY <1>5 DEF Cleared, At
  <2>2. accepted' \subseteq (1 .. sent) \ unsaved /\ acknowledged' \subseteq accepted'
    BY <1>1, <2>1 DEF QueueOK
  <2>3. QED
    BY <1>1, <1>2, <1>4, <2>1, <2>2, IdleOK, QuietStep DEF Kept
<1>6. CASE ~(At(Drain, "completing") /\ Gone(Drain))
  <2>1. /\ queued' = queued \ {m} /\ files' = files \ {m} /\ acknowledged' = acknowledged \ {m}
        /\ \/ m \in accepted /\ safe' = safe
           \/ tasks[Drain].stage = "dropping" /\ safe' = safe \ Pieces(content[m])
    <3>1. TaskOK(Drain)
      BY <1>1 DEF TasksOK
    <3>2. tasks[Drain].stage # "dropping" => m \in accepted /\ safe' = safe
      BY <1>1, <3>1 DEF TaskOK, Cleared, At
    <3>3. QED
      BY <1>6, <3>2 DEF Cleared, At
  <2>2. QueueOK'
    BY <1>1, <2>1 DEF QueueOK
  <2>3. TasksOK'
    <3> SUFFICES ASSUME NEW p \in Owners PROVE TaskOK(p)'
      BY DEF TasksOK
    <3>1. CASE p = Drain
      BY <1>4, <3>1, IdleOK
    <3>2. CASE p # Drain
      <4>1. TaskOK(p) /\ tasks'[p] = tasks[p]
        BY <1>1, <1>4, <3>2 DEF TasksOK
      <4>2. tasks[p].stage \in Working => m \in accepted \/ tasks[p].id # m
        BY <1>1, <2>1, <3>2, WorksAlone
      <4>3. QED
        BY <1>1, <2>1, <4>1, <4>2 DEF TaskOK
    <3>3. QED
      BY <3>1, <3>2
  <2>4. /\ \A x \in Loose' : x \in Loose
        /\ \A x \in Loose' : \A ms : x \in Held(ms) => x \in Held((ms \ {m}) \cup accepted)
    <3>1. \A ms, x : x \in Held(ms) => x \in Held(ms \ {m}) \/ x \in Pieces(content[m])
      BY DEF Held
    <3>2. m \in accepted => Pieces(content[m]) \subseteq Held(accepted)
      BY DEF Held
    <3>3. \A ms, x : x \in Held(ms \ {m}) \/ x \in Held(accepted) => x \in Held((ms \ {m}) \cup accepted)
      BY DEF Held
    <3>4. \A x \in Loose' : x \in Loose /\ (m \in accepted \/ x \notin Pieces(content[m]))
      BY <1>1, <2>1 DEF Loose
    <3>5. QED
      BY <3>1, <3>2, <3>3, <3>4
  <2>5. Lost' \subseteq Lost
    <3>1. ((files \cup accepted) \ {m}) \cup accepted = files' \cup accepted'
      BY <1>1, <2>1
    <3>2. \A x \in Loose' : x \in Held(files \cup accepted) => x \in Held(files' \cup accepted')
      BY <2>4, <3>1
    <3>3. Held(files \cup accepted)' = Held(files' \cup accepted')
      BY <1>1 DEF Held, Pieces
    <3>4. QED
      BY <2>4, <3>2, <3>3 DEF Lost
  <2>6. ASSUME NEW p \in Owners, p # Drain PROVE Needed(p)' \subseteq Needed(p)
    <3>1. tasks'[p] = tasks[p]
      BY <1>4, <2>6
    <3>2. (Later(p) \ {m}) \cup accepted = Later(p)'
      BY <1>1, <2>1, <3>1 DEF Later
    <3>3. \A x \in Loose' : x \in Held(Later(p)) => x \in Held((Later(p) \ {m}) \cup accepted)
      BY <2>4
    <3>4. Held(Later(p))' = Held((Later(p) \ {m}) \cup accepted)
      BY <1>1, <3>2 DEF Held, Pieces
    <3>5. Pieces(content[tasks[p].id])' = Pieces(content[tasks[p].id])
      BY <1>1, <3>1 DEF Pieces
    <3>6. QED
      BY <2>4, <3>3, <3>4, <3>5 DEF Needed
  <2>7. \A x \in Lost' : x \in Pieces(draft') /\ x \in Lost
    BY <1>2, <2>5 DEF Kept, LostOK, Lasts
  <2>8. ASSUME NEW p \in Owners, tasks'[p].stage \in Landed \cup {"merging"}, NEW x \in Needed(p)'
        PROVE  x \in Pieces(draft') /\ x \in Needed(p) /\ SameWork(p)
    <3>1. p # Drain /\ tasks'[p] = tasks[p]
      BY <1>4, <2>8 DEF Landed
    <3>2. x \in Needed(p)
      BY <2>6, <2>8, <3>1
    <3>3. x \in Pieces(draft)
      BY <2>8, <3>1, <3>2 DEF Kept, NeededOK, NeededFor, Comes, Lasts
    <3>4. QED
      BY <1>2, <3>1, <3>2, <3>3 DEF SameWork
  <2>9. LostOK' /\ NeededOK'
    BY <1>1, <1>2, <2>7, <2>8, TextsKept DEF Kept
  <2>10. QED
    BY <2>2, <2>3, <2>9 DEF Kept
<1>7. QED
  BY <1>5, <1>6

\* A merge starts: the draft has the message's text, and its write brings it.
LEMMA MergeKept ==
  ASSUME Inv, Kept, NEW o \in Owners, NEW m \in Messages, StartMerge(o, m),
         UNCHANGED <<queueVars, disk, serverVars, historyVars, acknowledged>>,
         m \in queued, m \notin unsaved, o # Drain => o = m,
         tasks[o].stage \notin {"merging", "flushing", "undoing"}
  PROVE  Kept'
<1>1. /\ tasks'[o].stage = "merging" /\ tasks'[o].id = m
      /\ \A p \in Owners : p # o => tasks'[p] = tasks[p]
  BY StartMergeKeeps
<1>2. /\ TypeOK /\ QueueOK /\ draft \in Texts /\ content[m] \in Texts /\ content' = content
      /\ draft' = Merge(draft, content[m])
  BY DEF Inv, TypeOK, Kept, StartMerge
<1>3. Pieces(draft) \cup Pieces(content[m]) \subseteq Pieces(draft')
  BY <1>2, PiecesMerge
<1>4. PICK text \in Texts : draft' = text
  BY <1>2, MergeType
<1>5. writes' = Append(writes, Write("merge", o, text))
  BY <1>4 DEF StartMerge
<1>6. DraftStep
  <2>1. Queues(writes)
    BY <1>4, <1>5, QueuesWrite DEF Kinds
  <2>2. QED
    BY <2>1 DEF DraftStep
<1>7. ASSUME NEW x \in Needed(o)' PROVE Comes(x, o)'
  <2>1. x \in Pieces(content[m])
    BY <1>1, <1>2, <1>7 DEF Needed, Pieces
  <2>2. Free(writes, o)
    BY WorkingIsFree DEF Inv, TypeOK
  <2> DEFINE w == Write("merge", o, text)
  <2>3. w \in Records /\ w.text = draft' /\ writes' = Append(writes, w)
    BY <1>4, <1>5 DEF Write, Records, Kinds
  <2> HIDE DEF w
  <2>4. QED
    BY <1>2, <1>3, <2>1, <2>2, <2>3, ComesStarts
<1>8. TaskOK(o)'
  <2>1. m \in (1 .. sent) \ unsaved /\ m \in files
    BY <1>2 DEF QueueOK
  <2>2. QED
    BY <1>1, <2>1 DEF TaskOK
<1>9. accepted' \subseteq (1 .. sent) \ unsaved /\ acknowledged' \subseteq accepted'
  BY <1>2 DEF QueueOK
<1>10. QED
  BY <1>1, <1>2, <1>3, <1>6, <1>7, <1>8, <1>9, QuietStep

LEMMA EditConfirmedKept ==
  ASSUME Inv, Kept, NEW m \in Messages, EditConfirmed(m)
  PROVE  Kept'
<1>1. /\ UNCHANGED <<queueVars, disk, serverVars, historyVars, acknowledged, thread>>
      /\ m \notin unsaved /\ tasks[m].stage = "confirming" /\ m \in Owners /\ m # Drain
  BY Constants DEF EditConfirmed, At
<1>2. CASE m \in queued
  BY <1>1, <1>2, MergeKept DEF EditConfirmed
<1>3. CASE m \notin queued
  <2>1. Become(m, Idle) /\ UNCHANGED <<draft, timer, writes>>
    BY <1>3 DEF EditConfirmed
  <2>2. tasks'[m].stage = "idle" /\ \A p \in Owners : p # m => tasks'[p] = tasks[p]
    BY <1>1, <2>1, IdleType, BecomeKeeps
  <2>3. DraftStep /\ Pieces(draft) \subseteq Pieces(draft') /\ TypeOK
    BY <1>1, <2>1, NoDraftStep DEF Inv
  <2>4. accepted' \subseteq (1 .. sent) \ unsaved /\ acknowledged' \subseteq accepted'
    BY <1>1 DEF Kept, QueueOK
  <2>5. QED
    BY <1>1, <2>2, <2>3, <2>4, IdleOK, QuietStep
<1>4. QED
  BY <1>2, <1>3

LEMMA RestoreKept ==
  ASSUME Inv, Kept, NEW m \in Messages, Restore(m)
  PROVE  Kept'
<1>1. /\ UNCHANGED <<queueVars, disk, serverVars, historyVars, acknowledged, thread>>
      /\ tasks[Drain].id = m /\ tasks[Drain].stage = "restoring" /\ Drain \in Owners
  BY Constants DEF Restore, Dispatching, At
<1>2. m \notin unsaved
  <2>1. TaskOK(Drain)
    BY <1>1 DEF Kept, TasksOK
  <2>2. QED
    BY <1>1, <2>1 DEF TaskOK
<1>3. CASE ~Gone(Drain) /\ StartMerge(Drain, m)
  <2>1. m \in queued
    BY <1>1, <1>3 DEF Gone
  <2>2. QED
    BY <1>1, <1>2, <1>3, <2>1, MergeKept
<1>4. CASE End(Drain, FALSE) /\ UNCHANGED <<draft, timer, writes>>
  <2>1. tasks'[Drain].stage = "idle" /\ \A p \in Owners : p # Drain => tasks'[p] = tasks[p]
    BY <1>1, <1>4, EndKeeps
  <2>2. DraftStep /\ Pieces(draft) \subseteq Pieces(draft') /\ TypeOK
    BY <1>1, <1>4, NoDraftStep DEF Inv
  <2>3. accepted' \subseteq (1 .. sent) \ unsaved /\ acknowledged' \subseteq accepted'
    BY <1>1 DEF Kept, QueueOK
  <2>4. QED
    BY <1>1, <2>1, <2>2, <2>3, IdleOK, QuietStep
<1>5. QED
  BY <1>3, <1>4 DEF Restore

\* The merge is written: what it brought lasts.
LEMMA MergedKept ==
  ASSUME Inv, Kept, NEW o \in Owners, Merged(o)
  PROVE  Kept'
<1>1. /\ UNCHANGED <<queueVars, draft, serverVars, historyVars, acknowledged, thread>>
      /\ TypeOK /\ QueueOK /\ TaskOK(o) /\ writes # <<>>
  BY DEF Merged, First, Inv, Kept, TasksOK
<1>2. tasks[o].stage = "merging" /\ tasks[o] \in Tasks
  <2>1. Backed(Head(writes), tasks)
    BY <1>1, WritesTaken DEF Inv, TypeOK
  <2>2. QED
    BY <1>1, <2>1 DEF Merged, First, Backed, TypeOK
<1> DEFINE task == [tasks[o] EXCEPT !.stage = "flushing", !.merged = draft]
<1>3. task.stage = "flushing" /\ task.id = tasks[o].id
  BY <1>2 DEF Tasks
<1>4. tasks' = [tasks EXCEPT ![o] = task] /\ tasks \in [Owners -> Tasks]
  BY <1>1 DEF Merged, TypeOK
<1> HIDE DEF task
<1>5. /\ tasks'[o].stage = "flushing" /\ tasks'[o].id = tasks[o].id
      /\ \A p \in Owners : p # o => tasks'[p] = tasks[p]
  BY <1>3, <1>4
<1>6. Queues(Tail(writes)) /\ Lands /\ First("merge") /\ Head(writes).owner = o
  BY FlushQueues DEF Merged
<1>7. DraftStep
  BY <1>1, <1>6 DEF DraftStep, First
<1>8. ASSUME NEW x \in Needed(o)' PROVE Lasts(x)'
  <2>1. x \in Needed(o)
    BY <1>1, <1>5, <1>8, NothingTaken
  <2>2. Comes(x, o)
    BY <1>2, <2>1 DEF Kept, NeededOK, NeededFor
  <2>3. x \in Pieces(draft')
    BY <1>1, <2>2 DEF Comes
  <2>4. QED
    BY <1>1, <1>6, <2>2, <2>3, ComesLands
<1>9. TaskOK(o)'
  BY <1>1, <1>2, <1>5 DEF TaskOK, Working
<1>10. accepted' \subseteq (1 .. sent) \ unsaved /\ acknowledged' \subseteq accepted'
  BY <1>1 DEF QueueOK
<1>11. Pieces(draft) \subseteq Pieces(draft')
  BY <1>1
<1>12. QED
  BY <1>1, <1>5, <1>7, <1>8, <1>9, <1>10, <1>11, QuietStep

\* Its turn has come: the task goes on, or writes what is due.
LEMMA TurnKept ==
  ASSUME Inv, Kept, NEW o \in Owners, Turn(o)
  PROVE  Kept'
<1>1. /\ UNCHANGED <<queueVars, draft, disk, serverVars, historyVars, acknowledged, thread>>
      /\ TypeOK /\ QueueOK /\ TaskOK(o) /\ writes # <<>>
  BY DEF Turn, First, Inv, Kept, TasksOK
<1>2. tasks[o].stage = "flushing"
  <2>1. Backed(Head(writes), tasks)
    BY <1>1, WritesTaken DEF Inv, TypeOK
  <2>2. QED
    BY <1>1, <2>1 DEF Turn, First, Backed
<1>3. Queues(Tail(writes))
  <2>1. CASE timer \/ retryNeeded
    BY <2>1, FlushQueues DEF Turn
  <2>2. CASE ~(timer \/ retryNeeded)
    BY <2>2 DEF Turn, Queues
  <2>3. QED
    BY <2>1, <2>2
<1>4. DraftStep
  BY <1>1, <1>3 DEF DraftStep
<1>5. CASE tasks' = tasks
  BY <1>1, <1>4, <1>5, StillStep
<1>6. CASE tasks' # tasks
  <2>1. PICK stage \in {"checking", "removing"} : Go(o, stage)
    BY <1>6 DEF Turn
  <2>2. /\ tasks'[o].stage = stage /\ tasks'[o].id = tasks[o].id
        /\ \A p \in Owners : p # o => tasks'[p] = tasks[p]
    BY <2>1, GoKeeps DEF Stages
  <2>3. TaskOK(o)' /\ SameWork(o)
    BY <1>1, <1>2, <2>2 DEF TaskOK, Working, SameWork, Landed
  <2>4. accepted' \subseteq (1 .. sent) \ unsaved /\ acknowledged' \subseteq accepted'
    BY <1>1 DEF QueueOK
  <2>5. Pieces(draft) \subseteq Pieces(draft')
    BY <1>1
  <2>6. QED
    BY <1>1, <1>4, <2>2, <2>3, <2>4, <2>5, QuietStep
<1>7. QED
  BY <1>5, <1>6

\* A rollback ends, written or not.
LEMMA UndidKept ==
  ASSUME Inv, Kept, NEW o \in Owners, First("undo"), Head(writes).owner = o,
         End(o, tasks[o].retry), writes' = Tail(writes), disk' = disk \/ Lands,
         UNCHANGED <<queueVars, draft, serverVars, historyVars, acknowledged>>
  PROVE  Kept'
<1>1. tasks[o].retry \in BOOLEAN /\ writes # <<>>
  BY FirstFacts DEF Awaited
<1>2. tasks'[o].stage = "idle" /\ \A p \in Owners : p # o => tasks'[p] = tasks[p]
  BY <1>1, EndKeeps
<1>3. DraftStep
  BY <1>1 DEF DraftStep, Queues, First
<1>4. accepted' \subseteq (1 .. sent) \ unsaved /\ acknowledged' \subseteq accepted'
  BY DEF Kept, QueueOK
<1>5. TypeOK /\ Pieces(draft) \subseteq Pieces(draft') /\ TaskOK(o)'
      /\ tasks'[o].stage \notin Landed \cup {"merging"}
  BY <1>2, IdleOK DEF Inv
<1>6. QED
  BY <1>2, <1>3, <1>4, <1>5, QuietStep

\* A rollback starts: what it takes of the draft is in the message it takes
\* back, and in no other, or is no longer promised.
LEMMA UndoKept ==
  ASSUME Inv, Kept, NEW o \in Owners, NEW snapshot \in Texts, NEW merged \in Texts,
         NEW retry \in BOOLEAN, NEW rest \in Seq(Records),
         StartUndo(o, snapshot, merged, retry, rest), WritesOK(rest, tasks), Free(rest, o),
         rest = writes \/ (writes # <<>> /\ rest = Tail(writes)),
         tasks[o].stage \in Working,
         UNCHANGED <<queueVars, disk, acknowledged, serverVars, safe>>
  PROVE  Kept'
<1> DEFINE m == tasks[o].id
<1>1. /\ tasks'[o].stage = "undoing" /\ tasks'[o].id = tasks[o].id /\ draft' \in Texts
      /\ \A p \in Owners : p # o => tasks'[p] = tasks[p]
  BY StartUndoKeeps
<1>2. /\ TypeOK /\ QueueOK /\ TasksOK /\ TaskOK(o) /\ sent \in Nat /\ sent <= MaxMessages
      /\ UNCHANGED <<sent, content, queued, unsaved, files, thread, accepted>>
  BY DEF Inv, TypeOK, Kept, TasksOK
<1>3. m \in 1 .. sent /\ m \in Messages
  BY <1>2 DEF TaskOK, Working, Messages
<1>4. /\ taken' = taken \cup ((Pieces(draft) \ Pieces(draft')) \ OnlyOf(m))
      /\ Loose' = safe \ taken' /\ Loose = safe \ taken
  BY DEF StartUndo, Loose
<1>5. ASSUME NEW x \in Loose', x \in Pieces(draft), x \notin Pieces(draft')
      PROVE  /\ x \in Held(files \cup accepted)
             /\ \A n \in Messages : x \in Pieces(content[n]) => n = m
  <2>1. x \in OnlyOf(m)
    BY <1>4, <1>5
  <2>2. x \in Pieces(content[m]) /\ x \notin Held(Messages \ {m})
    BY <2>1 DEF OnlyOf
  <2>3. m \in files \cup accepted
    BY <1>2, <1>4, <1>5 DEF TaskOK
  <2>4. QED
    BY <2>2, <2>3 DEF Held
<1>6. Loose' \subseteq Loose
  BY <1>4
<1>7. Held(files \cup accepted)' = Held(files \cup accepted) /\ Lost' \subseteq Lost
  <2>1. Held(files \cup accepted)' = Held(files \cup accepted)
    BY <1>2 DEF Held, Pieces
  <2>2. QED
    BY <1>6, <2>1 DEF Lost
<1>8. ASSUME NEW x \in Lost' PROVE x \in Pieces(draft') /\ x \in Lost
  <2>1. x \in Lost /\ x \in Loose' /\ x \notin Held(files \cup accepted)
    BY <1>7, <1>8 DEF Lost
  <2>2. x \in Pieces(draft)
    BY <2>1 DEF Kept, LostOK, Lasts
  <2>3. QED
    BY <1>5, <2>1, <2>2
<1>9. ASSUME NEW p \in Owners, tasks'[p].stage \in Landed \cup {"merging"}, NEW x \in Needed(p)'
      PROVE  x \in Pieces(draft') /\ x \in Needed(p) /\ SameWork(p)
  <2>1. p # o /\ tasks'[p] = tasks[p] /\ tasks[p].stage \in Working
    BY <1>1, <1>9 DEF Landed, Working
  <2>2. Held(Later(p))' = Held(Later(p)) /\ Pieces(content[tasks[p].id])' = Pieces(content[tasks[p].id])
    BY <1>2, <2>1 DEF Held, Pieces, Later
  <2>3. x \in Needed(p) /\ x \in Loose'
    BY <1>6, <1>9, <2>2 DEF Needed
  <2>4. x \in Pieces(draft)
    BY <1>9, <2>1, <2>3 DEF Kept, NeededOK, NeededFor, Comes, Lasts
  <2>5. tasks[p].id # m /\ tasks[p].id \in Messages
    <3>1. TaskOK(p)
      BY <1>2 DEF TasksOK
    <3>2. tasks[p].id \in Messages
      BY <1>2, <2>1, <3>1 DEF TaskOK, Working, Messages
    <3>3. QED
      BY <1>2, <1>3, <2>1, <3>2, WorksAlone
  <2>6. x \in Pieces(content[tasks[p].id])
    BY <2>3 DEF Needed
  <2>7. x \in Pieces(draft')
    BY <1>5, <2>3, <2>4, <2>5, <2>6
  <2>8. QED
    BY <2>1, <2>3, <2>7 DEF SameWork
<1>10. DraftStep
  <2>1. PICK text \in Texts : draft' = text
    BY <1>1
  <2>2. writes' = Append(rest, Write("undo", o, text))
    BY <2>1 DEF StartUndo
  <2>3. Queues(rest)
    BY <2>1, <2>2, QueuesWrite DEF Kinds
  <2>4. QED
    BY <2>3 DEF DraftStep
<1>11. LostOK' /\ NeededOK'
  BY <1>2, <1>8, <1>9, <1>10, TextsKept DEF Kept
<1>12. QueueOK'
  BY <1>2, QueueStays DEF QueueOK
<1>13. TaskOK(o)'
  BY <1>1, <1>2 DEF TaskOK, Working
<1>14. TasksOK'
  BY <1>1, <1>2, <1>13, TasksStay
<1>15. QED
  BY <1>11, <1>12, <1>14 DEF Kept

LEMMA NotWrittenKept ==
  ASSUME Inv, Kept, NEW o \in Owners, NotMerged(o) \/ NotFlushed(o)
  PROVE  Kept'
<1>1. /\ Tail(writes) \in Seq(Records) /\ WritesOK(Tail(writes), tasks) /\ writes # <<>>
      /\ Free(Tail(writes), o) /\ tasks[o].stage \in Working
      /\ tasks[o].snapshot \in Texts /\ tasks[o].merged \in Texts
  BY FirstFacts DEF NotMerged, NotFlushed, Awaited
<1>2. UNCHANGED <<queueVars, disk, acknowledged, serverVars, safe>> /\ draft \in Texts
  BY DEF NotMerged, NotFlushed, Misses, Inv, TypeOK
<1>3. PICK merged \in Texts : StartUndo(o, tasks[o].snapshot, merged, TRUE, Tail(writes))
  BY <1>1, <1>2 DEF NotMerged, NotFlushed
<1> DEFINE rest == Tail(writes)
           snapshot == tasks[o].snapshot
<1>4. /\ rest \in Seq(Records) /\ WritesOK(rest, tasks) /\ Free(rest, o) /\ snapshot \in Texts
      /\ StartUndo(o, snapshot, merged, TRUE, rest)
      /\ rest = writes \/ (writes # <<>> /\ rest = Tail(writes))
  BY <1>1, <1>3
<1> HIDE DEF rest, snapshot
<1>5. QED
  BY <1>1, <1>2, <1>4, UndoKept

LEMMA NotUndoneKept ==
  ASSUME Inv, Kept, NEW o \in Owners, NotUndone(o)
  PROVE  Kept'
<1>1. /\ Tail(writes) \in Seq(Records) /\ WritesOK(Tail(writes), tasks) /\ writes # <<>>
      /\ Free(Tail(writes), o) /\ tasks[o].stage \in Working
      /\ tasks[o].snapshot \in Texts /\ tasks[o].merged \in Texts
  BY FirstFacts DEF NotUndone, Awaited
<1>2. UNCHANGED <<queueVars, disk, acknowledged, serverVars, safe>>
  BY DEF NotUndone, Misses
<1>3. CASE o = Drain /\ ~tasks[o].retry
  <2> DEFINE rest == Tail(writes)
             snapshot == tasks[o].snapshot
             merged == tasks[o].merged
  <2>1. /\ rest \in Seq(Records) /\ WritesOK(rest, tasks) /\ Free(rest, o)
        /\ snapshot \in Texts /\ merged \in Texts
        /\ StartUndo(o, snapshot, merged, TRUE, rest)
        /\ rest = writes \/ (writes # <<>> /\ rest = Tail(writes))
    BY <1>1, <1>3 DEF NotUndone
  <2> HIDE DEF rest, snapshot, merged
  <2>2. QED
    BY <1>1, <1>2, <2>1, UndoKept
<1>4. CASE ~(o = Drain /\ ~tasks[o].retry)
  <2>1. /\ End(o, tasks[o].retry) /\ writes' = Tail(writes)
        /\ draft' = draft /\ taken' = taken
    BY <1>4 DEF NotUndone
  <2>2. First("undo") /\ Head(writes).owner = o
    BY DEF NotUndone
  <2>3. QED
    BY <1>2, <2>1, <2>2, UndidKept
<1>5. QED
  BY <1>3, <1>4

LEMMA BackOutKept ==
  ASSUME Inv, Kept, NEW o \in Owners, NEW retry \in BOOLEAN, BackOut(o, retry),
         tasks[o].stage \in {"checking", "removing"}
  PROVE  Kept'
<1>1. writes \in Seq(Records) /\ WritesOK(writes, tasks) /\ Free(writes, o)
  BY WorkingIsFree DEF Inv, TypeOK
<1>2. tasks[o] \in Tasks
  BY DEF Inv, TypeOK
<1> DEFINE snapshot == tasks[o].snapshot
           merged == tasks[o].merged
<1>3. snapshot \in Texts /\ merged \in Texts /\ StartUndo(o, snapshot, merged, retry, writes)
  BY <1>2 DEF Tasks, BackOut
<1>4. tasks[o].stage \in Working
  BY DEF Working
<1>5. UNCHANGED <<queueVars, disk, acknowledged, serverVars, safe>>
  BY DEF BackOut
<1> HIDE DEF snapshot, merged
<1>6. QED
  BY <1>1, <1>3, <1>4, <1>5, UndoKept

LEMMA ReconfirmedKept ==
  ASSUME Inv, Kept, Reconfirmed
  PROVE  Kept'
<1>1. tasks[Drain].stage = "checking" /\ Drain \in Owners
  BY Constants DEF Reconfirmed, At
<1>2. CASE BackOut(Drain, FALSE)
  BY <1>1, <1>2, BackOutKept
<1>3. CASE /\ Go(Drain, "removing")
           /\ UNCHANGED <<queueVars, draftVars, drainVars, serverVars, boundVars, historyVars>>
  <2>1. /\ tasks'[Drain].stage = "removing" /\ tasks'[Drain].id = tasks[Drain].id
        /\ \A p \in Owners : p # Drain => tasks'[p] = tasks[p]
    BY <1>1, <1>3, GoKeeps DEF Stages
  <2>2. TaskOK(Drain)
    BY <1>1 DEF Kept, TasksOK
  <2>3. TaskOK(Drain)' /\ SameWork(Drain)
    BY <1>1, <1>3, <2>1, <2>2 DEF TaskOK, Working, SameWork, Landed
  <2>4. accepted' \subseteq (1 .. sent) \ unsaved /\ acknowledged' \subseteq accepted'
    BY <1>3 DEF Kept, QueueOK
  <2>5. DraftStep /\ Pieces(draft) \subseteq Pieces(draft') /\ TypeOK
    BY <1>3, NoDraftStep DEF Inv
  <2>6. QED
    BY <1>3, <2>1, <2>3, <2>4, <2>5, QuietStep
<1>4. QED
  BY <1>2, <1>3 DEF Reconfirmed

\* A message leaves the outbox for the draft: what no other file has of it lasts.
LEMMA RecoveredKept ==
  ASSUME Inv, Kept, NEW o \in Owners, Recovered(o)
  PROVE  Kept'
<1> DEFINE m == tasks[o].id
<1>1. /\ tasks[o].stage = "removing" /\ End(o, FALSE)
      /\ queued' = queued \ {m} /\ files' = files \ {m}
      /\ UNCHANGED <<sent, content, unsaved, draftVars, acknowledged, serverVars, thread, historyVars>>
  BY DEF Recovered, At
<1>2. TypeOK /\ QueueOK /\ TasksOK /\ TaskOK(o) /\ NeededFor(o) /\ sent \in Nat
  BY DEF Inv, TypeOK, Kept, TasksOK, NeededOK
<1>3. tasks'[o].stage = "idle" /\ \A p \in Owners : p # o => tasks'[p] = tasks[p]
  BY <1>1, EndKeeps
<1>4. m \in 1 .. sent /\ m \in Messages
  <2>1. m \in 1 .. sent
    BY <1>1, <1>2 DEF TaskOK
  <2>2. sent \in 0 .. MaxMessages
    BY <1>2 DEF TypeOK
  <2>3. QED
    BY <2>1, <2>2 DEF Messages
<1>5. QueueOK'
  BY <1>1, <1>2 DEF QueueOK
<1>6. TasksOK'
  <2> SUFFICES ASSUME NEW p \in Owners PROVE TaskOK(p)'
    BY DEF TasksOK
  <2>1. CASE p = o
    BY <1>3, <2>1, IdleOK
  <2>2. CASE p # o
    <3>1. TaskOK(p) /\ tasks'[p] = tasks[p]
      BY <1>2, <1>3, <2>2 DEF TasksOK
    <3>2. tasks[p].stage \in Working => tasks[p].id # m
      BY <1>1, <1>2, <1>4, <2>2, WorksAlone DEF Working
    <3>3. QED
      BY <1>1, <3>1, <3>2 DEF TaskOK
  <2>3. QED
    BY <2>1, <2>2
\* A piece that only this file still had is in the draft for good.
<1>7. ASSUME NEW x \in Loose, NEW ms, x \in Held(ms), x \notin Held((ms \ {m}) \cup accepted),
             Later(o) \subseteq (ms \ {m}) \cup accepted
      PROVE  Lasts(x)
  <2>1. x \in Pieces(content[m])
    BY <1>7 DEF Held
  <2>2. x \notin Held(Later(o))
    BY <1>7 DEF Held
  <2>3. x \in Needed(o)
    BY <1>7, <2>1, <2>2 DEF Needed
  <2>4. QED
    BY <1>1, <1>2, <2>3 DEF NeededFor, Landed
<1>8. Loose' = Loose /\ draft' = draft
  BY <1>1 DEF Loose
<1>9. ASSUME NEW x \in Lost' PROVE x \in Pieces(draft') /\ (x \in Lost \/ Lasts(x))
  <2>1. files' \cup accepted' = ((files \cup accepted) \ {m}) \cup accepted
    BY <1>1
  <2>2. x \in Loose /\ x \notin Held(((files \cup accepted) \ {m}) \cup accepted)
    BY <1>1, <1>8, <1>9, <2>1 DEF Lost, Held, Pieces
  <2>3. CASE x \in Held(files \cup accepted)
    <3>1. Later(o) \subseteq ((files \cup accepted) \ {m}) \cup accepted
      <4>1. ~(m > m)
        BY <1>2, <1>4
      <4>2. QED
        BY <4>1 DEF Later
    <3>2. Lasts(x)
      BY <1>7, <2>2, <2>3, <3>1
    <3>3. QED
      BY <1>8, <3>2 DEF Lasts
  <2>4. CASE x \notin Held(files \cup accepted)
    <3>1. x \in Lost
      BY <2>2, <2>4 DEF Lost
    <3>2. QED
      BY <1>8, <3>1 DEF Kept, LostOK, Lasts
  <2>5. QED
    BY <2>3, <2>4
<1>10. ASSUME NEW p \in Owners, tasks'[p].stage \in Landed \cup {"merging"}, NEW x \in Needed(p)'
       PROVE  x \in Pieces(draft') /\ (Lasts(x) \/ (x \in Needed(p) /\ SameWork(p)))
  <2>1. p # o /\ tasks'[p] = tasks[p] /\ TaskOK(p)
    BY <1>2, <1>3, <1>10 DEF Landed, TasksOK
  <2>2. tasks[p].id \in 1 .. sent
    BY <1>10, <2>1 DEF TaskOK, Landed
  <2>3. Later(p)' = (Later(p) \ {m}) \cup accepted
    BY <1>1, <2>1 DEF Later
  <2>4. /\ x \in Loose /\ x \in Pieces(content[tasks[p].id])
        /\ x \notin Held((Later(p) \ {m}) \cup accepted)
    <3>1. Held(Later(p))' = Held((Later(p) \ {m}) \cup accepted)
      BY <1>1, <2>3 DEF Held, Pieces
    <3>2. QED
      BY <1>1, <1>8, <1>10, <2>1, <3>1 DEF Needed, Pieces
  <2>5. CASE x \in Held(Later(p))
    <3>1. m > tasks[p].id
      <4>1. SUFFICES ASSUME ~(m > tasks[p].id) PROVE FALSE
        OBVIOUS
      <4>2. Later(p) \subseteq (Later(p) \ {m}) \cup accepted
        BY <4>1 DEF Later
      <4>3. QED
        BY <2>4, <2>5, <4>2 DEF Held
    <3>2. Later(o) \subseteq (Later(p) \ {m}) \cup accepted
      <4>1. files \subseteq 1 .. sent
        BY <1>2 DEF QueueOK
      <4>2. \A n \in files : n > m => n > tasks[p].id /\ n # m
        BY <1>2, <1>4, <2>2, <3>1, <4>1
      <4>3. QED
        BY <4>2 DEF Later
    <3>3. Lasts(x)
      BY <1>7, <2>4, <2>5, <3>2
    <3>4. QED
      BY <1>8, <3>3 DEF Lasts
  <2>6. CASE x \notin Held(Later(p))
    <3>1. x \in Needed(p) /\ SameWork(p)
      BY <2>1, <2>4, <2>6 DEF Needed, SameWork
    <3>2. x \in Pieces(draft)
      BY <1>10, <2>1, <3>1 DEF Kept, NeededOK, NeededFor, Comes, Lasts
    <3>3. QED
      BY <1>8, <3>1, <3>2
  <2>7. QED
    BY <2>5, <2>6
<1>11. DraftStep
  BY <1>1, NoDraftStep
<1>12. LostOK' /\ NeededOK'
  BY <1>2, <1>9, <1>10, <1>11, TextsKept DEF Kept
<1>13. QED
  BY <1>5, <1>6, <1>12 DEF Kept

LEMMA NotRecoveredKept ==
  ASSUME Inv, Kept, NEW o \in Owners, NotRecovered(o)
  PROVE  Kept'
<1>1. tasks[o].stage = "removing"
  BY DEF NotRecovered, At
<1>2. PICK retry \in BOOLEAN : BackOut(o, retry)
  BY DEF NotRecovered
<1>3. QED
  BY <1>1, <1>2, BackOutKept

LEMMA CrashKept ==
  ASSUME Inv, Kept, Crash
  PROVE  Kept'
<1>1. /\ queued' = files /\ unsaved' = {} /\ draft' = disk /\ disk' = disk
      /\ writes' = <<>> /\ Len(writes') = 0 /\ acknowledged' = {}
      /\ tasks' = [o \in Owners |-> Idle]
      /\ UNCHANGED <<sent, content, files, thread, accepted, safe, taken>>
  BY DEF Crash
<1>2. \A o \in Owners : tasks'[o].stage = "idle"
  BY <1>1, IdleType
<1>3. QueueOK'
  BY <1>1 DEF Kept, QueueOK
<1>4. TasksOK'
  BY <1>2, IdleOK DEF TasksOK
<1>5. LostOK'
  <2>1. Lost' \subseteq Lost
    BY <1>1 DEF Lost, Loose, Held, Pieces
  <2>2. ASSUME NEW x \in Lost' PROVE Lasts(x)'
    <3>1. x \in Pieces(disk)
      BY <2>1 DEF Kept, LostOK, Lasts
    <3>2. QED
      BY <1>1, <3>1 DEF Lasts, Pieces
  <2>3. QED
    BY <2>2 DEF LostOK
<1>6. NeededOK'
  BY <1>2 DEF NeededOK, NeededFor, Landed
<1>7. QED
  BY <1>3, <1>4, <1>5, <1>6 DEF Kept

LEMMA KeptStart == Init => Kept
<1> SUFFICES ASSUME Init PROVE Kept
  OBVIOUS
<1>1. \A o \in Owners : tasks[o].stage = "idle"
  BY IdleType DEF Init
<1>2. QueueOK
  BY DEF Init, QueueOK
<1>3. TasksOK
  BY <1>1 DEF TasksOK, TaskOK, Working
<1>4. LostOK
  BY DEF Init, LostOK, Lost, Loose
<1>5. NeededOK
  BY <1>1 DEF NeededOK, NeededFor, Landed
<1>6. QED
  BY <1>2, <1>3, <1>4, <1>5 DEF Kept

LEMMA KeptStep == Inv /\ Kept /\ [Next]_vars => Kept'
<1> SUFFICES ASSUME Inv, Kept, [Next]_vars PROVE Kept'
  OBVIOUS
<1>1. CASE User \/ ClearOutbox
  BY <1>1, DraftKept, ComposerKept, ThreadKept DEF User
<1>2. CASE Saving
  BY <1>2, SavedKept, NotSavedKept DEF Saving
<1>3. ASSUME NEW o \in Owners, Recovering(o) PROVE Kept'
  <2>1. CASE Merged(o) \/ NotMerged(o) \/ NotFlushed(o) \/ Turn(o) \/ NotUndone(o)
                \/ Recovered(o) \/ NotRecovered(o)
    BY <2>1, MergedKept, NotWrittenKept, TurnKept, NotUndoneKept, RecoveredKept, NotRecoveredKept
  <2>2. CASE Flushed(o)
    BY <2>2, DraftKept
  <2>3. CASE Undid(o)
    BY <2>3, UndidKept DEF Undid
  <2>4. QED
    BY <1>3, <2>1, <2>2, <2>3 DEF Recovering
<1>4. CASE Delivering
  <2>1. CASE Draining
    BY <2>1, BegunKept, ConfirmedKept, AnsweredKept, ClearedKept, RestoreKept DEF Draining
  <2>2. CASE Reconfirmed
    BY <2>2, ReconfirmedKept
  <2>3. CASE Recovering(Drain)
    BY <2>3, <1>3, Constants
  <2>4. CASE \E m \in Messages : RetryFires(m)
    BY <2>4, Constants, DraftKept
  <2>5. QED
    BY <1>4, <2>1, <2>2, <2>3, <2>4 DEF Delivering
<1>5. CASE Writing \/ UNCHANGED vars
  BY <1>5, DraftKept
<1>6. CASE \E m \in Messages : Edit(m) \/ Editor(m)
  BY <1>3, <1>6, Constants, BegunKept, EditConfirmedKept DEF Editor
<1>7. CASE Crash
  BY <1>7, CrashKept
<1>8. QED
  BY <1>1, <1>2, <1>4, <1>5, <1>6, <1>7 DEF Next

-----------------------------------------------------------------------------
(* No task is forgotten: what the liveness property QueueEmpties rests on, *)
(* short of its fairness.                                                  *)

\* A task that waits for a write has that write in the queue,
Hanging == {"merging", "flushing", "undoing"}
Due(ws, o) == \E i \in 1 .. Len(ws) : ws[i].owner = o /\ ws[i].kind \in Awaited
WritesDue == \A o \in Owners : tasks[o].stage \in Hanging => Due(writes, o)

\* works on a message, an editor on its own, and is in a stage of its kind.
EditStages == {"confirming", "merging", "flushing", "removing", "undoing"}
Fits(o, task) ==
  task.stage # "idle" =>
    /\ task.id \in Messages
    /\ o # Drain => task.id = o /\ task.stage \in EditStages
AllFit == \A o \in Owners : Fits(o, tasks[o])

\* The guards of Saved; of what makes the first write; of the steps of a task that waits
\* for neither; and of the drain's next message.
CanSave == \E m \in Messages : Writes(m)
CanWrite ==
  /\ writes # <<>>
  /\ \/ Head(writes).kind \in {"debounced", "plain"}
     \/ /\ Head(writes).kind \in Awaited /\ Head(writes).owner \in Owners
        /\ tasks[Head(writes).owner].stage \in Hanging
CanMove(o) ==
  \/ At(o, "confirming") /\ tasks[o].id \notin unsaved
  \/ At(o, "removing")
  \/ /\ o = Drain
     /\ \/ At(o, "leaving") /\ tasks[o].id \notin unsaved
        \/ tasks[o].stage \in {"sending", "completing", "dropping", "cleaning", "restoring",
                               "checking"}
CanBegin(m) ==
  \/ m \in waiting
  \/ /\ At(Drain, "idle")
     /\ \/ m \in acknowledged
        \/ tasks[m].stage \in {"idle", "confirming"} /\ thread \in {"live", "deleted"}
GoesOn(o) ==
  \/ CanMove(o)
  \/ tasks[o].stage \in Hanging /\ Due(writes, o) /\ CanWrite
  \/ tasks[o].stage \in {"confirming", "leaving"} /\ tasks[o].id \in unsaved /\ CanSave

\* Every task that has begun goes on; and the first message of a thread that is there or was
\* deleted can be begun, or the drain or that message's own editor works and goes on.
NoTaskForgotten == \A o \in Owners : tasks[o].stage # "idle" => GoesOn(o)
QueueGoesOn ==
  queued # {} /\ thread \in {"live", "deleted"} =>
    \E m \in queued :
      /\ IsNext(m)
      /\ CanBegin(m) \/ \E o \in {Drain, m} : tasks[o].stage # "idle" /\ GoesOn(o)

\* Task o and the queue of writes take a step: the first write is made or not, and task o
\* waits for nothing, or for the write that it queues.
TakesFirst(o, rest) ==
  \/ rest = writes
  \/ /\ writes # <<>> /\ rest = Tail(writes)
     /\ Head(writes).owner = o \/ Head(writes).kind \notin Awaited
TaskStep(o, rest) ==
  /\ \A p \in Owners : p # o => tasks'[p] = tasks[p]
  /\ Fits(o, tasks'[o])
  /\ \/ writes' = rest /\ tasks'[o].stage \notin Hanging
     \/ \E w \in Records : writes' = Append(rest, w) /\ w.owner = o /\ w.kind \in Awaited
OutsideStep ==
  /\ tasks' = tasks
  /\ \/ writes' = writes
     \/ \E w \in Records : writes' = Append(writes, w)
     \/ writes # <<>> /\ Head(writes).kind \notin Awaited /\ writes' = Tail(writes)

LEMMA DueAppended ==
  ASSUME NEW ws \in Seq(Records), NEW w \in Records, NEW o
  PROVE  /\ Due(ws, o) => Due(Append(ws, w), o)
         /\ w.owner = o /\ w.kind \in Awaited => Due(Append(ws, w), o)
<1> DEFINE vs == Append(ws, w)
<1>1. /\ Len(vs) = Len(ws) + 1 /\ Len(ws) \in Nat /\ vs[Len(ws) + 1] = w
      /\ \A i \in 1 .. Len(ws) : vs[i] = ws[i]
  BY AppendFacts
<1> HIDE DEF vs
<1>2. Due(ws, o) => Due(vs, o)
  BY <1>1 DEF Due
<1>3. Len(ws) + 1 \in 1 .. Len(vs)
  BY <1>1
<1>4. w.owner = o /\ w.kind \in Awaited => Due(vs, o)
  BY <1>1, <1>3 DEF Due
<1> QED
  BY <1>2, <1>4 DEF vs

LEMMA DueBehind ==
  ASSUME NEW ws \in Seq(Records), ws # <<>>, NEW o, Due(ws, o),
         Head(ws).owner # o \/ Head(ws).kind \notin Awaited
  PROVE  Due(Tail(ws), o)
<1> DEFINE vs == Tail(ws)
<1>1. /\ Head(ws) = ws[1] /\ Len(vs) = Len(ws) - 1 /\ Len(ws) \in Nat \ {0}
      /\ \A i \in 1 .. Len(vs) : vs[i] = ws[i + 1]
  BY TailFacts
<1>2. PICK i \in 1 .. Len(ws) : ws[i].owner = o /\ ws[i].kind \in Awaited
  BY DEF Due
<1>3. i # 1
  BY <1>1, <1>2
<1> HIDE DEF vs
<1>4. i - 1 \in 1 .. Len(vs) /\ (i - 1) + 1 = i
  BY <1>1, <1>3
<1>5. vs[i - 1] = ws[i]
  BY <1>1, <1>4
<1>6. Due(vs, o)
  BY <1>2, <1>4, <1>5 DEF Due
<1> QED
  BY <1>6 DEF vs

LEMMA OutsideKeeps ==
  ASSUME Inv, WritesDue, AllFit, OutsideStep
  PROVE  WritesDue' /\ AllFit'
<1>0. writes \in Seq(Records)
  BY DEF Inv, TypeOK
<1>1. \A o \in Owners : Due(writes, o) => Due(writes', o)
  <2> SUFFICES ASSUME NEW o \in Owners, Due(writes, o) PROVE Due(writes', o)
    OBVIOUS
  <2>1. ASSUME NEW w \in Records, writes' = Append(writes, w) PROVE Due(writes', o)
    <3>1. Due(Append(writes, w), o)
      BY <1>0, DueAppended
    <3> QED
      BY <2>1, <3>1
  <2>2. CASE writes # <<>> /\ Head(writes).kind \notin Awaited /\ writes' = Tail(writes)
    <3>1. Due(Tail(writes), o)
      BY <1>0, <2>2, DueBehind
    <3> QED
      BY <2>2, <3>1
  <2> QED
    BY <2>1, <2>2 DEF OutsideStep
<1> QED
  BY <1>1 DEF OutsideStep, WritesDue, AllFit, Due

LEMMA TaskKeeps ==
  ASSUME Inv, WritesDue, AllFit, NEW o \in Owners, NEW rest \in Seq(Records),
         TakesFirst(o, rest), TaskStep(o, rest)
  PROVE  WritesDue' /\ AllFit'
<1>0. writes \in Seq(Records)
  BY DEF Inv, TypeOK
<1>1. AllFit'
  BY DEF AllFit, TaskStep
<1>2. ASSUME NEW p \in Owners, p # o, tasks'[p].stage \in Hanging
      PROVE  Due(writes', p)
  <2>1. Due(writes, p)
    BY <1>2 DEF TaskStep, WritesDue
  <2>2. Due(rest, p)
    BY <1>0, <1>2, <2>1, DueBehind DEF TakesFirst
  <2> QED
    BY <2>2, DueAppended DEF TaskStep
<1>3. tasks'[o].stage \in Hanging => Due(writes', o)
  <2>1. ASSUME NEW w \in Records, writes' = Append(rest, w), w.owner = o, w.kind \in Awaited
        PROVE  Due(writes', o)
    <3>1. Due(Append(rest, w), o)
      BY <2>1, DueAppended
    <3> QED
      BY <2>1, <3>1
  <2> QED
    BY <2>1 DEF TaskStep
<1>4. WritesDue'
  BY <1>2, <1>3 DEF WritesDue, Due
<1> QED
  BY <1>1, <1>4

\* What the parts of the actions come to.
LEMMA EndIsStep ==
  ASSUME Inv, NEW o \in Owners, NEW retry \in BOOLEAN, End(o, retry), NEW rest, writes' = rest
  PROVE  TaskStep(o, rest)
<1>1. tasks'[o].stage = "idle" /\ \A p \in Owners : p # o => tasks'[p] = tasks[p]
  BY EndKeeps
<1> QED
  BY <1>1 DEF TaskStep, Fits, Hanging

LEMMA GoIsStep ==
  ASSUME Inv, AllFit, NEW o \in Owners, NEW stage \in Stages \ Hanging, Go(o, stage),
         tasks[o].stage # "idle", o # Drain => stage \in EditStages, NEW rest, writes' = rest
  PROVE  TaskStep(o, rest)
<1>1. /\ tasks'[o].stage = stage /\ tasks'[o].id = tasks[o].id
      /\ \A p \in Owners : p # o => tasks'[p] = tasks[p]
  BY GoKeeps
<1>2. Fits(o, tasks'[o])
  BY <1>1 DEF Fits, AllFit
<1> QED
  BY <1>1, <1>2 DEF TaskStep

LEMMA BeginIsStep ==
  ASSUME Inv, NEW o \in Owners, NEW stage \in Stages \ Hanging, NEW m \in Messages,
         Become(o, Task(stage, m)), o # Drain => stage \in EditStages /\ o = m,
         NEW rest, writes' = rest
  PROVE  TaskStep(o, rest)
<1>1. /\ Task(stage, m) \in Tasks /\ Task(stage, m).stage = stage /\ Task(stage, m).id = m
  BY Constants, TaskType
<1>2. tasks'[o] = Task(stage, m) /\ \A p \in Owners : p # o => tasks'[p] = tasks[p]
  BY <1>1, BecomeKeeps
<1>3. Fits(o, tasks'[o])
  BY <1>1, <1>2 DEF Fits
<1> QED
  BY <1>1, <1>2, <1>3 DEF TaskStep

LEMMA MergeIsStep ==
  ASSUME Inv, NEW o \in Owners, NEW m \in Messages, StartMerge(o, m),
         tasks[o].stage \notin Hanging, o # Drain => o = m
  PROVE  TaskStep(o, writes)
<1>1. /\ draft' \in Texts /\ tasks'[o].stage = "merging" /\ tasks'[o].id = m
      /\ \A p \in Owners : p # o => tasks'[p] = tasks[p]
  BY StartMergeKeeps DEF Hanging
<1>2. Fits(o, tasks'[o])
  BY <1>1 DEF Fits, EditStages
<1>3. PICK w \in Records : writes' = Append(writes, w) /\ w.owner = o /\ w.kind = "merge"
  <2>1. Write("merge", o, draft') \in Records
    BY <1>1 DEF Write, Records, Kinds
  <2>2. Write("merge", o, draft').owner = o /\ Write("merge", o, draft').kind = "merge"
    BY DEF Write
  <2> QED
    BY <2>1, <2>2 DEF StartMerge
<1> QED
  BY <1>1, <1>2, <1>3 DEF TaskStep, Awaited

LEMMA UndoIsStep ==
  ASSUME Inv, AllFit, NEW o \in Owners, NEW snapshot \in Texts, NEW merged \in Texts,
         NEW retry \in BOOLEAN, NEW rest \in Seq(Records),
         StartUndo(o, snapshot, merged, retry, rest), WritesOK(rest, tasks), Free(rest, o),
         tasks[o].stage # "idle"
  PROVE  TaskStep(o, rest)
<1>1. /\ draft' \in Texts /\ tasks'[o].stage = "undoing" /\ tasks'[o].id = tasks[o].id
      /\ \A p \in Owners : p # o => tasks'[p] = tasks[p]
  BY StartUndoKeeps
<1>2. Fits(o, tasks'[o])
  BY <1>1 DEF Fits, AllFit, EditStages
<1>3. PICK w \in Records : writes' = Append(rest, w) /\ w.owner = o /\ w.kind = "undo"
  <2>1. Write("undo", o, draft') \in Records
    BY <1>1 DEF Write, Records, Kinds
  <2>2. Write("undo", o, draft').owner = o /\ Write("undo", o, draft').kind = "undo"
    BY DEF Write
  <2> QED
    BY <2>1, <2>2 DEF StartUndo
<1> QED
  BY <1>1, <1>2, <1>3 DEF TaskStep, Awaited

LEMMA FlushIsStep ==
  ASSUME NEW o \in Owners, NEW due \in BOOLEAN, Flush(o, due), NEW rest, rest = Tail(writes),
         Fits(o, tasks'[o]), \A p \in Owners : p # o => tasks'[p] = tasks[p]
  PROVE  TaskStep(o, rest)
<1>1. PICK kind \in {"flush", "turn"} : writes' = Append(rest, Write(kind, o, <<>>))
  BY DEF Flush
<1>2. Write(kind, o, <<>>) \in Records
  BY Constants DEF Write, Records, Kinds
<1>3. Write(kind, o, <<>>).owner = o /\ Write(kind, o, <<>>).kind = kind
  BY DEF Write
<1>4. PICK w \in Records : writes' = Append(rest, w) /\ w.owner = o /\ w.kind = kind
  BY <1>1, <1>2, <1>3
<1> QED
  BY <1>4 DEF TaskStep, Awaited

\* The steps of the composer and of the store move no task.
LEMMA OutsideSteps ==
  ASSUME Inv, User \/ ClearOutbox \/ Saving \/ Writing \/ (\E m \in Messages : RetryFires(m))
                \/ UNCHANGED vars
  PROVE  OutsideStep
<1>0. writes \in Seq(Records) /\ draft \in Texts
  BY DEF Inv, TypeOK
<1>1. CASE \/ Type \/ Erase \/ Send \/ DeleteThread \/ ClearOutbox
           \/ \E m \in Messages : Saved(m) \/ RetryFires(m)
           \/ UNCHANGED vars
  BY <1>1 DEF OutsideStep, Type, Erase, Send, DeleteThread, ClearOutbox, Saved, RetryFires, vars
<1>2. CASE RemoveEnvironment \/ FireTimer \/ \E m \in Messages : NotSaved(m)
  <2>1. ASSUME NEW m \in Messages, NotSaved(m) PROVE draft' \in Texts
    <3>1. content[m] \in Texts
      BY DEF Inv, TypeOK
    <3> QED
      BY <1>0, <2>1, <3>1, MergeType DEF NotSaved
  <2>2. PICK kind \in {"plain", "debounced"}, text \in Texts :
          writes' = Append(writes, Write(kind, Drain, text))
    BY <1>2, <2>1, Constants DEF RemoveEnvironment, FireTimer, NotSaved
  <2>3. Write(kind, Drain, text) \in Records
    BY Constants DEF Write, Records, Kinds
  <2>4. tasks' = tasks
    BY <1>2 DEF RemoveEnvironment, FireTimer, NotSaved
  <2> QED
    BY <2>2, <2>3, <2>4 DEF OutsideStep
<1>3. CASE WriteDebounced \/ WritePlain
  BY <1>3 DEF OutsideStep, WriteDebounced, WritePlain, First, Unheeded, Awaited
<1> QED
  BY <1>1, <1>2, <1>3 DEF User, Saving, Writing

\* Every action of a task is such a step.
Steps(o) == \E rest \in Seq(Records) : TakesFirst(o, rest) /\ TaskStep(o, rest)

LEMMA FirstStep ==
  ASSUME Inv, NEW o \in Owners, NEW kind \in Awaited, First(kind), Head(writes).owner = o
  PROVE  /\ writes # <<>> /\ TakesFirst(o, Tail(writes)) /\ Tail(writes) \in Seq(Records)
         /\ WritesOK(Tail(writes), tasks) /\ Free(Tail(writes), o)
         /\ tasks[o].stage # "idle" /\ tasks[o].stage \in Working
         /\ tasks[o].retry \in BOOLEAN
         /\ tasks[o].snapshot \in Texts /\ tasks[o].merged \in Texts
<1>1. /\ writes # <<>> /\ Tail(writes) \in Seq(Records)
      /\ WritesOK(Tail(writes), tasks) /\ Free(Tail(writes), o)
      /\ tasks[o].stage \in Working /\ tasks[o].retry \in BOOLEAN
      /\ tasks[o].snapshot \in Texts /\ tasks[o].merged \in Texts
  BY FirstFacts
<1> QED
  BY <1>1 DEF TakesFirst, Working

LEMMA BackOutIsStep ==
  ASSUME Inv, AllFit, NEW o \in Owners, NEW retry \in BOOLEAN, BackOut(o, retry),
         tasks[o].stage \in {"checking", "removing"}
  PROVE  Steps(o)
<1>1. writes \in Seq(Records) /\ WritesOK(writes, tasks) /\ Free(writes, o)
  BY WorkingIsFree DEF Inv, TypeOK
<1> DEFINE snapshot == tasks[o].snapshot
           merged == tasks[o].merged
<1>2. snapshot \in Texts /\ merged \in Texts /\ StartUndo(o, snapshot, merged, retry, writes)
  BY DEF Inv, TypeOK, Tasks, BackOut
<1> HIDE DEF snapshot, merged
<1>3. TaskStep(o, writes)
  BY <1>1, <1>2, UndoIsStep
<1> QED
  BY <1>1, <1>3 DEF Steps, TakesFirst

LEMMA RecoveringIsStep ==
  ASSUME Inv, AllFit, NEW o \in Owners, Recovering(o)
  PROVE  Steps(o)
<1>0. /\ writes \in Seq(Records) /\ TakesFirst(o, writes) /\ draft \in Texts
      /\ timer \in BOOLEAN /\ retryNeeded \in BOOLEAN
      /\ tasks \in [Owners -> Tasks] /\ tasks[o] \in Tasks
  BY DEF Inv, TypeOK, TakesFirst
<1> DEFINE rest == Tail(writes)
<1>1. CASE Merged(o)
  <2>1. /\ TakesFirst(o, rest) /\ rest \in Seq(Records) /\ tasks[o].stage # "idle"
    BY <1>1, FirstStep DEF Merged, Awaited
  <2> DEFINE task == [tasks[o] EXCEPT !.stage = "flushing", !.merged = draft]
  <2>2. task.stage = "flushing" /\ task.id = tasks[o].id
    BY <1>0 DEF Tasks
  <2>3. tasks' = [tasks EXCEPT ![o] = task]
    BY <1>0, <1>1 DEF Merged
  <2> HIDE DEF task
  <2>4. Fits(o, tasks'[o]) /\ \A p \in Owners : p # o => tasks'[p] = tasks[p]
    BY <1>0, <2>1, <2>2, <2>3 DEF Fits, AllFit, EditStages
  <2>5. TaskStep(o, rest)
    BY <1>1, <2>4, FlushIsStep DEF Merged
  <2> QED
    BY <2>1, <2>5 DEF Steps
<1>2. CASE NotMerged(o) \/ NotFlushed(o)
  <2>1. /\ TakesFirst(o, rest) /\ rest \in Seq(Records) /\ WritesOK(rest, tasks) /\ Free(rest, o)
        /\ tasks[o].stage # "idle"
        /\ tasks[o].snapshot \in Texts /\ tasks[o].merged \in Texts
    BY <1>2, FirstStep DEF NotMerged, NotFlushed, Awaited
  <2> DEFINE snapshot == tasks[o].snapshot
  <2>2. PICK merged \in Texts : StartUndo(o, snapshot, merged, TRUE, rest)
    BY <1>0, <1>2, <2>1 DEF NotMerged, NotFlushed
  <2>3. snapshot \in Texts
    BY <2>1
  <2> HIDE DEF rest, snapshot
  <2>4. TaskStep(o, rest)
    BY <2>1, <2>2, <2>3, UndoIsStep
  <2> QED
    BY <2>1, <2>4 DEF Steps
<1>3. CASE Flushed(o)
  <2>1. /\ TakesFirst(o, rest) /\ rest \in Seq(Records)
    BY <1>3, FirstStep DEF Flushed, Awaited
  <2>2. PICK due \in BOOLEAN : Flush(o, due)
    <3> DEFINE either == timer \/ retryNeeded
    <3>1. either \in BOOLEAN
      BY <1>0
    <3>2. Flush(o, either)
      BY <1>3 DEF Flushed
    <3> HIDE DEF either
    <3> QED
      BY <3>1, <3>2
  <2>3. tasks' = tasks /\ Fits(o, tasks[o])
    BY <1>3 DEF Flushed, AllFit
  <2>4. Fits(o, tasks'[o]) /\ \A p \in Owners : p # o => tasks'[p] = tasks[p]
    BY <2>3
  <2>5. TaskStep(o, rest)
    BY <2>2, <2>4, FlushIsStep
  <2> QED
    BY <2>1, <2>5 DEF Steps
<1>4. CASE Turn(o)
  <2>1. TakesFirst(o, rest) /\ rest \in Seq(Records) /\ tasks[o].stage # "idle"
    BY <1>4, FirstStep DEF Turn, Awaited
  <2>2. CASE timer \/ retryNeeded
    <3>1. tasks' = tasks /\ Flush(o, TRUE)
      BY <1>4, <2>2 DEF Turn
    <3>2. TaskStep(o, rest)
      BY <3>1, FlushIsStep DEF AllFit
    <3> QED
      BY <2>1, <3>2 DEF Steps
  <2>3. CASE ~(timer \/ retryNeeded)
    <3>1. PICK stage \in {"checking", "removing"} :
            Go(o, stage) /\ (o # Drain => stage = "removing")
      BY <1>4, <2>3 DEF Turn
    <3>2. writes' = rest
      BY <1>4, <2>3 DEF Turn
    <3>3. stage \in Stages \ Hanging /\ (o # Drain => stage \in EditStages)
      BY <3>1 DEF Stages, Hanging, EditStages
    <3> HIDE DEF rest
    <3>4. TaskStep(o, rest)
      BY <2>1, <3>1, <3>2, <3>3, GoIsStep
    <3> QED
      BY <2>1, <3>4 DEF Steps
  <2> QED
    BY <2>2, <2>3
<1>5. CASE Undid(o)
  <2>1. /\ TakesFirst(o, rest) /\ rest \in Seq(Records) /\ tasks[o].retry \in BOOLEAN
    BY <1>5, FirstStep DEF Undid, Awaited
  <2>2. End(o, tasks[o].retry) /\ writes' = rest
    BY <1>5 DEF Undid
  <2> HIDE DEF rest
  <2>3. TaskStep(o, rest)
    BY <2>1, <2>2, EndIsStep
  <2> QED
    BY <2>1, <2>3 DEF Steps
<1>6. CASE NotUndone(o)
  <2>1. /\ TakesFirst(o, rest) /\ rest \in Seq(Records) /\ WritesOK(rest, tasks) /\ Free(rest, o)
        /\ tasks[o].stage # "idle" /\ tasks[o].retry \in BOOLEAN
        /\ tasks[o].snapshot \in Texts /\ tasks[o].merged \in Texts
    BY <1>6, FirstStep DEF NotUndone, Awaited
  <2>2. CASE o = Drain /\ ~tasks[o].retry
    <3> DEFINE snapshot == tasks[o].snapshot
               merged == tasks[o].merged
    <3>1. StartUndo(o, snapshot, merged, TRUE, rest) /\ snapshot \in Texts /\ merged \in Texts
      BY <1>6, <2>1, <2>2 DEF NotUndone
    <3> HIDE DEF rest, snapshot, merged
    <3>2. TaskStep(o, rest)
      BY <2>1, <3>1, UndoIsStep
    <3> QED
      BY <2>1, <3>2 DEF Steps
  <2>3. CASE ~(o = Drain /\ ~tasks[o].retry)
    <3>1. End(o, tasks[o].retry) /\ writes' = rest
      BY <1>6, <2>3 DEF NotUndone
    <3> HIDE DEF rest
    <3>2. TaskStep(o, rest)
      BY <2>1, <3>1, EndIsStep
    <3> QED
      BY <2>1, <3>2 DEF Steps
  <2> QED
    BY <2>2, <2>3
<1>7. CASE Recovered(o)
  <2>1. End(o, FALSE) /\ writes' = writes
    BY <1>7 DEF Recovered
  <2>2. TaskStep(o, writes)
    BY <2>1, EndIsStep
  <2> QED
    BY <1>0, <2>2 DEF Steps
<1>8. CASE NotRecovered(o)
  <2>1. PICK retry \in BOOLEAN : BackOut(o, retry)
    BY <1>8 DEF NotRecovered
  <2>2. tasks[o].stage = "removing"
    BY <1>8 DEF NotRecovered, At
  <2> QED
    BY <2>1, <2>2, BackOutIsStep
<1> QED
  BY <1>1, <1>2, <1>3, <1>4, <1>5, <1>6, <1>7, <1>8 DEF Recovering

LEMMA DispatchIsStep ==
  ASSUME Inv, AllFit, NEW m \in Messages,
         \/ Begin(m) \/ Confirmed(m) \/ Delivered(m) \/ AnswerLost(m) \/ Rejected(m)
         \/ Cleared(m) \/ NotCleared(m) \/ Restore(m)
  PROVE  Steps(Drain)
<1>0. /\ writes \in Seq(Records) /\ TakesFirst(Drain, writes) /\ Drain \in Owners
      /\ tasks \in [Owners -> Tasks] /\ tasks[Drain].stage \in Stages
  BY Constants DEF Inv, TypeOK, TakesFirst, Tasks
<1> SUFFICES TaskStep(Drain, writes)
  BY <1>0 DEF Steps
<1>1. CASE Begin(m)
  <2>1. PICK stage \in {"cleaning", "confirming", "leaving"} : Become(Drain, Task(stage, m))
    BY <1>1 DEF Begin
  <2>2. stage \in Stages \ Hanging /\ writes' = writes
    BY <1>1 DEF Stages, Hanging, Begin
  <2> QED
    BY <1>0, <2>1, <2>2, BeginIsStep
<1>2. CASE \E retry \in BOOLEAN : End(Drain, retry) /\ writes' = writes
  BY <1>0, <1>2, EndIsStep
<1>3. CASE \E stage \in {"sending", "dropping", "completing", "restoring"} :
             Go(Drain, stage) /\ tasks[Drain].stage # "idle" /\ writes' = writes
  <2>1. PICK stage \in {"sending", "dropping", "completing", "restoring"} :
          Go(Drain, stage) /\ tasks[Drain].stage # "idle" /\ writes' = writes
    BY <1>3
  <2>2. stage \in Stages \ Hanging
    BY DEF Stages, Hanging
  <2> QED
    BY <1>0, <2>1, <2>2, GoIsStep
<1>4. CASE Confirmed(m)
  BY <1>2, <1>3, <1>4 DEF Confirmed, Dispatching
<1>5. CASE Delivered(m) \/ Rejected(m)
  BY <1>3, <1>5 DEF Delivered, Rejected, Dispatching
<1>6. CASE AnswerLost(m) \/ NotCleared(m)
  BY <1>2, <1>6 DEF AnswerLost, NotCleared
<1>7. CASE Cleared(m)
  BY <1>2, <1>7 DEF Cleared
<1>8. CASE Restore(m)
  <2>1. CASE StartMerge(Drain, m)
    <3>1. tasks[Drain].stage \notin Hanging
      BY <1>8 DEF Restore, At, Hanging
    <3> QED
      BY <1>0, <2>1, <3>1, MergeIsStep
  <2>2. CASE End(Drain, FALSE) /\ UNCHANGED writes
    BY <1>2, <2>2
  <2> QED
    BY <1>8, <2>1, <2>2 DEF Restore
<1> QED
  BY <1>1, <1>4, <1>5, <1>6, <1>7, <1>8

LEMMA EditIsStep ==
  ASSUME Inv, AllFit, NEW m \in Messages, Edit(m) \/ EditConfirmed(m)
  PROVE  Steps(m)
<1>0. writes \in Seq(Records) /\ TakesFirst(m, writes) /\ m \in Owners /\ m # Drain
  BY Constants DEF Inv, TypeOK, TakesFirst
<1> SUFFICES TaskStep(m, writes)
  BY <1>0 DEF Steps
<1>1. CASE Edit(m)
  <2>1. Become(m, Task("confirming", m)) /\ writes' = writes
    BY <1>1 DEF Edit
  <2>2. "confirming" \in Stages \ Hanging /\ "confirming" \in EditStages
    BY DEF Stages, Hanging, EditStages
  <2> QED
    BY <1>0, <2>1, <2>2, BeginIsStep
<1>2. CASE EditConfirmed(m) /\ m \in queued
  <2>1. StartMerge(m, m) /\ tasks[m].stage \notin Hanging
    BY <1>2 DEF EditConfirmed, At, Hanging
  <2> QED
    BY <1>0, <2>1, MergeIsStep
<1>3. CASE EditConfirmed(m) /\ m \notin queued
  <2>1. Become(m, Idle) /\ writes' = writes
    BY <1>3 DEF EditConfirmed
  <2>2. tasks'[m] = Idle /\ \A p \in Owners : p # m => tasks'[p] = tasks[p]
    BY <1>0, <2>1, IdleType, BecomeKeeps
  <2> QED
    BY <2>1, <2>2, IdleType DEF TaskStep, Fits, Hanging
<1> QED
  BY <1>1, <1>2, <1>3

LEMMA ReconfirmedIsStep ==
  ASSUME Inv, AllFit, Reconfirmed
  PROVE  Steps(Drain)
<1>0. /\ writes \in Seq(Records) /\ TakesFirst(Drain, writes) /\ Drain \in Owners
      /\ tasks[Drain].stage = "checking"
  BY Constants DEF Inv, TypeOK, TakesFirst, Reconfirmed, At
<1>1. CASE Go(Drain, "removing") /\ writes' = writes
  <2>1. "removing" \in Stages \ Hanging
    BY DEF Stages, Hanging
  <2>2. TaskStep(Drain, writes)
    BY <1>0, <1>1, <2>1, GoIsStep
  <2> QED
    BY <1>0, <2>2 DEF Steps
<1>2. CASE BackOut(Drain, FALSE)
  BY <1>0, <1>2, BackOutIsStep
<1> QED
  BY <1>1, <1>2 DEF Reconfirmed

\* Nothing is forgotten as long as the process lives, and a new one starts idle.
LEMMA WorkKept ==
  ASSUME Inv, WritesDue, AllFit, [Next]_vars
  PROVE  WritesDue' /\ AllFit'
<1>1. CASE \E o \in Owners : Steps(o)
  BY <1>1, TaskKeeps DEF Steps
<1>2. CASE OutsideStep
  BY <1>2, OutsideKeeps
<1>3. CASE User \/ ClearOutbox \/ Saving \/ Writing \/ UNCHANGED vars
  BY <1>2, <1>3, OutsideSteps
<1>4. CASE Delivering
  <2>1. CASE Draining
    BY <1>1, <2>1, Constants, DispatchIsStep DEF Draining
  <2>2. CASE Reconfirmed \/ Recovering(Drain)
    BY <1>1, <2>2, Constants, ReconfirmedIsStep, RecoveringIsStep
  <2>3. CASE \E m \in Messages : RetryFires(m)
    BY <1>2, <2>3, OutsideSteps
  <2> QED
    BY <1>4, <2>1, <2>2, <2>3 DEF Delivering
<1>5. CASE \E m \in Messages : Edit(m) \/ Editor(m)
  BY <1>1, <1>5, Constants, EditIsStep, RecoveringIsStep DEF Editor
<1>6. CASE Crash
  <2>1. \A o \in Owners : tasks'[o].stage = "idle"
    BY <1>6, IdleType DEF Crash
  <2> QED
    BY <2>1 DEF WritesDue, AllFit, Fits, Hanging
<1> QED
  BY <1>3, <1>4, <1>5, <1>6 DEF Next

LEMMA WorkAlways == Spec => [](Inv /\ WritesDue /\ AllFit)
<1>1. Init => Inv /\ WritesDue /\ AllFit
  <2> SUFFICES ASSUME Init PROVE Inv /\ WritesDue /\ AllFit
    OBVIOUS
  <2>1. Inv
    BY Start
  <2>2. \A o \in Owners : tasks[o].stage = "idle"
    BY IdleType DEF Init
  <2>3. WritesDue
    BY <2>2 DEF WritesDue, Hanging
  <2>4. AllFit
    BY <2>2 DEF AllFit, Fits
  <2> QED
    BY <2>1, <2>3, <2>4
<1>2. Inv /\ WritesDue /\ AllFit /\ [Next]_vars => (Inv /\ WritesDue /\ AllFit)'
  BY Step, WorkKept
<1> QED
  BY <1>1, <1>2, PTL DEF Spec

LEMMA HasLeast ==
  ASSUME NEW S, S \subseteq Messages, S # {}
  PROVE  \E m \in S : \A n \in S : m <= n
<1>1. S \subseteq Nat
  BY DEF Messages
<1>2. PICK m \in S : \A n \in S : ~ (<<n, m>> \in OpToRel(<, Nat))
  BY <1>1, NatLessThanWellFounded, WFMin
<1>3. ASSUME NEW n \in S PROVE m <= n
  <2>1. m \in Nat /\ n \in Nat
    BY <1>1
  <2>2. ~ (n < m)
    BY <1>2, <2>1 DEF OpToRel
  <2> QED
    BY <2>1, <2>2
<1> QED
  BY <1>3

LEMMA FirstIsMade ==
  ASSUME Inv, NEW o, Due(writes, o)
  PROVE  CanWrite
<1>1. writes \in Seq(Records) /\ WritesOK(writes, tasks)
  BY DEF Inv, TypeOK
<1>2. writes # <<>>
  BY <1>1 DEF Due
<1>3. Head(writes) \in Records /\ Backed(Head(writes), tasks)
  BY <1>1, <1>2, WritesTaken
<1>4. Head(writes).kind \in Kinds /\ Head(writes).owner \in Owners
  BY <1>3 DEF Records
<1>5. Head(writes).kind \in Awaited => tasks[Head(writes).owner].stage \in Hanging
  BY <1>3 DEF Backed, Awaited, Hanging
<1> QED
  BY <1>2, <1>4, <1>5 DEF CanWrite, Kinds, Awaited

LEMMA TasksAreKnown ==
  ASSUME Inv, WritesDue, AllFit
  PROVE  NoTaskForgotten
<1> SUFFICES ASSUME NEW o \in Owners, tasks[o].stage # "idle" PROVE GoesOn(o)
  BY DEF NoTaskForgotten
<1>1. /\ tasks[o].stage \in Stages /\ Fits(o, tasks[o])
      /\ unsaved \subseteq Messages
  BY DEF Inv, TypeOK, Tasks, AllFit
<1>2. CASE tasks[o].stage \in Hanging
  BY <1>2, FirstIsMade DEF GoesOn, WritesDue
<1>3. CASE tasks[o].stage \in {"confirming", "leaving"} /\ tasks[o].id \in unsaved
  <2>1. CanSave
    BY <1>1, <1>3, HasLeast DEF CanSave, Writes
  <2> QED
    BY <1>3, <2>1 DEF GoesOn
<1>4. CASE tasks[o].stage \in {"confirming", "leaving"} /\ tasks[o].id \notin unsaved
  BY <1>1, <1>4 DEF GoesOn, CanMove, At, Fits, EditStages
<1>5. CASE tasks[o].stage \notin Hanging \cup {"confirming", "leaving"}
  BY <1>1, <1>5 DEF GoesOn, CanMove, At, Fits, EditStages, Hanging, Stages
<1> QED
  BY <1>2, <1>3, <1>4, <1>5

\* persistOrRetryThreadOutboxMessage, flushComposerDrafts, undoComposerDraftMerge and the
\* awaits of the dispatch and of editPendingThreadMessage: whatever fails or is begun in
\* between, a task that has begun waits for a save or a write that is still to be made, and
\* can be made, or can take its own next step.
THEOREM TasksGoOn == Spec => []NoTaskForgotten
<1>1. Inv /\ WritesDue /\ AllFit => NoTaskForgotten
  BY TasksAreKnown
<1> QED
  BY <1>1, WorkAlways, PTL

\* use-thread-outbox-drain.ts looks at the first message of the queue only: that message can
\* be taken up, or has its retry timer set, or the drain is at work and goes on, or the
\* message's own editor does. No message ahead of the others holds the queue for ever.
THEOREM QueueMovesOn == Spec => []QueueGoesOn
<1>1. Inv /\ WritesDue /\ AllFit => QueueGoesOn
  <2> SUFFICES ASSUME Inv, WritesDue, AllFit, queued # {}, thread \in {"live", "deleted"}
               PROVE  \E m \in queued :
                        /\ IsNext(m)
                        /\ \/ CanBegin(m)
                           \/ \E o \in {Drain, m} : tasks[o].stage # "idle" /\ GoesOn(o)
    BY DEF QueueGoesOn
  <2>1. queued \subseteq Messages
    BY DEF Inv, TypeOK
  <2>2. PICK m \in queued : IsNext(m)
    BY <2>1, HasLeast DEF IsNext
  <2>3. \A o \in Owners : tasks[o].stage # "idle" => GoesOn(o)
    BY TasksAreKnown DEF NoTaskForgotten
  <2>4. Drain \in Owners /\ m \in Owners
    BY <2>1, Constants
  <2>5. CASE tasks[Drain].stage = "idle" /\ tasks[m].stage = "idle"
    BY <2>2, <2>5 DEF CanBegin, At
  <2> QED
    BY <2>2, <2>3, <2>4, <2>5
<1> QED
  BY <1>1, WorkAlways, PTL

-----------------------------------------------------------------------------
(* Until something fails no task backs out, so nothing is taken: the queue *)
(* keeps what a task has its hands on, unless the environment is removed.  *)

Busy == {"sending", "completing", "restoring", "merging", "flushing", "checking", "removing"}
Untroubled ==
  /\ thread # "removed" /\ taken = {}
  /\ \A o \in Owners :
       /\ tasks[o].stage # "cleaning"
       /\ tasks[o].stage \in Busy => tasks[o].id \in queued
  /\ \A m \in acknowledged : At(Drain, "completing") /\ m = tasks[Drain].id
Emptied == thread = "removed" /\ safe = {} /\ unsaved = {}
NothingFailed == faults = 0 => Untroubled \/ Emptied

LEMMA NoFault ==
  ASSUME TypeOK, faults' = 0
  PROVE  ~Fault
  BY DEF Fault, TypeOK

LEMMA FaultsStay ==
  ASSUME TypeOK, [Next]_vars, faults' = 0
  PROVE  faults = 0
<1>1. CASE User \/ ClearOutbox \/ Saving
  BY <1>1, NoFault DEF User, Saving, Type, Erase, Send, DeleteThread, RemoveEnvironment,
     ClearOutbox, Saved, NotSaved
<1>2. CASE Draining
  BY <1>2, NoFault DEF Draining, Begin, Confirmed, Delivered, AnswerLost, Rejected, Cleared,
     NotCleared, Restore
<1>3. CASE Reconfirmed \/ Writing \/ \E m \in Messages : RetryFires(m)
  BY <1>3, NoFault DEF Reconfirmed, Writing, FireTimer, WriteDebounced, WritePlain, RetryFires
<1>4. ASSUME NEW o \in Owners, Recovering(o) PROVE faults = 0
  BY <1>4, NoFault DEF Recovering, Merged, NotMerged, Flushed, NotFlushed, Turn, Undid,
     NotUndone, Recovered, NotRecovered
<1>5. CASE Delivering
  BY <1>2, <1>3, <1>4, <1>5, Constants DEF Delivering
<1>6. CASE \E m \in Messages : Edit(m) \/ Editor(m)
  BY <1>4, <1>6, Constants DEF Editor, Edit, EditConfirmed
<1>7. CASE Crash \/ UNCHANGED vars
  BY <1>7 DEF Crash, vars
<1> QED
  BY <1>1, <1>3, <1>5, <1>6, <1>7 DEF Next

\* Once the environment's messages are gone there is nothing left to lose.
LEMMA EmptiedStays ==
  ASSUME Emptied, [Next]_vars
  PROVE  Emptied'
<1>1. CASE User \/ ClearOutbox \/ Saving
  BY <1>1 DEF Emptied, User, Saving, Type, Erase, Send, DeleteThread, RemoveEnvironment,
     ClearOutbox, Saved, NotSaved, Writes
<1>2. CASE Draining
  BY <1>2 DEF Emptied, Draining, Begin, Confirmed, Delivered, AnswerLost, Rejected, Cleared,
     NotCleared, Restore
<1>3. CASE Reconfirmed \/ Writing \/ \E m \in Messages : RetryFires(m)
  BY <1>3 DEF Emptied, Reconfirmed, BackOut, Writing, FireTimer, WriteDebounced, WritePlain,
     Unheeded, RetryFires
<1>4. ASSUME NEW o \in Owners, Recovering(o) PROVE Emptied'
  BY <1>4 DEF Emptied, Recovering, Merged, NotMerged, Flushed, NotFlushed, Turn, Undid,
     NotUndone, Recovered, NotRecovered, BackOut
<1>5. CASE Delivering
  BY <1>2, <1>3, <1>4, <1>5, Constants DEF Delivering
<1>6. CASE \E m \in Messages : Edit(m) \/ Editor(m)
  BY <1>4, <1>6, Constants DEF Emptied, Editor, Edit, EditConfirmed
<1>7. CASE Crash \/ UNCHANGED vars
  BY <1>7 DEF Emptied, Crash, vars
<1> QED
  BY <1>1, <1>3, <1>5, <1>6, <1>7 DEF Next

\* What the drain or an editor is busy with is nobody else's.
LEMMA BusyHas ==
  ASSUME Inv, AllFit, Untroubled, NEW o \in Owners, tasks[o].stage \in Busy
  PROVE  tasks[o].id \in Messages /\ ~Gone(o)
<1>1. tasks[o].id \in Messages /\ tasks[o].id \in queued
  BY DEF AllFit, Fits, Busy, Untroubled
<1>2. o = Drain => ~Editing(tasks[o].id)
  BY <1>1 DEF Inv, OneOwner, Dispatching, Busy, Checking
<1> QED
  BY <1>1, <1>2 DEF Gone


\* One task moves on, and nothing leaves the queue.
LEMMA OneMoves ==
  ASSUME Untroubled, NEW o \in Owners, \A p \in Owners : p # o => tasks'[p] = tasks[p],
         thread' # "removed", taken' = taken, queued \subseteq queued',
         tasks'[o].stage # "cleaning", tasks'[o].stage \in Busy => tasks'[o].id \in queued',
         acknowledged' \subseteq acknowledged, o = Drain => acknowledged' = {}
  PROVE  Untroubled'
<1>1. \A p \in Owners : /\ tasks'[p].stage # "cleaning"
                        /\ tasks'[p].stage \in Busy => tasks'[p].id \in queued'
  BY DEF Untroubled
<1>2. ASSUME NEW m \in acknowledged' PROVE At(Drain, "completing")' /\ m = tasks'[Drain].id
  BY Constants DEF Untroubled, At
<1> QED
  BY <1>1, <1>2 DEF Untroubled

\* A task lets go of a message it has put where it belongs.
LEMMA OneLeaves ==
  ASSUME Inv, AllFit, Untroubled, NEW o \in Owners, ~(o = Drain /\ At(o, "idle")),
         tasks[o].stage \in Busy \cup {"dropping"},
         \A p \in Owners : p # o => tasks'[p] = tasks[p], tasks'[o].stage = "idle",
         thread' = thread, taken' = taken, queued' = queued \ {tasks[o].id},
         acknowledged' \subseteq acknowledged, o = Drain => acknowledged' = {}
  PROVE  Untroubled'
<1>1. tasks[o].id \in Messages /\ (o # Drain => tasks[o].id = o)
  BY DEF AllFit, Fits, Busy
<1>2. ASSUME NEW p \in Owners, p # o, tasks[p].stage \in Busy PROVE tasks[p].id # tasks[o].id
  <2>1. p # Drain => tasks[p].id = p /\ Editing(p)
    BY <1>2 DEF AllFit, Fits, Busy, Editing
  <2>2. o = Drain => tasks[p].id # tasks[o].id
    BY <1>1, <1>2, <2>1 DEF Inv, OneOwner, Dispatching, Checking, Busy
  <2>3. o # Drain /\ p = Drain => tasks[p].id # tasks[o].id
    BY <1>1, <1>2 DEF Inv, OneOwner, Dispatching, Editing, Checking, Busy
  <2> QED
    BY <1>1, <1>2, <2>1, <2>2, <2>3
<1>3. \A p \in Owners : /\ tasks'[p].stage # "cleaning"
                        /\ tasks'[p].stage \in Busy => tasks'[p].id \in queued'
  BY <1>2 DEF Untroubled, Busy
<1>4. ASSUME NEW m \in acknowledged' PROVE At(Drain, "completing")' /\ m = tasks'[Drain].id
  BY Constants DEF Untroubled, At
<1> QED
  BY <1>3, <1>4 DEF Untroubled

\* Nothing has happened to the tasks.
LEMMA NoneMoves ==
  ASSUME Untroubled, tasks' = tasks, thread' # "removed", taken' = taken,
         queued \subseteq queued', acknowledged' = acknowledged
  PROVE  Untroubled'
<1>1. \A p \in Owners : /\ tasks'[p].stage # "cleaning"
                        /\ tasks'[p].stage \in Busy => tasks'[p].id \in queued'
  BY DEF Untroubled
<1> QED
  BY <1>1 DEF Untroubled, At

LEMMA OutsideUntroubled ==
  ASSUME Inv, AllFit, Untroubled, faults' = 0,
         \/ User \/ ClearOutbox \/ Saving \/ Writing
         \/ (\E m \in Messages : RetryFires(m)) \/ Crash \/ UNCHANGED vars
  PROVE  (Untroubled \/ Emptied)'
<1>1. ~Fault
  BY NoFault DEF Inv
<1>2. CASE ClearOutbox
  BY <1>1, <1>2 DEF ClearOutbox, Emptied
<1>3. CASE Crash
  <2>1. \A o \in Owners : tasks'[o].stage = "idle"
    BY <1>3, IdleType DEF Crash
  <2>2. acknowledged' = {} /\ taken' = taken /\ thread' = thread
    BY <1>3 DEF Crash
  <2> QED
    BY <2>1, <2>2 DEF Untroubled, Busy
<1>4. CASE User
  BY <1>4, NoneMoves DEF User, Type, Erase, Send, DeleteThread, RemoveEnvironment, Untroubled
<1>5. CASE Saving
  BY <1>1, <1>5, NoneMoves DEF Saving, Saved, NotSaved, Untroubled
<1>6. CASE Writing \/ (\E m \in Messages : RetryFires(m)) \/ UNCHANGED vars
  BY <1>6, NoneMoves DEF Writing, FireTimer, WriteDebounced, WritePlain, Unheeded, RetryFires,
     vars, Untroubled
<1> QED
  BY <1>2, <1>3, <1>4, <1>5, <1>6

LEMMA DrainingUntroubled ==
  ASSUME Inv, AllFit, Untroubled, faults' = 0, NEW m \in Messages,
         \/ Begin(m) \/ Confirmed(m) \/ Delivered(m) \/ AnswerLost(m) \/ Rejected(m)
         \/ Cleared(m) \/ NotCleared(m) \/ Restore(m)
  PROVE  Untroubled'
<1>1. ~Fault /\ Drain \in Owners /\ thread # "removed"
  BY NoFault, Constants DEF Inv, Untroubled
<1>2. ~At(Drain, "completing") => acknowledged = {}
  BY DEF Untroubled
<1>3. CASE Begin(m)
  <2>1. acknowledged = {}
    BY <1>2, <1>3 DEF Begin, At
  <2>2. PICK stage \in {"confirming", "leaving"} : Become(Drain, Task(stage, m))
    BY <1>3, <2>1 DEF Begin
  <2>3. Task(stage, m) \in Tasks /\ Task(stage, m).stage = stage
    BY Constants, TaskType DEF Stages
  <2>4. tasks'[Drain].stage = stage /\ \A p \in Owners : p # Drain => tasks'[p] = tasks[p]
    BY <1>1, <2>2, <2>3, BecomeKeeps
  <2> QED
    BY <1>1, <1>3, <2>1, <2>2, <2>4, OneMoves DEF Begin, Busy
<1>4. CASE Confirmed(m)
  <2>1. acknowledged = {}
    BY <1>2, <1>4 DEF Confirmed, At
  <2>2. CASE End(Drain, FALSE)
    BY <1>1, <1>4, <2>1, <2>2, EndKeeps, OneMoves DEF Confirmed, Busy
  <2>3. CASE \E stage \in {"sending", "dropping"} : ~Gone(Drain) /\ Go(Drain, stage)
    BY <1>1, <1>4, <2>1, <2>3, GoKeeps, OneMoves DEF Confirmed, Busy, Gone, Stages
  <2> QED
    BY <1>4, <2>2, <2>3 DEF Confirmed
<1>5. CASE Delivered(m)
  <2>1. acknowledged' = {m} /\ tasks[Drain].stage = "sending" /\ tasks[Drain].id = m
    BY <1>2, <1>5 DEF Delivered, Dispatching, At
  <2>2. /\ tasks'[Drain].stage = "completing" /\ tasks'[Drain].id = m
        /\ \A p \in Owners : p # Drain => tasks'[p] = tasks[p]
    BY <1>1, <1>5, <2>1, GoKeeps DEF Delivered, Stages
  <2>3. queued' = queued /\ taken' = taken /\ thread' = thread
    BY <1>5 DEF Delivered
  <2>4. \A p \in Owners : /\ tasks'[p].stage # "cleaning"
                          /\ tasks'[p].stage \in Busy => tasks'[p].id \in queued'
    BY <1>1, <2>1, <2>2, <2>3 DEF Untroubled, Busy
  <2> QED
    BY <2>1, <2>2, <2>3, <2>4 DEF Untroubled, At
<1>6. CASE Rejected(m)
  <2>1. acknowledged = {} /\ tasks[Drain].stage = "sending"
    BY <1>2, <1>6 DEF Rejected, At
  <2>2. tasks[Drain].id \in queued
    BY <1>1, <2>1 DEF Untroubled, Busy
  <2> QED
    BY <1>1, <1>6, <2>1, <2>2, GoKeeps, OneMoves DEF Rejected, Stages
<1>7. CASE Cleared(m)
  <2>1. tasks[Drain].stage \in {"completing", "dropping"} /\ tasks[Drain].id = m
    BY <1>1, <1>7 DEF Cleared, Dispatching, Untroubled
  <2>2. At(Drain, "completing") => ~Gone(Drain)
    BY <1>1, BusyHas DEF At, Busy
  <2>3. /\ queued' = queued \ {m} /\ End(Drain, FALSE) /\ acknowledged' = acknowledged \ {m}
        /\ taken' = taken /\ thread' = thread
    BY <1>7, <2>2 DEF Cleared
  <2>4. acknowledged' = {}
    BY <2>1, <2>3 DEF Untroubled
  <2>5. tasks'[Drain].stage = "idle" /\ \A p \in Owners : p # Drain => tasks'[p] = tasks[p]
    BY <1>1, <2>3, EndKeeps
  <2> QED
    BY <1>1, <2>1, <2>3, <2>4, <2>5, OneLeaves DEF At, Busy
<1>8. CASE Restore(m)
  <2>1. acknowledged = {} /\ tasks[Drain].stage = "restoring" /\ tasks[Drain].id = m
    BY <1>2, <1>8 DEF Restore, Dispatching, At
  <2>2. ~Gone(Drain) /\ m \in queued
    BY <1>1, <2>1, BusyHas DEF Busy, Gone
  <2>3. StartMerge(Drain, m)
    BY <1>8, <2>2 DEF Restore
  <2>4. /\ tasks'[Drain].stage = "merging" /\ tasks'[Drain].id = m
        /\ \A p \in Owners : p # Drain => tasks'[p] = tasks[p]
    BY <1>1, <2>1, <2>3, StartMergeKeeps
  <2> QED
    BY <1>1, <1>8, <2>1, <2>2, <2>4, OneMoves DEF Restore
<1> QED
  BY <1>1, <1>3, <1>4, <1>5, <1>6, <1>7, <1>8 DEF AnswerLost, NotCleared

LEMMA RecoveringUntroubled ==
  ASSUME Inv, AllFit, Untroubled, faults' = 0, NEW o \in Owners, Reconfirmed \/ Recovering(o)
  PROVE  Untroubled'
<1>1. ~Fault /\ Drain \in Owners /\ thread # "removed"
  BY NoFault, Constants DEF Inv, Untroubled
<1>2. ~At(Drain, "completing") => acknowledged = {}
  BY DEF Untroubled
<1>3. CASE Reconfirmed
  <2>1. acknowledged = {} /\ ~Gone(Drain)
    BY <1>1, <1>2, <1>3, BusyHas DEF Reconfirmed, At, Busy
  <2>2. Go(Drain, "removing") /\ tasks[Drain].id \in queued
    BY <1>3, <2>1 DEF Reconfirmed, Gone
  <2> QED
    BY <1>1, <1>3, <2>1, <2>2, GoKeeps, OneMoves DEF Reconfirmed, BackOut, Stages
<1>4. CASE Merged(o)
  <2>1. tasks[o].stage = "merging"
    BY <1>4, FirstFacts, WritesTaken DEF Merged, First, Awaited, Inv, TypeOK, Backed
  <2>2. /\ tasks'[o].stage = "flushing" /\ tasks'[o].id = tasks[o].id
        /\ \A p \in Owners : p # o => tasks'[p] = tasks[p]
    BY <1>4 DEF Merged, Inv, TypeOK, Tasks
  <2>3. tasks[o].id \in queued /\ (o = Drain => acknowledged = {})
    BY <1>2, <2>1 DEF Untroubled, Busy, At
  <2>4. UNCHANGED <<queued, thread, taken, acknowledged>>
    BY <1>4 DEF Merged
  <2> QED
    BY <1>1, <2>2, <2>3, <2>4, OneMoves
<1>5. CASE Flushed(o)
  BY <1>1, <1>5, NoneMoves DEF Flushed
<1>6. CASE Turn(o)
  <2>1. tasks[o].stage = "flushing"
    BY <1>6, WritesTaken DEF Turn, First, Inv, TypeOK, Backed
  <2>2. tasks[o].id \in queued /\ (o = Drain => acknowledged = {})
    BY <1>2, <2>1 DEF Untroubled, Busy, At
  <2>3. CASE tasks' = tasks
    BY <1>1, <1>6, <2>3, NoneMoves DEF Turn
  <2>4. CASE \E stage \in {"checking", "removing"} : Go(o, stage)
    BY <1>1, <1>6, <2>2, <2>4, GoKeeps, OneMoves DEF Turn, Stages
  <2> QED
    BY <1>6, <2>3, <2>4 DEF Turn
<1>7. CASE Undid(o)
  <2>1. tasks[o].stage \in Working /\ tasks[o].retry \in BOOLEAN
    BY <1>7, FirstFacts DEF Undid, Awaited
  <2>2. o = Drain => acknowledged = {}
    BY <1>2, <2>1 DEF At, Working
  <2>3. tasks'[o].stage = "idle" /\ \A p \in Owners : p # o => tasks'[p] = tasks[p]
    BY <1>7, <2>1, EndKeeps DEF Undid
  <2> QED
    BY <1>1, <1>7, <2>2, <2>3, OneMoves DEF Undid, Busy
<1>8. CASE Recovered(o)
  <2>1. tasks[o].stage = "removing" /\ (o = Drain => acknowledged = {})
    BY <1>2, <1>8 DEF Recovered, At
  <2>2. tasks'[o].stage = "idle" /\ \A p \in Owners : p # o => tasks'[p] = tasks[p]
    BY <1>8, EndKeeps DEF Recovered
  <2> QED
    BY <1>8, <2>1, <2>2, OneLeaves DEF Recovered, Busy, At
<1>9. CASE NotRecovered(o)
  <2>1. ~Gone(o)
    BY <1>9, BusyHas DEF NotRecovered, At, Busy
  <2> QED
    BY <1>1, <1>9, <2>1 DEF NotRecovered
<1> QED
  BY <1>1, <1>3, <1>4, <1>5, <1>6, <1>7, <1>8, <1>9
     DEF Recovering, NotMerged, NotFlushed, NotUndone

LEMMA EditingUntroubled ==
  ASSUME Inv, AllFit, Untroubled, NEW m \in Messages, Edit(m) \/ EditConfirmed(m)
  PROVE  Untroubled'
<1>1. m \in Owners /\ m # Drain /\ thread # "removed"
  BY Constants DEF Untroubled
<1>2. CASE Edit(m)
  <2>1. Task("confirming", m) \in Tasks /\ Task("confirming", m).stage = "confirming"
    BY <1>1, TaskType DEF Stages
  <2>2. tasks'[m].stage = "confirming" /\ \A p \in Owners : p # m => tasks'[p] = tasks[p]
    BY <1>1, <1>2, <2>1, BecomeKeeps DEF Edit
  <2> QED
    BY <1>1, <1>2, <2>2, OneMoves DEF Edit, Busy
<1>3. CASE EditConfirmed(m)
  <2>1. CASE m \in queued
    <3>1. tasks[m].stage = "confirming" /\ StartMerge(m, m)
      BY <1>3, <2>1 DEF EditConfirmed, At
    <3>2. /\ tasks'[m].stage = "merging" /\ tasks'[m].id = m
          /\ \A p \in Owners : p # m => tasks'[p] = tasks[p]
      BY <1>1, <3>1, StartMergeKeeps
    <3> QED
      BY <1>1, <1>3, <2>1, <3>2, OneMoves DEF EditConfirmed
  <2>2. CASE m \notin queued
    <3>1. tasks'[m].stage = "idle" /\ \A p \in Owners : p # m => tasks'[p] = tasks[p]
      BY <1>1, <1>3, <2>2, IdleType, BecomeKeeps DEF EditConfirmed
    <3> QED
      BY <1>1, <1>3, <3>1, OneMoves DEF EditConfirmed, Busy
  <2> QED
    BY <2>1, <2>2
<1> QED
  BY <1>2, <1>3

LEMMA NothingFailedStep ==
  ASSUME Inv, AllFit, NothingFailed, [Next]_vars
  PROVE  NothingFailed'
<1> SUFFICES ASSUME faults' = 0 PROVE (Untroubled \/ Emptied)'
  BY DEF NothingFailed
<1>1. Untroubled \/ Emptied
  BY FaultsStay DEF NothingFailed, Inv
<1>2. CASE Emptied
  BY <1>2, EmptiedStays
<1>3. CASE Untroubled
  <2>1. CASE User \/ ClearOutbox \/ Saving \/ Writing \/ Crash \/ UNCHANGED vars
    BY <1>3, <2>1, OutsideUntroubled
  <2>2. CASE Delivering
    BY <1>3, <2>2, Constants, DrainingUntroubled, RecoveringUntroubled, OutsideUntroubled
       DEF Delivering, Draining
  <2>3. CASE \E m \in Messages : Edit(m) \/ Editor(m)
    BY <1>3, <2>3, Constants, EditingUntroubled, RecoveringUntroubled DEF Editor
  <2> QED
    BY <2>1, <2>2, <2>3 DEF Next
<1> QED
  BY <1>1, <1>2, <1>3

\* restoreRejectedQueuedMessage and editPendingThreadMessage flush the composer's
\* drafts before they remove the message, and completeQueuedMessageDelivery removes
\* what the server has: whatever fails and whenever the process dies, a saved text
\* that its user has not erased, sent on or removed is on disk or with the server.
\* What a rollback took out of the draft that its own merge had not put in
\* (`taken`) is excepted once a write or a request has failed: the code then does
\* lose it, as RollbackTakesOwn shows. Before that nothing is excepted.
THEOREM NothingLostCorrect == Spec => []NothingLost
<1>1. Inv /\ Kept /\ NothingFailed => NothingLost
  <2>1. Kept => safe \ taken \subseteq Durable
    BY KeptIsDurable DEF Loose
  <2>2. Kept /\ (Untroubled \/ Emptied) => safe \subseteq Durable
    BY <2>1 DEF Untroubled, Emptied
  <2> QED
    BY <2>1, <2>2 DEF NothingFailed, NothingLost
<1>2. Init => Inv /\ Kept /\ NothingFailed
  <2>1. Init => Untroubled
    BY IdleType DEF Init, Untroubled, Busy
  <2> QED
    BY <2>1, Start, KeptStart DEF NothingFailed
<1>3. Inv /\ AllFit /\ Kept /\ NothingFailed /\ [Next]_vars => (Kept /\ NothingFailed)'
  BY KeptStep, NothingFailedStep
<1>4. QED
  BY <1>1, <1>2, <1>3, WorkAlways, PTL DEF Spec
=============================================================================
