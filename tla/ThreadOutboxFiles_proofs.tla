----------------------- MODULE ThreadOutboxFiles_proofs -----------------------
(***************************************************************************)
(* What the queue on screen and the files have to do with each other, for  *)
(* every set of messages and writers and every bound on calls, faults and  *)
(* process deaths.  Queue and files agree where every removal names the    *)
(* revision it is about; what an accepted update replaced, and that        *)
(* writers are answered as long as the line goes on, holds without that.   *)
(***************************************************************************)
EXTENDS ThreadOutbox_proofs

-----------------------------------------------------------------------------
(* The line of mutations: the running one, then those behind it.           *)

Job(i) == IF i = 0 THEN running ELSE pending[i]
WrittenOnes == {"enqueue", "update"}

\* A later mutation q carries a newer payload than an earlier one c, and an
\* enqueue that was submitted after c has moved the revision c is about.
Behind(c, q) ==
  /\ c.op \in WrittenOnes /\ q.op \in WrittenOnes => c.payload < q.payload
  /\ c.op = "clear" => q.op # "clear"
  /\ q.op = "enqueue" =>
       /\ c.op \in {"update", "remove"} /\ c.id = q.id => c.expected < revisions[q.id]
       /\ c.op = "clear" => clear.requested[q.id] < revisions[q.id]
Ordered == \A i, j \in 0 .. Len(pending) : i < j => Behind(Job(i), Job(j))

\* What a writer or a clear has read is no newer than the message is now.
Sound(c) ==
  /\ c.op \in WrittenOnes => c.payload # None
  /\ c.op \in {"update", "remove"} => c.expected <= revisions[c.id]
  /\ c.op = "update" => c.expected # AnyRevision
JobsSound == \A i \in 0 .. Len(pending) : Sound(Job(i))
Reads(h) == h.status \in {"ready", "updating", "removing"}
HoldsRead == \A w \in Writers : Reads(holds[w]) => holds[w].revision <= revisions[holds[w].id]
Requested == \A m \in Messages : clear.requested[m] <= revisions[m]

\* A clear takes what has not changed since it was requested.
Cleaning == running.op = "clear" /\ stage \in {"removing", "restoring"}
Taken ==
  /\ \A i \in 0 .. Len(pending) :
       Job(i).op = "clear" /\ (i = 0 => stage = "loading") => clear.gone = {}
  /\ Cleaning => \A m \in clear.left \cup clear.gone : clear.revisions[m] = clear.requested[m]

\* The last enqueue of a message that waits has the payload on screen.
Promised(m) == \E i \in 1 .. Len(pending) : Carries(pending[i], m)
Published ==
  \A i \in 1 .. Len(pending) : pending[i].op = "enqueue" =>
    \E j \in i .. Len(pending) : Carries(pending[j], pending[i].id)

\* No removal that waits or runs is plain.
RemovalsNamed ==
  \A i \in 0 .. Len(pending) : Job(i).op = "remove" => Job(i).expected # AnyRevision

Line == Durable /\ Ordered /\ JobsSound /\ HoldsRead /\ Requested /\ Taken
LineInv == Line /\ RemovalsNamed /\ Published

LEMMA JobIsTyped ==
  ASSUME TypeOK
  PROVE  /\ Len(pending) \in Nat /\ \A i \in 0 .. Len(pending) : Job(i) \in Mutations
         /\ Job(0) = running /\ \A i \in 1 .. Len(pending) : Job(i) = pending[i]
BY DEF TypeOK, Job

LEMMA NextJobIsTyped ==
  ASSUME TypeOK'
  PROVE  Len(pending') \in Nat /\ \A i \in 0 .. Len(pending') : Job(i)' \in Mutations
BY DEF TypeOK, Job

-----------------------------------------------------------------------------
(* How a step changes the line.                                            *)

\* The mutation that is submitted, and by whom.
Asked(c) ==
  \/ c.op = "enqueue" /\ c.id \in Messages /\ c.payload = payloads' /\ Enqueue(c.id)
  \/ /\ c.op = "update" /\ c.payload = payloads'
     /\ \E w \in Writers : Update(w) /\ c.id = holds[w].id /\ c.expected = holds[w].revision
  \/ /\ c.op = "remove"
     /\ \E w \in Writers : /\ Remove(w) /\ c.id = holds[w].id
                           /\ c.expected = holds[w].revision /\ c.payload = holds[w].payload
  \/ c.op = "remove" /\ c.expected = AnyRevision /\ PlainRemovals
  \/ /\ c.op = "confirm"
     /\ \E w \in Writers, m \in Messages :
          ConfirmQueued(w, m) /\ c.id = m /\ c.payload = memory[m]
  \/ c.op = "clear" /\ c.id = NoMessage /\ ClearEnvironment
  \/ c.op = "load" /\ c.id = NoMessage /\ Load

LEMMA Submitted ==
  ASSUME TypeOK, Callers
  PROVE  pending' = pending \/ \E c \in Mutations : Submit(c) /\ Asked(c)
<1>0. /\ \A m \in Messages : memory[m] \in Nat /\ revisions[m] \in Nat
      /\ \A w \in Writers : holds[w] \in Holds
      /\ payloads \in Nat /\ NoWriter \in Writers \cup {NoWriter} /\ AnyRevision \in Int
      /\ {"enqueue", "confirm", "update", "remove", "load", "clear"} \subseteq Operations
      /\ None \in Nat
  BY DEF TypeOK, PayloadMap, AnyRevision, Operations, None
<1>1. ASSUME NEW m \in Messages, Enqueue(m)
      PROVE  \E c \in Mutations : Submit(c) /\ Asked(c)
  <2> DEFINE c == Mutation("enqueue", m, payloads', AnyRevision, FALSE, NoWriter)
  <2>new. payloads' \in Nat
    BY <1>0, <1>1 DEF Enqueue
  <2>1. Submit(c)
    BY <1>1 DEF Enqueue
  <2>2. c \in Mutations
    BY <1>0, <2>new, MutationIsTyped
  <2>3. c.op = "enqueue" /\ c.id = m /\ c.payload = payloads'
    BY DEF Mutation
  <2> HIDE DEF c
  <2> QED
    BY <1>1, <2>1, <2>2, <2>3 DEF Asked
<1>2. ASSUME NEW m \in Messages, RemovePlainly(m)
      PROVE  \E c \in Mutations : Submit(c) /\ Asked(c)
  <2> DEFINE c == Mutation("remove", m, memory[m], AnyRevision, FALSE, NoWriter)
  <2>1. Submit(c) /\ PlainRemovals
    BY <1>2 DEF RemovePlainly
  <2>2. c \in Mutations
    BY <1>0, MutationIsTyped
  <2>3. c.op = "remove" /\ c.expected = AnyRevision
    BY DEF Mutation
  <2> HIDE DEF c
  <2> QED
    BY <2>1, <2>2, <2>3 DEF Asked
<1>3. ASSUME NEW w \in Writers, NEW m \in Messages, ConfirmQueued(w, m)
      PROVE  \E c \in Mutations : Submit(c) /\ Asked(c)
  <2> DEFINE c == Mutation("confirm", m, memory[m], AnyRevision, FALSE, w)
  <2>1. Submit(c)
    BY <1>3 DEF ConfirmQueued, AwaitsConfirmation
  <2>2. c \in Mutations
    BY <1>0, MutationIsTyped
  <2>3. c.op = "confirm" /\ c.id = m /\ c.payload = memory[m]
    BY DEF Mutation
  <2> HIDE DEF c
  <2> QED
    BY <1>3, <2>1, <2>2, <2>3 DEF Asked
<1>4. ASSUME NEW w \in Writers, Update(w)
      PROVE  \E c \in Mutations : Submit(c) /\ Asked(c)
  <2> DEFINE c == Mutation("update", holds[w].id, payloads', holds[w].revision, FALSE, w)
  <2>new. /\ payloads' \in Nat /\ holds[w].id \in Messages /\ holds[w].revision \in Int
    BY <1>0, <1>4, HoldIsUsed DEF Update
  <2>1. Submit(c)
    BY <1>4 DEF Update
  <2>2. c \in Mutations
    BY <1>0, <2>new, MutationIsTyped
  <2>3. /\ c.op = "update" /\ c.payload = payloads' /\ c.id = holds[w].id
        /\ c.expected = holds[w].revision
    BY DEF Mutation
  <2> HIDE DEF c
  <2> QED
    BY <1>4, <2>1, <2>2, <2>3 DEF Asked
<1>5. ASSUME NEW w \in Writers, Remove(w)
      PROVE  \E c \in Mutations : Submit(c) /\ Asked(c)
  <2> DEFINE c == Mutation("remove", holds[w].id, holds[w].payload, holds[w].revision, TRUE, w)
  <2>new. /\ holds[w].id \in Messages /\ holds[w].revision \in Int
          /\ holds[w].payload \in Nat
    BY <1>0, <1>5, HoldIsUsed DEF Remove
  <2>1. Submit(c)
    BY <1>5 DEF Remove
  <2>2. c \in Mutations
    BY <1>0, <2>new, MutationIsTyped
  <2>3. /\ c.op = "remove" /\ c.payload = holds[w].payload /\ c.id = holds[w].id
        /\ c.expected = holds[w].revision
    BY DEF Mutation
  <2> HIDE DEF c
  <2> QED
    BY <1>5, <2>1, <2>2, <2>3 DEF Asked
<1>6. ASSUME ClearEnvironment \/ Load
      PROVE  \E c \in Mutations : Submit(c) /\ Asked(c)
  <2>1. PICK op \in {"clear", "load"} :
          /\ Submit(Mutation(op, NoMessage, None, AnyRevision, FALSE, NoWriter))
          /\ op = "clear" => ClearEnvironment
          /\ op = "load" => Load
    BY <1>6 DEF ClearEnvironment, Load
  <2> DEFINE c == Mutation(op, NoMessage, None, AnyRevision, FALSE, NoWriter)
  <2>2. c \in Mutations
    BY <1>0, MutationIsTyped
  <2>3. c.op = op /\ c.id = NoMessage
    BY DEF Mutation
  <2>4. Submit(c)
    BY <2>1
  <2> HIDE DEF c
  <2> QED
    BY <2>1, <2>2, <2>3, <2>4 DEF Asked
<1>7. ASSUME \/ \E w \in Writers : Capture(w) \/ GiveUp(w)
             \/ \E m \in Messages : ToggleEditing(m)
             \/ \E w \in Writers, m \in Messages : OpenEditor(w, m)
      PROVE  pending' = pending
  BY <1>7 DEF Capture, GiveUp, ToggleEditing, OpenEditor
<1> QED
  BY <1>1, <1>2, <1>3, <1>4, <1>5, <1>6, <1>7 DEF Callers

LEMMA CallersFrame ==
  ASSUME Callers
  PROVE  /\ UNCHANGED <<running, stage, leaving, disk, faults, crashes, historyVars>>
         /\ (\E m \in Messages : Enqueue(m)) \/ UNCHANGED queueVars
         /\ ClearEnvironment \/ UNCHANGED clear
         /\ loaded' = loaded \/ loaded' = "loading"
<1>1. UNCHANGED <<running, stage, leaving, disk, faults, crashes, historyVars>>
  BY DEF Callers
<1>2. (\E m \in Messages : Enqueue(m)) \/ UNCHANGED queueVars
  BY DEF Callers, RemovePlainly, ToggleEditing, ConfirmQueued, OpenEditor, Capture, Update,
     Remove, GiveUp, Load, ClearEnvironment
<1>3. ClearEnvironment \/ UNCHANGED clear
  BY DEF Callers, Enqueue, RemovePlainly, ToggleEditing, ConfirmQueued, OpenEditor, Capture,
     Update, Remove, GiveUp, Load
<1>4. loaded' = loaded \/ loaded' = "loading"
  BY DEF Callers, Enqueue, RemovePlainly, ToggleEditing, ConfirmQueued, OpenEditor, Capture,
     Update, Remove, GiveUp, Load, ClearEnvironment
<1> QED
  BY <1>1, <1>2, <1>3, <1>4

LEMMA StartingFrame ==
  ASSUME TypeOK, Starting
  PROVE  /\ running = NoMutation /\ stage = "idle" /\ pending # <<>>
         /\ Head(pending) \in Mutations /\ Head(pending) = pending[1]
         /\ \/ Begins(stage') /\ stage' \in {"writing", "removing", "loading"}
            \/ Passes /\ Head(pending).op \in {"confirm", "update", "remove"}
         /\ UNCHANGED <<queueVars, loaded, clear, disk, faults, historyVars>>
<1>1. /\ running = NoMutation /\ pending # <<>>
      /\ \/ Begins(stage') /\ stage' \in {"writing", "removing", "loading"}
         \/ Passes /\ Head(pending).op \in {"confirm", "update", "remove"}
      /\ UNCHANGED <<queueVars, loaded, clear, disk, faults, historyVars>>
  BY DEF Starting, Starts, BeginEnqueue, Confirm, BeginUpdate, BeginRemove, BeginLoading,
     Begins
<1> QED
  BY <1>1, HeadAndTail DEF TypeOK

\* The steps of the running mutation, with what they do to the line.
Proceeding == Enqueuing \/ Updating \/ Removing \/ Loaded \/ Clearing
LEMMA ProceedingFrame ==
  ASSUME Proceeding
  PROVE  pending' = pending /\ ((running' = NoMutation /\ stage' = "idle") \/ running' = running)
<1>1. CASE Enqueuing
  BY <1>1 DEF Enqueuing, EnqueueWritten, EnqueueWriteFails, EnqueueFileDropped, Ends
<1>2. CASE Updating
  BY <1>2 DEF Updating, UpdateWritten, UpdateWriteFails, UpdateWinnerRestored, Ends
<1>3. CASE Removing
  BY <1>3 DEF Removing, FileRemoved, FileRemovalFails, RemovalUndone, Ends
<1>4. CASE Loaded
  BY <1>4 DEF Loaded, Ends
<1>5. CASE Clearing
  BY <1>5 DEF Clearing, ClearLoads, ClearLoadFails, ClearRemoved, ClearFinishes, ClearRemoves,
     ClearRestores, Ends
<1> QED
  BY <1>1, <1>2, <1>3, <1>4, <1>5 DEF Proceeding

LEMMA StepKinds ==
  ASSUME [Next]_vars
  PROVE  \/ Callers
         \/ Starting /\ UNCHANGED <<editing, payloads, calls, crashes>>
         \/ Proceeding /\ UNCHANGED <<editing, payloads, calls, crashes>>
         \/ Crash
         \/ UNCHANGED vars
BY DEF Next, Mutating, Proceeding

\* Every mutation of the line was there before, in the same order, or is submitted
\* last.
LEMMA JobSteps ==
  ASSUME TypeOK, [Next]_vars
  PROVE  \E shift \in {0, 1} : \A i \in 0 .. Len(pending') :
           \/ i = 0 /\ Job(i)' = NoMutation
           \/ i + shift \in 0 .. Len(pending) /\ Job(i)' = Job(i + shift)
           \/ i = Len(pending') /\ i > 0 /\ shift = 0 /\ Asked(Job(i)')
<1>0. pending \in Seq(Mutations) /\ Len(pending) \in Nat /\ QueueTyped
  BY DEF TypeOK, QueueTyped
<1>1. ASSUME pending' = pending, running' \in {running, NoMutation}
      PROVE  \A i \in 0 .. Len(pending') :
               \/ i = 0 /\ Job(i)' = NoMutation
               \/ i + 0 \in 0 .. Len(pending) /\ Job(i)' = Job(i + 0)
  BY <1>0, <1>1 DEF Job
<1>2. CASE Callers
  <2>1. CASE pending' = pending
    BY <1>1, <1>2, <2>1, CallersFrame
  <2>2. ASSUME NEW c \in Mutations, Submit(c), Asked(c)
        PROVE  \A i \in 0 .. Len(pending') :
                 \/ i + 0 \in 0 .. Len(pending) /\ Job(i)' = Job(i + 0)
                 \/ i = Len(pending') /\ i > 0 /\ Asked(Job(i)')
    <3>1. /\ Len(pending') = Len(pending) + 1
          /\ \A i \in 1 .. Len(pending) : pending'[i] = pending[i]
          /\ pending'[Len(pending) + 1] = c
      BY <1>0, <2>2, Appended DEF Submit
    <3>2. running' = running
      BY <1>2, CallersFrame
    <3>3. ASSUME NEW i \in 0 .. Len(pending'), i # Len(pending')
          PROVE  i + 0 \in 0 .. Len(pending) /\ Job(i)' = Job(i + 0)
      BY <1>0, <3>1, <3>2, <3>3 DEF Job
    <3>4. ASSUME NEW i \in 0 .. Len(pending'), i = Len(pending')
          PROVE  i > 0 /\ Job(i)' = c
      BY <1>0, <3>1, <3>4 DEF Job
    <3> QED
      BY <2>2, <3>3, <3>4
  <2> QED
    BY <1>2, <2>1, <2>2, Submitted
<1>3. CASE Starting
  <2>1. /\ running = NoMutation /\ pending # <<>> /\ pending' = Tail(pending)
        /\ running' \in {NoMutation, Head(pending)}
    BY <1>3, StartingFrame DEF Begins, Passes
  <2>2. /\ Head(pending) = pending[1] /\ Len(pending') = Len(pending) - 1
        /\ \A i \in 1 .. Len(pending') : pending'[i] = pending[i + 1]
    BY <1>0, <2>1, HeadAndTail
  <2>3. ASSUME NEW i \in 0 .. Len(pending')
        PROVE  \/ i = 0 /\ Job(i)' = NoMutation
               \/ i + 1 \in 0 .. Len(pending) /\ Job(i)' = Job(i + 1)
    BY <1>0, <2>1, <2>2 DEF Job
  <2> QED
    BY <2>3
<1>4. CASE Proceeding
  BY <1>1, <1>4, ProceedingFrame
<1>5. CASE Crash
  <2>1. pending' = <<>> /\ running' = NoMutation
    BY <1>5 DEF Crash
  <2> QED
    BY <2>1 DEF Job
<1>6. CASE UNCHANGED vars
  BY <1>1, <1>6 DEF vars, mutationVars
<1> QED
  BY <1>2, <1>3, <1>4, <1>5, <1>6, StepKinds

-----------------------------------------------------------------------------
(* How a step changes revisions, and what the writers and a clear know.     *)

\* A death of the process apart, a message's revision never goes down.
LEMMA RevisionSteps ==
  ASSUME TypeOK, [Next]_vars, ~Crash
  PROVE  \A m \in Messages : /\ revisions[m] \in Nat /\ revisions'[m] \in Nat
                             /\ revisions[m] <= revisions'[m]
                             /\ Enqueue(m) => revisions[m] < revisions'[m]
<1>0. revisions \in PayloadMap /\ \A m \in Messages : revisions[m] \in Nat
  BY DEF TypeOK, PayloadMap
<1>1. ASSUME NEW m \in Messages, revisions' = Bumped(m)
      PROVE  \A n \in Messages : revisions'[n] = IF n = m THEN revisions[m] + 1 ELSE revisions[n]
  BY <1>0, <1>1 DEF Bumped, PayloadMap
<1>2. ASSUME NEW m \in Messages, Enqueue(m)
      PROVE  revisions' = Bumped(m)
  BY <1>2 DEF Enqueue
<1>3. CASE \E m \in Messages : revisions' = Bumped(m)
  BY <1>0, <1>1, <1>2, <1>3
<1>4. CASE UNCHANGED revisions
  BY <1>0, <1>1, <1>2, <1>4
<1>5. CASE ClearFinishes
  <2>1. \A m \in Messages : revisions'[m] \in {revisions[m], revisions[m] + 1}
    BY <1>5 DEF ClearFinishes
  <2> QED
    BY <1>0, <1>1, <1>2, <2>1
<1>6. CASE Callers
  BY <1>2, <1>3, <1>4, <1>6, CallersFrame DEF queueVars
<1>7. CASE Starting
  BY <1>4, <1>7, StartingFrame DEF queueVars
<1>8. CASE Proceeding
  <2>1. CASE UpdateWritten
    BY <1>3, <1>4, <2>1, Running DEF UpdateWritten, queueVars, Operations
  <2>2. CASE FileRemoved
    BY <1>3, <1>4, <2>2, Running DEF FileRemoved, Tombstoned, queueVars, Operations
  <2>3. CASE ~UpdateWritten /\ ~FileRemoved /\ ~ClearFinishes
    <3>1. UNCHANGED revisions
      BY <1>8, <2>3 DEF Proceeding, Enqueuing, Updating, Removing, Clearing, EnqueueWritten,
         EnqueueWriteFails, EnqueueFileDropped, UpdateWriteFails, UpdateWinnerRestored,
         FileRemovalFails, RemovalUndone, Loaded, ClearLoads, ClearLoadFails, ClearRemoved,
         ClearRemoves, ClearRestores, queueVars
    <3> QED
      BY <1>4, <3>1
  <2> QED
    BY <1>5, <2>1, <2>2, <2>3
<1>9. CASE UNCHANGED vars
  BY <1>4, <1>9 DEF vars, queueVars
<1> QED
  BY <1>6, <1>7, <1>8, <1>9, StepKinds

\* What a clear remembers stays, until it or another one sets it.
LEMMA ClearSteps ==
  ASSUME TypeOK, [Next]_vars, ~Crash
  PROVE  \/ ClearEnvironment /\ clear' = [NoClear EXCEPT !.requested = revisions]
         \/ ClearLoads /\ clear'.requested = clear.requested /\ clear'.gone = clear.gone
         \/ /\ clear'.requested = clear.requested /\ clear'.revisions = clear.revisions
            /\ clear'.all = clear.all
            /\ clear' = clear \/ Cleaning
            /\ clear'.left \cup clear'.gone \subseteq clear.left \cup clear.gone
<1>0. clear \in Clears
  BY DEF TypeOK
<1>1. CASE UNCHANGED clear
  BY <1>1
<1>2. CASE Callers
  BY <1>1, <1>2, CallersFrame DEF ClearEnvironment
<1>3. CASE Starting
  BY <1>1, <1>3, StartingFrame
<1>4. CASE ClearLoads
  BY <1>0, <1>4 DEF ClearLoads, Clears
<1>5. ASSUME NEW m \in Messages, ClearRemoves(m) \/ ClearRestores(m)
      PROVE  /\ clear'.requested = clear.requested /\ clear'.revisions = clear.revisions
             /\ clear'.all = clear.all /\ Cleaning
             /\ clear'.left \cup clear'.gone \subseteq clear.left \cup clear.gone
  BY <1>0, <1>5 DEF ClearRemoves, ClearRestores, Clears, Cleaning, Waits
<1>6. CASE ClearRemoved
  BY <1>0, <1>6 DEF ClearRemoved, Retained, Clears, Cleaning, Waits
<1>7. CASE Proceeding
  <2>1. \/ UNCHANGED clear \/ ClearLoads \/ ClearRemoved
        \/ \E m \in Messages : ClearRemoves(m) \/ ClearRestores(m)
    BY <1>7 DEF Proceeding, Enqueuing, Updating, Removing, Clearing, EnqueueWritten,
       EnqueueWriteFails, EnqueueFileDropped, UpdateWritten, UpdateWriteFails,
       UpdateWinnerRestored, FileRemoved, FileRemovalFails, RemovalUndone, Loaded,
       ClearLoadFails, ClearFinishes
  <2> QED
    BY <1>1, <1>4, <1>5, <1>6, <2>1
<1>8. CASE UNCHANGED vars
  BY <1>1, <1>8 DEF vars, mutationVars
<1> QED
  BY <1>2, <1>3, <1>7, <1>8, StepKinds

\* What a writer holds it held before, or has just read, or just written.
Held(w) ==
  /\ Reads(holds[w]) /\ holds'[w].id = holds[w].id
  /\ holds'[w].revision = holds[w].revision /\ holds'[w].payload = holds[w].payload
HasRead(w) ==
  LET m == holds'[w].id IN
  /\ m \in Messages /\ holds'[w].revision = revisions[m] /\ holds'[w].payload = memory[m]
  /\ UNCHANGED queueVars
HasWritten(w) ==
  /\ UpdateWritten /\ ~LostRace(running) /\ holds'[w].id = running.id
  /\ holds'[w].payload = running.payload /\ holds'[w].revision = running.expected + 1

LEMMA ReadSteps ==
  ASSUME TypeOK, [Next]_vars, NEW w \in Writers, Reads(holds'[w])
  PROVE  Held(w) \/ HasRead(w) \/ HasWritten(w)
<1>0. /\ holds \in [Writers -> Holds] /\ holds[w] \in Holds
      /\ NoHold.status = "idle" /\ ~Reads(NoHold)
  BY NoHoldIsTyped DEF TypeOK, Reads
<1>1. ASSUME holds'[w] = holds[w]
      PROVE  Held(w)
  BY <1>1 DEF Held, Reads
<1>2. CASE Callers
  <2>1. ASSUME NEW v \in Writers, NEW m \in Messages, ConfirmQueued(v, m)
        PROVE  holds'[w] = holds[w]
    <3>1. holds' = [holds EXCEPT ![v] = Hold("confirming", m, memory[m], 0, TRUE)]
      BY <2>1 DEF ConfirmQueued, AwaitsConfirmation
    <3>2. holds'[w].status # "confirming"
      BY DEF Reads
    <3>3. Hold("confirming", m, memory[m], 0, TRUE).status = "confirming"
      BY DEF Hold
    <3> QED
      BY <1>0, <3>1, <3>2, <3>3
  <2>2. ASSUME NEW v \in Writers, NEW m \in Messages, OpenEditor(v, m)
        PROVE  holds'[w] = holds[w] \/ HasRead(w)
    <3> DEFINE h == Hold("ready", m, memory[m], revisions[m], FALSE)
    <3>1. holds' = [holds EXCEPT ![v] = h] /\ UNCHANGED queueVars
      BY <2>2 DEF OpenEditor
    <3>2. h.id = m /\ h.revision = revisions[m] /\ h.payload = memory[m]
      BY DEF Hold
    <3> HIDE DEF h
    <3> QED
      BY <1>0, <3>1, <3>2 DEF HasRead
  <2>3. ASSUME NEW v \in Writers, Capture(v)
        PROVE  holds'[w] = holds[w] \/ HasRead(w)
    <3> DEFINE m == holds[v].id
               h == Hold("ready", m, memory[m], revisions[m], TRUE)
    <3>1. holds' = [holds EXCEPT ![v] = h] \/ holds' = [holds EXCEPT ![v] = NoHold]
      BY <2>3 DEF Capture
    <3>2. UNCHANGED queueVars /\ m \in Messages
      BY <1>0, <2>3, HoldIsUsed DEF Capture, TypeOK
    <3>3. h.id = m /\ h.revision = revisions[m] /\ h.payload = memory[m]
      BY DEF Hold
    <3> HIDE DEF h, m
    <3>4. CASE holds' = [holds EXCEPT ![v] = h]
      BY <1>0, <3>2, <3>3, <3>4 DEF HasRead
    <3>5. CASE holds' = [holds EXCEPT ![v] = NoHold]
      BY <1>0, <3>5
    <3> QED
      BY <3>1, <3>4, <3>5
  <2>4. ASSUME NEW v \in Writers, Update(v) \/ Remove(v)
        PROVE  Held(w)
    <3>1. PICK status \in {"updating", "removing"} :
            holds' = [holds EXCEPT ![v].status = status] /\ holds[v].status = "ready"
      BY <2>4 DEF Update, Remove
    <3>2. \/ holds'[w] = holds[w]
          \/ holds'[w] = [holds[w] EXCEPT !.status = status] /\ holds[w].status = "ready"
      BY <1>0, <3>1
    <3> QED
      BY <1>0, <1>1, <3>2 DEF Held, Reads, Holds
  <2>5. ASSUME NEW v \in Writers, GiveUp(v)
        PROVE  holds'[w] = holds[w]
    BY <1>0, <2>5 DEF GiveUp
  <2>6. ASSUME \/ ClearEnvironment \/ Load
               \/ \E m \in Messages : Enqueue(m) \/ RemovePlainly(m) \/ ToggleEditing(m)
        PROVE  holds'[w] = holds[w]
    BY <2>6 DEF ClearEnvironment, Load, Enqueue, RemovePlainly, ToggleEditing, callerVars
  <2> QED
    BY <1>1, <1>2, <2>1, <2>2, <2>3, <2>4, <2>5, <2>6 DEF Callers
<1>3. ASSUME NEW mutation \in Mutations, Answers(mutation, NoHold)
      PROVE  holds'[w] = holds[w]
  BY <1>0, <1>3 DEF Answers
<1>4. CASE Starting
  <2>1. Head(pending) \in Mutations
    BY <1>4, StartingFrame
  <2>2. CASE Confirm
    <3> DEFINE c == Head(pending)
               h == Hold("confirmed", c.id, c.payload, 0, TRUE)
    <3>1. Answers(c, h) \/ Answers(c, NoHold)
      BY <2>2 DEF Confirm
    <3>2. h.status = "confirmed" /\ ~Reads(h)
      BY DEF Hold, Reads
    <3> HIDE DEF h
    <3>3. ASSUME Answers(c, h)
          PROVE  holds'[w] = holds[w]
      BY <1>0, <3>2, <3>3 DEF Answers
    <3> QED
      BY <1>1, <1>3, <2>1, <3>1, <3>3
  <2>3. CASE BeginEnqueue \/ BeginUpdate \/ BeginRemove \/ BeginLoading
    BY <1>1, <1>3, <2>1, <2>3 DEF BeginEnqueue, BeginUpdate, BeginRemove, BeginLoading
  <2> QED
    BY <1>4, <2>2, <2>3 DEF Starting
<1>5. CASE Proceeding
  <2>1. running \in Mutations
    BY DEF TypeOK
  <2>2. CASE UpdateWritten
    <3>1. CASE LostRace(running)
      BY <1>1, <1>3, <2>1, <2>2, <3>1 DEF UpdateWritten
    <3>2. CASE ~LostRace(running)
      <4> DEFINE h == Hold("ready", running.id, running.payload, running.expected + 1,
                           holds[running.by].confirmed)
      <4>1. Answers(running, h)
        BY <2>2, <3>2 DEF UpdateWritten
      <4>2. /\ h.id = running.id /\ h.payload = running.payload
            /\ h.revision = running.expected + 1
        BY DEF Hold
      <4> HIDE DEF h
      <4>3. holds'[w] = holds[w] \/ holds'[w] = h
        BY <1>0, <4>1 DEF Answers
      <4> QED
        BY <1>1, <2>2, <3>2, <4>2, <4>3 DEF HasWritten
    <3> QED
      BY <3>1, <3>2
  <2>3. CASE UpdateWriteFails \/ UpdateWinnerRestored \/ Removing
    BY <1>1, <1>3, <2>1, <2>3 DEF UpdateWriteFails, UpdateWinnerRestored, Removing,
       FileRemoved, FileRemovalFails, RemovalUndone
  <2>4. CASE Enqueuing \/ Loaded \/ Clearing
    BY <1>1, <2>4 DEF Enqueuing, Loaded, Clearing, EnqueueWritten, EnqueueWriteFails,
       EnqueueFileDropped, ClearLoads, ClearLoadFails, ClearRemoves, ClearRemoved,
       ClearRestores, ClearFinishes
  <2> QED
    BY <1>5, <2>2, <2>3, <2>4 DEF Proceeding, Updating
<1>6. CASE Crash
  BY <1>0, <1>6 DEF Crash
<1>7. CASE UNCHANGED vars
  BY <1>1, <1>7 DEF vars, callerVars
<1> QED
  BY <1>2, <1>4, <1>5, <1>6, <1>7, StepKinds

-----------------------------------------------------------------------------
(* How a step changes the queue on screen.                                 *)

Waiting(m) == \E i \in 1 .. Len(pending) : pending[i].op = "enqueue" /\ pending[i].id = m

\* What waits is on screen.
LEMMA WaitingIsPromised ==
  ASSUME LineInv, NEW m
  PROVE  /\ Promised(m) <=> Waiting(m)
         /\ Waiting(m) /\ m \in Messages => memory[m] # None
<1>1. Promised(m) => Waiting(m)
  BY DEF Promised, Waiting, Carries
<1>2. ASSUME Waiting(m)
      PROVE  Promised(m) /\ memory[m] # None
  <2>1. PICK i \in 1 .. Len(pending) : pending[i].op = "enqueue" /\ pending[i].id = m
    BY <1>2 DEF Waiting
  <2>2. PICK j \in i .. Len(pending) : Carries(pending[j], m)
    BY <2>1 DEF LineInv, Line, Published
  <2>3. Len(pending) \in Nat /\ \A k \in 1 .. Len(pending) : Job(k) = pending[k]
    BY JobIsTyped DEF LineInv, Line, Durable
  <2>4. j \in 1 .. Len(pending)
    BY <2>2, <2>3
  <2>5. Sound(pending[j])
    BY <2>3, <2>4 DEF LineInv, Line, JobsSound
  <2> QED
    BY <2>2, <2>4, <2>5 DEF Promised, Carries, Sound, WrittenOnes
<1> QED
  BY <1>1, <1>2

\* Nothing of a message waits behind a mutation that still fits its revision.
LEMMA FitsIsAlone ==
  ASSUME Line, running.op \in {"update", "remove"}, running.id \in Messages,
         revisions[running.id] = running.expected
  PROVE  ~Waiting(running.id)
<1>1. /\ Len(pending) \in Nat /\ Job(0) = running
      /\ \A k \in 1 .. Len(pending) : Job(k) = pending[k] /\ k \in 0 .. Len(pending) /\ 0 < k
  BY JobIsTyped DEF Line, Durable
<1>2. \A k \in 1 .. Len(pending) : Behind(running, pending[k])
  BY <1>1 DEF Line, Ordered
<1>3. revisions[running.id] \in Nat
  BY DEF Line, Durable, TypeOK, PayloadMap
<1> QED
  BY <1>2, <1>3 DEF Waiting, Behind

LEMMA TakenIsAlone ==
  ASSUME Line, running.op = "clear", NEW m \in Messages,
         revisions[m] = clear.requested[m]
  PROVE  ~Waiting(m)
<1>1. /\ Len(pending) \in Nat /\ Job(0) = running
      /\ \A k \in 1 .. Len(pending) : Job(k) = pending[k] /\ k \in 0 .. Len(pending) /\ 0 < k
  BY JobIsTyped DEF Line, Durable
<1>2. \A k \in 1 .. Len(pending) : Behind(running, pending[k])
  BY <1>1 DEF Line, Ordered
<1>3. revisions[m] \in Nat
  BY DEF Line, Durable, TypeOK, PayloadMap
<1> QED
  BY <1>2, <1>3 DEF Waiting, Behind

\* The payload of the running enqueue is on screen only if no later one is.
LEMMA ShownIsAlone ==
  ASSUME LineInv, running.op = "enqueue", running.id \in Messages,
         memory[running.id] = running.payload
  PROVE  ~Waiting(running.id)
<1>1. /\ Len(pending) \in Nat /\ Job(0) = running
      /\ \A k \in 1 .. Len(pending) : Job(k) = pending[k] /\ k \in 0 .. Len(pending) /\ 0 < k
  BY JobIsTyped DEF LineInv, Line, Durable
<1>2. \A k \in 1 .. Len(pending) : Behind(running, pending[k])
  BY <1>1 DEF LineInv, Line, Ordered
<1>3. memory[running.id] \in Nat
  BY DEF LineInv, Line, Durable, TypeOK, PayloadMap
<1>4. SUFFICES ASSUME Promised(running.id) PROVE FALSE
  BY WaitingIsPromised
<1> QED
  BY <1>2, <1>3, <1>4 DEF Promised, Carries, Behind, WrittenOnes

\* A message on screen changes with an enqueue of it, or while none waits.
LEMMA MemoryMoves ==
  ASSUME LineInv, [Next]_vars, ~Crash, NEW m \in Messages
  PROVE  memory'[m] = memory[m] \/ Enqueue(m) \/ (pending' = pending /\ ~Waiting(m))
<1>0. /\ Line /\ TypeOK /\ memory \in PayloadMap /\ clear \in Clears
      /\ \A n \in Messages : memory[n] \in Nat /\ revisions[n] \in Nat
  BY DEF LineInv, Line, Durable, TypeOK, PayloadMap
<1>1. CASE UNCHANGED memory
  BY <1>1
<1>2. CASE Callers
  <2>1. ASSUME NEW n \in Messages, Enqueue(n)
        PROVE  memory'[m] = memory[m] \/ Enqueue(m)
    BY <1>0, <2>1 DEF Enqueue, PayloadMap
  <2> QED
    BY <1>1, <1>2, <2>1, CallersFrame DEF queueVars
<1>3. CASE Starting
  BY <1>0, <1>1, <1>3, StartingFrame DEF queueVars
<1>4. CASE Proceeding
  <2>0. pending' = pending
    BY <1>4, ProceedingFrame
  <2>1. CASE EnqueueWriteFails
    <3>1. running.op = "enqueue" /\ running.id \in Messages
      BY <1>0, <2>1, Running DEF EnqueueWriteFails, Operations
    <3>2. \/ memory'[m] = memory[m]
          \/ m = running.id /\ memory[m] = running.payload
      BY <1>0, <2>1 DEF EnqueueWriteFails, RollsBack, PayloadMap
    <3> QED
      BY <2>0, <3>1, <3>2, ShownIsAlone
  <2>2. CASE UpdateWritten
    <3>1. running.op = "update" /\ running.id \in Messages
      BY <1>0, <2>2, Running DEF UpdateWritten, Operations
    <3>2. CASE LostRace(running)
      BY <2>2, <3>2 DEF UpdateWritten, queueVars
    <3>3. CASE ~LostRace(running)
      <4>1. memory' = [memory EXCEPT ![running.id] = running.payload]
        BY <2>2, <3>3 DEF UpdateWritten
      <4>2. revisions[running.id] = running.expected
        <5>1. Sound(running)
          BY JobIsTyped, <1>0 DEF LineInv, Line, JobsSound
        <5> QED
          BY <3>1, <3>3, <5>1 DEF LostRace, StaleOrMissing, Sound
      <4> QED
        BY <1>0, <2>0, <3>1, <4>1, <4>2, FitsIsAlone DEF PayloadMap
    <3> QED
      BY <3>2, <3>3
  <2>3. CASE FileRemoved
    <3>1. running.op = "remove" /\ running.id \in Messages
      BY <1>0, <2>3, Running DEF FileRemoved, Operations
    <3>2. CASE RemovalCanceled(running)
      BY <2>3, <3>2 DEF FileRemoved, queueVars
    <3>3. CASE ~RemovalCanceled(running)
      <4>1. memory' = [memory EXCEPT ![running.id] = None]
        BY <2>3, <3>3 DEF FileRemoved
      <4>2. revisions[running.id] = running.expected
        <5>1. running.expected # AnyRevision
          BY <1>0, <3>1, JobIsTyped DEF LineInv, RemovalsNamed
        <5> QED
          BY <3>3, <5>1 DEF RemovalCanceled
      <4> QED
        BY <1>0, <2>0, <3>1, <4>1, <4>2, FitsIsAlone DEF PayloadMap
    <3> QED
      BY <3>2, <3>3
  <2>4. CASE Loaded
    <3>1. memory'[m] = memory[m] \/ memory[m] = None
      BY <2>4 DEF Loaded, Recovered
    <3> QED
      BY <2>0, <3>1, WaitingIsPromised
  <2>5. CASE ClearFinishes
    <3>1. Cleaning /\ running.op = "clear"
      BY <2>5 DEF ClearFinishes, Cleaning, Waits
    <3>2. \/ memory'[m] = memory[m] \/ memory[m] = None
          \/ m \in clear.gone /\ revisions[m] = clear.revisions[m]
      BY <2>5 DEF ClearFinishes
    <3>3. ASSUME m \in clear.gone, revisions[m] = clear.revisions[m]
          PROVE  revisions[m] = clear.requested[m]
      BY <3>1, <3>3 DEF LineInv, Line, Taken
    <3> QED
      BY <1>0, <2>0, <3>1, <3>2, <3>3, TakenIsAlone, WaitingIsPromised
  <2>6. CASE ~(EnqueueWriteFails \/ UpdateWritten \/ FileRemoved \/ Loaded \/ ClearFinishes)
    <3>1. UNCHANGED memory
      BY <1>4, <2>6 DEF Proceeding, Enqueuing, Updating, Removing, Clearing, EnqueueWritten,
         EnqueueFileDropped, UpdateWriteFails, UpdateWinnerRestored, FileRemovalFails,
         RemovalUndone, ClearLoads, ClearLoadFails, ClearRemoved, ClearRemoves, ClearRestores,
         queueVars
    <3> QED
      BY <1>1, <3>1
  <2> QED
    BY <2>1, <2>2, <2>3, <2>4, <2>5, <2>6
<1>5. CASE UNCHANGED vars
  BY <1>1, <1>5 DEF vars, queueVars
<1> QED
  BY <1>2, <1>3, <1>4, <1>5, StepKinds

\* What is promised is promised or written next, until the process dies.
LEMMA PromiseKept ==
  ASSUME LineInv, [Next]_vars, ~Crash, NEW m \in Messages, Promised(m)
  PROVE  \/ Promised(m)'
         \/ /\ Starting /\ running' = Head(pending) /\ Carries(running, m)'
            /\ memory'[m] = memory[m]
<1>0. TypeOK /\ Waiting(m)
  BY WaitingIsPromised DEF LineInv, Line, Durable
<1>1. ASSUME Enqueue(m)
      PROVE  Promised(m)'
  <2> DEFINE c == Mutation("enqueue", m, payloads', AnyRevision, FALSE, NoWriter)
  <2>1. pending' = Append(pending, c) /\ memory' = [memory EXCEPT ![m] = payloads']
    BY <1>1 DEF Enqueue, Submit
  <2>2. c.op = "enqueue" /\ c.id = m /\ c.payload = memory'[m]
    BY <1>0, <2>1 DEF Mutation, TypeOK, PayloadMap
  <2> HIDE DEF c
  <2>3. Len(pending) + 1 \in 1 .. Len(pending') /\ pending'[Len(pending) + 1] = c
    BY <1>0, <2>1 DEF TypeOK
  <2> QED
    BY <2>2, <2>3 DEF Promised, Carries
<1>2. CASE memory'[m] = memory[m]
  <2>1. PICK i \in 1 .. Len(pending) : Carries(pending[i], m)
    BY DEF Promised
  <2>q. pending \in Seq(Mutations) /\ Len(pending) \in Nat
    BY <1>0 DEF TypeOK
  <2>3. CASE \A k \in 1 .. Len(pending) : k \in 1 .. Len(pending') /\ pending'[k] = pending[k]
    BY <1>2, <2>1, <2>3 DEF Promised, Carries
  <2>4. CASE Callers
    <3>1. pending' = pending \/ \E c \in Mutations : pending' = Append(pending, c)
      BY <1>0, <2>4, Submitted DEF Submit
    <3>2. \A k \in 1 .. Len(pending) : k \in 1 .. Len(pending') /\ pending'[k] = pending[k]
      BY <2>q, <3>1
    <3> QED
      BY <2>3, <3>2
  <2>5. CASE Starting
    <3>1. pending # <<>> /\ pending' = Tail(pending)
      BY <1>0, <2>5, StartingFrame DEF Begins, Passes
    <3>2. /\ Head(pending) = pending[1] /\ Len(pending') = Len(pending) - 1
          /\ \A k \in 1 .. Len(pending') : pending'[k] = pending[k + 1]
      BY <2>q, <3>1, HeadAndTail
    <3>3. CASE i > 1
      <4>1. i - 1 \in 1 .. Len(pending') /\ pending'[i - 1] = pending[i]
        BY <2>q, <3>2, <3>3
      <4> QED
        BY <1>2, <2>1, <4>1 DEF Promised, Carries
    <3>4. CASE i = 1
      <4>1. Head(pending).op = "enqueue"
        BY <2>1, <3>2, <3>4 DEF Carries
      <4>2. running' = Head(pending)
        BY <1>0, <2>5, <4>1, StartingFrame DEF Begins
      <4> QED
        BY <1>2, <2>1, <2>5, <3>2, <3>4, <4>2 DEF Carries
    <3> QED
      BY <3>3, <3>4
  <2>6. CASE Proceeding
    BY <2>3, <2>6, ProceedingFrame
  <2>7. CASE UNCHANGED vars
    BY <2>3, <2>7 DEF vars
  <2> QED
    BY <2>4, <2>5, <2>6, <2>7, StepKinds
<1> QED
  BY <1>0, <1>1, <1>2, MemoryMoves

-----------------------------------------------------------------------------
(* Every step keeps the line in order.                                     *)

LEMMA OrderedKept ==
  ASSUME Line, [Next]_vars, ~Crash
  PROVE  Ordered'
<1>0. /\ TypeOK /\ Len(pending) \in Nat /\ payloads \in Nat /\ payloads' \in Nat
      /\ \A i \in 0 .. Len(pending) : Job(i) \in Mutations /\ Job(i).payload <= payloads
      /\ TypeOK' /\ Len(pending') \in Nat
      /\ NoMutation.op = "none"
  <2>1. TypeOK /\ TypeOK' /\ payloads \in Nat /\ payloads' \in Nat
    BY StepTyped DEF Line, Durable, TypeOK
  <2>2. Len(pending) \in Nat /\ Len(pending') \in Nat
    BY <2>1 DEF TypeOK
  <2>3. \A i \in 0 .. Len(pending) : Job(i) \in Mutations /\ Job(i).payload <= payloads
    BY <2>1, <2>2, JobIsTyped DEF Line, Durable, MadeBefore
  <2> QED
    BY <2>1, <2>2, <2>3, NoMutationIsTyped
<1>1. PICK shift \in {0, 1} : \A i \in 0 .. Len(pending') :
        \/ i = 0 /\ Job(i)' = NoMutation
        \/ i + shift \in 0 .. Len(pending) /\ Job(i)' = Job(i + shift)
        \/ i = Len(pending') /\ i > 0 /\ shift = 0 /\ Asked(Job(i)')
  BY <1>0, JobSteps
<1> SUFFICES ASSUME NEW i \in 0 .. Len(pending'), NEW j \in 0 .. Len(pending'), i < j
             PROVE  Behind(Job(i), Job(j))'
  BY DEF Ordered
<1>2. CASE Job(i)' = NoMutation
  BY <1>0, <1>2 DEF Behind, WrittenOnes
<1>3. ASSUME i + shift \in 0 .. Len(pending), Job(i)' = Job(i + shift),
             j + shift \in 0 .. Len(pending), Job(j)' = Job(j + shift)
      PROVE  Behind(Job(i), Job(j))'
  <2> DEFINE c == Job(i + shift)
             q == Job(j + shift)
  <2>0. i + shift < j + shift
    BY <1>0
  <2>1. Behind(c, q) /\ c \in Mutations /\ q \in Mutations
    BY <1>0, <1>3, <2>0 DEF Line, Ordered
  <2>2. /\ q.op = "enqueue" => q.id \in Messages
        /\ c.expected \in Int
    BY <2>1, MutationIsUsed
  <2>3. \A m \in Messages : /\ revisions[m] \in Nat /\ revisions'[m] \in Nat
                            /\ revisions[m] <= revisions'[m]
    BY <1>0, RevisionSteps
  <2>4. \/ clear'.requested = clear.requested
        \/ c.op # "clear"
    <3>1. ASSUME ClearEnvironment
          PROVE  c.op # "clear"
      <4>1. \A k \in 0 .. Len(pending) : Job(k).op # "clear"
        BY <3>1 DEF ClearEnvironment, Job
      <4> QED
        BY <1>3, <4>1
    <3> QED
      BY <1>0, <3>1, ClearSteps
  <2>5. \A m \in Messages : clear.requested[m] \in Nat
    BY <1>0, ClearIsUsed DEF TypeOK, PayloadMap
  <2>6. Job(i)' = c /\ Job(j)' = q
    BY <1>3
  <2> HIDE DEF c, q
  <2>7. ASSUME q.op = "enqueue", c.op \in {"update", "remove"}, c.id = q.id
        PROVE  c.expected < revisions'[q.id]
    <3>1. /\ c.expected < revisions[q.id] /\ c.expected \in Int
          /\ revisions[q.id] \in Nat /\ revisions'[q.id] \in Nat
          /\ revisions[q.id] <= revisions'[q.id]
      BY <2>1, <2>2, <2>3, <2>7 DEF Behind
    <3> QED
      BY <3>1
  <2>8. ASSUME q.op = "enqueue", c.op = "clear"
        PROVE  clear'.requested[q.id] < revisions'[q.id]
    <3>1. /\ clear.requested[q.id] < revisions[q.id] /\ clear.requested[q.id] \in Nat
          /\ revisions[q.id] \in Nat /\ revisions'[q.id] \in Nat
          /\ revisions[q.id] <= revisions'[q.id]
      BY <2>1, <2>2, <2>3, <2>5, <2>8 DEF Behind
    <3> QED
      BY <2>4, <2>8, <3>1
  <2> QED
    BY <2>1, <2>6, <2>7, <2>8 DEF Behind
<1>4. ASSUME i + shift \in 0 .. Len(pending), Job(i)' = Job(i + shift), shift = 0, Asked(Job(j)')
      PROVE  Behind(Job(i), Job(j))'
  <2> DEFINE c == Job(i)
  <2>0. /\ i \in 0 .. Len(pending) /\ Job(i)' = c /\ c \in Mutations /\ c.payload <= payloads
        /\ Sound(c)
    BY <1>0, <1>4 DEF Line, JobsSound
  <2>1. c.payload \in Nat /\ c.expected \in Int
    BY <2>0, MutationIsUsed
  <2>2. PICK q \in Mutations : q = Job(j)' /\ Asked(q)
    <3>1. Job(j)' \in Mutations
      BY <1>0, NextJobIsTyped
    <3> QED
      BY <1>4, <3>1
  <2> HIDE DEF c
  <2>3. CASE q.op = "enqueue"
    <3>1. q.id \in Messages /\ q.payload = payloads' /\ Enqueue(q.id)
      BY <2>2, <2>3 DEF Asked
    <3>2. payloads' = payloads + 1 /\ clear' = clear
      BY <3>1 DEF Enqueue
    <3>3. /\ revisions[q.id] \in Nat /\ revisions'[q.id] \in Nat
          /\ revisions[q.id] < revisions'[q.id]
      BY <1>0, <3>1, RevisionSteps
    <3>4. clear.requested[q.id] <= revisions[q.id] /\ clear.requested[q.id] \in Nat
      BY <1>0, <3>1, ClearIsUsed DEF Line, Requested, TypeOK, PayloadMap
    <3>5. c.op \in {"update", "remove"} /\ c.id = q.id => c.expected < revisions'[q.id]
      BY <2>0, <2>1, <3>3 DEF Sound
    <3>6. c.payload < q.payload
      BY <1>0, <2>0, <2>1, <3>1, <3>2
    <3> QED
      BY <2>0, <2>2, <2>3, <3>2, <3>3, <3>4, <3>5, <3>6 DEF Behind
  <2>4. CASE q.op = "update"
    <3>1. q.payload = payloads' /\ payloads' = payloads + 1
      BY <2>2, <2>4 DEF Asked, Update
    <3>2. c.payload < q.payload
      BY <1>0, <2>0, <2>1, <3>1
    <3> QED
      BY <2>0, <2>2, <2>4, <3>2 DEF Behind
  <2>5. CASE q.op = "clear"
    <3>1. ClearEnvironment
      BY <2>2, <2>5 DEF Asked
    <3>2. c.op # "clear"
      BY <2>0, <3>1 DEF ClearEnvironment, Job, c
    <3> QED
      BY <2>0, <2>2, <2>5, <3>2 DEF Behind, WrittenOnes
  <2>6. CASE q.op \notin {"enqueue", "update", "clear"}
    BY <2>0, <2>2, <2>6 DEF Behind, WrittenOnes
  <2> QED
    BY <2>3, <2>4, <2>5, <2>6
<1>5. ~(i = Len(pending'))
  BY <1>0
<1>6. j # 0
  BY <1>0
<1>7. \/ Job(i)' = NoMutation
      \/ i + shift \in 0 .. Len(pending) /\ Job(i)' = Job(i + shift)
  BY <1>1, <1>5
<1>8. \/ j + shift \in 0 .. Len(pending) /\ Job(j)' = Job(j + shift)
      \/ shift = 0 /\ Asked(Job(j)')
  BY <1>1, <1>6
<1> QED
  BY <1>2, <1>3, <1>4, <1>7, <1>8

\* A mutation that is submitted asks for what its caller has read.
LEMMA AskedIsSound ==
  ASSUME Line, [Next]_vars, NEW c \in Mutations, Asked(c)
  PROVE  Sound(c)
<1>0. /\ TypeOK /\ payloads \in Nat /\ HoldsRead
      /\ \A m \in Messages : revisions[m] \in Nat
  BY DEF Line, Durable, TypeOK, PayloadMap
<1>1. ASSUME NEW w \in Writers, Update(w) \/ Remove(w), c.id = holds[w].id,
             c.expected = holds[w].revision
      PROVE  c.expected # AnyRevision /\ c.expected <= revisions[c.id]
  <2>1. holds[w].revision \in Nat /\ Reads(holds[w])
    BY <1>0, <1>1, HoldIsUsed DEF Update, Remove, Reads, TypeOK
  <2> QED
    BY <1>0, <1>1, <2>1 DEF HoldsRead, AnyRevision
<1>2. c.op \in {"update", "enqueue"} => c.payload = payloads + 1
  BY DEF Asked, Enqueue, Update
<1>3. c.op \in {"update", "remove"} => c.expected <= revisions[c.id]
  <2>1. c.op = "remove" => c.id \in Messages
    BY MutationIsUsed
  <2> QED
    BY <1>0, <1>1, <2>1 DEF Asked, AnyRevision
<1>4. c.op = "update" => c.expected # AnyRevision
  BY <1>1 DEF Asked
<1> QED
  BY <1>0, <1>2, <1>3, <1>4 DEF Sound, WrittenOnes, None

LEMMA SoundKept ==
  ASSUME Line, [Next]_vars, ~Crash
  PROVE  JobsSound' /\ HoldsRead' /\ Requested'
<1>0. /\ TypeOK /\ TypeOK' /\ Len(pending) \in Nat /\ Len(pending') \in Nat
      /\ \A m \in Messages : /\ revisions[m] \in Nat /\ revisions'[m] \in Nat
                             /\ revisions[m] <= revisions'[m]
      /\ NoMutation.op = "none"
  BY StepTyped, JobIsTyped, NextJobIsTyped, RevisionSteps, NoMutationIsTyped
     DEF Line, Durable
<1>1. ASSUME NEW c \in Mutations, Sound(c)
      PROVE  Sound(c)'
  <2>1. /\ c.op \in {"update", "remove"} => c.id \in Messages
        /\ c.expected \in Int
    BY MutationIsUsed
  <2> QED
    BY <1>0, <1>1, <2>1 DEF Sound
<1>2. JobsSound'
  <2>1. PICK shift \in {0, 1} : \A i \in 0 .. Len(pending') :
          \/ i = 0 /\ Job(i)' = NoMutation
          \/ i + shift \in 0 .. Len(pending) /\ Job(i)' = Job(i + shift)
          \/ i = Len(pending') /\ i > 0 /\ shift = 0 /\ Asked(Job(i)')
    BY <1>0, JobSteps
  <2> SUFFICES ASSUME NEW i \in 0 .. Len(pending')
               PROVE  Sound(Job(i))'
    BY DEF JobsSound
  <2>2. PICK c \in Mutations : c = Job(i)'
    BY <1>0, NextJobIsTyped
  <2>3. CASE c = NoMutation
    BY <1>0, <2>2, <2>3 DEF Sound, WrittenOnes
  <2>4. CASE Asked(c)
    <3>1. Sound(c)
      BY <2>4, AskedIsSound
    <3>2. Sound(c)'
      BY <1>1, <3>1
    <3> QED
      BY <2>2, <3>2
  <2>5. ASSUME NEW k \in 0 .. Len(pending), Job(k) = c
        PROVE  Sound(Job(i))'
    <3>1. Sound(c)'
      BY <1>1, <2>5 DEF Line, JobsSound
    <3> QED
      BY <2>2, <3>1
  <2> QED
    BY <2>1, <2>2, <2>3, <2>4, <2>5
<1>3. HoldsRead'
  <2> SUFFICES ASSUME NEW w \in Writers, Reads(holds'[w])
               PROVE  holds'[w].revision <= revisions'[holds'[w].id]
    BY DEF HoldsRead, Reads
  <2>1. holds[w] \in Holds /\ holds'[w] \in Holds
    BY <1>0 DEF TypeOK
  <2>2. CASE Held(w)
    <3>1. /\ holds[w].revision <= revisions[holds[w].id] /\ holds[w].id \in Messages
          /\ holds[w].revision \in Nat
      BY <2>1, <2>2, HoldIsUsed DEF Held, Line, HoldsRead, Reads
    <3> QED
      BY <1>0, <2>2, <3>1 DEF Held
  <2>3. CASE HasRead(w)
    BY <1>0, <2>3 DEF HasRead, queueVars
  <2>4. CASE HasWritten(w)
    <3>1. /\ UpdateWritten /\ ~LostRace(running) /\ holds'[w].id = running.id
          /\ holds'[w].revision = running.expected + 1
      BY <2>4 DEF HasWritten
    <3>2. running.id \in Messages /\ running.op = "update"
      BY <1>0, <3>1, Running DEF UpdateWritten, Operations
    <3>3. Sound(running)
      BY <1>0, JobIsTyped DEF Line, JobsSound
    <3>4. revisions[running.id] = running.expected
      BY <3>1, <3>2, <3>3 DEF LostRace, StaleOrMissing, Sound
    <3>5. revisions'[running.id] = revisions[running.id] + 1
      BY <1>0, <3>1, <3>2 DEF UpdateWritten, Bumped, TypeOK, PayloadMap
    <3> QED
      BY <1>0, <3>1, <3>2, <3>4, <3>5
  <2> QED
    BY <1>0, <2>2, <2>3, <2>4, ReadSteps
<1>4. Requested'
  <2>1. \A m \in Messages : clear.requested[m] <= revisions[m] /\ clear.requested[m] \in Nat
    BY <1>0, ClearIsUsed DEF Line, Requested, TypeOK, PayloadMap
  <2>2. clear'.requested = clear.requested \/ clear'.requested = revisions
    BY <1>0, ClearSteps DEF NoClear
  <2> QED
    BY <1>0, <2>1, <2>2 DEF Requested
<1> QED
  BY <1>2, <1>3, <1>4

LEMMA TakenKept ==
  ASSUME Line, [Next]_vars, ~Crash
  PROVE  Taken'
<1>0. /\ TypeOK /\ TypeOK' /\ Len(pending) \in Nat /\ Len(pending') \in Nat
      /\ NoMutation.op = "none" /\ QueueTyped /\ clear \in Clears
  BY StepTyped, JobIsTyped, NextJobIsTyped, NoMutationIsTyped
     DEF Line, Durable, TypeOK, QueueTyped
<1>1. PICK shift \in {0, 1} : \A i \in 0 .. Len(pending') :
        \/ i = 0 /\ Job(i)' = NoMutation
        \/ i + shift \in 0 .. Len(pending) /\ Job(i)' = Job(i + shift)
        \/ i = Len(pending') /\ i > 0 /\ shift = 0 /\ Asked(Job(i)')
  BY <1>0, JobSteps
\* Nothing is removed before a clear that is still to begin.
<1>2. ASSUME NEW i \in 0 .. Len(pending'), Job(i)'.op = "clear", i = 0 => stage' = "loading"
      PROVE  clear'.gone = {}
  <2>1. CASE Asked(Job(i)')
    <3>1. ClearEnvironment
      BY <1>2, <2>1 DEF Asked
    <3> QED
      BY <3>1 DEF ClearEnvironment, NoClear
  <2>2. CASE i + shift \in 0 .. Len(pending) /\ Job(i)' = Job(i + shift)
    <3>1. Job(i + shift).op = "clear"
      BY <1>2, <2>2
    <3>2. i + shift = 0 => stage = "loading"
      <4>1. ASSUME i = 0, shift = 0
            PROVE  stage = "loading"
        <5>1. running.op = "clear" /\ running' = running
          BY <1>0, <2>2, <3>1, <4>1 DEF Job
        <5>2. CASE Callers
          BY <1>2, <4>1, <5>2, CallersFrame
        <5>3. CASE Starting
          BY <1>0, <5>1, <5>3, StartingFrame
        <5>4. CASE Proceeding
          <6>1. running' # NoMutation
            BY <1>0, <5>1
          <6>2. Clearing
            BY <5>1, <5>4 DEF Proceeding, Enqueuing, Updating, Removing, Loaded, Waits,
               EnqueueWritten, EnqueueWriteFails, EnqueueFileDropped, UpdateWritten,
               UpdateWriteFails, UpdateWinnerRestored, FileRemoved, FileRemovalFails,
               RemovalUndone
          <6>3. stage' = stage
            BY <1>2, <4>1, <6>1, <6>2 DEF Clearing, Ends, ClearLoads, ClearLoadFails,
               ClearRemoves, ClearRemoved, ClearRestores, ClearFinishes
          <6> QED
            BY <1>2, <4>1, <6>3
        <5>5. CASE UNCHANGED vars
          BY <1>2, <4>1, <5>5 DEF vars, mutationVars
        <5> QED
          BY <5>2, <5>3, <5>4, <5>5, StepKinds
      <4> QED
        BY <1>0, <4>1
    <3>3. clear.gone = {}
      BY <2>2, <3>1, <3>2 DEF Line, Taken
    <3>4. ~Cleaning
      <4>1. ASSUME Cleaning
            PROVE  FALSE
        <5>1. Job(0).op = "clear" /\ 0 \in 0 .. Len(pending)
          BY <1>0, <4>1, JobIsTyped DEF Cleaning
        <5>2. i + shift # 0
          BY <3>2, <4>1 DEF Cleaning
        <5>3. 0 < i + shift
          BY <1>0, <2>2, <5>2
        <5> QED
          BY <2>2, <3>1, <5>1, <5>3 DEF Line, Ordered, Behind
      <4> QED
        BY <4>1
    <3>5. ClearEnvironment => clear'.gone = {}
      BY DEF ClearEnvironment, NoClear
    <3> QED
      BY <1>0, <3>3, <3>4, <3>5, ClearSteps
  <2> QED
    BY <1>0, <1>1, <1>2, <2>1, <2>2
<1>3. ASSUME Cleaning', NEW m \in clear'.left \cup clear'.gone
      PROVE  clear'.revisions[m] = clear'.requested[m]
  <2>1. CASE ClearLoads
    <3>1. clear.gone = {}
      BY <1>0, <2>1, JobIsTyped DEF ClearLoads, Waits, Line, Taken
    <3>2. m \in clear'.left
      BY <1>0, <1>3, <2>1, <3>1 DEF ClearLoads, Clears
    <3> QED
      BY <1>0, <2>1, <3>2 DEF ClearLoads, Clears, Unchanged
  <2>2. CASE ~ClearLoads
    <3>1. Cleaning
      <4>1. CASE Callers
        BY <1>3, <4>1, CallersFrame DEF Cleaning
      <4>2. CASE Starting
        <5>1. stage' \in {"removing", "restoring"} /\ running'.op = "clear"
          BY <1>3 DEF Cleaning
        <5>2. BeginRemove
          BY <1>0, <4>2, <5>1, StartingFrame DEF Starting, BeginEnqueue, Confirm,
             BeginUpdate, BeginLoading, Begins, Passes
        <5> QED
          BY <1>0, <4>2, <5>1, <5>2, StartingFrame DEF BeginRemove, Starts, Begins, Passes
      <4>3. CASE Proceeding
        <5>1. running' # NoMutation
          BY <1>0, <1>3 DEF Cleaning
        <5>2. running' = running /\ running.op = "clear"
          BY <1>3, <4>3, <5>1, ProceedingFrame DEF Cleaning
        <5>3. Clearing
          BY <4>3, <5>2 DEF Proceeding, Enqueuing, Updating, Removing, Loaded, Waits,
             EnqueueWritten, EnqueueWriteFails, EnqueueFileDropped, UpdateWritten,
             UpdateWriteFails, UpdateWinnerRestored, FileRemoved, FileRemovalFails,
             RemovalUndone
        <5> QED
          BY <2>2, <5>1, <5>2, <5>3 DEF Clearing, Cleaning, Waits, Ends, ClearLoadFails,
             ClearRemoves, ClearRemoved, ClearRestores, ClearFinishes
      <4>4. CASE UNCHANGED vars
        BY <1>3, <4>4 DEF vars, mutationVars, Cleaning
      <4> QED
        BY <4>1, <4>2, <4>3, <4>4, StepKinds
    <3>2. ~ClearEnvironment
      BY <3>1 DEF ClearEnvironment, Cleaning
    <3> QED
      BY <1>0, <1>3, <2>2, <3>1, <3>2, ClearSteps DEF Line, Taken
  <2> QED
    BY <2>1, <2>2
<1> QED
  BY <1>2, <1>3 DEF Taken, Cleaning

\* What waits moves up or stays, and what is submitted comes last.
LEMMA PendingSteps ==
  ASSUME TypeOK, [Next]_vars, ~Crash
  PROVE  \E shift \in {0, 1} :
           /\ \A k \in 1 + shift .. Len(pending) :
                k - shift \in 1 .. Len(pending') /\ pending'[k - shift] = pending[k]
           /\ \A i \in 1 .. Len(pending') :
                \/ i + shift \in 1 .. Len(pending) /\ pending'[i] = pending[i + shift]
                \/ i = Len(pending') /\ shift = 0 /\ Asked(pending'[i])
           /\ shift = 1 => Starting /\ pending # <<>>
<1>0. pending \in Seq(Mutations) /\ Len(pending) \in Nat
  BY DEF TypeOK
<1>1. ASSUME pending' = pending
      PROVE  /\ \A k \in 1 + 0 .. Len(pending) :
                  k - 0 \in 1 .. Len(pending') /\ pending'[k - 0] = pending[k]
             /\ \A i \in 1 .. Len(pending') :
                  i + 0 \in 1 .. Len(pending) /\ pending'[i] = pending[i + 0]
  BY <1>0, <1>1
<1>2. CASE Callers
  <2>1. ASSUME NEW c \in Mutations, Submit(c), Asked(c)
        PROVE  /\ \A k \in 1 + 0 .. Len(pending) :
                    k - 0 \in 1 .. Len(pending') /\ pending'[k - 0] = pending[k]
               /\ \A i \in 1 .. Len(pending') :
                    \/ i + 0 \in 1 .. Len(pending) /\ pending'[i] = pending[i + 0]
                    \/ i = Len(pending') /\ Asked(pending'[i])
    <3>1. /\ Len(pending') = Len(pending) + 1
          /\ \A i \in 1 .. Len(pending) : pending'[i] = pending[i]
          /\ pending'[Len(pending) + 1] = c
      BY <1>0, <2>1, Appended DEF Submit
    <3> QED
      BY <1>0, <2>1, <3>1
  <2> QED
    BY <1>1, <1>2, <2>1, Submitted
<1>3. CASE Starting
  <2>1. pending # <<>> /\ pending' = Tail(pending)
    BY <1>3, StartingFrame DEF Begins, Passes
  <2>2. /\ Len(pending') = Len(pending) - 1
        /\ \A i \in 1 .. Len(pending') : pending'[i] = pending[i + 1]
    BY <1>0, <2>1, HeadAndTail
  <2>3. \A i \in 1 .. Len(pending') : i + 1 \in 1 .. Len(pending)
    BY <1>0, <2>2
  <2>4. ASSUME NEW k \in 1 + 1 .. Len(pending)
        PROVE  k - 1 \in 1 .. Len(pending') /\ pending'[k - 1] = pending[k]
    <3>1. k - 1 \in 1 .. Len(pending') /\ (k - 1) + 1 = k
      BY <1>0, <2>2
    <3> QED
      BY <2>2, <3>1
  <2> QED
    BY <1>3, <2>1, <2>2, <2>3, <2>4
<1>4. CASE Proceeding
  BY <1>1, <1>4, ProceedingFrame
<1>5. CASE UNCHANGED vars
  BY <1>1, <1>5 DEF vars
<1> QED
  BY <1>2, <1>3, <1>4, <1>5, StepKinds

LEMMA PublishedKept ==
  ASSUME LineInv, [Next]_vars, ~Crash
  PROVE  Published'
<1>0. /\ TypeOK /\ TypeOK' /\ pending \in Seq(Mutations) /\ Len(pending) \in Nat
      /\ Len(pending') \in Nat /\ Published
      /\ \A i \in 1 .. Len(pending') : pending'[i] \in Mutations
  <2>1. TypeOK /\ TypeOK' /\ Published
    BY StepTyped DEF LineInv, Line, Durable
  <2> QED
    BY <2>1 DEF TypeOK
<1>1. PICK shift \in {0, 1} :
        /\ \A k \in 1 + shift .. Len(pending) :
             k - shift \in 1 .. Len(pending') /\ pending'[k - shift] = pending[k]
        /\ \A i \in 1 .. Len(pending') :
             \/ i + shift \in 1 .. Len(pending) /\ pending'[i] = pending[i + shift]
             \/ i = Len(pending') /\ shift = 0 /\ Asked(pending'[i])
  BY <1>0, PendingSteps
<1> SUFFICES ASSUME NEW i \in 1 .. Len(pending'), pending'[i].op = "enqueue"
             PROVE  \E j \in i .. Len(pending') : Carries(pending[j], pending[i].id)'
  BY DEF Published
<1>2. PICK m \in Messages : m = pending'[i].id
  BY <1>0, MutationIsUsed
\* A message that is enqueued is on screen and last.
<1>3. ASSUME Enqueue(m)
      PROVE  \E j \in i .. Len(pending') : pending'[j].op = "enqueue" /\ pending'[j].id = m
                                           /\ pending'[j].payload = memory'[m]
  <2> DEFINE c == Mutation("enqueue", m, payloads', AnyRevision, FALSE, NoWriter)
  <2>1. pending' = Append(pending, c) /\ memory' = [memory EXCEPT ![m] = payloads']
    BY <1>3 DEF Enqueue, Submit
  <2>2. c.op = "enqueue" /\ c.id = m /\ c.payload = memory'[m]
    BY <1>0, <2>1 DEF Mutation, TypeOK, PayloadMap
  <2> HIDE DEF c
  <2>3. Len(pending') = Len(pending) + 1 /\ pending'[Len(pending) + 1] = c
    BY <1>0, <2>1
  <2>4. Len(pending) + 1 \in i .. Len(pending')
    BY <1>0, <2>3
  <2> QED
    BY <2>2, <2>3, <2>4
<1>4. CASE i + shift \in 1 .. Len(pending) /\ pending'[i] = pending[i + shift] /\ ~Enqueue(m)
  <2>1. PICK k \in i + shift .. Len(pending) : Carries(pending[k], pending[i + shift].id)
    BY <1>0, <1>4 DEF Published
  <2>2. k - shift \in i .. Len(pending') /\ pending'[k - shift] = pending[k]
    <3>1. k \in 1 + shift .. Len(pending)
      BY <1>0
    <3> QED
      BY <1>0, <1>1, <3>1
  <2>3. Waiting(m)
    BY <1>2, <1>4 DEF Waiting
  <2>4. memory'[m] = memory[m]
    BY <1>4, <2>3, MemoryMoves
  <2> QED
    BY <1>2, <1>4, <2>1, <2>2, <2>4 DEF Carries
<1>5. CASE Asked(pending'[i])
  BY <1>2, <1>3, <1>5 DEF Asked, Carries
<1>6. CASE Enqueue(m)
  BY <1>2, <1>3, <1>6 DEF Carries
<1> QED
  BY <1>1, <1>4, <1>5, <1>6

\* Without plain removals, every one that is submitted names a revision.
LEMMA RemovalsNamedKept ==
  ASSUME LineInv, ~PlainRemovals, [Next]_vars
  PROVE  RemovalsNamed'
<1>0. /\ TypeOK /\ NoMutation.op = "none" /\ RemovalsNamed
      /\ \A w \in Writers : holds[w].revision \in Nat
  <2>1. TypeOK /\ RemovalsNamed
    BY DEF LineInv, Line, Durable
  <2>2. \A w \in Writers : holds[w] \in Holds
    BY <2>1 DEF TypeOK
  <2> QED
    BY <2>1, <2>2, HoldIsUsed, NoMutationIsTyped
<1> SUFFICES ASSUME NEW i \in 0 .. Len(pending'), Job(i)'.op = "remove"
             PROVE  Job(i)'.expected # AnyRevision
  BY DEF RemovalsNamed
<1>1. CASE \E k \in 0 .. Len(pending) : Job(i)' = Job(k)
  BY <1>0, <1>1 DEF RemovalsNamed
<1>2. CASE Asked(Job(i)')
  BY <1>0, <1>2 DEF Asked, AnyRevision
<1> QED
  BY <1>0, <1>1, <1>2, JobSteps

LEMMA LineAfterCrash ==
  ASSUME Line, [Next]_vars, Crash
  PROVE  Line' /\ Published'
<1>1. /\ pending' = <<>> /\ running' = NoMutation /\ clear' = NoClear
      /\ revisions' = NoRevisions /\ holds' = [w \in Writers |-> NoHold]
  BY DEF Crash
<1>2. NoMutation.op = "none" /\ NoHold.status = "idle"
  BY NoMutationIsTyped, NoHoldIsTyped
<1>3. Durable'
  BY DurableKept DEF Line
<1>4. \A i \in 0 .. Len(pending') : i = 0 /\ Job(i)' = NoMutation
  BY <1>1 DEF Job
<1>5. Ordered' /\ JobsSound' /\ Taken' /\ Published'
  BY <1>1, <1>2, <1>4 DEF Ordered, JobsSound, Sound, WrittenOnes, Taken, Cleaning, Published
<1>6. HoldsRead'
  BY <1>1, <1>2 DEF HoldsRead, Reads
<1>7. Requested'
  BY <1>1 DEF Requested, NoClear, NoRevisions
<1> QED
  BY <1>3, <1>5, <1>6, <1>7 DEF Line

LEMMA LineStarts == Init => LineInv
<1> SUFFICES ASSUME Init PROVE LineInv
  OBVIOUS
<1>1. /\ pending = <<>> /\ running = NoMutation /\ clear = NoClear
      /\ revisions = NoRevisions /\ holds = [w \in Writers |-> NoHold]
  BY DEF Init
<1>2. NoMutation.op = "none" /\ NoHold.status = "idle"
  BY NoMutationIsTyped, NoHoldIsTyped
<1>4. \A i \in 0 .. Len(pending) : i = 0 /\ Job(i) = NoMutation
  BY <1>1 DEF Job
<1>5. Ordered /\ JobsSound /\ Taken /\ Published /\ RemovalsNamed
  BY <1>1, <1>2, <1>4 DEF Ordered, JobsSound, Sound, WrittenOnes, Taken, Cleaning, Published,
     RemovalsNamed
<1>6. HoldsRead
  BY <1>1, <1>2 DEF HoldsRead, Reads
<1>7. Requested
  BY <1>1 DEF Requested, NoClear, NoRevisions
<1> QED
  BY <1>5, <1>6, <1>7, DurableInitially DEF LineInv, Line

\* The line itself stays in order with plain removals too.
LEMMA LineKept ==
  ASSUME Line, [Next]_vars
  PROVE  Line'
<1>1. CASE Crash
  BY <1>1, LineAfterCrash
<1>2. CASE ~Crash
  BY <1>2, DurableKept, OrderedKept, SoundKept, TakenKept DEF Line
<1> QED
  BY <1>1, <1>2

LEMMA LineInvKept ==
  ASSUME LineInv, ~PlainRemovals, [Next]_vars
  PROVE  LineInv'
<1>1. Line /\ Line' /\ RemovalsNamed'
  BY LineKept, RemovalsNamedKept DEF LineInv
<1>2. Published'
  BY <1>1, LineAfterCrash, PublishedKept
<1> QED
  BY <1>1, <1>2 DEF LineInv

-----------------------------------------------------------------------------
(* What each mutation has left apart while it runs, and Aligned.           *)

\* What an enqueue writes is on screen, or a later one of the message waits.
EnqueueOK ==
  /\ Waits("enqueue", "writing") =>
       memory[running.id] = running.payload \/ Promised(running.id)
  /\ Waits("enqueue", "removing") => memory[running.id] = None \/ Promised(running.id)

\* An update that fits no more has lost to an enqueue that waits.
UpdateOK ==
  /\ Waits("update", "writing") =>
       /\ memory[running.id] # None
       /\ revisions[running.id] = running.expected \/ Promised(running.id)
  /\ Waits("update", "restoring") => Promised(running.id)

\* A removal puts back what is on screen.
RemoveOK ==
  Waits("remove", "restoring") => memory[running.id] = leaving \/ Promised(running.id)

\* What a clear has removed has changed no more, unless an enqueue waits; what it
\* has not removed is in its file as it was read.
ClearOK ==
  Cleaning =>
    /\ \A m \in clear.left \cup clear.gone :
         revisions[m] = clear.revisions[m] \/ Promised(m)
    /\ \A m \in clear.gone : revisions[m] = clear.revisions[m] => disk[m] = None
    /\ \A m \in Messages \ clear.gone : memory[m] = None => clear.all[m] = disk[m]
    /\ stage = "restoring" =>
         \A m \in clear.left : m \in clear.gone /\ revisions[m] # clear.revisions[m]

\* The file of a message is what is on screen, or about to be, or still unread.
BeingUndone(m) ==
  \/ Waits("remove", "restoring") /\ running.id = m
  \/ Cleaning /\ m \in clear.gone
InStep(m) ==
  \/ memory[m] = disk[m]
  \/ Promised(m)
  \/ BeingUndone(m)
  \/ running.op = "enqueue" /\ running.id = m
  \/ memory[m] = None /\ revisions[m] = 0 /\ loaded # "done"
AllInStep == \A m \in Messages \ unsettled : InStep(m)

StagesOK == EnqueueOK /\ UpdateOK /\ RemoveOK /\ ClearOK /\ AllInStep
FilesInv == LineInv /\ StagesOK

LEMMA PromisedIsShown == LineInv => \A m \in Messages : Promised(m) => memory[m] # None
BY WaitingIsPromised

LEMMA ShownNext ==
  ASSUME LineInv'
  PROVE  \A m \in Messages : Promised(m)' => memory'[m] # None
<1>1. LineInv' => (\A m \in Messages : Promised(m) => memory[m] # None)'
  BY PromisedIsShown, PTL
<1> QED
  BY <1>1

\* Steps of the callers leave the running mutation, its locals and the files alone; a
\* message changes with an enqueue of it, which then waits.
LEMMA CallersQuiet ==
  ASSUME LineInv, ~PlainRemovals, [Next]_vars, Callers
  PROVE  /\ LineInv' /\ TypeOK /\ TypeOK' /\ ~Crash
         /\ UNCHANGED <<running, stage, leaving, disk, written, released, saved, unsettled>>
         /\ loaded' = "done" => loaded = "done"
         /\ Cleaning => clear' = clear
         /\ \A m \in Messages :
              /\ Promised(m) => Promised(m)'
              /\ \/ memory'[m] = memory[m] /\ revisions'[m] = revisions[m]
                 \/ Enqueue(m) /\ Promised(m)'
<1>0. /\ TypeOK /\ pending \in Seq(Mutations) /\ Len(pending) \in Nat
      /\ memory \in PayloadMap /\ revisions \in PayloadMap /\ crashes \in Nat
  BY DEF LineInv, Line, Durable, TypeOK
<1>1. /\ UNCHANGED <<running, stage, leaving, disk, written, released, saved, unsettled>>
      /\ loaded' = "done" => loaded = "done"
      /\ crashes' = crashes
  BY CallersFrame DEF historyVars
<1>2. ~Crash
  BY <1>0, <1>1 DEF Crash
<1>3. LineInv' /\ TypeOK'
  BY LineInvKept DEF LineInv, Line, Durable
<1>4. Cleaning => clear' = clear
  BY CallersFrame DEF ClearEnvironment, Cleaning
<1>5. ~Starting
  <2>1. pending' = pending \/ \E c \in Mutations : pending' = Append(pending, c)
    BY <1>0, Submitted DEF Submit
  <2>2. Len(pending') >= Len(pending)
    BY <1>0, <2>1
  <2>3. ASSUME Starting
        PROVE  pending # <<>> /\ pending' = Tail(pending)
    BY <1>0, <2>3, StartingFrame DEF Begins, Passes
  <2> QED
    BY <1>0, <2>2, <2>3, HeadAndTail
<1>6. ASSUME NEW m \in Messages
      PROVE  Promised(m) => Promised(m)'
  BY <1>2, <1>5, PromiseKept
<1>7. ASSUME NEW m \in Messages, Enqueue(m)
      PROVE  Promised(m)'
  <2> DEFINE c == Mutation("enqueue", m, payloads', AnyRevision, FALSE, NoWriter)
  <2>1. pending' = Append(pending, c) /\ memory' = [memory EXCEPT ![m] = payloads']
    BY <1>7 DEF Enqueue, Submit
  <2>2. c.op = "enqueue" /\ c.id = m /\ c.payload = memory'[m]
    BY <1>0, <2>1 DEF Mutation, PayloadMap
  <2> HIDE DEF c
  <2>3. Len(pending) + 1 \in 1 .. Len(pending') /\ pending'[Len(pending) + 1] = c
    BY <1>0, <2>1
  <2> QED
    BY <2>2, <2>3 DEF Promised, Carries
<1>8. ASSUME NEW m \in Messages
      PROVE  \/ memory'[m] = memory[m] /\ revisions'[m] = revisions[m]
             \/ Enqueue(m) /\ Promised(m)'
  <2>1. CASE UNCHANGED queueVars
    BY <2>1 DEF queueVars
  <2>2. ASSUME NEW n \in Messages, Enqueue(n)
        PROVE  \/ memory'[m] = memory[m] /\ revisions'[m] = revisions[m]
               \/ Enqueue(m) /\ Promised(m)'
    BY <1>0, <1>7, <2>2 DEF Enqueue, Bumped, PayloadMap
  <2> QED
    BY <2>1, <2>2, CallersFrame
<1> QED
  BY <1>0, <1>1, <1>2, <1>3, <1>4, <1>6, <1>8

LEMMA CallersKeepStages ==
  ASSUME FilesInv, ~PlainRemovals, [Next]_vars, Callers
  PROVE  StagesOK'
<1>0. /\ LineInv' /\ TypeOK /\ TypeOK'
      /\ UNCHANGED <<running, stage, leaving, disk, unsettled>>
      /\ loaded' = "done" => loaded = "done"
      /\ Cleaning => clear' = clear
      /\ \A m \in Messages :
           /\ Promised(m) => Promised(m)'
           /\ (memory'[m] = memory[m] /\ revisions'[m] = revisions[m]) \/ Promised(m)'
  BY CallersQuiet DEF FilesInv
<1>1. \A m \in Messages : Promised(m)' => memory'[m] # None
  BY <1>0, ShownNext
<1>2. running.op \in {"enqueue", "update", "remove"} => running.id \in Messages
  BY <1>0, MutationIsUsed DEF TypeOK
<1>3. EnqueueOK' /\ UpdateOK' /\ RemoveOK'
  BY <1>0, <1>1, <1>2 DEF FilesInv, StagesOK, EnqueueOK, UpdateOK, RemoveOK, Waits
<1>4. ClearOK'
  <2> SUFFICES ASSUME Cleaning'
               PROVE  ClearOK'
    BY DEF ClearOK, Cleaning
  <2>1. /\ Cleaning /\ clear' = clear
        /\ clear.left \subseteq Messages /\ clear.gone \subseteq Messages
    BY <1>0, ClearIsUsed DEF Cleaning, TypeOK
  <2>2. \A m \in clear.left \cup clear.gone :
          m \in Messages /\ (revisions[m] = clear.revisions[m] \/ Promised(m))
    BY <2>1 DEF FilesInv, StagesOK, ClearOK
  <2>3. \A m \in Messages : /\ revisions[m] \in Nat /\ revisions'[m] \in Nat
                            /\ revisions[m] <= revisions'[m]
    BY <1>0, CallersQuiet, RevisionSteps DEF FilesInv
  <2>4. \A m \in clear.left \cup clear.gone :
          clear.revisions[m] <= revisions[m] /\ clear.revisions[m] \in Nat
    <3>1. clear.revisions \in PayloadMap /\ clear.requested \in PayloadMap
      BY <1>0, ClearIsUsed DEF TypeOK
    <3> QED
      BY <2>1, <2>2, <3>1 DEF FilesInv, LineInv, Line, Taken, Requested, PayloadMap
  <2>5. \A m \in clear.left \cup clear.gone : revisions'[m] = clear.revisions[m] \/ Promised(m)'
    BY <1>0, <2>2
  <2>6. \A m \in clear.gone : revisions'[m] = clear.revisions[m] => disk[m] = None
    <3> SUFFICES ASSUME NEW m \in clear.gone, revisions'[m] = clear.revisions[m]
                 PROVE  disk[m] = None
      OBVIOUS
    <3>1. revisions[m] = clear.revisions[m]
      BY <2>2, <2>3, <2>4
    <3> QED
      BY <2>1, <3>1 DEF FilesInv, StagesOK, ClearOK
  <2>7. \A m \in Messages \ clear.gone : memory'[m] = None => clear.all[m] = disk[m]
    BY <1>0, <1>1, <2>1 DEF FilesInv, StagesOK, ClearOK
  <2>8. stage = "restoring" =>
          \A m \in clear.left : m \in clear.gone /\ revisions'[m] # clear.revisions[m]
    <3> SUFFICES ASSUME stage = "restoring", NEW m \in clear.left
                 PROVE  m \in clear.gone /\ revisions'[m] # clear.revisions[m]
      OBVIOUS
    <3>1. m \in clear.gone /\ revisions[m] # clear.revisions[m]
      BY <2>1 DEF FilesInv, StagesOK, ClearOK
    <3> QED
      BY <2>2, <2>3, <2>4, <3>1
  <2> QED
    BY <1>0, <2>1, <2>5, <2>6, <2>7, <2>8 DEF ClearOK
<1>5. AllInStep'
  <2> SUFFICES ASSUME NEW m \in Messages, m \notin unsettled
               PROVE  InStep(m)'
    BY <1>0 DEF AllInStep
  <2>1. InStep(m)
    BY DEF FilesInv, StagesOK, AllInStep
  <2>2. CASE Promised(m)'
    BY <2>2 DEF InStep
  <2>3. CASE ~Promised(m)'
    <3>1. memory'[m] = memory[m] /\ revisions'[m] = revisions[m] /\ ~Promised(m)
      BY <1>0, <2>3
    <3>2. BeingUndone(m) => BeingUndone(m)'
      BY <1>0 DEF BeingUndone, Waits, Cleaning
    <3> QED
      BY <1>0, <2>1, <3>1, <3>2 DEF InStep
  <2> QED
    BY <2>2, <2>3
<1> QED
  BY <1>3, <1>4, <1>5 DEF StagesOK

\* What a mutation waits for when it has been started.
LEMMA BeginsAs ==
  ASSUME TypeOK, Starting
  PROVE  \/ running' = NoMutation /\ stage' = "idle"
         \/ /\ running' = Head(pending) /\ running' \in Mutations
            /\ \/ running'.op = "enqueue" /\ stage' = "writing"
               \/ running'.op = "update" /\ stage' = "writing" /\ ~StaleOrMissing(Head(pending))
               \/ BeginRemove /\ running'.op = "remove" /\ stage' = "removing"
               \/ running'.op \in {"load", "clear"} /\ stage' = "loading"
<1>1. running = NoMutation /\ stage = "idle" /\ Head(pending) \in Mutations
  BY StartingFrame
<1>2. CASE BeginEnqueue
  BY <1>1, <1>2 DEF BeginEnqueue, Begins, Starts
<1>3. CASE Confirm
  BY <1>1, <1>3 DEF Confirm, Passes
<1>4. CASE BeginUpdate
  BY <1>1, <1>4 DEF BeginUpdate, Begins, Passes, Starts
<1>5. CASE BeginRemove
  BY <1>1, <1>5 DEF BeginRemove, Begins, Passes, Starts
<1>6. CASE BeginLoading
  BY <1>1, <1>6 DEF BeginLoading, Begins, Starts
<1> QED
  BY <1>2, <1>3, <1>4, <1>5, <1>6 DEF Starting

LEMMA NoCrash == ASSUME TypeOK, crashes' = crashes PROVE ~Crash
BY DEF Crash, TypeOK

LEMMA StartingKeepsStages ==
  ASSUME FilesInv, ~PlainRemovals, [Next]_vars, Starting, crashes' = crashes
  PROVE  StagesOK'
<1>0. /\ LineInv /\ TypeOK /\ TypeOK' /\ NoMutation.op = "none"
      /\ running = NoMutation /\ stage = "idle" /\ pending # <<>>
      /\ UNCHANGED <<memory, revisions, loaded, clear, disk, unsettled>>
      /\ running' = running \/ running' = Head(pending)
      /\ ~Crash
  BY StepTyped, StartingFrame, BeginsAs, NoMutationIsTyped, NoCrash
     DEF FilesInv, LineInv, Line, Durable, queueVars, historyVars
<1>1. ASSUME NEW m \in Messages, Promised(m)
      PROVE  \/ Promised(m)'
             \/ running'.op = "enqueue" /\ running'.id = m /\ running'.payload = memory'[m]
  BY <1>0, <1>1, PromiseKept DEF Carries
<1>2. EnqueueOK'
  <2> SUFFICES ASSUME Waits("enqueue", "writing")'
               PROVE  memory'[running'.id] = running'.payload \/ Promised(running.id)'
    BY <1>0, BeginsAs DEF EnqueueOK, Waits
  <2>1. running' = Head(pending) /\ running'.op = "enqueue"
    BY <1>0 DEF Waits
  <2>2. /\ Head(pending) = pending[1] /\ 1 \in 1 .. Len(pending) /\ Head(pending) \in Mutations
        /\ Head(pending).id \in Messages
    BY <1>0, <2>1, HeadAndTail, MutationIsUsed DEF TypeOK
  <2>3. PICK m \in Messages : m = Head(pending).id
    BY <2>2
  <2>4. Waiting(m)
    BY <2>1, <2>2, <2>3 DEF Waiting
  <2>5. Promised(m)
    BY <1>0, <2>4, WaitingIsPromised
  <2>6. running'.id = m
    BY <2>1, <2>3
  <2>7. Promised(m)' => Promised(running.id)'
    BY <2>6 DEF Promised, Carries
  <2> QED
    BY <1>1, <2>5, <2>6, <2>7
<1>3. UpdateOK'
  <2> SUFFICES ASSUME Waits("update", "writing")'
               PROVE  memory'[running'.id] # None /\ revisions'[running'.id] = running'.expected
    BY <1>0, BeginsAs DEF UpdateOK, Waits
  <2>1. /\ running' = Head(pending) /\ running'.op = "update" /\ ~StaleOrMissing(running')
    BY <1>0, BeginsAs DEF Waits
  <2>2. Head(pending) = Job(1) /\ 1 \in 0 .. Len(pending)
    BY <1>0, HeadAndTail DEF TypeOK, Job
  <2>3. Sound(Head(pending))
    BY <2>2 DEF FilesInv, LineInv, Line, JobsSound
  <2> QED
    BY <1>0, <2>1, <2>3 DEF Sound, StaleOrMissing
<1>4. RemoveOK' /\ ClearOK'
  BY <1>0, BeginsAs DEF RemoveOK, ClearOK, Cleaning, Waits
<1>5. AllInStep'
  <2> SUFFICES ASSUME NEW m \in Messages, m \notin unsettled
               PROVE  InStep(m)'
    BY <1>0 DEF AllInStep
  <2>1. InStep(m) /\ ~BeingUndone(m)
    BY <1>0 DEF FilesInv, StagesOK, AllInStep, BeingUndone, Waits, Cleaning
  <2> QED
    BY <1>0, <1>1, <2>1 DEF InStep
<1> QED
  BY <1>2, <1>3, <1>4, <1>5 DEF StagesOK

\* Steps of the running mutation keep the line; what is promised stays promised, and
\* a message that does not change is promised no more than before.
LEMMA ProceedingQuiet ==
  ASSUME FilesInv, ~PlainRemovals, [Next]_vars, Proceeding, crashes' = crashes
  PROVE  /\ LineInv /\ LineInv' /\ TypeOK /\ TypeOK' /\ pending' = pending
         /\ NoMutation.op = "none"
         /\ \A m \in Messages : Promised(m) => Promised(m)'
         /\ \A m \in Messages : memory'[m] = memory[m] => (Promised(m)' <=> Promised(m))
<1>1. LineInv /\ LineInv' /\ TypeOK /\ TypeOK' /\ ~Crash /\ pending' = pending
  BY LineInvKept, NoCrash, ProceedingFrame, StepTyped DEF FilesInv, LineInv, Line, Durable
<1>2. ~Starting
  <2>1. Starting => pending # <<>> /\ pending' = Tail(pending)
    BY <1>1, StartingFrame DEF Begins, Passes
  <2>2. pending # <<>> => Len(Tail(pending)) # Len(pending)
    BY <1>1, HeadAndTail DEF TypeOK
  <2> QED
    BY <1>1, <2>1, <2>2
<1>3. \A m \in Messages : Promised(m) => Promised(m)'
  BY <1>1, <1>2, PromiseKept
<1>4. \A m \in Messages : memory'[m] = memory[m] => (Promised(m)' <=> Promised(m))
  BY <1>1 DEF Promised, Carries
<1> QED
  BY <1>1, <1>3, <1>4, NoMutationIsTyped

\* A mutation that has ended has nothing to answer for but the files.
LEMMA EndedIsOK ==
  ASSUME running' = NoMutation
  PROVE  EnqueueOK' /\ UpdateOK' /\ RemoveOK' /\ ClearOK'
BY NoMutationIsTyped DEF EnqueueOK, UpdateOK, RemoveOK, ClearOK, Waits, Cleaning

\* The other messages stay in step with their files.
LEMMA OthersStayInStep ==
  ASSUME FilesInv, ~PlainRemovals, [Next]_vars, Proceeding, crashes' = crashes,
         running.op \in {"enqueue", "update", "remove"}, loaded' = loaded,
         NEW id \in Messages, id = running.id, unsettled \subseteq unsettled' \cup {id},
         \A m \in Messages : m # id =>
           memory'[m] = memory[m] /\ disk'[m] = disk[m] /\ revisions'[m] = revisions[m],
         id \notin unsettled' => InStep(id)'
  PROVE  AllInStep'
<1>1. ASSUME NEW m \in Messages, m \notin unsettled', m # id
      PROVE  InStep(m)'
  <2>1. InStep(m)
    BY <1>1 DEF FilesInv, StagesOK, AllInStep
  <2>2. Promised(m) => Promised(m)'
    BY ProceedingQuiet
  <2>3. ~BeingUndone(m)
    BY <1>1 DEF BeingUndone, Waits, Cleaning
  <2> QED
    BY <1>1, <2>1, <2>2, <2>3 DEF InStep
<1> QED
  BY <1>1 DEF AllInStep

\* An enqueue: its payload is on screen or overtaken, before and after the write.
LEMMA EnqueuingKeepsStages ==
  ASSUME FilesInv, ~PlainRemovals, [Next]_vars, Enqueuing, crashes' = crashes
  PROVE  StagesOK'
<1>0. /\ Proceeding /\ TypeOK /\ TypeOK' /\ LineInv /\ pending' = pending
      /\ \A m \in Messages : Promised(m) => Promised(m)'
      /\ \A m \in Messages : Promised(m) => memory[m] # None
      /\ NoMutation.op = "none"
  BY ProceedingQuiet, PromisedIsShown DEF Proceeding
<1>1. running.op = "enqueue" /\ loaded' = loaded
  BY DEF Enqueuing, EnqueueWritten, EnqueueWriteFails, EnqueueFileDropped, Waits
<1>2. PICK id \in Messages : id = running.id
  BY <1>0, <1>1, MutationIsUsed DEF TypeOK
<1>3. /\ memory \in PayloadMap /\ disk \in PayloadMap
      /\ \A m \in Messages : memory[m] \in Nat /\ disk[m] \in Nat
  BY <1>0 DEF TypeOK, PayloadMap
<1>4. CASE EnqueueWritten
  <2>1. /\ disk' = [disk EXCEPT ![id] = running.payload] /\ UNCHANGED <<memory, revisions>>
        /\ running' = NoMutation /\ unsettled' = unsettled \ {id}
        /\ Waits("enqueue", "writing")
    BY <1>2, <1>4 DEF EnqueueWritten, StoreWrites, Ends, Settled, queueVars
  <2>2. memory[id] = running.payload \/ Promised(id)
    BY <1>2, <2>1 DEF FilesInv, StagesOK, EnqueueOK
  <2>3. InStep(id)'
    BY <1>0, <1>3, <2>1, <2>2 DEF InStep, PayloadMap
  <2>4. AllInStep'
    BY <1>0, <1>1, <1>2, <1>3, <2>1, <2>3, OthersStayInStep DEF PayloadMap
  <2> QED
    BY <2>1, <2>4, EndedIsOK DEF StagesOK
<1>5. CASE EnqueueWriteFails
  <2>1. /\ UNCHANGED <<disk, revisions, unsettled>> /\ Waits("enqueue", "writing")
        /\ memory' = IF memory[id] = running.payload
                     THEN [memory EXCEPT ![id] = None] ELSE memory
        /\ IF memory'[id] = None THEN stage' = "removing" /\ running' = running
                                 ELSE running' = NoMutation
    BY <1>2, <1>5 DEF EnqueueWriteFails, RollsBack, DropsFile, Ends
  <2>2. memory[id] = running.payload \/ Promised(id)
    BY <1>2, <2>1 DEF FilesInv, StagesOK, EnqueueOK
  <2>3. CASE memory'[id] = None
    <3>1. stage' = "removing" /\ running' = running
      BY <2>1, <2>3
    <3>2. EnqueueOK' /\ UpdateOK' /\ RemoveOK' /\ ClearOK'
      BY <1>1, <1>2, <2>3, <3>1
         DEF EnqueueOK, UpdateOK, RemoveOK, ClearOK, Waits, Cleaning
    <3>3. InStep(id)'
      BY <1>1, <1>2, <3>1 DEF InStep
    <3>4. AllInStep'
      BY <1>0, <1>1, <1>2, <1>3, <2>1, <3>3, OthersStayInStep DEF PayloadMap
    <3> QED
      BY <3>2, <3>4 DEF StagesOK
  <2>4. CASE memory'[id] # None
    <3>1. running' = NoMutation
      BY <2>1, <2>4
    <3>2. Promised(id)
      BY <1>3, <2>1, <2>2, <2>4 DEF PayloadMap
    <3>3. InStep(id)'
      BY <1>0, <3>2 DEF InStep
    <3>4. AllInStep'
      BY <1>0, <1>1, <1>2, <1>3, <2>1, <3>3, OthersStayInStep DEF PayloadMap
    <3> QED
      BY <3>1, <3>4, EndedIsOK DEF StagesOK
  <2> QED
    BY <2>3, <2>4
<1>6. CASE EnqueueFileDropped
  <2>1. /\ UNCHANGED <<memory, revisions>> /\ running' = NoMutation
        /\ Waits("enqueue", "removing")
        /\ \/ disk' = [disk EXCEPT ![id] = None] /\ unsettled' = unsettled \ {id}
           \/ unsettled' = unsettled \cup {id} /\ disk' = disk
    BY <1>2, <1>6 DEF EnqueueFileDropped, StoreRemoves, Ends, Settled, queueVars
  <2>2. memory[id] = None \/ Promised(id)
    BY <1>2, <2>1 DEF FilesInv, StagesOK, EnqueueOK
  <2>3. id \notin unsettled' => InStep(id)'
    BY <1>0, <1>3, <2>1, <2>2 DEF InStep, PayloadMap
  <2>4. unsettled \subseteq unsettled' \cup {id}
    BY <2>1
  <2>5. \A m \in Messages : m # id => disk'[m] = disk[m]
    BY <1>3, <2>1 DEF PayloadMap
  <2>6. AllInStep'
    BY <1>0, <1>1, <1>2, <2>1, <2>3, <2>4, <2>5, OthersStayInStep
  <2> QED
    BY <2>1, <2>6, EndedIsOK DEF StagesOK
<1> QED
  BY <1>4, <1>5, <1>6 DEF Enqueuing

\* An update: one that lost its race has an enqueue behind it.
LEMMA UpdatingKeepsStages ==
  ASSUME FilesInv, ~PlainRemovals, [Next]_vars, Updating, crashes' = crashes
  PROVE  StagesOK'
<1>0. /\ Proceeding /\ TypeOK /\ TypeOK' /\ LineInv /\ pending' = pending
      /\ \A m \in Messages : Promised(m) => Promised(m)'
      /\ \A m \in Messages : Promised(m) => memory[m] # None
      /\ NoMutation.op = "none"
  BY ProceedingQuiet, PromisedIsShown DEF Proceeding
<1>1. running.op = "update" /\ loaded' = loaded
  BY DEF Updating, UpdateWritten, UpdateWriteFails, UpdateWinnerRestored, Waits
<1>2. PICK id \in Messages : id = running.id
  BY <1>0, <1>1, MutationIsUsed DEF TypeOK
<1>3. /\ memory \in PayloadMap /\ disk \in PayloadMap /\ revisions \in PayloadMap
      /\ \A m \in Messages : memory[m] \in Nat /\ disk[m] \in Nat /\ revisions[m] \in Nat
  BY <1>0 DEF TypeOK, PayloadMap
<1>4. CASE UpdateWritten /\ LostRace(running)
  <2>1. /\ disk' = [disk EXCEPT ![id] = running.payload]
        /\ UNCHANGED <<memory, revisions, unsettled>> /\ Waits("update", "writing")
    BY <1>2, <1>4 DEF UpdateWritten, StoreWrites, queueVars
  <2>2. memory[id] # None /\ Promised(id)
    <3>1. memory[id] # None /\ (revisions[id] = running.expected \/ Promised(id))
      BY <1>2, <2>1 DEF FilesInv, StagesOK, UpdateOK
    <3> QED
      BY <1>2, <1>4, <3>1 DEF LostRace, StaleOrMissing
  <2>3. stage' = "restoring" /\ running' = running
    BY <1>2, <1>4, <2>2 DEF UpdateWritten
  <2>4. Promised(id)'
    BY <1>0, <2>2
  <2>5. Promised(running.id)'
    BY <1>2, <2>3, <2>4 DEF Promised, Carries
  <2>6. EnqueueOK' /\ UpdateOK' /\ RemoveOK' /\ ClearOK'
    BY <1>1, <2>3, <2>5 DEF EnqueueOK, UpdateOK, RemoveOK, ClearOK, Waits, Cleaning
  <2>7. InStep(id)'
    BY <2>4 DEF InStep
  <2>8. AllInStep'
    BY <1>0, <1>1, <1>2, <1>3, <2>1, <2>7, OthersStayInStep DEF PayloadMap
  <2> QED
    BY <2>6, <2>8 DEF StagesOK
<1>5. CASE UpdateWritten /\ ~LostRace(running)
  <2>1. /\ disk' = [disk EXCEPT ![id] = running.payload]
        /\ memory' = [memory EXCEPT ![id] = running.payload]
        /\ revisions' = [revisions EXCEPT ![id] = @ + 1]
        /\ unsettled' = unsettled \ {id} /\ running' = NoMutation
    BY <1>2, <1>5 DEF UpdateWritten, StoreWrites, Ends, Bumped, Settled
  <2>2. InStep(id)'
    BY <1>3, <2>1 DEF InStep, PayloadMap
  <2>3. AllInStep'
    BY <1>0, <1>1, <1>2, <1>3, <2>1, <2>2, OthersStayInStep DEF PayloadMap
  <2> QED
    BY <2>1, <2>3, EndedIsOK DEF StagesOK
<1>6. CASE UpdateWriteFails
  <2>1. /\ UNCHANGED <<memory, revisions, disk, unsettled>> /\ running' = NoMutation
        /\ stage # "restoring"
    BY <1>6 DEF UpdateWriteFails, Ends, Waits, queueVars, historyVars
  <2>2. id \notin unsettled => InStep(id)
    BY DEF FilesInv, StagesOK, AllInStep
  <2>3. id \notin unsettled' => InStep(id)'
    BY <1>0, <1>1, <2>1, <2>2 DEF InStep, BeingUndone, Waits, Cleaning
  <2>4. AllInStep'
    BY <1>0, <1>1, <1>2, <2>1, <2>3, OthersStayInStep
  <2> QED
    BY <2>1, <2>4, EndedIsOK DEF StagesOK
<1>7. CASE UpdateWinnerRestored
  <2>1. /\ UNCHANGED <<memory, revisions, unsettled>> /\ running' = NoMutation
        /\ Waits("update", "restoring")
        /\ disk' = [disk EXCEPT ![id] = leaving] \/ disk' = disk
    BY <1>2, <1>7 DEF UpdateWinnerRestored, StoreWrites, Ends, queueVars
  <2>2. Promised(id)
    BY <1>2, <2>1 DEF FilesInv, StagesOK, UpdateOK
  <2>3. InStep(id)'
    BY <1>0, <2>2 DEF InStep
  <2>4. \A m \in Messages : m # id => disk'[m] = disk[m]
    BY <1>3, <2>1 DEF PayloadMap
  <2>5. AllInStep'
    BY <1>0, <1>1, <1>2, <2>1, <2>3, <2>4, OthersStayInStep
  <2> QED
    BY <2>1, <2>5, EndedIsOK DEF StagesOK
<1> QED
  BY <1>4, <1>5, <1>6, <1>7 DEF Updating

\* A removal: the file is gone with the message, or the live payload is put back.
LEMMA RemovingKeepsStages ==
  ASSUME FilesInv, ~PlainRemovals, [Next]_vars, Removing, crashes' = crashes
  PROVE  StagesOK'
<1>0. /\ Proceeding /\ TypeOK /\ TypeOK' /\ LineInv /\ pending' = pending
      /\ \A m \in Messages : Promised(m) => Promised(m)'
      /\ NoMutation.op = "none"
  BY ProceedingQuiet DEF Proceeding
<1>1. running.op = "remove" /\ loaded' = loaded
  BY DEF Removing, FileRemoved, FileRemovalFails, RemovalUndone, Waits
<1>2. PICK id \in Messages : id = running.id
  BY <1>0, <1>1, MutationIsUsed DEF TypeOK
<1>3. /\ memory \in PayloadMap /\ disk \in PayloadMap /\ revisions \in PayloadMap
      /\ \A m \in Messages : memory[m] \in Nat /\ disk[m] \in Nat /\ revisions[m] \in Nat
  BY <1>0 DEF TypeOK, PayloadMap
<1>4. CASE FileRemoved /\ RemovalCanceled(running) /\ memory[id] # None
  <2>1. /\ disk' = [disk EXCEPT ![id] = None] /\ leaving' = memory[id]
        /\ UNCHANGED <<memory, revisions, unsettled>>
        /\ stage' = "restoring" /\ running' = running
    BY <1>2, <1>4 DEF FileRemoved, StoreRemoves, queueVars
  <2>2. EnqueueOK' /\ UpdateOK' /\ RemoveOK' /\ ClearOK'
    BY <1>1, <1>2, <2>1 DEF EnqueueOK, UpdateOK, RemoveOK, ClearOK, Waits, Cleaning
  <2>3. InStep(id)'
    BY <1>1, <1>2, <2>1 DEF InStep, BeingUndone, Waits
  <2>4. AllInStep'
    BY <1>0, <1>1, <1>2, <1>3, <2>1, <2>3, OthersStayInStep DEF PayloadMap
  <2> QED
    BY <2>2, <2>4 DEF StagesOK
<1>5. CASE FileRemoved /\ ~(RemovalCanceled(running) /\ memory[id] # None)
  <2>1. /\ disk' = [disk EXCEPT ![id] = None] /\ running' = NoMutation
        /\ \/ UNCHANGED <<memory, revisions, unsettled>> /\ memory[id] = None
           \/ /\ memory' = [memory EXCEPT ![id] = None]
              /\ revisions' = [revisions EXCEPT ![id] = @ + 1]
              /\ unsettled' = unsettled \ {id}
    BY <1>2, <1>5
       DEF FileRemoved, StoreRemoves, Ends, Tombstoned, Bumped, Settled, queueVars
  <2>2. InStep(id)'
    BY <1>3, <2>1 DEF InStep, PayloadMap
  <2>3. /\ unsettled \subseteq unsettled' \cup {id}
        /\ \A m \in Messages : m # id =>
             memory'[m] = memory[m] /\ disk'[m] = disk[m] /\ revisions'[m] = revisions[m]
    BY <1>3, <2>1 DEF PayloadMap
  <2>4. AllInStep'
    BY <1>0, <1>1, <1>2, <2>2, <2>3, OthersStayInStep
  <2> QED
    BY <2>1, <2>4, EndedIsOK DEF StagesOK
<1>6. CASE FileRemovalFails
  <2>1. /\ UNCHANGED <<memory, revisions, disk, unsettled>> /\ running' = NoMutation
        /\ stage = "removing"
    BY <1>6 DEF FileRemovalFails, Ends, Waits, queueVars, historyVars
  <2>2. id \notin unsettled => InStep(id)
    BY DEF FilesInv, StagesOK, AllInStep
  <2>3. id \notin unsettled' => InStep(id)'
    BY <1>0, <1>1, <2>1, <2>2 DEF InStep, BeingUndone, Waits, Cleaning
  <2>4. AllInStep'
    BY <1>0, <1>1, <1>2, <2>1, <2>3, OthersStayInStep
  <2> QED
    BY <2>1, <2>4, EndedIsOK DEF StagesOK
<1>7. CASE RemovalUndone
  <2>1. /\ UNCHANGED <<memory, revisions>> /\ running' = NoMutation
        /\ Waits("remove", "restoring")
        /\ \/ disk' = [disk EXCEPT ![id] = leaving] /\ unsettled' = unsettled
           \/ unsettled' = unsettled \cup {id} /\ disk' = disk
    BY <1>2, <1>7 DEF RemovalUndone, StoreWrites, Ends, queueVars
  <2>2. memory[id] = leaving \/ Promised(id)
    BY <1>2, <2>1 DEF FilesInv, StagesOK, RemoveOK
  <2>3. id \notin unsettled' => InStep(id)'
    BY <1>0, <1>3, <2>1, <2>2 DEF InStep, PayloadMap
  <2>4. unsettled \subseteq unsettled' \cup {id}
    BY <2>1
  <2>5. \A m \in Messages : m # id => disk'[m] = disk[m]
    BY <1>3, <2>1 DEF PayloadMap
  <2>6. AllInStep'
    BY <1>0, <1>1, <1>2, <2>1, <2>3, <2>4, <2>5, OthersStayInStep
  <2> QED
    BY <2>1, <2>6, EndedIsOK DEF StagesOK
<1> QED
  BY <1>4, <1>5, <1>6, <1>7 DEF Removing

\* A load takes what is in the files where nothing was written or removed before.
LEMMA LoadedKeepsStages ==
  ASSUME FilesInv, ~PlainRemovals, [Next]_vars, Loaded, crashes' = crashes
  PROVE  StagesOK'
<1>0. /\ Proceeding /\ LineInv /\ pending' = pending
      /\ \A m \in Messages : Promised(m) => Promised(m)'
  BY ProceedingQuiet DEF Proceeding
<1>1. PICK readable \in SUBSET Messages :
        /\ loaded' = IF readable = Messages THEN "done" ELSE "none"
        /\ memory' = [m \in Messages |-> IF m \in readable /\ Recovered(m)
                                         THEN disk[m] ELSE memory[m]]
  BY DEF Loaded
<1>2. /\ Waits("load", "loading") /\ running' = NoMutation
      /\ UNCHANGED <<revisions, disk, unsettled>>
  BY DEF Loaded, Ends, historyVars
<1>3. ASSUME NEW m \in Messages, m \notin unsettled
      PROVE  InStep(m)'
  <2>1. InStep(m) /\ ~BeingUndone(m) /\ running.op # "enqueue"
    BY <1>2, <1>3 DEF FilesInv, StagesOK, AllInStep, BeingUndone, Waits, Cleaning
  <2>2. CASE m \in readable /\ Recovered(m)
    BY <1>1, <1>2, <2>2 DEF InStep
  <2>3. CASE ~(m \in readable /\ Recovered(m))
    <3>1. memory'[m] = memory[m]
      BY <1>1, <2>3
    <3>2. memory[m] = None /\ revisions[m] = 0 => loaded' # "done"
      BY <1>1, <2>3 DEF Recovered
    <3> QED
      BY <1>0, <1>2, <2>1, <3>1, <3>2 DEF InStep
  <2> QED
    BY <2>2, <2>3
<1>4. AllInStep'
  BY <1>2, <1>3 DEF AllInStep
<1> QED
  BY <1>2, <1>4, EndedIsOK DEF StagesOK

\* A clear: what it has removed and nothing wrote since is gone from both places.
LEMMA ClearingKeepsStages ==
  ASSUME FilesInv, ~PlainRemovals, [Next]_vars, Clearing, crashes' = crashes
  PROVE  StagesOK'
<1>0. /\ Proceeding /\ TypeOK /\ TypeOK' /\ LineInv /\ pending' = pending
      /\ \A m \in Messages : Promised(m) => Promised(m)'
      /\ NoMutation.op = "none"
  BY ProceedingQuiet DEF Proceeding
<1>1. running.op = "clear" /\ loaded' = loaded
  BY DEF Clearing, ClearLoads, ClearLoadFails, ClearRemoved, ClearFinishes, ClearRemoves,
     ClearRestores, Waits
<1>2. /\ clear \in Clears /\ clear' \in Clears
      /\ clear.left \subseteq Messages /\ clear.gone \subseteq Messages
      /\ disk \in PayloadMap /\ memory \in PayloadMap
  BY <1>0, ClearIsUsed DEF TypeOK
<1>3. Cleaning =>
        /\ \A m \in clear.left \cup clear.gone :
             revisions[m] = clear.revisions[m] \/ Promised(m)
        /\ \A m \in clear.gone : revisions[m] = clear.revisions[m] => disk[m] = None
        /\ \A m \in Messages \ clear.gone : memory[m] = None => clear.all[m] = disk[m]
        /\ stage = "restoring" =>
             \A m \in clear.left : m \in clear.gone /\ revisions[m] # clear.revisions[m]
  BY DEF FilesInv, StagesOK, ClearOK
<1>4. \A m \in Messages \ unsettled :
        \/ memory[m] = disk[m]
        \/ Promised(m)
        \/ Cleaning /\ m \in clear.gone
        \/ memory[m] = None /\ revisions[m] = 0 /\ loaded # "done"
  BY <1>1 DEF FilesInv, StagesOK, AllInStep, InStep, BeingUndone, Waits
<1>5. ASSUME running' = running
      PROVE  EnqueueOK' /\ UpdateOK' /\ RemoveOK'
  BY <1>1, <1>5 DEF EnqueueOK, UpdateOK, RemoveOK, Waits
<1>6. ASSUME UNCHANGED <<memory, disk, revisions, unsettled>>, running' = running,
             Cleaning => Cleaning' /\ clear.gone \subseteq clear'.gone
      PROVE  AllInStep'
  BY <1>0, <1>1, <1>4, <1>6 DEF AllInStep, InStep, BeingUndone
<1>7. CASE ClearLoads
  <2>1. /\ Waits("clear", "loading") /\ stage' = "removing" /\ running' = running
        /\ UNCHANGED <<memory, disk, revisions, unsettled>>
    BY <1>7 DEF ClearLoads, queueVars, historyVars
  <2>2. ~Cleaning /\ clear.gone = {}
    <3>1. 0 \in 0 .. Len(pending) /\ Job(0) = running
      BY <1>0, JobIsTyped
    <3> QED
      BY <1>0, <2>1, <3>1 DEF LineInv, Line, Taken, Waits, Cleaning
  <2>3. /\ clear'.gone = {} /\ clear'.revisions = revisions
        /\ clear'.all = [m \in Messages |-> IF memory[m] # None THEN memory[m] ELSE disk[m]]
        /\ clear'.left \subseteq Messages
    BY <1>2, <1>7, <2>2 DEF ClearLoads, Clears
  <2>4. ClearOK'
    BY <2>1, <2>3 DEF ClearOK, Cleaning
  <2> QED
    BY <1>5, <1>6, <2>1, <2>2, <2>4 DEF StagesOK
<1>8. CASE ClearLoadFails
  <2>1. /\ Waits("clear", "loading") /\ running' = NoMutation
        /\ UNCHANGED <<memory, disk, revisions, unsettled>>
    BY <1>8 DEF ClearLoadFails, Ends, queueVars, historyVars
  <2>2. ~Cleaning
    BY <2>1 DEF Cleaning, Waits
  <2>3. AllInStep'
    BY <1>0, <1>1, <1>4, <2>1, <2>2 DEF AllInStep, InStep
  <2> QED
    BY <2>1, <2>3, EndedIsOK DEF StagesOK
<1>9. ASSUME NEW id \in Messages, ClearRemoves(id)
      PROVE  StagesOK'
  <2>1. /\ Cleaning /\ stage = "removing" /\ UNCHANGED <<running, stage>>
        /\ UNCHANGED <<memory, revisions, unsettled>> /\ id \in clear.left
    BY <1>9 DEF ClearRemoves, Waits, Cleaning, queueVars
  <2>2. /\ clear'.revisions = clear.revisions /\ clear'.all = clear.all
        /\ clear'.left = clear.left \ {id}
        /\ \/ disk' = [disk EXCEPT ![id] = None] /\ clear'.gone = clear.gone \cup {id}
           \/ disk' = disk /\ clear'.gone = clear.gone
    BY <1>2, <1>9 DEF ClearRemoves, StoreRemoves, Clears
  <2>3. /\ \A m \in Messages : m # id => disk'[m] = disk[m]
        /\ id \in clear'.gone => disk'[id] = None \/ (disk' = disk /\ id \in clear.gone)
    <3>1. CASE disk' = [disk EXCEPT ![id] = None]
      <4>1. disk \in PayloadMap
        BY <1>2
      <4>2. disk'[id] = None /\ \A m \in Messages : m # id => disk'[m] = disk[m]
        BY <3>1, <4>1 DEF PayloadMap
      <4> QED
        BY <4>2
    <3>2. CASE disk' = disk /\ clear'.gone = clear.gone
      BY <3>2
    <3> QED
      BY <2>2, <3>1, <3>2
  <2>4. Cleaning' /\ stage' = "removing"
    BY <2>1 DEF Cleaning
  <2>5. \A m \in clear'.left \cup clear'.gone :
          revisions'[m] = clear'.revisions[m] \/ Promised(m)'
    BY <1>0, <1>2, <1>3, <2>1, <2>2
  <2>6. \A m \in clear'.gone : revisions'[m] = clear'.revisions[m] => disk'[m] = None
    BY <1>2, <1>3, <2>1, <2>2, <2>3
  <2>7. \A m \in Messages \ clear'.gone : memory'[m] = None => clear'.all[m] = disk'[m]
    BY <1>3, <2>1, <2>2, <2>3
  <2>8. ClearOK'
    BY <2>4, <2>5, <2>6, <2>7 DEF ClearOK
  <2>9. ASSUME NEW m \in Messages, m \notin unsettled
        PROVE  InStep(m)'
    <3>1. CASE m \in clear'.gone
      BY <2>4, <3>1 DEF InStep, BeingUndone
    <3>2. CASE m \notin clear'.gone
      <4>1. m \notin clear.gone /\ disk'[m] = disk[m]
        BY <2>2, <2>3, <3>2
      <4> QED
        BY <1>0, <1>1, <1>4, <2>1, <2>9, <4>1 DEF InStep
    <3> QED
      BY <3>1, <3>2
  <2>10. AllInStep'
    BY <2>1, <2>9 DEF AllInStep
  <2> QED
    BY <1>5, <2>1, <2>8, <2>10 DEF StagesOK
<1>10. CASE ClearRemoved
  <2>1. /\ Cleaning /\ stage' = "restoring" /\ running' = running
        /\ UNCHANGED <<memory, disk, revisions, unsettled>>
    BY <1>10 DEF ClearRemoved, Waits, Cleaning, queueVars, historyVars
  <2>2. /\ clear'.revisions = clear.revisions /\ clear'.all = clear.all
        /\ clear'.gone = clear.gone
        /\ \A m \in clear'.left : m \in clear.gone /\ revisions[m] # clear.revisions[m]
    BY <1>2, <1>10 DEF ClearRemoved, Retained, Clears
  <2>3. Cleaning'
    BY <1>1, <2>1 DEF Cleaning
  <2>4. \A m \in clear'.left \cup clear'.gone :
          revisions'[m] = clear'.revisions[m] \/ Promised(m)'
    BY <1>0, <1>2, <1>3, <2>1, <2>2
  <2>5. ClearOK'
    BY <1>3, <2>1, <2>2, <2>3, <2>4 DEF ClearOK
  <2> QED
    BY <1>5, <1>6, <2>1, <2>2, <2>3, <2>5 DEF StagesOK
<1>11. ASSUME NEW id \in Messages, ClearRestores(id)
       PROVE  StagesOK'
  <2>1. /\ Cleaning /\ stage = "restoring" /\ UNCHANGED <<running, stage>>
        /\ UNCHANGED <<memory, revisions, unsettled>> /\ id \in clear.left
    BY <1>11 DEF ClearRestores, Waits, Cleaning, queueVars
  <2>2. /\ clear'.revisions = clear.revisions /\ clear'.all = clear.all
        /\ clear'.left = clear.left \ {id} /\ clear'.gone = clear.gone
        /\ disk' = [disk EXCEPT ![id] = clear.keep[id]] \/ disk' = disk
    BY <1>2, <1>11 DEF ClearRestores, StoreWrites, Clears
  <2>3. /\ id \in clear.gone /\ revisions[id] # clear.revisions[id]
        /\ \A m \in Messages : m # id => disk'[m] = disk[m]
    BY <1>2, <1>3, <2>1, <2>2 DEF PayloadMap
  <2>4. Cleaning'
    BY <2>1 DEF Cleaning
  <2>5. \A m \in clear'.left \cup clear'.gone :
          revisions'[m] = clear'.revisions[m] \/ Promised(m)'
    BY <1>0, <1>2, <1>3, <2>1, <2>2
  <2>6. /\ \A m \in clear'.gone : revisions'[m] = clear'.revisions[m] => disk'[m] = None
        /\ \A m \in Messages \ clear'.gone : memory'[m] = None => clear'.all[m] = disk'[m]
        /\ \A m \in clear'.left : m \in clear'.gone /\ revisions'[m] # clear'.revisions[m]
    BY <1>2, <1>3, <2>1, <2>2, <2>3
  <2>7. ClearOK'
    BY <2>4, <2>5, <2>6 DEF ClearOK
  <2>8. ASSUME NEW m \in Messages, m \notin unsettled
        PROVE  InStep(m)'
    <3>1. CASE m \in clear.gone
      BY <2>2, <2>4, <3>1 DEF InStep, BeingUndone
    <3>2. CASE m \notin clear.gone
      BY <1>0, <1>1, <1>4, <2>1, <2>3, <2>8, <3>2 DEF InStep
    <3> QED
      BY <3>1, <3>2
  <2>9. AllInStep'
    BY <2>1, <2>8 DEF AllInStep
  <2> QED
    BY <1>5, <2>1, <2>7, <2>9 DEF StagesOK
<1>12. CASE ClearFinishes
  <2> DEFINE removed == {m \in clear.gone : revisions[m] = clear.revisions[m]}
  <2>1. /\ Cleaning /\ running' = NoMutation /\ disk' = disk
        /\ unsettled' = unsettled \ removed
        /\ memory' = [m \in Messages |->
                        IF m \in removed THEN None
                        ELSE IF memory[m] # None THEN memory[m] ELSE clear.all[m]]
        /\ revisions' = [m \in Messages |->
                           IF m \in removed THEN revisions[m] + 1 ELSE revisions[m]]
    BY <1>12 DEF ClearFinishes, Ends, Waits, Cleaning
  <2>2. ASSUME NEW m \in Messages, m \notin unsettled'
        PROVE  InStep(m)'
    <3>1. CASE m \in removed
      <4>1. memory'[m] = None /\ disk[m] = None
        BY <1>3, <2>1, <3>1
      <4> QED
        BY <2>1, <4>1 DEF InStep
    <3>2. CASE m \in clear.gone /\ m \notin removed
      BY <1>0, <1>3, <2>1, <3>2 DEF InStep
    <3>3. CASE m \notin clear.gone /\ memory[m] # None
      <4>1. m \notin unsettled /\ memory'[m] = memory[m]
        BY <2>1, <2>2, <3>3
      <4> QED
        BY <1>0, <1>4, <2>1, <3>3, <4>1 DEF InStep
    <3>4. CASE m \notin clear.gone /\ memory[m] = None
      <4>1. memory'[m] = clear.all[m] /\ clear.all[m] = disk[m]
        BY <1>3, <2>1, <3>4
      <4> QED
        BY <2>1, <4>1 DEF InStep
    <3> QED
      BY <3>1, <3>2, <3>3, <3>4
  <2>3. AllInStep'
    BY <2>2 DEF AllInStep
  <2> QED
    BY <2>1, <2>3, EndedIsOK DEF StagesOK
<1> QED
  BY <1>7, <1>8, <1>9, <1>10, <1>11, <1>12 DEF Clearing

\* After a crash nothing has been read from the files again.
LEMMA CrashKeepsStages == Crash => StagesOK'
<1> SUFFICES ASSUME Crash PROVE StagesOK'
  OBVIOUS
<1>1. running' = NoMutation /\ loaded' = "none"
  BY DEF Crash
<1>2. \A m \in Messages : memory'[m] = None /\ revisions'[m] = 0
  BY DEF Crash, Nothing, NoRevisions
<1>3. AllInStep'
  BY <1>1, <1>2 DEF AllInStep, InStep
<1> QED
  BY <1>1, <1>3, EndedIsOK DEF StagesOK

LEMMA FilesStart == Init => FilesInv
<1> SUFFICES ASSUME Init PROVE FilesInv
  OBVIOUS
<1>1. running = NoMutation /\ NoMutation.op = "none" /\ memory = disk
  BY NoMutationIsTyped DEF Init
<1>2. StagesOK
  BY <1>1 DEF StagesOK, EnqueueOK, UpdateOK, RemoveOK, ClearOK, AllInStep, InStep, Waits,
     Cleaning
<1> QED
  BY <1>2, LineStarts DEF FilesInv

LEMMA FilesStutter == ASSUME StagesOK, UNCHANGED vars PROVE StagesOK'
<1>1. /\ UNCHANGED <<memory, revisions, loaded, pending, running, stage, leaving, clear,
                     disk, unsettled>>
  BY DEF vars, queueVars, mutationVars, historyVars
<1>2. \A m : Promised(m)' <=> Promised(m)
  BY <1>1 DEF Promised, Carries
<1>3. Promised(running.id)' <=> Promised(running.id)
  BY <1>1 DEF Promised, Carries
<1>4. EnqueueOK' /\ UpdateOK' /\ RemoveOK'
  BY <1>1, <1>3 DEF StagesOK, EnqueueOK, UpdateOK, RemoveOK, Waits
<1>5. ClearOK'
  BY <1>1, <1>2 DEF StagesOK, ClearOK, Cleaning
<1>6. AllInStep'
  BY <1>1, <1>2 DEF StagesOK, AllInStep, InStep, BeingUndone, Waits, Cleaning
<1> QED
  BY <1>4, <1>5, <1>6 DEF StagesOK

LEMMA FilesKept ==
  ASSUME FilesInv, ~PlainRemovals, [Next]_vars
  PROVE  FilesInv'
<1>1. CASE Callers
  BY <1>1, CallersKeepStages, LineInvKept DEF FilesInv
<1>2. CASE Starting /\ UNCHANGED <<editing, payloads, calls, crashes>>
  BY <1>2, StartingKeepsStages, LineInvKept DEF FilesInv
<1>3. CASE Proceeding /\ UNCHANGED <<editing, payloads, calls, crashes>>
  BY <1>3, EnqueuingKeepsStages, UpdatingKeepsStages, RemovingKeepsStages, LoadedKeepsStages,
     ClearingKeepsStages, LineInvKept DEF FilesInv, Proceeding
<1>4. CASE Crash
  BY <1>4, CrashKeepsStages, LineInvKept DEF FilesInv
<1>5. CASE UNCHANGED vars
  BY <1>5, FilesStutter, LineInvKept DEF FilesInv
<1> QED
  BY <1>1, <1>2, <1>3, <1>4, <1>5, StepKinds

LEMMA FilesAlways == ASSUME ~PlainRemovals PROVE Spec => []FilesInv
<1>1. FilesInv /\ [Next]_vars => FilesInv'
  BY FilesKept
<1> QED
  BY <1>1, FilesStart, PTL DEF Spec

\* Where every removal names its revision, a queue at rest is what is on disk: what
\* enqueue, update, remove, load and clearEnvironment of
\* apps/mobile/src/state/thread-outbox-manager.ts leave, in every interleaving with
\* their callers, store failures and process deaths.
THEOREM AlignedCorrect == ASSUME ~PlainRemovals PROVE Spec => []Aligned
<1>1. FilesInv => Aligned
  <2> SUFFICES ASSUME FilesInv, Quiet, NEW m \in Messages, m \notin unsettled
               PROVE  memory[m] = disk[m]
    BY DEF Aligned
  <2>1. InStep(m)
    BY DEF FilesInv, StagesOK, AllInStep
  <2>2. running.op = "none" /\ pending = <<>> /\ loaded = "done"
    BY NoMutationIsTyped DEF Quiet
  <2>3. ~Promised(m)
    BY <2>2 DEF Promised
  <2> QED
    BY <2>1, <2>2, <2>3 DEF InStep, BeingUndone, Waits, Cleaning
<1> QED
  BY <1>1, FilesAlways, PTL

-----------------------------------------------------------------------------
(* What was reported as saved, and SavedSurvives.                          *)

\* What is still to be written is newer than anything reported as saved.
Fresh ==
  \A m \in Messages :
    /\ saved[m] <= payloads
    /\ stage = "writing" => saved[m] < running.payload
    /\ \A i \in 1 .. Len(pending) :
         pending[i].op \in WrittenOnes => saved[m] < pending[i].payload

\* A message somebody is about to change is on screen, if it was ever saved.
Known(m) == memory[m] # None \/ saved[m] = None
AllKnown ==
  /\ \A i \in 0 .. Len(pending) : Job(i).id \in Messages => Known(Job(i).id)
  /\ \A w \in Writers : holds[w].status # "idle" => Known(holds[w].id)

\* Neither the file nor the queue on screen is older than what was saved.
SavedOnDisk(m) ==
  /\ BeingUndone(m) \/ saved[m] <= disk[m]
  /\ memory[m] = None \/ saved[m] <= memory[m]
SavedOK ==
  /\ \A m \in Messages \ unsettled : SavedOnDisk(m)
  /\ Waits("enqueue", "removing") => saved[running.id] = None
  /\ Waits("update", "restoring") => saved[running.id] < leaving
  /\ Waits("remove", "restoring") => saved[running.id] <= leaving \/ running.id \in unsettled

SavedInv == FilesInv /\ Fresh /\ AllKnown /\ SavedOK

LEMMA SavedSteps ==
  ASSUME TypeOK, [Next]_vars, NEW m \in Messages
  PROVE  \/ saved'[m] = saved[m]
         \/ saved'[m] = None
         \/ /\ EnqueueWritten \/ UpdateWritten
            /\ m = running.id /\ saved'[m] = running.payload
            /\ stage = "writing" /\ running.op \in WrittenOnes
            /\ pending' = pending /\ running' = NoMutation
<1>0. saved \in PayloadMap
  BY DEF TypeOK
<1>1. CASE UNCHANGED saved
  BY <1>1
<1>2. CASE Callers
  BY <1>1, <1>2, CallersFrame DEF historyVars
<1>3. CASE Starting
  BY <1>1, <1>3, StartingFrame DEF historyVars
<1>4. CASE EnqueueWritten
  BY <1>0, <1>4 DEF EnqueueWritten, Waits, Ends, PayloadMap, WrittenOnes
<1>5. CASE EnqueueWriteFails
  BY <1>0, <1>5 DEF EnqueueWriteFails, PayloadMap
<1>6. CASE UpdateWritten
  <2>1. CASE LostRace(running)
    BY <1>1, <1>6, <2>1 DEF UpdateWritten
  <2>2. CASE ~LostRace(running)
    BY <1>0, <1>6, <2>2 DEF UpdateWritten, Waits, Ends, PayloadMap, WrittenOnes
  <2> QED
    BY <2>1, <2>2
<1>7. CASE FileRemoved
  BY <1>0, <1>7 DEF FileRemoved, PayloadMap
<1>8. CASE ClearFinishes
  BY <1>8 DEF ClearFinishes
<1>9. CASE /\ Proceeding
           /\ ~(EnqueueWritten \/ EnqueueWriteFails \/ UpdateWritten \/ FileRemoved
                  \/ ClearFinishes)
  BY <1>1, <1>9 DEF Proceeding, Enqueuing, Updating, Removing, Clearing, EnqueueFileDropped,
     UpdateWriteFails, UpdateWinnerRestored, FileRemovalFails, RemovalUndone, Loaded, ClearLoads,
     ClearLoadFails, ClearRemoved, ClearRemoves, ClearRestores, historyVars
<1>10. CASE Crash
  BY <1>1, <1>10 DEF Crash
<1>11. CASE UNCHANGED vars
  BY <1>1, <1>11 DEF vars, historyVars
<1> QED
  BY <1>2, <1>3, <1>4, <1>5, <1>6, <1>7, <1>8, <1>9, <1>10, <1>11, StepKinds

\* A mutation waits for a write since it was started.
LEMMA WritingSteps ==
  ASSUME TypeOK, [Next]_vars, stage' = "writing"
  PROVE  \/ stage = "writing" /\ running' = running
         \/ Starting /\ running' = Head(pending) /\ running'.op \in WrittenOnes
<1>1. CASE Callers
  BY <1>1 DEF Callers
<1>2. CASE Starting
  BY <1>2, BeginsAs DEF WrittenOnes
<1>3. CASE Proceeding
  BY <1>3 DEF Proceeding, Enqueuing, Updating, Removing, Loaded, Clearing, EnqueueWritten,
     EnqueueWriteFails, EnqueueFileDropped, UpdateWritten, UpdateWriteFails,
     UpdateWinnerRestored, FileRemoved, FileRemovalFails, RemovalUndone, ClearLoads,
     ClearLoadFails, ClearRemoved, ClearFinishes, ClearRemoves, ClearRestores, Ends, Waits
<1>4. CASE Crash
  BY <1>4 DEF Crash
<1>5. CASE UNCHANGED vars
  BY <1>5 DEF vars, mutationVars
<1> QED
  BY <1>1, <1>2, <1>3, <1>4, <1>5, StepKinds

LEMMA FreshKept ==
  ASSUME LineInv, Fresh, [Next]_vars
  PROVE  Fresh'
<1>0. /\ TypeOK /\ TypeOK' /\ Durable /\ None = 0
      /\ payloads \in Nat /\ payloads' \in Nat /\ payloads <= payloads'
      /\ pending \in Seq(Mutations) /\ Len(pending) \in Nat
      /\ \A m \in Messages : saved[m] \in Nat /\ saved'[m] \in Nat /\ saved[m] <= payloads
      /\ running \in Mutations /\ running.payload <= payloads /\ running.payload \in Nat
  <2>1. TypeOK /\ TypeOK' /\ Durable
    BY StepTyped DEF LineInv, Line, Durable
  <2> QED
    <3>1. payloads \in Nat /\ payloads' \in Nat /\ payloads <= payloads'
      BY <2>1, QueueSteps
    <3>2. running \in Mutations /\ running.payload \in Nat /\ running.payload <= payloads
      BY <2>1, MutationIsUsed DEF TypeOK, Durable, MadeBefore
    <3>3. \A m \in Messages : saved[m] \in Nat /\ saved'[m] \in Nat /\ saved[m] <= payloads
      BY <2>1 DEF TypeOK, PayloadMap, Fresh
    <3>4. pending \in Seq(Mutations) /\ Len(pending) \in Nat /\ None = 0
      BY <2>1 DEF TypeOK, None
    <3> QED
      BY <2>1, <3>1, <3>2, <3>3, <3>4
<1>1. SUFFICES ASSUME NEW m \in Messages
               PROVE  /\ saved'[m] <= payloads'
                      /\ stage' = "writing" => saved'[m] < running'.payload
                      /\ \A i \in 1 .. Len(pending') :
                           pending'[i].op \in WrittenOnes => saved'[m] < pending'[i].payload
  BY DEF Fresh
<1>2. saved'[m] <= payloads /\ saved'[m] <= payloads'
  BY <1>0, SavedSteps
<1>3. \A k \in 1 .. Len(pending) : pending[k].payload \in Nat /\ pending[k] \in Mutations
  BY <1>0, MutationIsUsed
<1>4. ASSUME NEW k \in 1 .. Len(pending), pending[k].op \in WrittenOnes
      PROVE  saved'[m] < pending[k].payload
  <2>1. saved[m] < pending[k].payload
    BY <1>4 DEF Fresh
  <2>2. running.op \in WrittenOnes => running.payload < pending[k].payload
    <3>1. Job(0) = running /\ Job(k) = pending[k] /\ 0 < k /\ k \in 0 .. Len(pending)
          /\ 0 \in 0 .. Len(pending)
      BY <1>0, JobIsTyped
    <3> QED
      BY <1>4, <3>1 DEF LineInv, Line, Ordered, Behind
  <2> QED
    BY <1>0, <1>3, <2>1, <2>2, SavedSteps
<1>5. ASSUME stage' = "writing"
      PROVE  saved'[m] < running'.payload
  <2>1. CASE stage = "writing" /\ running' = running
    <3>1. saved[m] < running.payload
      BY <2>1 DEF Fresh
    <3>2. running # NoMutation
      BY <1>0, <2>1 DEF TypeOK
    <3> QED
      BY <1>0, <2>1, <3>1, <3>2, SavedSteps
  <2>2. CASE Starting /\ running' = Head(pending) /\ running'.op \in WrittenOnes
    <3>1. Head(pending) = pending[1] /\ 1 \in 1 .. Len(pending)
      BY <1>0, <2>2, StartingFrame, HeadAndTail
    <3> QED
      BY <1>4, <2>2, <3>1
  <2> QED
    BY <1>0, <1>5, <2>1, <2>2, WritingSteps
<1>6. ASSUME NEW i \in 1 .. Len(pending'), pending'[i].op \in WrittenOnes
      PROVE  saved'[m] < pending'[i].payload
  <2>1. CASE Crash
    BY <1>6, <2>1 DEF Crash
  <2>2. CASE \E k \in 1 .. Len(pending) : pending'[i] = pending[k]
    BY <1>4, <1>6, <2>2
  <2>3. CASE Asked(pending'[i])
    <3>1. pending'[i].payload = payloads' /\ payloads' = payloads + 1
      BY <1>6, <2>3 DEF Asked, WrittenOnes, Enqueue, Update
    <3> QED
      BY <1>0, <1>2, <3>1
  <2> QED
    BY <1>0, <2>1, <2>2, <2>3, PendingSteps
<1> QED
  BY <1>2, <1>5, <1>6

\* The message a writer has to do with is the one it had to do with before, one it has
\* just read, or the one its mutation is about.
LEMMA HoldIds ==
  ASSUME TypeOK, [Next]_vars, NEW w \in Writers, holds'[w].status # "idle"
  PROVE  \/ holds[w].status # "idle" /\ holds'[w].id = holds[w].id
         \/ holds'[w].id \in Messages /\ memory[holds'[w].id] # None /\ UNCHANGED queueVars
         \/ \E i \in 0 .. Len(pending) : Job(i).id \in Messages /\ holds'[w].id = Job(i).id
<1>0. /\ holds \in [Writers -> Holds] /\ holds[w] \in Holds /\ NoHold.status = "idle"
      /\ pending \in Seq(Mutations) /\ Len(pending) \in Nat
      /\ Job(0) = running /\ 0 \in 0 .. Len(pending)
  BY NoHoldIsTyped, JobIsTyped DEF TypeOK
<1>1. CASE holds'[w] = holds[w]
  BY <1>1
<1>2. CASE Callers
  <2>1. ASSUME NEW v \in Writers, NEW m \in Messages, ConfirmQueued(v, m) \/ OpenEditor(v, m)
        PROVE  \/ holds'[w] = holds[w]
               \/ holds'[w].id = m /\ memory[m] # None /\ UNCHANGED queueVars
    <3>1. PICK h : h.id = m /\ holds' = [holds EXCEPT ![v] = h]
      <4>1. Hold("confirming", m, memory[m], 0, TRUE).id = m
        BY DEF Hold
      <4>2. Hold("ready", m, memory[m], revisions[m], FALSE).id = m
        BY DEF Hold
      <4>3. \/ holds' = [holds EXCEPT ![v] = Hold("confirming", m, memory[m], 0, TRUE)]
            \/ holds' = [holds EXCEPT ![v] = Hold("ready", m, memory[m], revisions[m], FALSE)]
        BY <2>1 DEF ConfirmQueued, AwaitsConfirmation, OpenEditor
      <4> QED
        BY <4>1, <4>2, <4>3
    <3>2. memory[m] # None /\ UNCHANGED queueVars
      BY <2>1 DEF ConfirmQueued, OpenEditor
    <3> QED
      BY <1>0, <3>1, <3>2
  <2>2. ASSUME NEW v \in Writers, Capture(v)
        PROVE  \/ holds'[w] = holds[w]
               \/ holds[w].status # "idle" /\ holds'[w].id = holds[w].id
    <3> DEFINE m == holds[v].id
               h == Hold("ready", m, memory[m], revisions[m], TRUE)
    <3>1. /\ holds[v].status = "confirmed"
          /\ holds' = [holds EXCEPT ![v] = IF memory[m] = holds[v].payload THEN h ELSE NoHold]
      BY <2>2 DEF Capture
    <3>2. h.id = holds[v].id
      BY DEF Hold
    <3> HIDE DEF h
    <3> QED
      BY <1>0, <3>1, <3>2
  <2>3. ASSUME NEW v \in Writers, Update(v) \/ Remove(v) \/ GiveUp(v)
        PROVE  \/ holds'[w] = holds[w]
               \/ holds[w].status # "idle" /\ holds'[w].id = holds[w].id
    <3>1. holds[v].status = "ready"
      BY <2>3 DEF Update, Remove, GiveUp
    <3>2. \/ holds' = [holds EXCEPT ![v].status = "updating"]
          \/ holds' = [holds EXCEPT ![v].status = "removing"]
          \/ holds' = [holds EXCEPT ![v] = NoHold]
      BY <2>3 DEF Update, Remove, GiveUp
    <3>3. /\ [holds[v] EXCEPT !.status = "updating"].id = holds[v].id
          /\ [holds[v] EXCEPT !.status = "removing"].id = holds[v].id
      BY <1>0, HoldMoves
    <3> QED
      BY <1>0, <3>1, <3>2, <3>3
  <2>4. ASSUME \/ \E m \in Messages : Enqueue(m) \/ RemovePlainly(m) \/ ToggleEditing(m)
               \/ ClearEnvironment \/ Load
        PROVE  holds' = holds
    BY <2>4 DEF Enqueue, RemovePlainly, ToggleEditing, ClearEnvironment, Load, callerVars
  <2> QED
    BY <1>1, <1>2, <2>1, <2>2, <2>3, <2>4 DEF Callers
<1>3. CASE Confirm
  <2>1. /\ pending # <<>> /\ Head(pending).op = "confirm"
        /\ Answers(Head(pending),
                   IF memory[Head(pending).id] = Head(pending).payload
                   THEN Hold("confirmed", Head(pending).id, Head(pending).payload, 0, TRUE)
                   ELSE NoHold)
    BY <1>3 DEF Confirm, Starts
  <2>2. /\ Head(pending) = Job(1) /\ 1 \in 0 .. Len(pending) /\ Head(pending).id \in Messages
    BY <1>0, <2>1, HeadAndTail, MutationIsUsed DEF Job
  <2>3. Hold("confirmed", Head(pending).id, Head(pending).payload, 0, TRUE).id
          = Head(pending).id
    BY DEF Hold
  <2>4. \/ holds'[w] = holds[w]
        \/ holds'[w] = NoHold
        \/ holds'[w] = Hold("confirmed", Head(pending).id, Head(pending).payload, 0, TRUE)
    BY <1>0, <2>1 DEF Answers
  <2> QED
    BY <1>0, <1>1, <2>2, <2>3, <2>4
<1>4. CASE UpdateWritten
  <2>1. running.id \in Messages
    BY <1>0, <1>4, MutationIsUsed DEF UpdateWritten, Waits, TypeOK
  <2>2. \/ holds' = holds
        \/ Answers(running, NoHold)
        \/ Answers(running, Hold("ready", running.id, running.payload, running.expected + 1,
                                 holds[running.by].confirmed))
    BY <1>4 DEF UpdateWritten
  <2>3. \A c : Hold("ready", running.id, running.payload, running.expected + 1, c).id
                 = running.id
    BY DEF Hold
  <2>4. holds'[w] = holds[w] \/ holds'[w] = NoHold \/ holds'[w].id = running.id
    BY <1>0, <2>2, <2>3 DEF Answers
  <2> QED
    BY <1>0, <1>1, <2>1, <2>4
<1>5. CASE \/ Starting /\ ~Confirm
           \/ Proceeding /\ ~UpdateWritten
  <2>1. \/ holds' = holds
        \/ \E c : Answers(c, NoHold)
    BY <1>5 DEF Starting, BeginEnqueue, BeginUpdate, BeginRemove, BeginLoading, Proceeding,
       Enqueuing, Updating, Removing, Clearing, EnqueueWritten, EnqueueWriteFails,
       EnqueueFileDropped, UpdateWriteFails, UpdateWinnerRestored, FileRemoved,
       FileRemovalFails, RemovalUndone, Loaded, ClearLoads, ClearLoadFails, ClearRemoved,
       ClearRemoves, ClearRestores, ClearFinishes
  <2>2. holds'[w] = holds[w] \/ holds'[w] = NoHold
    BY <1>0, <2>1 DEF Answers
  <2> QED
    BY <1>0, <1>1, <2>2
<1>6. CASE Crash
  BY <1>0, <1>6 DEF Crash
<1>7. CASE UNCHANGED vars
  BY <1>1, <1>7 DEF vars, callerVars
<1> QED
  BY <1>2, <1>3, <1>4, <1>5, <1>6, <1>7, StepKinds

\* A message leaves the screen with what was reported as saved of it.
LEMMA KnownKept ==
  ASSUME FilesInv, ~PlainRemovals, [Next]_vars, ~Crash, NEW m \in Messages, Known(m)
  PROVE  Known(m)'
<1>0. /\ TypeOK /\ LineInv /\ None = 0
      /\ memory \in PayloadMap /\ saved \in PayloadMap /\ payloads \in Nat
      /\ memory[m] \in Nat /\ saved[m] \in Nat
  BY DEF FilesInv, LineInv, Line, Durable, TypeOK, PayloadMap, None
<1>1. SUFFICES \/ memory'[m] # None
               \/ saved'[m] = None
               \/ memory'[m] = memory[m] /\ saved'[m] = saved[m]
  BY DEF Known
<1>2. running.op \in WrittenOnes => running.payload # None
  <2>1. Job(0) = running /\ 0 \in 0 .. Len(pending)
    BY <1>0, JobIsTyped
  <2> QED
    BY <1>0, <2>1 DEF LineInv, Line, JobsSound, Sound
<1>3. CASE UNCHANGED <<memory, saved>>
  BY <1>3
<1>4. CASE Callers
  <2>1. ASSUME NEW n \in Messages, Enqueue(n)
        PROVE  memory'[m] = memory[m] \/ memory'[m] # None
    BY <1>0, <2>1 DEF Enqueue, PayloadMap
  <2> QED
    BY <1>4, <2>1, CallersFrame DEF queueVars, historyVars
<1>5. CASE Starting
  BY <1>0, <1>3, <1>5, StartingFrame DEF queueVars, historyVars
<1>6. CASE EnqueueWritten
  <2>1. /\ Waits("enqueue", "writing") /\ UNCHANGED memory
        /\ saved' = [saved EXCEPT ![running.id] = running.payload]
    BY <1>6 DEF EnqueueWritten, queueVars
  <2>2. PICK id \in Messages : id = running.id
    BY <1>0, <2>1, MutationIsUsed DEF TypeOK, Waits
  <2>3. memory[id] = running.payload \/ Promised(id)
    BY <2>1, <2>2 DEF FilesInv, StagesOK, EnqueueOK
  <2>4. memory[id] # None
    BY <1>0, <1>2, <2>1, <2>3, PromisedIsShown DEF Waits, WrittenOnes
  <2> QED
    BY <1>0, <2>1, <2>2, <2>4 DEF PayloadMap
<1>7. CASE EnqueueWriteFails
  <2>1. running.id \in Messages
    BY <1>0, <1>7, MutationIsUsed DEF TypeOK, EnqueueWriteFails, Waits
  <2>2. memory' = memory \/ memory' = [memory EXCEPT ![running.id] = None]
    BY <1>7 DEF EnqueueWriteFails
  <2>3. saved' = IF memory'[running.id] = None THEN [saved EXCEPT ![running.id] = None]
                                               ELSE saved
    BY <1>7 DEF EnqueueWriteFails
  <2>4. CASE m = running.id
    BY <1>0, <2>1, <2>3, <2>4 DEF PayloadMap
  <2>5. CASE m # running.id
    BY <1>0, <2>1, <2>2, <2>3, <2>5 DEF PayloadMap
  <2> QED
    BY <2>4, <2>5
<1>8. CASE UpdateWritten
  <2>1. CASE LostRace(running)
    BY <1>3, <1>8, <2>1 DEF UpdateWritten, queueVars
  <2>2. CASE ~LostRace(running)
    BY <1>0, <1>2, <1>8, <2>2 DEF UpdateWritten, Waits, WrittenOnes, PayloadMap
  <2> QED
    BY <2>1, <2>2
<1>9. CASE FileRemoved
  <2>1. CASE RemovalCanceled(running)
    BY <1>3, <1>9, <2>1 DEF FileRemoved, queueVars
  <2>2. CASE ~RemovalCanceled(running)
    BY <1>0, <1>9, <2>2 DEF FileRemoved, PayloadMap
  <2> QED
    BY <2>1, <2>2
<1>10. CASE Loaded
  BY <1>0, <1>10 DEF Loaded, Recovered, historyVars
<1>11. CASE ClearFinishes
  <2>1. saved'[m] = IF m \in clear.gone THEN None ELSE saved[m]
    BY <1>11 DEF ClearFinishes
  <2>2. m \notin clear.gone /\ memory[m] # None => memory'[m] = memory[m]
    BY <1>11 DEF ClearFinishes
  <2> QED
    BY <2>1, <2>2 DEF Known
<1>12. CASE /\ Proceeding
            /\ ~(EnqueueWritten \/ EnqueueWriteFails \/ UpdateWritten \/ FileRemoved
                   \/ Loaded \/ ClearFinishes)
  BY <1>3, <1>12 DEF Proceeding, Enqueuing, Updating, Removing, Clearing, EnqueueFileDropped,
     UpdateWriteFails, UpdateWinnerRestored, FileRemovalFails, RemovalUndone, ClearLoads,
     ClearLoadFails, ClearRemoved, ClearRemoves, ClearRestores, historyVars, queueVars
<1>13. CASE UNCHANGED vars
  BY <1>3, <1>13 DEF vars, historyVars, queueVars
<1> QED
  BY <1>4, <1>5, <1>6, <1>7, <1>8, <1>9, <1>10, <1>11, <1>12, <1>13, StepKinds

LEMMA AllKnownKept ==
  ASSUME FilesInv, AllKnown, ~PlainRemovals, [Next]_vars
  PROVE  AllKnown'
<1>0. /\ TypeOK /\ TypeOK' /\ LineInv /\ None = 0
      /\ NoMutation.id \notin Messages /\ NoHold.status = "idle"
      /\ payloads \in Nat
  <2>1. TypeOK /\ TypeOK' /\ LineInv
    BY StepTyped DEF FilesInv, LineInv, Line, Durable
  <2>2. NoMutation.id \notin Messages
    BY OutboxAssumption DEF NoMutation, Mutation
  <2> QED
    BY <2>1, <2>2, NoHoldIsTyped DEF TypeOK, None
<1>1. CASE Crash
  <2>1. pending' = <<>> /\ running' = NoMutation /\ holds' = [w \in Writers |-> NoHold]
    BY <1>1 DEF Crash
  <2>2. \A i \in 0 .. Len(pending') : Job(i)' = NoMutation
    BY <2>1 DEF Job
  <2> QED
    BY <1>0, <2>1, <2>2 DEF AllKnown
<1>2. CASE ~Crash
  <2>1. \A m \in Messages : memory[m] # None \/ saved[m] = None
                              => memory'[m] # None \/ saved'[m] = None
    BY <1>2, KnownKept DEF Known
  <2>2. \A i \in 0 .. Len(pending) : \A m \in Messages :
          Job(i).id = m => memory'[m] # None \/ saved'[m] = None
    BY <2>1 DEF AllKnown, Known
  <2>3. ASSUME NEW c, Asked(c), NEW m \in Messages, c.id = m
        PROVE  memory'[m] # None \/ saved'[m] = None
    <3>1. CASE Enqueue(m)
      <4>1. memory' = [memory EXCEPT ![m] = payloads + 1] /\ memory \in PayloadMap
        BY <1>0, <3>1 DEF Enqueue, TypeOK
      <4> QED
        BY <1>0, <4>1 DEF PayloadMap
    <3>2. CASE \E w \in Writers : (Update(w) \/ Remove(w)) /\ m = holds[w].id
      <4>1. PICK w \in Writers : (Update(w) \/ Remove(w)) /\ m = holds[w].id
        BY <3>2
      <4>2. holds[w].status = "ready"
        BY <4>1 DEF Update, Remove
      <4> QED
        BY <2>1, <4>1, <4>2 DEF AllKnown, Known
    <3>3. CASE \E w \in Writers : ConfirmQueued(w, m)
      BY <2>1, <3>3 DEF ConfirmQueued
    <3>4. m # NoMessage
      BY OutboxAssumption
    <3> QED
      BY <2>3, <3>1, <3>2, <3>3, <3>4 DEF Asked
  <2>4. ASSUME NEW i \in 0 .. Len(pending'), NEW m \in Messages, (Job(i)').id = m
        PROVE  memory'[m] # None \/ saved'[m] = None
    <3>1. CASE Job(i)' = NoMutation
      BY <1>0, <2>4, <3>1
    <3>2. CASE \E k \in 0 .. Len(pending) : Job(i)' = Job(k)
      BY <2>2, <2>4, <3>2
    <3>3. CASE Asked(Job(i)')
      BY <2>3, <2>4, <3>3
    <3> QED
      BY <1>0, <3>1, <3>2, <3>3, JobSteps
  <2>5. ASSUME NEW w \in Writers, holds'[w].status # "idle", NEW m \in Messages,
               holds'[w].id = m
        PROVE  memory'[m] # None \/ saved'[m] = None
    <3>1. CASE holds[w].status # "idle" /\ holds'[w].id = holds[w].id
      BY <2>1, <2>5, <3>1 DEF AllKnown, Known
    <3>2. CASE memory[m] # None
      BY <2>1, <3>2
    <3>3. CASE \E i \in 0 .. Len(pending) : m = Job(i).id
      BY <2>2, <3>3
    <3> QED
      BY <1>0, <2>5, <3>1, <3>2, <3>3, HoldIds
  <2>6. \A w \in Writers : holds'[w].status # "idle" => holds'[w].id \in Messages
    BY <1>0, HoldIsUsed DEF TypeOK
  <2> QED
    BY <2>4, <2>5, <2>6 DEF AllKnown, Known
<1> QED
  BY <1>1, <1>2

\* The other messages keep what was saved of them.
LEMMA OthersStaySaved ==
  ASSUME SavedInv, running.op \in {"enqueue", "update", "remove"},
         NEW id \in Messages, id = running.id, unsettled \subseteq unsettled' \cup {id},
         \A m \in Messages : m # id =>
           memory'[m] = memory[m] /\ disk'[m] = disk[m] /\ saved'[m] = saved[m],
         id \notin unsettled' => SavedOnDisk(id)'
  PROVE  \A m \in Messages \ unsettled' : SavedOnDisk(m)'
<1>1. ASSUME NEW m \in Messages, m \notin unsettled', m # id
      PROVE  SavedOnDisk(m)'
  <2>1. SavedOnDisk(m)
    BY <1>1 DEF SavedInv, SavedOK
  <2>2. ~BeingUndone(m)
    BY <1>1 DEF BeingUndone, Waits, Cleaning
  <2> QED
    BY <1>1, <2>1, <2>2 DEF SavedOnDisk
<1> QED
  BY <1>1

LEMMA EndedIsSaved ==
  ASSUME running' = NoMutation, \A m \in Messages \ unsettled' : SavedOnDisk(m)'
  PROVE  SavedOK'
BY NoMutationIsTyped DEF SavedOK, Waits

\* What every step of a mutation finds.
LEMMA SavedFound ==
  ASSUME SavedInv
  PROVE  /\ FilesInv /\ LineInv /\ TypeOK /\ None = 0 /\ NoMutation.op = "none"
         /\ memory \in PayloadMap /\ disk \in PayloadMap /\ saved \in PayloadMap
         /\ \A m \in Messages : memory[m] \in Nat /\ disk[m] \in Nat /\ saved[m] \in Nat
         /\ running \in Mutations /\ running.payload \in Nat /\ leaving \in Nat
         /\ \A m \in Messages : Promised(m) => saved[m] < memory[m]
         /\ \A m \in Messages : stage = "writing" => saved[m] < running.payload
<1>1. FilesInv /\ LineInv /\ TypeOK
  BY DEF SavedInv, FilesInv, LineInv, Line, Durable
<1>2. /\ memory \in PayloadMap /\ disk \in PayloadMap /\ saved \in PayloadMap
      /\ \A m \in Messages : memory[m] \in Nat /\ disk[m] \in Nat /\ saved[m] \in Nat
  BY <1>1 DEF TypeOK, PayloadMap
<1>3. running \in Mutations /\ running.payload \in Nat /\ leaving \in Nat
  BY <1>1, MutationIsUsed DEF TypeOK
<1>4. \A m \in Messages : Promised(m) => saved[m] < memory[m]
  BY DEF SavedInv, Fresh, Promised, Carries, WrittenOnes
<1>5. \A m \in Messages : stage = "writing" => saved[m] < running.payload
  BY DEF SavedInv, Fresh
<1> QED
  BY <1>1, <1>2, <1>3, <1>4, <1>5, NoMutationIsTyped DEF None

LEMMA EnqueuingKeepsSaved ==
  ASSUME SavedInv, Enqueuing
  PROVE  SavedOK'
<1>0. running.op = "enqueue"
  BY DEF Enqueuing, EnqueueWritten, EnqueueWriteFails, EnqueueFileDropped, Waits
<1>1. PICK id \in Messages : id = running.id
  BY <1>0, SavedFound, MutationIsUsed
<1>2. CASE EnqueueWritten
  <2>1. /\ disk' = [disk EXCEPT ![id] = running.payload] /\ memory' = memory
        /\ saved' = [saved EXCEPT ![id] = running.payload]
        /\ running' = NoMutation /\ unsettled' = unsettled \ {id}
        /\ Waits("enqueue", "writing")
    BY <1>1, <1>2 DEF EnqueueWritten, StoreWrites, Ends, Settled, queueVars
  <2>2. memory[id] = running.payload \/ Promised(id)
    BY <1>1, <2>1, SavedFound DEF FilesInv, StagesOK, EnqueueOK
  <2>3. Promised(id) => running.payload < memory[id]
    <3> SUFFICES ASSUME Promised(id) PROVE running.payload < memory[id]
      OBVIOUS
    <3>1. PICK k \in 1 .. Len(pending) : Carries(pending[k], id)
      BY DEF Promised
    <3>2. /\ Job(0) = running /\ Job(k) = pending[k] /\ 0 < k /\ k \in 0 .. Len(pending)
          /\ 0 \in 0 .. Len(pending)
      BY SavedFound, JobIsTyped
    <3>3. Behind(running, pending[k])
      BY <3>2, SavedFound DEF LineInv, Line, Ordered
    <3> QED
      BY <1>0, <3>1, <3>3 DEF Behind, Carries, WrittenOnes
  <2>4. SavedOnDisk(id)'
    BY <2>1, <2>2, <2>3, SavedFound DEF SavedOnDisk, PayloadMap
  <2>5. \A m \in Messages : m # id =>
          memory'[m] = memory[m] /\ disk'[m] = disk[m] /\ saved'[m] = saved[m]
    BY <2>1, SavedFound DEF PayloadMap
  <2> QED
    BY <1>0, <1>1, <2>1, <2>4, <2>5, OthersStaySaved, EndedIsSaved
<1>3. CASE EnqueueWriteFails
  <2>1. /\ disk' = disk /\ unsettled' = unsettled /\ leaving' = leaving
        /\ Waits("enqueue", "writing")
        /\ memory' = memory \/ memory' = [memory EXCEPT ![id] = None]
        /\ saved' = IF memory'[id] = None THEN [saved EXCEPT ![id] = None] ELSE saved
        /\ IF memory'[id] = None THEN stage' = "removing" /\ running' = running
                                 ELSE running' = NoMutation
    BY <1>1, <1>3 DEF EnqueueWriteFails, DropsFile, Ends
  <2>2. \A m \in Messages : m # id =>
          memory'[m] = memory[m] /\ disk'[m] = disk[m] /\ saved'[m] = saved[m]
    BY <2>1, SavedFound DEF PayloadMap
  <2>3. ~BeingUndone(id)
    BY <1>0 DEF BeingUndone, Waits, Cleaning
  <2>4. id \notin unsettled => SavedOnDisk(id)
    BY DEF SavedInv, SavedOK
  <2>5. CASE memory'[id] = None
    <3>1. saved'[id] = None /\ stage' = "removing" /\ running' = running
      BY <2>1, <2>5, SavedFound DEF PayloadMap
    <3>2. SavedOnDisk(id)'
      BY <2>1, <2>5, <3>1, SavedFound DEF SavedOnDisk
    <3>3. \A m \in Messages \ unsettled' : SavedOnDisk(m)'
      BY <1>0, <1>1, <2>1, <2>2, <3>2, OthersStaySaved
    <3> QED
      BY <1>0, <1>1, <3>1, <3>3 DEF SavedOK, Waits
  <2>6. CASE memory'[id] # None
    <3>1. memory' = memory /\ saved' = saved /\ running' = NoMutation
      BY <2>1, <2>6, SavedFound DEF PayloadMap
    <3>2. id \notin unsettled' => SavedOnDisk(id)'
      BY <2>1, <2>3, <2>4, <3>1 DEF SavedOnDisk
    <3> QED
      BY <1>0, <1>1, <2>1, <2>2, <3>1, <3>2, OthersStaySaved, EndedIsSaved
  <2> QED
    BY <2>5, <2>6
<1>4. CASE EnqueueFileDropped
  <2>1. /\ memory' = memory /\ saved' = saved /\ running' = NoMutation
        /\ Waits("enqueue", "removing")
        /\ \/ disk' = [disk EXCEPT ![id] = None] /\ unsettled' = unsettled \ {id}
           \/ unsettled' = unsettled \cup {id} /\ disk' = disk
    BY <1>1, <1>4 DEF EnqueueFileDropped, StoreRemoves, Ends, Settled, queueVars
  <2>2. saved[id] = None
    BY <1>1, <2>1 DEF SavedInv, SavedOK
  <2>3. SavedOnDisk(id)'
    BY <2>1, <2>2, SavedFound DEF SavedOnDisk, PayloadMap
  <2>4. /\ unsettled \subseteq unsettled' \cup {id}
        /\ \A m \in Messages : m # id => disk'[m] = disk[m]
    BY <2>1, SavedFound DEF PayloadMap
  <2> QED
    BY <1>0, <1>1, <2>1, <2>3, <2>4, OthersStaySaved, EndedIsSaved
<1> QED
  BY <1>2, <1>3, <1>4 DEF Enqueuing

LEMMA UpdatingKeepsSaved ==
  ASSUME SavedInv, Updating
  PROVE  SavedOK'
<1>0. running.op = "update"
  BY DEF Updating, UpdateWritten, UpdateWriteFails, UpdateWinnerRestored, Waits
<1>1. PICK id \in Messages : id = running.id
  BY <1>0, SavedFound, MutationIsUsed
<1>2. /\ ~BeingUndone(id)
      /\ id \notin unsettled => SavedOnDisk(id)
  BY <1>0 DEF SavedInv, SavedOK, BeingUndone, Waits, Cleaning
<1>3. CASE UpdateWritten /\ LostRace(running)
  <2>1. /\ disk' = [disk EXCEPT ![id] = running.payload]
        /\ memory' = memory /\ saved' = saved /\ unsettled' = unsettled
        /\ Waits("update", "writing") /\ leaving' = memory[id]
    BY <1>1, <1>3 DEF UpdateWritten, StoreWrites, queueVars
  <2>2. memory[id] # None /\ Promised(id)
    <3>1. memory[id] # None /\ (revisions[id] = running.expected \/ Promised(id))
      BY <1>1, <2>1, SavedFound DEF FilesInv, StagesOK, UpdateOK
    <3> QED
      BY <1>1, <1>3, <3>1 DEF LostRace, StaleOrMissing
  <2>3. stage' = "restoring" /\ running' = running
    BY <1>1, <1>3, <2>2 DEF UpdateWritten
  <2>4. saved[id] < running.payload /\ saved[id] < memory[id]
    BY <2>1, <2>2, SavedFound DEF Waits
  <2>5. SavedOnDisk(id)'
    BY <2>1, <2>4, SavedFound DEF SavedOnDisk, PayloadMap
  <2>6. \A m \in Messages : m # id => disk'[m] = disk[m]
    BY <2>1, SavedFound DEF PayloadMap
  <2>7. \A m \in Messages \ unsettled' : SavedOnDisk(m)'
    BY <1>0, <1>1, <2>1, <2>5, <2>6, OthersStaySaved
  <2> QED
    BY <1>0, <1>1, <2>1, <2>3, <2>4, <2>7 DEF SavedOK, Waits
<1>4. CASE UpdateWritten /\ ~LostRace(running)
  <2>1. /\ disk' = [disk EXCEPT ![id] = running.payload]
        /\ memory' = [memory EXCEPT ![id] = running.payload]
        /\ saved' = [saved EXCEPT ![id] = running.payload]
        /\ unsettled' = unsettled \ {id} /\ running' = NoMutation
    BY <1>1, <1>4 DEF UpdateWritten, StoreWrites, Ends, Settled
  <2>2. SavedOnDisk(id)'
    BY <2>1, SavedFound DEF SavedOnDisk, PayloadMap
  <2>3. /\ unsettled \subseteq unsettled' \cup {id}
        /\ \A m \in Messages : m # id =>
             memory'[m] = memory[m] /\ disk'[m] = disk[m] /\ saved'[m] = saved[m]
    BY <2>1, SavedFound DEF PayloadMap
  <2> QED
    BY <1>0, <1>1, <2>1, <2>2, <2>3, OthersStaySaved, EndedIsSaved
<1>5. CASE UpdateWriteFails
  <2>1. UNCHANGED <<memory, disk, saved, unsettled>> /\ running' = NoMutation
    BY <1>5 DEF UpdateWriteFails, Ends, queueVars, historyVars
  <2>2. id \notin unsettled' => SavedOnDisk(id)'
    BY <1>2, <2>1 DEF SavedOnDisk
  <2> QED
    BY <1>0, <1>1, <2>1, <2>2, OthersStaySaved, EndedIsSaved
<1>6. CASE UpdateWinnerRestored
  <2>1. /\ UNCHANGED <<memory, saved, unsettled>> /\ running' = NoMutation
        /\ Waits("update", "restoring")
        /\ disk' = [disk EXCEPT ![id] = leaving] \/ disk' = disk
    BY <1>1, <1>6 DEF UpdateWinnerRestored, StoreWrites, Ends, queueVars
  <2>2. saved[id] < leaving
    BY <1>1, <2>1 DEF SavedInv, SavedOK
  <2>3. id \notin unsettled' => SavedOnDisk(id)'
    BY <1>2, <2>1, <2>2, SavedFound DEF SavedOnDisk, PayloadMap
  <2>4. \A m \in Messages : m # id => disk'[m] = disk[m]
    BY <2>1, SavedFound DEF PayloadMap
  <2> QED
    BY <1>0, <1>1, <2>1, <2>3, <2>4, OthersStaySaved, EndedIsSaved
<1> QED
  BY <1>3, <1>4, <1>5, <1>6 DEF Updating

LEMMA RemovingKeepsSaved ==
  ASSUME SavedInv, Removing
  PROVE  SavedOK'
<1>0. running.op = "remove"
  BY DEF Removing, FileRemoved, FileRemovalFails, RemovalUndone, Waits
<1>1. PICK id \in Messages : id = running.id
  BY <1>0, SavedFound, MutationIsUsed
<1>2. /\ id \notin unsettled => SavedOnDisk(id)
      /\ stage # "restoring" => ~BeingUndone(id)
  BY <1>0 DEF SavedInv, SavedOK, BeingUndone, Waits, Cleaning
<1>3. CASE FileRemoved /\ RemovalCanceled(running) /\ memory[id] # None
  <2>1. /\ disk' = [disk EXCEPT ![id] = None] /\ leaving' = memory[id]
        /\ UNCHANGED <<memory, saved, unsettled>>
        /\ stage' = "restoring" /\ running' = running
    BY <1>1, <1>3 DEF FileRemoved, StoreRemoves, queueVars
  <2>2. id \notin unsettled => saved[id] <= memory[id]
    BY <1>2, <1>3 DEF SavedOnDisk
  <2>3. BeingUndone(id)'
    BY <1>0, <1>1, <2>1 DEF BeingUndone, Waits
  <2>4. id \notin unsettled' => SavedOnDisk(id)'
    BY <2>1, <2>2, <2>3 DEF SavedOnDisk
  <2>5. \A m \in Messages : m # id => disk'[m] = disk[m]
    BY <2>1, SavedFound DEF PayloadMap
  <2>6. \A m \in Messages \ unsettled' : SavedOnDisk(m)'
    BY <1>0, <1>1, <2>1, <2>4, <2>5, OthersStaySaved
  <2> QED
    BY <1>0, <1>1, <2>1, <2>2, <2>6 DEF SavedOK, Waits
<1>4. CASE FileRemoved /\ ~(RemovalCanceled(running) /\ memory[id] # None)
  <2>1. /\ disk' = [disk EXCEPT ![id] = None] /\ running' = NoMutation
        /\ \/ UNCHANGED <<memory, saved, unsettled>> /\ memory[id] = None
           \/ /\ memory' = [memory EXCEPT ![id] = None]
              /\ saved' = [saved EXCEPT ![id] = None]
              /\ unsettled' = unsettled \ {id}
    BY <1>1, <1>4 DEF FileRemoved, StoreRemoves, Ends, Settled, queueVars
  <2>2. memory[id] = None => saved[id] = None
    <3>1. Job(0) = running /\ 0 \in 0 .. Len(pending)
      BY SavedFound, JobIsTyped
    <3> QED
      BY <1>1, <3>1 DEF SavedInv, AllKnown, Known
  <2>3. SavedOnDisk(id)'
    BY <2>1, <2>2, SavedFound DEF SavedOnDisk, PayloadMap
  <2>4. /\ unsettled \subseteq unsettled' \cup {id}
        /\ \A m \in Messages : m # id =>
             memory'[m] = memory[m] /\ disk'[m] = disk[m] /\ saved'[m] = saved[m]
    BY <2>1, SavedFound DEF PayloadMap
  <2> QED
    BY <1>0, <1>1, <2>1, <2>3, <2>4, OthersStaySaved, EndedIsSaved
<1>5. CASE FileRemovalFails
  <2>1. /\ UNCHANGED <<memory, disk, saved, unsettled>> /\ running' = NoMutation
        /\ stage # "restoring"
    BY <1>5 DEF FileRemovalFails, Ends, queueVars, historyVars, Waits
  <2>2. id \notin unsettled' => SavedOnDisk(id)'
    BY <1>2, <2>1 DEF SavedOnDisk
  <2> QED
    BY <1>0, <1>1, <2>1, <2>2, OthersStaySaved, EndedIsSaved
<1>6. CASE RemovalUndone
  <2>1. /\ UNCHANGED <<memory, saved>> /\ running' = NoMutation
        /\ Waits("remove", "restoring")
        /\ \/ disk' = [disk EXCEPT ![id] = leaving] /\ unsettled' = unsettled
           \/ unsettled' = unsettled \cup {id} /\ disk' = disk
    BY <1>1, <1>6 DEF RemovalUndone, StoreWrites, Ends, queueVars
  <2>2. saved[id] <= leaving \/ id \in unsettled
    BY <1>1, <2>1 DEF SavedInv, SavedOK
  <2>3. id \notin unsettled' => SavedOnDisk(id)'
    BY <1>2, <2>1, <2>2, SavedFound DEF SavedOnDisk, PayloadMap
  <2>4. /\ unsettled \subseteq unsettled' \cup {id}
        /\ \A m \in Messages : m # id => disk'[m] = disk[m]
    BY <2>1, SavedFound DEF PayloadMap
  <2> QED
    BY <1>0, <1>1, <2>1, <2>3, <2>4, OthersStaySaved, EndedIsSaved
<1> QED
  BY <1>3, <1>4, <1>5, <1>6 DEF Removing

LEMMA LoadedKeepsSaved ==
  ASSUME SavedInv, Loaded
  PROVE  SavedOK'
<1>1. /\ running.op = "load" /\ running' = NoMutation
      /\ UNCHANGED <<disk, saved, unsettled>>
      /\ \A m \in Messages : memory'[m] = memory[m] \/ memory'[m] = disk[m]
  BY DEF Loaded, Waits, Ends, historyVars
<1>2. ASSUME NEW m \in Messages, m \notin unsettled'
      PROVE  SavedOnDisk(m)'
  <2>1. SavedOnDisk(m) /\ ~BeingUndone(m)
    BY <1>1, <1>2 DEF SavedInv, SavedOK, BeingUndone, Waits, Cleaning
  <2> QED
    BY <1>1, <2>1 DEF SavedOnDisk
<1> QED
  BY <1>1, <1>2, EndedIsSaved

LEMMA ClearingKeepsSaved ==
  ASSUME SavedInv, Clearing
  PROVE  SavedOK'
<1>0. /\ running.op = "clear"
      /\ clear \in Clears /\ clear.left \subseteq Messages /\ clear.gone \subseteq Messages
  <2>1. running.op = "clear"
    BY DEF Clearing, ClearLoads, ClearLoadFails, ClearRemoved, ClearFinishes, ClearRemoves,
       ClearRestores, Waits
  <2> QED
    BY <2>1, SavedFound, ClearIsUsed DEF TypeOK
<1>1. \A m \in Messages \ unsettled :
        /\ (Cleaning /\ m \in clear.gone) \/ saved[m] <= disk[m]
        /\ memory[m] = None \/ saved[m] <= memory[m]
  BY <1>0 DEF SavedInv, SavedOK, SavedOnDisk, BeingUndone, Waits
<1>2. ASSUME UNCHANGED <<memory, saved, unsettled, running>>, Cleaning',
             NEW ids \in SUBSET clear'.gone, \A m \in Messages : m \notin ids => disk'[m] = disk[m],
             Cleaning => clear.gone \subseteq clear'.gone
      PROVE  SavedOK'
  <2>1. ASSUME NEW m \in Messages, m \notin unsettled'
        PROVE  SavedOnDisk(m)'
    BY <1>1, <1>2, <2>1 DEF SavedOnDisk, BeingUndone
  <2> QED
    BY <1>0, <1>2, <2>1 DEF SavedOK, Waits
<1>3. CASE ClearLoads \/ ClearRemoved
  <2>1. /\ UNCHANGED <<memory, disk, saved, unsettled, running>>
        /\ stage' \in {"removing", "restoring"} /\ clear'.gone = clear.gone
    BY <1>0, <1>3 DEF ClearLoads, ClearRemoved, queueVars, historyVars, Clears
  <2>2. Cleaning'
    BY <1>0, <2>1 DEF Cleaning
  <2> QED
    BY <1>2, <2>1, <2>2
<1>4. CASE ClearLoadFails
  <2>1. /\ UNCHANGED <<memory, disk, saved, unsettled>> /\ running' = NoMutation /\ ~Cleaning
    BY <1>4 DEF ClearLoadFails, queueVars, historyVars, Ends, Cleaning, Waits
  <2>2. \A m \in Messages \ unsettled' : SavedOnDisk(m)'
    BY <1>1, <2>1 DEF SavedOnDisk
  <2> QED
    BY <2>1, <2>2, EndedIsSaved
<1>5. ASSUME NEW id \in Messages, ClearRemoves(id)
      PROVE  SavedOK'
  <2>1. /\ UNCHANGED <<memory, saved, unsettled, running>> /\ Cleaning'
        /\ \/ disk' = [disk EXCEPT ![id] = None] /\ clear'.gone = clear.gone \cup {id}
           \/ disk' = disk /\ clear'.gone = clear.gone
    BY <1>0, <1>5 DEF ClearRemoves, StoreRemoves, Waits, Cleaning, queueVars, Clears
  <2>2. CASE disk' = [disk EXCEPT ![id] = None] /\ clear'.gone = clear.gone \cup {id}
    <3>1. \A m \in Messages : m \notin {id} => disk'[m] = disk[m]
      BY <2>2, SavedFound DEF PayloadMap
    <3> QED
      BY <1>2, <2>1, <2>2, <3>1
  <2>3. CASE disk' = disk /\ clear'.gone = clear.gone
    BY <1>2, <2>1, <2>3
  <2> QED
    BY <2>1, <2>2, <2>3
<1>6. ASSUME NEW id \in Messages, ClearRestores(id)
      PROVE  SavedOK'
  <2>1. /\ UNCHANGED <<memory, saved, unsettled, running>> /\ Cleaning'
        /\ clear'.gone = clear.gone /\ id \in clear.left /\ Cleaning /\ stage = "restoring"
        /\ disk' = [disk EXCEPT ![id] = clear.keep[id]] \/ disk' = disk
    BY <1>0, <1>6 DEF ClearRestores, StoreWrites, Waits, Cleaning, queueVars, Clears
  <2>2. id \in clear.gone
    BY <2>1, SavedFound DEF FilesInv, StagesOK, ClearOK
  <2>3. \A m \in Messages : m \notin {id} => disk'[m] = disk[m]
    BY <2>1, SavedFound DEF PayloadMap
  <2> QED
    BY <1>2, <2>1, <2>2, <2>3
<1>7. CASE ClearFinishes
  <2>1. /\ Cleaning /\ running' = NoMutation /\ disk' = disk
        /\ \A m \in Messages : m \notin clear.gone =>
             memory'[m] = IF memory[m] # None THEN memory[m] ELSE clear.all[m]
        /\ saved' = [m \in Messages |-> IF m \in clear.gone THEN None ELSE saved[m]]
        /\ unsettled \subseteq unsettled' \cup clear.gone
        /\ \A m \in Messages : memory'[m] \in Nat
    <3>1. /\ Cleaning /\ running' = NoMutation /\ disk' = disk
          /\ \A m \in Messages : m \notin clear.gone =>
               memory'[m] = IF memory[m] # None THEN memory[m] ELSE clear.all[m]
          /\ saved' = [m \in Messages |-> IF m \in clear.gone THEN None ELSE saved[m]]
          /\ unsettled \subseteq unsettled' \cup clear.gone
          /\ \A m \in Messages : memory'[m] \in {None, memory[m], clear.all[m]}
      BY <1>7 DEF ClearFinishes, Ends, Waits, Cleaning
    <3>2. \A m \in Messages : clear.all[m] \in Nat
      BY <1>0, ClearIsUsed DEF PayloadMap
    <3> QED
      BY <3>1, <3>2, SavedFound
  <2>2. ASSUME NEW m \in Messages, m \notin unsettled'
        PROVE  SavedOnDisk(m)'
    <3>1. CASE m \in clear.gone
      <4>1. saved'[m] = None
        BY <2>1, <3>1
      <4> QED
        BY <2>1, <4>1, SavedFound DEF SavedOnDisk
    <3>2. CASE m \notin clear.gone
      <4>1. m \notin unsettled /\ saved'[m] = saved[m] /\ saved[m] <= disk[m]
        BY <1>1, <2>1, <2>2, <3>2
      <4>2. memory[m] = None => memory'[m] = disk[m]
        <5>1. memory[m] = None => clear.all[m] = disk[m]
          BY <2>1, <3>2, SavedFound DEF FilesInv, StagesOK, ClearOK
        <5> QED
          BY <2>1, <3>2, <5>1
      <4>3. memory[m] # None => memory'[m] = memory[m]
        BY <2>1, <3>2
      <4> QED
        BY <1>1, <2>1, <4>1, <4>2, <4>3 DEF SavedOnDisk
    <3> QED
      BY <3>1, <3>2
  <2> QED
    BY <2>1, <2>2, EndedIsSaved
<1> QED
  BY <1>3, <1>4, <1>5, <1>6, <1>7 DEF Clearing

LEMMA CallersKeepSaved ==
  ASSUME SavedInv, ~PlainRemovals, [Next]_vars, Callers
  PROVE  SavedOK'
<1>1. /\ UNCHANGED <<running, stage, leaving, disk, saved, unsettled>>
      /\ Cleaning => clear' = clear
      /\ \A m \in Messages : memory'[m] = memory[m] \/ Enqueue(m)
  BY SavedFound, CallersQuiet
<1>2. \A m \in Messages : Enqueue(m) => saved[m] <= memory'[m]
  BY SavedFound DEF Enqueue, SavedInv, Fresh, PayloadMap, TypeOK
<1>3. ASSUME NEW m \in Messages, m \notin unsettled'
      PROVE  SavedOnDisk(m)'
  <2>1. SavedOnDisk(m)
    BY <1>1, <1>3 DEF SavedInv, SavedOK
  <2>2. BeingUndone(m) => BeingUndone(m)'
    BY <1>1 DEF BeingUndone, Waits, Cleaning
  <2> QED
    BY <1>1, <1>2, <2>1, <2>2 DEF SavedOnDisk
<1> QED
  BY <1>1, <1>3 DEF SavedInv, SavedOK, Waits

LEMMA StartingKeepsSaved ==
  ASSUME SavedInv, Starting
  PROVE  SavedOK'
<1>1. /\ running = NoMutation /\ UNCHANGED <<memory, disk, saved, unsettled>>
      /\ stage' # "restoring" /\ ~(running'.op = "enqueue" /\ stage' = "removing")
  BY SavedFound, StartingFrame, BeginsAs DEF queueVars, historyVars
<1>2. ASSUME NEW m \in Messages, m \notin unsettled'
      PROVE  SavedOnDisk(m)'
  <2>1. SavedOnDisk(m) /\ ~BeingUndone(m)
    BY <1>1, <1>2, SavedFound DEF SavedInv, SavedOK, BeingUndone, Waits, Cleaning
  <2> QED
    BY <1>1, <2>1 DEF SavedOnDisk
<1> QED
  BY <1>1, <1>2 DEF SavedOK, Waits

LEMMA CrashKeepsSaved ==
  ASSUME SavedInv, Crash
  PROVE  SavedOK'
<1>1. /\ running' = NoMutation /\ disk' = disk /\ saved' = saved
      /\ unsettled' = unsettled \cup Undoing
      /\ \A m \in Messages : memory'[m] = None
  BY DEF Crash, Nothing
<1>2. ASSUME NEW m \in Messages, m \notin unsettled'
      PROVE  SavedOnDisk(m)'
  <2>1. ~BeingUndone(m)
    BY <1>1, <1>2 DEF BeingUndone, Undoing, Cleaning, Waits
  <2> QED
    BY <1>1, <1>2, <2>1 DEF SavedInv, SavedOK, SavedOnDisk
<1> QED
  BY <1>1, <1>2, EndedIsSaved

LEMMA SavedStart == Init => SavedInv
<1> SUFFICES ASSUME Init PROVE SavedInv
  OBVIOUS
<1>1. /\ running = NoMutation /\ pending = <<>> /\ stage = "idle" /\ payloads = 0
      /\ holds = [w \in Writers |-> NoHold] /\ NoHold.status = "idle" /\ NoMutation.op = "none"
      /\ \A m \in Messages : memory[m] = None /\ disk[m] = None /\ saved[m] = None
      /\ None = 0
  BY NoMutationIsTyped, NoHoldIsTyped DEF Init, Nothing, None
<1>2. Fresh
  BY <1>1 DEF Fresh
<1>3. AllKnown
  <2>1. \A i \in 0 .. Len(pending) : Job(i) = NoMutation
    BY <1>1 DEF Job
  <2> QED
    BY <1>1, <2>1 DEF AllKnown, Known
<1>4. SavedOK
  BY <1>1 DEF SavedOK, SavedOnDisk, Waits
<1> QED
  BY <1>2, <1>3, <1>4, FilesStart DEF SavedInv

LEMMA SavedKept ==
  ASSUME SavedInv, ~PlainRemovals, [Next]_vars
  PROVE  SavedInv'
<1>1. FilesInv' /\ Fresh' /\ AllKnown'
  BY FilesKept, FreshKept, AllKnownKept DEF SavedInv, FilesInv
<1>2. CASE UNCHANGED vars
  <2>1. /\ UNCHANGED <<memory, running, stage, leaving, clear, disk, saved, unsettled>>
    BY <1>2 DEF vars, queueVars, mutationVars, historyVars
  <2> QED
    BY <1>1, <2>1 DEF SavedInv, SavedOK, SavedOnDisk, BeingUndone, Waits, Cleaning
<1>3. SavedOK'
  BY <1>1, <1>2, CallersKeepSaved, StartingKeepsSaved, EnqueuingKeepsSaved, UpdatingKeepsSaved,
     RemovingKeepsSaved, LoadedKeepsSaved, ClearingKeepsSaved, CrashKeepsSaved, StepKinds
     DEF Proceeding, SavedInv
<1> QED
  BY <1>1, <1>3 DEF SavedInv

LEMMA SavedAlways == ASSUME ~PlainRemovals PROVE Spec => []SavedInv
<1>1. SavedInv /\ [Next]_vars => SavedInv'
  BY SavedKept
<1> QED
  BY <1>1, SavedStart, PTL DEF Spec

\* Where every removal names its revision, what enqueue or update of
\* apps/mobile/src/state/thread-outbox-manager.ts reported as saved is in its file, or
\* something newer, until it is removed: whatever overtook, failed or died since.
THEOREM SavedSurvivesCorrect == ASSUME ~PlainRemovals PROVE Spec => []SavedSurvives
<1>1. SavedInv => SavedSurvives
  <2> SUFFICES ASSUME SavedInv, NEW m \in Messages, m \notin unsettled,
                      running.op \notin {"remove", "clear"}
               PROVE  disk[m] >= saved[m]
    BY DEF SavedSurvives
  <2>1. SavedOnDisk(m) /\ ~BeingUndone(m)
    BY DEF SavedInv, SavedOK, BeingUndone, Waits, Cleaning
  <2> QED
    BY <2>1, SavedFound DEF SavedOnDisk
<1> QED
  BY <1>1, SavedAlways, PTL

-----------------------------------------------------------------------------
(* What was reported as removed, and ReleasedStaysGone.                    *)

Gone == released \ {None}

\* The payloads written or released so far were made before.
Spent == \A p \in written \cup released : p <= payloads

\* A mutation that waits carries nothing that was removed; an update carries what was
\* never written.
Pledged(p) == \E i \in 1 .. Len(pending) : pending[i].op = "enqueue" /\ pending[i].payload = p
WaitingOK ==
  \A i \in 1 .. Len(pending) :
    /\ pending[i].op \in WrittenOnes => pending[i].payload \notin Gone
    /\ pending[i].op = "update" => pending[i].payload \notin written

\* What is put back was written, or is still to be written by its enqueue.
PutBackOK ==
  /\ stage = "restoring" /\ running.op \in {"update", "remove"} =>
       leaving \notin Gone /\ (leaving \in written \/ Pledged(leaving))
  /\ Waits("clear", "restoring") =>
       \A m \in clear.left : clear.keep[m] \notin Gone /\ Pledged(clear.keep[m])

\* What a removal or a clear is about to report as removed was written.
LeavesOK ==
  /\ \A i \in 0 .. Len(pending) : Job(i).op = "remove" => Job(i).payload \in written
  /\ Waits("remove", "removing") =>
       /\ memory[running.id] \in {None, leaving} \/ Promised(running.id)
       /\ memory[running.id] = None => leaving \in written
  /\ Cleaning => \A m \in clear.left \cup clear.gone : clear.all[m] \in written

\* A payload belongs to one message, wherever it is remembered.
Leaves(m) == running.id = m /\ (running.op = "remove" \/ Waits("update", "restoring"))
Belongs(p, m) ==
  \/ p \in {memory[m], disk[m], clear.all[m], clear.keep[m]}
  \/ \E i \in 0 .. Len(pending) : Job(i).id = m /\ Job(i).payload = p
  \/ Leaves(m) /\ leaving = p
  \/ \E w \in Writers : holds[w].id = m /\ holds[w].payload = p
Owned ==
  \A m, n \in Messages, p \in Nat : p # None /\ Belongs(p, m) /\ Belongs(p, n) => m = n

GoneOK ==
  /\ \A m \in Messages : memory[m] \notin Gone /\ disk[m] \notin Gone
  /\ stage = "writing" => running.payload \notin Gone

ReleasedInv ==
  FilesInv /\ Spent /\ WaitingOK /\ PutBackOK /\ LeavesOK /\ Owned /\ GoneOK

LEMMA WrittenSteps ==
  ASSUME [Next]_vars
  PROVE  \/ written' = written
         \/ /\ Proceeding
            /\ \E p : /\ written' = written \cup {p}
                      /\ \/ p = running.payload /\ stage = "writing" /\ running.op \in WrittenOnes
                         \/ /\ p = leaving /\ stage = "restoring"
                            /\ running.op \in {"update", "remove"}
                         \/ \E m \in Messages : /\ Waits("clear", "restoring")
                                                /\ m \in clear.left /\ p = clear.keep[m]
<1>1. CASE Callers \/ Crash \/ UNCHANGED vars
  BY <1>1 DEF Callers, Crash, vars, historyVars
<1>2. CASE Starting
  BY <1>2 DEF Starting, BeginEnqueue, Confirm, BeginUpdate, BeginRemove, BeginLoading,
     historyVars
<1>3. CASE Enqueuing
  BY <1>3 DEF Proceeding, Enqueuing, EnqueueWritten, EnqueueWriteFails, EnqueueFileDropped,
     StoreWrites, StoreRemoves, Waits, WrittenOnes
<1>4. CASE Updating
  BY <1>4 DEF Proceeding, Updating, UpdateWritten, UpdateWriteFails, UpdateWinnerRestored,
     StoreWrites, Waits, WrittenOnes, historyVars
<1>5. CASE Removing
  BY <1>5 DEF Proceeding, Removing, FileRemoved, FileRemovalFails, RemovalUndone,
     StoreWrites, StoreRemoves, Waits, historyVars
<1>6. CASE Loaded
  BY <1>6 DEF Loaded, historyVars
<1>7. CASE ClearLoads \/ ClearLoadFails \/ ClearRemoved \/ ClearFinishes
  BY <1>7 DEF ClearLoads, ClearLoadFails, ClearRemoved, ClearFinishes, historyVars
<1>8. ASSUME NEW m \in Messages, ClearRemoves(m) \/ ClearRestores(m)
      PROVE  \/ written' = written
             \/ /\ written' = written \cup {clear.keep[m]}
                /\ Waits("clear", "restoring") /\ m \in clear.left
  BY <1>8 DEF ClearRemoves, ClearRestores, StoreWrites, StoreRemoves
<1>9. CASE \E m \in Messages : ClearRemoves(m) \/ ClearRestores(m)
  BY <1>8, <1>9 DEF Proceeding, Clearing
<1> QED
  BY <1>1, <1>2, <1>3, <1>4, <1>5, <1>6, <1>7, <1>9, StepKinds DEF Proceeding, Clearing

\* A removal that goes through finds nothing of its message behind it.
LEMMA RemovalIsAlone ==
  ASSUME LineInv, running.op = "remove", ~RemovalCanceled(running), NEW id \in Messages,
         id = running.id
  PROVE  ~Waiting(id) /\ ~Promised(id)
<1>1. Job(0) = running /\ 0 \in 0 .. Len(pending)
  BY JobIsTyped DEF LineInv, Line, Durable
<1>2. revisions[running.id] = running.expected
  BY <1>1 DEF LineInv, RemovalsNamed, RemovalCanceled
<1> QED
  BY <1>2, FitsIsAlone, WaitingIsPromised DEF LineInv

\* What is reported as removed.
LEMMA ReleasedSteps ==
  ASSUME ReleasedInv, [Next]_vars
  PROVE  \/ released' = released
         \/ /\ FileRemoved /\ ~RemovalCanceled(running) /\ running.id \in Messages
            /\ released' = released \cup {leaving} /\ leaving \in written
         \/ /\ ClearFinishes
            /\ \A p \in released' : p \in released \/ \E m \in clear.gone :
                 m \in Messages /\ revisions[m] = clear.revisions[m] /\ p = clear.all[m]
                 /\ p \in written
<1>0. LineInv /\ TypeOK /\ None = 0
  BY DEF ReleasedInv, FilesInv, LineInv, Line, Durable, None
<1>1. CASE Callers \/ Crash \/ UNCHANGED vars
  BY <1>1 DEF Callers, Crash, vars, historyVars
<1>2. CASE Starting
  BY <1>2 DEF Starting, BeginEnqueue, Confirm, BeginUpdate, BeginRemove, BeginLoading,
     historyVars
<1>3. CASE FileRemoved
  <2>1. CASE RemovalCanceled(running)
    BY <1>3, <2>1 DEF FileRemoved
  <2>2. CASE ~RemovalCanceled(running)
    <3>1. /\ Waits("remove", "removing") /\ running.id \in Messages
          /\ released' = released \cup {leaving}
      BY <1>0, <1>3, <2>2, MutationIsUsed DEF FileRemoved, Waits, TypeOK
    <3>2. PICK id \in Messages : id = running.id
      BY <3>1
    <3>3. ~Promised(id)
      BY <1>0, <2>2, <3>1, <3>2, RemovalIsAlone DEF Waits
    <3>4. /\ memory[id] \in {None, leaving}
          /\ memory[id] = None => leaving \in written
      BY <3>1, <3>2, <3>3 DEF ReleasedInv, LeavesOK
    <3>5. memory[id] # None => memory[id] \in written
      BY <1>0, <3>1, <3>2, <3>3 DEF LineInv, Line, Durable, StillToWrite, Waits, Promised
    <3> QED
      BY <1>3, <2>2, <3>1, <3>4, <3>5
  <2> QED
    BY <2>1, <2>2
<1>4. CASE ClearFinishes
  <2>1. /\ Cleaning /\ clear.gone \subseteq Messages
        /\ released' = released \cup
             {clear.all[m] : m \in {n \in clear.gone : revisions[n] = clear.revisions[n]}}
    BY <1>0, <1>4, ClearIsUsed DEF ClearFinishes, Waits, Cleaning, TypeOK
  <2>2. \A m \in clear.gone : clear.all[m] \in written
    BY <2>1 DEF ReleasedInv, LeavesOK
  <2> QED
    BY <1>4, <2>1, <2>2
<1>5. CASE Proceeding /\ ~FileRemoved /\ ~ClearFinishes
  BY <1>5 DEF Proceeding, Enqueuing, Updating, Removing, Clearing, EnqueueWritten,
     EnqueueWriteFails, EnqueueFileDropped, UpdateWritten, UpdateWriteFails,
     UpdateWinnerRestored, FileRemovalFails, RemovalUndone, Loaded, ClearLoads,
     ClearLoadFails, ClearRemoved, ClearRemoves, ClearRestores, historyVars
<1> QED
  BY <1>1, <1>2, <1>3, <1>4, <1>5, StepKinds

LEMMA SpentBefore ==
  ASSUME ReleasedInv, [Next]_vars
  PROVE  /\ \A p \in written' \cup released' : p <= payloads
         /\ Spent' /\ written \subseteq written'
         /\ payloads \in Nat /\ payloads' \in Nat /\ payloads <= payloads'
         /\ \A p \in written' \cup released' : p \in Nat
<1>0. /\ Durable /\ TypeOK /\ TypeOK'
      /\ payloads \in Nat /\ payloads' \in Nat /\ payloads <= payloads'
      /\ written' \subseteq Nat /\ released' \subseteq Nat
  <2>1. Durable /\ TypeOK /\ TypeOK'
    BY StepTyped DEF ReleasedInv, FilesInv, LineInv, Line, Durable
  <2> QED
    BY <2>1, QueueSteps DEF TypeOK
<1>1. /\ running.payload <= payloads /\ leaving <= payloads
      /\ \A m \in Messages : clear.keep[m] <= payloads
  BY <1>0 DEF Durable, MadeBefore
<1>2. /\ written \subseteq written'
      /\ \A p \in written' : p <= payloads
  BY <1>1, WrittenSteps DEF ReleasedInv, Spent
<1>3. \A p \in released' : p <= payloads
  BY ReleasedSteps DEF ReleasedInv, Spent
<1> QED
  BY <1>0, <1>2, <1>3 DEF Spent

\* A payload that waits for its first write is not among those removed by this step.
LEMMA WaitingIsNotReleased ==
  ASSUME ReleasedInv, [Next]_vars, NEW k \in 1 .. Len(pending), pending[k].op \in WrittenOnes
  PROVE  pending[k].payload \notin released' \ {None}
<1>0. /\ LineInv /\ TypeOK /\ pending[k] \in Mutations /\ pending[k].payload \in Nat
      /\ pending[k].id \in Messages /\ Job(0) = running /\ 0 \in 0 .. Len(pending)
      /\ Job(k) = pending[k] /\ k \in 0 .. Len(pending)
  <2>1. LineInv /\ TypeOK
    BY DEF ReleasedInv, FilesInv, LineInv, Line, Durable
  <2>2. pending[k] \in Mutations
    BY <2>1 DEF TypeOK
  <2> QED
    BY <2>1, <2>2, JobIsTyped, MutationIsUsed DEF WrittenOnes
<1>1. /\ pending[k].payload \notin Gone
      /\ pending[k].op = "update" => pending[k].payload \notin written
  BY DEF ReleasedInv, WaitingOK
<1>2. ASSUME NEW p \in released', p = pending[k].payload, p # None, p \notin released
      PROVE  FALSE
  <2>1. p \in written
    BY <1>2, ReleasedSteps
  <2>2. pending[k].op = "enqueue"
    BY <1>1, <1>2, <2>1 DEF WrittenOnes
  <2>3. PICK n \in Messages : n = pending[k].id
    BY <1>0
  <2>4. Waiting(n)
    BY <2>2, <2>3 DEF Waiting
  <2>5. Belongs(p, n)
    BY <1>0, <1>2, <2>3 DEF Belongs
  <2>6. ASSUME NEW m \in Messages, Belongs(p, m)
        PROVE  m = n
    BY <1>0, <1>2, <2>5, <2>6 DEF ReleasedInv, Owned
  <2>7. CASE FileRemoved /\ ~RemovalCanceled(running) /\ running.id \in Messages /\ p = leaving
    <3>1. running.op = "remove"
      BY <2>7 DEF FileRemoved, Waits
    <3>2. PICK id \in Messages : id = running.id
      BY <2>7
    <3>3. Belongs(p, id)
      BY <2>7, <3>1, <3>2 DEF Belongs, Leaves
    <3> QED
      BY <1>0, <2>4, <2>6, <2>7, <3>1, <3>2, <3>3, RemovalIsAlone
  <2>8. CASE /\ ClearFinishes
             /\ \E m \in clear.gone :
                  m \in Messages /\ revisions[m] = clear.revisions[m] /\ p = clear.all[m]
    <3>1. PICK m \in clear.gone :
            m \in Messages /\ revisions[m] = clear.revisions[m] /\ p = clear.all[m]
      BY <2>8
    <3>2. Cleaning /\ running.op = "clear"
      BY <2>8 DEF ClearFinishes, Waits, Cleaning
    <3>3. revisions[m] = clear.requested[m]
      BY <1>0, <3>1, <3>2 DEF LineInv, Line, Taken
    <3>4. Belongs(p, m)
      BY <3>1 DEF Belongs
    <3> QED
      BY <1>0, <2>4, <2>6, <3>1, <3>2, <3>3, <3>4, TakenIsAlone DEF LineInv
  <2> QED
    BY <1>2, <2>7, <2>8, ReleasedSteps
<1> QED
  BY <1>1, <1>2 DEF Gone

\* Two enqueues or updates of the line never carry the same payload.
LEMMA PayloadsDiffer ==
  ASSUME LineInv, NEW i \in 0 .. Len(pending), NEW j \in 0 .. Len(pending), i # j,
         Job(i).op \in WrittenOnes, Job(j).op \in WrittenOnes
  PROVE  Job(i).payload # Job(j).payload
<1>1. /\ Len(pending) \in Nat
      /\ \A k \in 0 .. Len(pending) : Job(k) \in Mutations
  BY JobIsTyped DEF LineInv, Line, Durable
<1>2. Job(i).payload \in Nat /\ Job(j).payload \in Nat
  BY <1>1, MutationIsUsed
<1>3. i < j => Job(i).payload < Job(j).payload
  BY DEF LineInv, Line, Ordered, Behind
<1>4. j < i => Job(j).payload < Job(i).payload
  BY DEF LineInv, Line, Ordered, Behind
<1> QED
  BY <1>1, <1>2, <1>3, <1>4

LEMMA WaitingOKKept ==
  ASSUME ReleasedInv, [Next]_vars
  PROVE  WaitingOK'
<1>0. /\ LineInv /\ TypeOK /\ Len(pending) \in Nat
      /\ \A k \in 1 .. Len(pending) : Job(k) = pending[k] /\ k \in 0 .. Len(pending) /\ k # 0
      /\ Job(0) = running /\ 0 \in 0 .. Len(pending)
  <2>1. LineInv /\ TypeOK
    BY DEF ReleasedInv, FilesInv, LineInv, Line, Durable
  <2> QED
    BY <2>1, JobIsTyped
<1>1. SUFFICES ASSUME NEW i \in 1 .. Len(pending')
               PROVE  /\ pending'[i].op \in WrittenOnes =>
                           pending'[i].payload \notin released' \ {None}
                      /\ pending'[i].op = "update" => pending'[i].payload \notin written'
  BY DEF WaitingOK, Gone
<1>2. CASE Crash
  BY <1>2 DEF Crash
<1>3. ASSUME NEW k \in 1 .. Len(pending), pending[k].op = "update"
      PROVE  pending[k].payload \notin written'
  <2>1. pending[k].payload \notin written /\ pending[k].op \in WrittenOnes
    BY <1>3 DEF ReleasedInv, WaitingOK, WrittenOnes
  <2>2. ASSUME Pledged(pending[k].payload)
        PROVE  FALSE
    <3>1. PICK j \in 1 .. Len(pending) :
            pending[j].op = "enqueue" /\ pending[j].payload = pending[k].payload
      BY <2>2 DEF Pledged
    <3> QED
      BY <1>0, <1>3, <2>1, <3>1, PayloadsDiffer DEF WrittenOnes
  <2>3. running.op \in WrittenOnes => running.payload # pending[k].payload
    BY <1>0, <2>1, PayloadsDiffer
  <2>4. /\ stage = "restoring" /\ running.op \in {"update", "remove"} =>
             leaving \in written \/ Pledged(leaving)
        /\ Waits("clear", "restoring") => \A m \in clear.left : Pledged(clear.keep[m])
    BY DEF ReleasedInv, PutBackOK
  <2> QED
    BY <2>1, <2>2, <2>3, <2>4, WrittenSteps
<1>4. CASE \E k \in 1 .. Len(pending) : pending'[i] = pending[k]
  BY <1>3, <1>4, WaitingIsNotReleased
<1>5. CASE Asked(pending'[i])
  <2>1. pending'[i].op \in WrittenOnes =>
          pending'[i].payload = payloads' /\ payloads' = payloads + 1
    BY <1>5 DEF Asked, WrittenOnes, Enqueue, Update
  <2>2. pending'[i].op \in WrittenOnes =>
          pending'[i].payload \notin written' \cup released'
    BY <2>1, SpentBefore
  <2> QED
    BY <2>2 DEF WrittenOnes
<1> QED
  BY <1>0, <1>2, <1>4, <1>5, PendingSteps

\* A mutation that puts back waits for it since a write or a removal came back.
LEMMA RestoringSteps ==
  ASSUME TypeOK, [Next]_vars, stage' = "restoring"
  PROVE  \/ /\ stage = "restoring" /\ running' = running /\ leaving' = leaving
            /\ released' = released
            /\ running.op # "clear" => written' = written
            /\ running.op = "clear" =>
                 clear'.left \subseteq clear.left /\ clear'.keep = clear.keep
            /\ pending' = pending \/ Callers
         \/ UpdateWritten /\ LostRace(running) /\ stage' = "restoring"
         \/ FileRemoved /\ RemovalCanceled(running) /\ stage' = "restoring"
         \/ ClearRemoved
<1>0. clear \in Clears
  BY DEF TypeOK
<1>1. CASE Callers
  BY <1>1, CallersFrame DEF ClearEnvironment, historyVars
<1>2. CASE Starting
  BY <1>2, BeginsAs
<1>3. ASSUME NEW m \in Messages, ClearRestores(m)
      PROVE  /\ stage = "restoring" /\ running' = running /\ leaving' = leaving
             /\ released' = released /\ pending' = pending /\ running.op = "clear"
             /\ clear'.left \subseteq clear.left /\ clear'.keep = clear.keep
  BY <1>0, <1>3 DEF ClearRestores, Waits, Clears
<1>4. CASE Proceeding
  <2>1. CASE UpdateWritten
    BY <2>1 DEF UpdateWritten, Ends
  <2>2. CASE FileRemoved
    BY <2>2 DEF FileRemoved, Ends
  <2>3. CASE ClearRemoved
    BY <2>3
  <2>4. CASE \E m \in Messages : ClearRestores(m)
    BY <1>3, <2>4
  <2>5. CASE ~(UpdateWritten \/ FileRemoved \/ ClearRemoved)
             /\ ~(\E m \in Messages : ClearRestores(m))
    BY <1>4, <2>5 DEF Proceeding, Enqueuing, Updating, Removing, Clearing, EnqueueWritten,
       EnqueueWriteFails, EnqueueFileDropped, UpdateWriteFails, UpdateWinnerRestored,
       FileRemovalFails, RemovalUndone, Loaded, ClearLoads, ClearLoadFails, ClearRemoves,
       ClearFinishes, Ends, Waits
  <2> QED
    BY <2>1, <2>2, <2>3, <2>4, <2>5
<1>5. CASE Crash
  BY <1>5 DEF Crash
<1>6. CASE UNCHANGED vars
  BY <1>6 DEF vars, mutationVars, historyVars
<1> QED
  BY <1>1, <1>2, <1>4, <1>5, <1>6, StepKinds

LEMMA PledgedKept ==
  ASSUME TypeOK, pending' = pending \/ Callers, NEW p, Pledged(p)
  PROVE  Pledged(p)'
<1>0. pending \in Seq(Mutations) /\ Len(pending) \in Nat
  BY DEF TypeOK
<1>1. PICK i \in 1 .. Len(pending) : pending[i].op = "enqueue" /\ pending[i].payload = p
  BY DEF Pledged
<1>2. CASE pending' = pending
  BY <1>1, <1>2 DEF Pledged
<1>3. ASSUME NEW c \in Mutations, pending' = Append(pending, c)
      PROVE  i \in 1 .. Len(pending') /\ pending'[i] = pending[i]
  BY <1>0, <1>3
<1> QED
  BY <1>1, <1>2, <1>3, Submitted DEF Pledged, Submit

LEMMA PutBackOKKept ==
  ASSUME ReleasedInv, [Next]_vars
  PROVE  PutBackOK'
<1>0. /\ LineInv /\ TypeOK /\ None = 0 /\ clear \in Clears
      /\ clear.gone \subseteq Messages /\ clear.left \subseteq Messages
      /\ \A m \in Messages : memory[m] \notin Gone
      /\ written \subseteq written'
  <2>1. LineInv /\ TypeOK
    BY DEF ReleasedInv, FilesInv, LineInv, Line, Durable
  <2> QED
    BY <2>1, SpentBefore, ClearIsUsed DEF TypeOK, None, ReleasedInv, GoneOK
<1>1. SUFFICES ASSUME stage' = "restoring"
               PROVE  PutBackOK'
  BY DEF PutBackOK, Waits
<1>2. CASE /\ stage = "restoring" /\ running' = running /\ leaving' = leaving
           /\ released' = released
           /\ running.op = "clear" =>
                clear'.left \subseteq clear.left /\ clear'.keep = clear.keep
           /\ pending' = pending \/ Callers
  <2>1. \A p : Pledged(p) => Pledged(p)'
    BY <1>0, <1>2, PledgedKept
  <2>2. Gone' = Gone
    BY <1>2 DEF Gone
  <2>3. /\ running.op \in {"update", "remove"} =>
             leaving \notin Gone /\ (leaving \in written' \/ Pledged(leaving))
        /\ running.op = "clear" =>
             \A m \in clear.left : clear.keep[m] \notin Gone /\ Pledged(clear.keep[m])
    BY <1>0, <1>2 DEF ReleasedInv, PutBackOK, Waits
  <2>4. running.op \in {"update", "remove"} =>
          leaving' \notin Gone' /\ (leaving' \in written' \/ \E p : p = leaving' /\ Pledged(p)')
    BY <1>2, <2>1, <2>2, <2>3
  <2>5. running.op = "clear" =>
          \A m \in clear'.left :
            clear'.keep[m] \notin Gone' /\ \E p : p = clear'.keep[m] /\ Pledged(p)'
    BY <1>2, <2>1, <2>2, <2>3
  <2> QED
    BY <1>2, <2>4, <2>5 DEF PutBackOK, Waits, Pledged
<1>3. ASSUME UpdateWritten \/ FileRemoved, LostRace(running) \/ RemovalCanceled(running),
             UpdateWritten => LostRace(running), FileRemoved => RemovalCanceled(running)
      PROVE  PutBackOK'
  <2>1. /\ running.op \in {"update", "remove"}
        /\ leaving' = memory[running.id] /\ released' = released
        /\ stage' = "restoring" /\ memory[running.id] # None
        /\ running' = running /\ pending' = pending
        /\ running.op = "update" <=> UpdateWritten
        /\ running.op = "update" => stage = "writing"
        /\ running.op = "remove" => stage = "removing"
    BY <1>1, <1>3 DEF UpdateWritten, FileRemoved, Waits, Ends
  <2>2. PICK id \in Messages : id = running.id
    BY <1>0, <2>1, MutationIsUsed DEF TypeOK
  <2>3. CASE UpdateWritten
    <3>1. revisions[id] = running.expected \/ Promised(id)
      BY <2>1, <2>2, <2>3 DEF ReleasedInv, FilesInv, StagesOK, UpdateOK, Waits
    <3>2. Promised(id)
      BY <1>3, <2>1, <2>2, <2>3, <3>1 DEF LostRace, StaleOrMissing
    <3>3. Pledged(memory[id])
      BY <3>2 DEF Promised, Carries, Pledged
    <3> QED
      BY <1>0, <2>1, <2>2, <3>3 DEF PutBackOK, Waits, Pledged, Gone
  <2>4. CASE FileRemoved
    <3>1. memory[id] \in written \/ Promised(id)
      BY <1>0, <2>1, <2>2, <2>4 DEF LineInv, Line, Durable, StillToWrite, Promised, Carries
    <3>2. memory[id] \in written' \/ Pledged(memory[id])
      BY <1>0, <3>1 DEF Promised, Carries, Pledged
    <3> QED
      BY <1>0, <2>1, <2>2, <3>2 DEF PutBackOK, Waits, Pledged, Gone
  <2> QED
    BY <1>3, <2>3, <2>4
<1>4. CASE ClearRemoved
  <2>1. /\ Cleaning /\ running' = running /\ running.op = "clear" /\ pending' = pending
        /\ released' = released /\ clear'.keep = memory /\ clear'.left = Retained
    BY <1>0, <1>4 DEF ClearRemoved, Cleaning, Waits, historyVars, Clears
  <2>2. ASSUME NEW m \in Retained
        PROVE  m \in Messages /\ Pledged(memory[m])
    <3>1. m \in Messages /\ m \in clear.gone /\ revisions[m] # clear.revisions[m]
      BY <1>0 DEF Retained
    <3>2. Promised(m)
      BY <2>1, <3>1 DEF ReleasedInv, FilesInv, StagesOK, ClearOK
    <3> QED
      BY <3>1, <3>2 DEF Promised, Carries, Pledged
  <2>3. \A m \in clear'.left : clear'.keep[m] \notin Gone' /\ Pledged(clear'.keep[m])
    BY <1>0, <2>1, <2>2 DEF Gone
  <2> QED
    BY <2>1, <2>3 DEF PutBackOK, Waits, Pledged
<1>5. ~(UpdateWritten /\ FileRemoved)
  BY DEF UpdateWritten, FileRemoved, Waits
<1> QED
  BY <1>0, <1>1, <1>2, <1>3, <1>4, <1>5, RestoringSteps

\* A clear removes and puts back since it has loaded.
LEMMA CleaningSteps ==
  ASSUME TypeOK, [Next]_vars, Cleaning'
  PROVE  ClearLoads \/ (Cleaning /\ ~ClearEnvironment)
<1>1. CASE Callers
  BY <1>1 DEF Callers, Cleaning, ClearEnvironment
<1>2. CASE Starting
  BY <1>2, BeginsAs, NoMutationIsTyped DEF Cleaning
<1>3. CASE Proceeding
  <2>1. running' = running /\ running.op = "clear" /\ ~ClearEnvironment
    BY <1>3, ProceedingFrame, NoMutationIsTyped DEF Cleaning, ClearEnvironment
  <2> QED
    BY <1>3, <2>1 DEF Proceeding, Enqueuing, Updating, Removing, Loaded, Clearing, Cleaning,
       EnqueueWritten, EnqueueWriteFails, EnqueueFileDropped, UpdateWritten, UpdateWriteFails,
       UpdateWinnerRestored, FileRemoved, FileRemovalFails, RemovalUndone, ClearLoadFails,
       ClearRemoved, ClearFinishes, ClearRemoves, ClearRestores, Ends, Waits
<1>4. CASE Crash
  BY <1>4, NoMutationIsTyped DEF Crash, Cleaning
<1>5. CASE UNCHANGED vars
  BY <1>5 DEF vars, mutationVars, Cleaning, ClearEnvironment
<1> QED
  BY <1>1, <1>2, <1>3, <1>4, <1>5, StepKinds

\* A removal waits for the file to be removed since it was started.
LEMMA RemovingSteps ==
  ASSUME TypeOK, [Next]_vars, Waits("remove", "removing")'
  PROVE  \/ Waits("remove", "removing") /\ running' = running /\ (Callers \/ UNCHANGED vars)
         \/ BeginRemove /\ running' = Head(pending) /\ ~RemovalCanceled(Head(pending))
<1>1. CASE Callers
  BY <1>1 DEF Callers, Waits
<1>2. CASE Starting
  <2>1. BeginRemove /\ running' = Head(pending)
    BY <1>2, BeginsAs, NoMutationIsTyped DEF Waits
  <2>2. RemovalCanceled(Head(pending)) => running' = running
    BY <2>1 DEF BeginRemove, Passes
  <2>3. running.op # "remove"
    BY <1>2, StartingFrame, NoMutationIsTyped
  <2> QED
    BY <2>1, <2>2, <2>3 DEF Waits
<1>3. CASE Proceeding
  <2>1. running' = running /\ running.op = "remove"
    BY <1>3, ProceedingFrame, NoMutationIsTyped DEF Waits
  <2> QED
    BY <1>3, <2>1 DEF Proceeding, Enqueuing, Updating, Removing, Loaded, Clearing, Ends,
       EnqueueWritten, EnqueueWriteFails, EnqueueFileDropped, UpdateWritten, UpdateWriteFails,
       UpdateWinnerRestored, FileRemoved, FileRemovalFails, RemovalUndone, ClearLoads,
       ClearLoadFails, ClearRemoved, ClearFinishes, ClearRemoves, ClearRestores, Waits
<1>4. CASE Crash
  BY <1>4, NoMutationIsTyped DEF Crash, Waits
<1>5. CASE UNCHANGED vars
  BY <1>5 DEF vars, mutationVars, Waits
<1> QED
  BY <1>1, <1>2, <1>3, <1>4, <1>5, StepKinds

LEMMA LeavesOKKept ==
  ASSUME ReleasedInv, ~PlainRemovals, [Next]_vars
  PROVE  LeavesOK'
<1>0. /\ LineInv /\ TypeOK /\ TypeOK' /\ None = 0 /\ NoMutation.op = "none"
      /\ written \subseteq written' /\ clear \in Clears
      /\ Job(0) = running /\ 0 \in 0 .. Len(pending)
  <2>1. LineInv /\ TypeOK /\ TypeOK'
    BY StepTyped DEF ReleasedInv, FilesInv, LineInv, Line, Durable
  <2>2. None = 0 /\ clear \in Clears
    BY <2>1 DEF TypeOK, None
  <2>3. written \subseteq written'
    BY <2>1, SpentBefore
  <2> QED
    BY <2>1, <2>2, <2>3, JobIsTyped, NoMutationIsTyped
<1>1. ASSUME NEW i \in 0 .. Len(pending'), (Job(i)').op = "remove"
      PROVE  (Job(i)').payload \in written'
  <2>1. CASE Job(i)' = NoMutation
    BY <1>0, <1>1, <2>1
  <2>2. CASE \E k \in 0 .. Len(pending) : Job(i)' = Job(k)
    BY <1>0, <1>1, <2>2 DEF ReleasedInv, LeavesOK
  <2>3. CASE Asked(Job(i)')
    <3>1. PICK w \in Writers : Remove(w) /\ (Job(i)').payload = holds[w].payload
      BY <1>1, <2>3 DEF Asked
    <3>2. Believes(holds[w])
      BY <3>1 DEF Remove, Believes
    <3> QED
      BY <1>0, <3>1, <3>2 DEF LineInv, Line, Durable, BelievedWasWritten
  <2> QED
    BY <1>0, <2>1, <2>2, <2>3, JobSteps
<1>2. ASSUME Waits("remove", "removing")', NEW id \in Messages, id = running'.id
      PROVE  /\ memory'[id] \in {None, leaving'} \/ Promised(id)'
             /\ memory'[id] = None => leaving' \in written'
  <2>1. CASE Waits("remove", "removing") /\ running' = running /\ Callers
    <3>1. /\ memory[id] \in {None, leaving} \/ Promised(id)
          /\ memory[id] = None => leaving \in written
      BY <1>2, <2>1 DEF ReleasedInv, LeavesOK
    <3>2. /\ Promised(id) => Promised(id)'
          /\ memory'[id] = memory[id] \/ Promised(id)'
          /\ LineInv' /\ leaving' = leaving
      BY <1>0, <2>1, CallersQuiet
    <3>3. Promised(id)' => memory'[id] # None
      BY <3>2, ShownNext
    <3> QED
      BY <1>0, <3>1, <3>2, <3>3
  <2>2. CASE Waits("remove", "removing") /\ running' = running /\ UNCHANGED vars
    <3>1. UNCHANGED <<memory, pending, leaving, written>>
      BY <2>2 DEF vars, queueVars, mutationVars, historyVars
    <3>2. /\ memory[id] \in {None, leaving} \/ Promised(id)
          /\ memory[id] = None => leaving \in written
      BY <1>2, <2>2 DEF ReleasedInv, LeavesOK
    <3>3. Promised(id)' <=> Promised(id)
      BY <3>1 DEF Promised, Carries
    <3> QED
      BY <3>1, <3>2, <3>3
  <2>3. CASE BeginRemove /\ running' = Head(pending) /\ ~RemovalCanceled(Head(pending))
    <3>1. /\ leaving' = IF memory[id] # None THEN memory[id] ELSE Head(pending).payload
          /\ memory' = memory /\ Head(pending).op = "remove" /\ pending # <<>>
      BY <1>2, <2>3 DEF BeginRemove, Starts, queueVars
    <3>2. Head(pending) = Job(1) /\ 1 \in 0 .. Len(pending)
      BY <1>0, <3>1, HeadAndTail DEF TypeOK, Job
    <3>3. Head(pending).payload \in written
      BY <3>1, <3>2 DEF ReleasedInv, LeavesOK
    <3> QED
      BY <1>0, <3>1, <3>3
  <2> QED
    BY <1>0, <1>2, <2>1, <2>2, <2>3, RemovingSteps
<1>3. ASSUME Cleaning', NEW m \in clear'.left \cup clear'.gone
      PROVE  clear'.all[m] \in written'
  <2>1. CASE ClearLoads
    <3>1. Waits("clear", "loading") /\ written' = written
      BY <2>1 DEF ClearLoads, historyVars
    <3>2. clear.gone = {}
      BY <1>0, <3>1 DEF LineInv, Line, Taken, Waits
    <3>3. /\ clear'.gone = {} /\ m \in Messages /\ clear'.all[m] # None /\ Unchanged(m)
          /\ clear'.all[m] = IF memory[m] # None THEN memory[m] ELSE disk[m]
      <4>1. /\ clear'.all = [n \in Messages |-> IF memory[n] # None THEN memory[n] ELSE disk[n]]
            /\ clear'.left = {n \in Environment : clear'.all[n] # None /\ Unchanged(n)}
            /\ clear'.gone = {}
        BY <1>0, <2>1, <3>2 DEF ClearLoads, Clears
      <4> QED
        BY <1>3, <4>1, OutboxAssumption
    <3>4. ~Promised(m)
      BY <1>0, <3>1, <3>3, TakenIsAlone, WaitingIsPromised DEF LineInv, Unchanged, Waits
    <3>5. memory[m] # None => memory[m] \in written
      BY <1>0, <3>1, <3>3, <3>4 DEF LineInv, Line, Durable, StillToWrite, Waits, Promised
    <3> QED
      BY <1>0, <3>1, <3>3, <3>5 DEF LineInv, Line, Durable, FilesWereWritten
  <2>2. CASE Cleaning /\ ~ClearEnvironment /\ ~ClearLoads
    <3>1. ~Crash
      BY <1>0, <1>3 DEF Crash, Cleaning
    <3>2. /\ clear'.all = clear.all
          /\ clear'.left \cup clear'.gone \subseteq clear.left \cup clear.gone
      BY <1>0, <2>2, <3>1, ClearSteps
    <3> QED
      BY <1>0, <1>3, <2>2, <3>2 DEF ReleasedInv, LeavesOK
  <2> QED
    BY <1>0, <1>3, <2>1, <2>2, CleaningSteps
<1>4. Waits("remove", "removing")' => running'.id \in Messages
  BY <1>0, MutationIsUsed DEF TypeOK, Waits
<1>5. Waits("remove", "removing")' =>
        /\ memory'[running'.id] \in {None, leaving'} \/ Promised(running.id)'
        /\ memory'[running'.id] = None => leaving' \in written'
  BY <1>2, <1>4 DEF Promised, Carries
<1> QED
  BY <1>1, <1>3, <1>5 DEF LeavesOK

-----------------------------------------------------------------------------
(* Where a payload is remembered after a step, it was before, for the same *)
(* message, or it is new.                                                  *)

Makes(p, m) ==
  /\ p = payloads' /\ payloads' = payloads + 1
  /\ Enqueue(m) \/ \E w \in Writers : Update(w) /\ m = holds[w].id

LEMMA BelongingJobs ==
  ASSUME TypeOK, NEW i \in 0 .. Len(pending), NEW m
  PROVE  Job(i).id = m => Belongs(Job(i).payload, m)
BY DEF Belongs

LEMMA MemoryBelongs ==
  ASSUME TypeOK, [Next]_vars, NEW m \in Messages, memory'[m] # None
  PROVE  Belongs(memory'[m], m) \/ Makes(memory'[m], m)
<1>0. /\ memory \in PayloadMap /\ disk \in PayloadMap /\ clear \in Clears
      /\ Job(0) = running /\ 0 \in 0 .. Len(pending) /\ payloads \in Nat
  BY JobIsTyped DEF TypeOK
<1>1. CASE memory'[m] \in {memory[m], disk[m], clear.all[m]}
  BY <1>1 DEF Belongs
<1>2. CASE Callers
  <2>1. ASSUME NEW n \in Messages, Enqueue(n), n = m
        PROVE  Makes(memory'[m], m)
    BY <1>0, <2>1 DEF Enqueue, Makes, PayloadMap
  <2>2. ASSUME NEW n \in Messages, Enqueue(n), n # m
        PROVE  memory'[m] = memory[m]
    BY <1>0, <2>2 DEF Enqueue, PayloadMap
  <2> QED
    BY <1>1, <1>2, <2>1, <2>2, CallersFrame DEF queueVars
<1>3. CASE Starting
  BY <1>1, <1>3, StartingFrame DEF queueVars
<1>4. CASE EnqueueWriteFails
  BY <1>0, <1>1, <1>4 DEF EnqueueWriteFails, PayloadMap
<1>5. CASE UpdateWritten
  <2>1. \/ memory'[m] = memory[m]
        \/ m = running.id /\ memory'[m] = running.payload
    BY <1>0, <1>5 DEF UpdateWritten, PayloadMap, queueVars
  <2> QED
    BY <1>0, <1>1, <2>1, BelongingJobs
<1>6. CASE FileRemoved
  BY <1>0, <1>1, <1>6 DEF FileRemoved, PayloadMap, queueVars
<1>7. CASE Loaded
  BY <1>1, <1>7 DEF Loaded
<1>8. CASE ClearFinishes
  BY <1>1, <1>8 DEF ClearFinishes
<1>9. CASE /\ Proceeding
           /\ ~(EnqueueWriteFails \/ UpdateWritten \/ FileRemoved \/ Loaded \/ ClearFinishes)
  <2>1. memory' = memory
    BY <1>9 DEF Proceeding, Enqueuing, Updating, Removing, Clearing, EnqueueWritten,
       EnqueueFileDropped, UpdateWriteFails, UpdateWinnerRestored, FileRemovalFails,
       RemovalUndone, ClearLoads, ClearLoadFails, ClearRemoved, ClearRemoves, ClearRestores,
       queueVars
  <2> QED
    BY <1>1, <2>1
<1>10. CASE Crash
  BY <1>10 DEF Crash, Nothing
<1>11. CASE UNCHANGED vars
  BY <1>1, <1>11 DEF vars, queueVars
<1> QED
  BY <1>2, <1>3, <1>4, <1>5, <1>6, <1>7, <1>8, <1>9, <1>10, <1>11, StepKinds

LEMMA DiskBelongs ==
  ASSUME TypeOK, [Next]_vars, NEW m \in Messages, disk'[m] # None
  PROVE  Belongs(disk'[m], m)
<1>0. /\ disk \in PayloadMap /\ Job(0) = running /\ 0 \in 0 .. Len(pending)
  BY JobIsTyped DEF TypeOK
<1>1. CASE disk'[m] = disk[m]
  BY <1>1 DEF Belongs
<1>2. CASE m = running.id /\ disk'[m] = running.payload
  BY <1>0, <1>2, BelongingJobs
<1>3. CASE Leaves(m) /\ disk'[m] = leaving
  BY <1>3 DEF Belongs
<1>4. CASE disk'[m] = clear.keep[m]
  BY <1>4 DEF Belongs
<1>5. CASE Callers \/ Starting \/ Crash \/ UNCHANGED vars
  <2>1. disk' = disk
    BY <1>5, CallersFrame, StartingFrame DEF Crash, vars
  <2> QED
    BY <1>1, <2>1
<1>6. CASE EnqueueWritten \/ EnqueueFileDropped
  BY <1>0, <1>1, <1>2, <1>6 DEF EnqueueWritten, EnqueueFileDropped, StoreWrites, StoreRemoves,
     PayloadMap
<1>7. CASE UpdateWritten
  BY <1>0, <1>1, <1>2, <1>7 DEF UpdateWritten, StoreWrites, PayloadMap
<1>8. CASE UpdateWinnerRestored
  BY <1>0, <1>1, <1>3, <1>8 DEF UpdateWinnerRestored, StoreWrites, PayloadMap, Leaves
<1>9. CASE FileRemoved
  BY <1>0, <1>1, <1>9 DEF FileRemoved, StoreRemoves, PayloadMap
<1>10. CASE RemovalUndone
  BY <1>0, <1>1, <1>3, <1>10 DEF RemovalUndone, StoreWrites, PayloadMap, Leaves, Waits
<1>11. ASSUME NEW n \in Messages, ClearRemoves(n) \/ ClearRestores(n)
       PROVE  disk'[m] \in {disk[m], None, clear.keep[m]}
  BY <1>0, <1>11 DEF ClearRemoves, ClearRestores, StoreWrites, StoreRemoves, PayloadMap
<1>12. CASE \E n \in Messages : ClearRemoves(n) \/ ClearRestores(n)
  BY <1>1, <1>4, <1>11, <1>12
<1>13. CASE /\ Proceeding
            /\ ~(EnqueueWritten \/ EnqueueFileDropped \/ UpdateWritten \/ UpdateWinnerRestored
                   \/ FileRemoved \/ RemovalUndone)
            /\ ~(\E n \in Messages : ClearRemoves(n) \/ ClearRestores(n))
  <2>1. disk' = disk
    BY <1>13 DEF Proceeding, Enqueuing, Updating, Removing, Clearing, EnqueueWriteFails,
       UpdateWriteFails, FileRemovalFails, Loaded, ClearLoads, ClearLoadFails, ClearRemoved,
       ClearFinishes
  <2> QED
    BY <1>1, <2>1
<1> QED
  BY <1>5, <1>6, <1>7, <1>8, <1>9, <1>10, <1>12, <1>13, StepKinds

LEMMA ClearBelongs ==
  ASSUME TypeOK, [Next]_vars, NEW m \in Messages
  PROVE  /\ clear'.all[m] # None => Belongs(clear'.all[m], m)
         /\ clear'.keep[m] # None => Belongs(clear'.keep[m], m)
<1>0. clear \in Clears /\ memory \in PayloadMap
  BY DEF TypeOK
<1>1. CASE clear' = NoClear
  BY <1>1 DEF NoClear, Nothing
<1>2. CASE clear'.all = clear.all /\ clear'.keep = clear.keep
  BY <1>2 DEF Belongs
<1>3. CASE ClearEnvironment
  <2>1. clear'.all = Nothing /\ clear'.keep = Nothing
    BY <1>3 DEF ClearEnvironment, NoClear
  <2> QED
    BY <2>1 DEF Nothing
<1>4. CASE ClearLoads
  <2>1. /\ clear'.keep = clear.keep
        /\ clear'.all = [n \in Messages |-> IF memory[n] # None THEN memory[n] ELSE disk[n]]
    BY <1>0, <1>4 DEF ClearLoads, Clears
  <2> QED
    BY <2>1 DEF Belongs
<1>5. CASE ClearRemoved
  <2>1. clear'.keep = memory /\ clear'.all = clear.all
    BY <1>0, <1>5 DEF ClearRemoved, Clears
  <2> QED
    BY <2>1 DEF Belongs
<1>6. ASSUME NEW n \in Messages, ClearRemoves(n) \/ ClearRestores(n)
      PROVE  clear'.all = clear.all /\ clear'.keep = clear.keep
  BY <1>0, <1>6 DEF ClearRemoves, ClearRestores, Clears
<1>7. CASE /\ Callers \/ Starting \/ Proceeding
           /\ ~(ClearEnvironment \/ ClearLoads \/ ClearRemoved)
           /\ ~(\E n \in Messages : ClearRemoves(n) \/ ClearRestores(n))
  <2>1. Callers \/ Starting => clear' = clear
    BY <1>7, CallersFrame, StartingFrame
  <2>2. Proceeding => clear' = clear
    BY <1>7 DEF Proceeding, Enqueuing, Updating, Removing, Clearing, EnqueueWritten,
       EnqueueWriteFails, EnqueueFileDropped, UpdateWritten, UpdateWriteFails,
       UpdateWinnerRestored, FileRemoved, FileRemovalFails, RemovalUndone, Loaded,
       ClearLoadFails, ClearFinishes
  <2> QED
    BY <1>2, <1>7, <2>1, <2>2
<1>8. CASE Crash
  BY <1>1, <1>8 DEF Crash
<1>9. CASE UNCHANGED vars
  BY <1>2, <1>9 DEF vars, mutationVars
<1> QED
  BY <1>2, <1>3, <1>4, <1>5, <1>6, <1>7, <1>8, <1>9, StepKinds

LEMMA JobsBelong ==
  ASSUME TypeOK, ~PlainRemovals, [Next]_vars, NEW m \in Messages, NEW i \in 0 .. Len(pending'),
         (Job(i)').id = m
  PROVE  Belongs((Job(i)').payload, m) \/ Makes((Job(i)').payload, m)
<1>0. m # NoMessage /\ NoMutation.id = NoMessage /\ payloads \in Nat
  BY OutboxAssumption DEF NoMutation, Mutation, TypeOK
<1>1. CASE \E k \in 0 .. Len(pending) : Job(i)' = Job(k)
  BY <1>1 DEF Belongs
<1>2. CASE Asked(Job(i)')
  <2>1. CASE Enqueue(m) /\ (Job(i)').payload = payloads'
    BY <2>1 DEF Makes, Enqueue
  <2>2. CASE \E w \in Writers : Update(w) /\ m = holds[w].id /\ (Job(i)').payload = payloads'
    BY <2>2 DEF Makes, Update
  <2>3. CASE \E w \in Writers : m = holds[w].id /\ (Job(i)').payload = holds[w].payload
    BY <2>3 DEF Belongs
  <2>4. CASE (Job(i)').payload = memory[m]
    BY <2>4 DEF Belongs
  <2> QED
    BY <1>0, <1>2, <2>1, <2>2, <2>3, <2>4 DEF Asked
<1> QED
  BY <1>0, <1>1, <1>2, JobSteps

LEMMA LeavingBelongs ==
  ASSUME TypeOK, [Next]_vars, NEW m \in Messages, Leaves(m)'
  PROVE  Belongs(leaving', m)
<1>0. /\ m # NoMessage /\ NoMutation.id = NoMessage /\ NoMutation.op = "none"
      /\ running'.id = m
      /\ running'.op = "remove" \/ (running'.op = "update" /\ stage' = "restoring")
  BY OutboxAssumption, NoMutationIsTyped DEF NoMutation, Mutation, Leaves, Waits
<1>1. ASSUME UNCHANGED <<running, stage, leaving>>
      PROVE  Belongs(leaving', m)
  BY <1>0, <1>1 DEF Belongs, Leaves, Waits
<1>2. CASE Callers \/ UNCHANGED vars
  BY <1>1, <1>2 DEF Callers, vars, mutationVars
<1>3. CASE Starting
  <2>1. running' = Head(pending) /\ BeginRemove /\ pending # <<>>
    BY <1>0, <1>3, BeginsAs, StartingFrame
  <2>2. Head(pending) = Job(1) /\ 1 \in 0 .. Len(pending)
    BY <2>1, HeadAndTail DEF TypeOK, Job
  <2>3. running.op = "none"
    BY <1>0, <1>3, StartingFrame
  <2>4. leaving' \in {memory[m], Head(pending).payload}
    BY <1>0, <2>1, <2>3 DEF BeginRemove, Passes
  <2> QED
    BY <1>0, <2>1, <2>2, <2>4, BelongingJobs DEF Belongs
<1>4. CASE Proceeding
  <2>1. running' = running
    BY <1>0, <1>4, ProceedingFrame
  <2>2. (UpdateWritten \/ FileRemoved) /\ leaving' = memory[m]
    BY <1>0, <1>4, <2>1 DEF Proceeding, Enqueuing, Updating, Removing, Loaded, Clearing, Ends,
       EnqueueWritten, EnqueueWriteFails, EnqueueFileDropped, UpdateWritten, UpdateWriteFails,
       UpdateWinnerRestored, FileRemoved, FileRemovalFails, RemovalUndone, ClearLoads,
       ClearLoadFails, ClearRemoved, ClearFinishes, ClearRemoves, ClearRestores, Waits
  <2> QED
    BY <2>2 DEF Belongs
<1>5. CASE Crash
  BY <1>0, <1>5 DEF Crash
<1> QED
  BY <1>2, <1>3, <1>4, <1>5, StepKinds

LEMMA HoldsBelong ==
  ASSUME TypeOK, [Next]_vars, NEW m \in Messages, NEW w \in Writers, holds'[w].id = m
  PROVE  Belongs(holds'[w].payload, m)
<1>0. /\ holds \in [Writers -> Holds] /\ holds[w] \in Holds
      /\ NoHold.id = NoMessage /\ m # NoMessage
      /\ pending \in Seq(Mutations) /\ Len(pending) \in Nat
      /\ Job(0) = running /\ 0 \in 0 .. Len(pending)
  BY JobIsTyped, OutboxAssumption DEF TypeOK, NoHold, Hold
<1>1. CASE holds'[w] = holds[w]
  BY <1>1 DEF Belongs
<1>2. CASE holds'[w].payload = memory[m]
  BY <1>2 DEF Belongs
<1>3. CASE Callers
  <2>1. ASSUME NEW v \in Writers, NEW n \in Messages, ConfirmQueued(v, n) \/ OpenEditor(v, n)
        PROVE  holds'[w] = holds[w] \/ holds'[w].payload = memory[m]
    <3>1. PICK h : h.id = n /\ h.payload = memory[n] /\ holds' = [holds EXCEPT ![v] = h]
      <4>1. /\ Hold("confirming", n, memory[n], 0, TRUE).id = n
            /\ Hold("confirming", n, memory[n], 0, TRUE).payload = memory[n]
        BY DEF Hold
      <4>2. /\ Hold("ready", n, memory[n], revisions[n], FALSE).id = n
            /\ Hold("ready", n, memory[n], revisions[n], FALSE).payload = memory[n]
        BY DEF Hold
      <4>3. \/ holds' = [holds EXCEPT ![v] = Hold("confirming", n, memory[n], 0, TRUE)]
            \/ holds' = [holds EXCEPT ![v] = Hold("ready", n, memory[n], revisions[n], FALSE)]
        BY <2>1 DEF ConfirmQueued, AwaitsConfirmation, OpenEditor
      <4> QED
        BY <4>1, <4>2, <4>3
    <3> QED
      BY <1>0, <3>1
  <2>2. ASSUME NEW v \in Writers, Capture(v)
        PROVE  holds'[w] = holds[w] \/ holds'[w].payload = memory[m]
    <3> DEFINE n == holds[v].id
               h == Hold("ready", n, memory[n], revisions[n], TRUE)
    <3>1. holds' = [holds EXCEPT ![v] = IF memory[n] = holds[v].payload THEN h ELSE NoHold]
      BY <2>2 DEF Capture
    <3>2. h.id = n /\ h.payload = memory[n]
      BY DEF Hold
    <3> HIDE DEF h
    <3> QED
      BY <1>0, <3>1, <3>2
  <2>3. ASSUME NEW v \in Writers, Update(v) \/ Remove(v) \/ GiveUp(v)
        PROVE  \/ holds'[w] = holds[w]
               \/ holds[w].id = m /\ holds'[w].payload = holds[w].payload
    <3>1. holds[v].status = "ready" /\ holds[v] \in Holds
      BY <1>0, <2>3 DEF Update, Remove, GiveUp
    <3>2. \/ holds' = [holds EXCEPT ![v].status = "updating"]
          \/ holds' = [holds EXCEPT ![v].status = "removing"]
          \/ holds' = [holds EXCEPT ![v] = NoHold]
      BY <2>3 DEF Update, Remove, GiveUp
    <3>3. /\ [holds[v] EXCEPT !.status = "updating"].id = holds[v].id
          /\ [holds[v] EXCEPT !.status = "removing"].id = holds[v].id
          /\ [holds[v] EXCEPT !.status = "updating"].payload = holds[v].payload
          /\ [holds[v] EXCEPT !.status = "removing"].payload = holds[v].payload
      BY <3>1, HoldMoves DEF Holds
    <3> QED
      BY <1>0, <3>2, <3>3
  <2>4. ASSUME \/ \E n \in Messages : Enqueue(n) \/ RemovePlainly(n) \/ ToggleEditing(n)
               \/ ClearEnvironment \/ Load
        PROVE  holds' = holds
    BY <2>4 DEF Enqueue, RemovePlainly, ToggleEditing, ClearEnvironment, Load, callerVars
  <2>5. ASSUME holds[w].id = m, holds'[w].payload = holds[w].payload
        PROVE  Belongs(holds'[w].payload, m)
    BY <2>5 DEF Belongs
  <2> QED
    BY <1>1, <1>2, <1>3, <2>1, <2>2, <2>3, <2>4, <2>5 DEF Callers
<1>4. CASE Confirm
  <2>1. pending # <<>>
    BY <1>4 DEF Confirm, Starts
  <2>2. Head(pending) = Job(1) /\ 1 \in 0 .. Len(pending)
    BY <1>0, <2>1, HeadAndTail DEF Job
  <2>3. /\ Hold("confirmed", Head(pending).id, Head(pending).payload, 0, TRUE).id
             = Head(pending).id
        /\ Hold("confirmed", Head(pending).id, Head(pending).payload, 0, TRUE).payload
             = Head(pending).payload
    BY DEF Hold
  <2>4. \/ holds'[w] = holds[w]
        \/ holds'[w] = NoHold
        \/ holds'[w] = Hold("confirmed", Head(pending).id, Head(pending).payload, 0, TRUE)
    BY <1>0, <1>4 DEF Confirm, Answers
  <2> QED
    BY <1>0, <1>1, <2>2, <2>3, <2>4, BelongingJobs
<1>5. CASE UpdateWritten
  <2>1. \/ holds' = holds
        \/ Answers(running, NoHold)
        \/ Answers(running, Hold("ready", running.id, running.payload, running.expected + 1,
                                 holds[running.by].confirmed))
    BY <1>5 DEF UpdateWritten
  <2>2. \A c : /\ Hold("ready", running.id, running.payload, running.expected + 1, c).id
                    = running.id
               /\ Hold("ready", running.id, running.payload, running.expected + 1, c).payload
                    = running.payload
    BY DEF Hold
  <2>3. \/ holds'[w] = holds[w] \/ holds'[w] = NoHold
        \/ holds'[w].id = running.id /\ holds'[w].payload = running.payload
    BY <1>0, <2>1, <2>2 DEF Answers
  <2> QED
    BY <1>0, <1>1, <2>3, BelongingJobs
<1>6. CASE \/ Starting /\ ~Confirm
           \/ Proceeding /\ ~UpdateWritten
  <2>1. \/ holds' = holds
        \/ \E c : Answers(c, NoHold)
    BY <1>6 DEF Starting, BeginEnqueue, BeginUpdate, BeginRemove, BeginLoading, Proceeding,
       Enqueuing, Updating, Removing, Clearing, EnqueueWritten, EnqueueWriteFails,
       EnqueueFileDropped, UpdateWriteFails, UpdateWinnerRestored, FileRemoved,
       FileRemovalFails, RemovalUndone, Loaded, ClearLoads, ClearLoadFails, ClearRemoved,
       ClearRemoves, ClearRestores, ClearFinishes
  <2>2. holds'[w] = holds[w] \/ holds'[w] = NoHold
    BY <1>0, <2>1 DEF Answers
  <2> QED
    BY <1>0, <1>1, <2>2
<1>7. CASE Crash
  BY <1>0, <1>7 DEF Crash
<1>8. CASE UNCHANGED vars
  BY <1>1, <1>8 DEF vars, callerVars
<1> QED
  BY <1>3, <1>4, <1>5, <1>6, <1>7, <1>8, StepKinds

LEMMA OwnedKept ==
  ASSUME ReleasedInv, ~PlainRemovals, [Next]_vars
  PROVE  Owned'
<1>0. /\ TypeOK /\ Durable /\ payloads \in Nat
      /\ \A m \in Messages : /\ memory[m] <= payloads /\ disk[m] <= payloads
                             /\ clear.all[m] <= payloads /\ clear.keep[m] <= payloads
      /\ leaving <= payloads
      /\ \A i \in 0 .. Len(pending) : Job(i).payload <= payloads
      /\ \A w \in Writers : holds[w].payload <= payloads
  <2>1. TypeOK /\ Durable
    BY DEF ReleasedInv, FilesInv, LineInv, Line, Durable
  <2>2. \A i \in 0 .. Len(pending) : Job(i).payload <= payloads
    BY <2>1 DEF Durable, MadeBefore, Job, TypeOK
  <2> QED
    BY <2>1, <2>2 DEF Durable, MadeBefore, TypeOK
<1>1. \A p, m : m \in Messages /\ Belongs(p, m) => p <= payloads
  BY <1>0 DEF Belongs
<1>2. ASSUME NEW m \in Messages, NEW p \in Nat, p # None, Belongs(p, m)'
      PROVE  Belongs(p, m) \/ Makes(p, m)
  <2>1. CASE p \in {memory'[m], disk'[m], clear'.all[m], clear'.keep[m]}
    BY <1>0, <1>2, <2>1, MemoryBelongs, DiskBelongs, ClearBelongs
  <2>2. CASE \E i \in 0 .. Len(pending') : (Job(i)').id = m /\ (Job(i)').payload = p
    BY <1>0, <2>2, JobsBelong
  <2>3. CASE Leaves(m)' /\ leaving' = p
    BY <1>0, <2>3, LeavingBelongs
  <2>4. CASE \E w \in Writers : holds'[w].id = m /\ holds'[w].payload = p
    BY <1>0, <2>4, HoldsBelong
  <2> QED
    BY <1>2, <2>1, <2>2, <2>3, <2>4 DEF Belongs
<1>3. ASSUME NEW m \in Messages, NEW n \in Messages, NEW p, Makes(p, m), Makes(p, n)
      PROVE  m = n
  <2>1. \A k \in Messages, v \in Writers : ~(Enqueue(k) /\ Update(v))
    <3> SUFFICES ASSUME NEW k \in Messages, NEW v \in Writers, Enqueue(k), Update(v)
                 PROVE  FALSE
      OBVIOUS
    <3>1. calls' = calls + 1 /\ calls' = calls /\ calls \in Nat
      BY <1>0 DEF Enqueue, Update, Call, TypeOK
    <3> QED
      BY <3>1
  <2>2. \A k, l \in Messages : Enqueue(k) /\ Enqueue(l) => k = l
    <3> SUFFICES ASSUME NEW k \in Messages, NEW l \in Messages, Enqueue(k), Enqueue(l), k # l
                 PROVE  FALSE
      OBVIOUS
    <3>1. /\ revisions' = [revisions EXCEPT ![k] = @ + 1]
          /\ revisions' = [revisions EXCEPT ![l] = @ + 1]
          /\ revisions \in PayloadMap /\ revisions[k] \in Nat
      BY <1>0 DEF Enqueue, Bumped, TypeOK, PayloadMap
    <3>2. revisions'[k] = revisions[k] + 1 /\ revisions'[k] = revisions[k]
      BY <3>1 DEF PayloadMap
    <3> QED
      BY <3>1, <3>2
  <2>3. \A v, w \in Writers : Update(v) /\ Update(w) => v = w
    <3> SUFFICES ASSUME NEW v \in Writers, NEW w \in Writers, Update(v), Update(w), v # w
                 PROVE  FALSE
      OBVIOUS
    <3>1. /\ holds' = [holds EXCEPT ![v].status = "updating"]
          /\ holds' = [holds EXCEPT ![w].status = "updating"]
          /\ holds[v].status = "ready" /\ holds \in [Writers -> Holds] /\ holds[v] \in Holds
      BY <1>0 DEF Update, TypeOK
    <3>2. holds'[v] = holds[v] /\ holds'[v] = [holds[v] EXCEPT !.status = "updating"]
      BY <3>1
    <3>3. [holds[v] EXCEPT !.status = "updating"].status = "updating"
      BY <3>1, HoldMoves
    <3> QED
      BY <3>1, <3>2, <3>3
  <2> QED
    BY <1>3, <2>1, <2>2, <2>3 DEF Makes
<1>4. ASSUME NEW m \in Messages, NEW n \in Messages, NEW p \in Nat, p # None,
             Belongs(p, m)', Belongs(p, n)'
      PROVE  m = n
  <2>1. /\ Belongs(p, m) \/ Makes(p, m)
        /\ Belongs(p, n) \/ Makes(p, n)
    BY <1>2, <1>4
  <2>2. Belongs(p, m) /\ Belongs(p, n) => m = n
    BY <1>4 DEF ReleasedInv, Owned
  <2>3. \A k \in Messages : Makes(p, k) => p > payloads
    BY <1>0 DEF Makes
  <2> QED
    BY <1>0, <1>1, <1>3, <1>4, <2>1, <2>2, <2>3
<1> QED
  BY <1>4 DEF Owned

-----------------------------------------------------------------------------
(* What comes to the screen or to the disk was not removed.                *)

LEMMA DiskSources ==
  ASSUME TypeOK, [Next]_vars, NEW m \in Messages
  PROVE  \/ disk'[m] \in {disk[m], None}
         \/ stage = "writing" /\ disk'[m] = running.payload
         \/ stage = "restoring" /\ running.op \in {"update", "remove"} /\ disk'[m] = leaving
         \/ Waits("clear", "restoring") /\ m \in clear.left /\ disk'[m] = clear.keep[m]
<1>0. disk \in PayloadMap
  BY DEF TypeOK
<1>1. CASE Callers \/ Starting \/ Crash \/ UNCHANGED vars
  BY <1>1, CallersFrame, StartingFrame DEF Crash, vars
<1>2. CASE Enqueuing
  BY <1>0, <1>2 DEF Enqueuing, EnqueueWritten, EnqueueWriteFails, EnqueueFileDropped,
     StoreWrites, StoreRemoves, Waits, PayloadMap
<1>3. CASE Updating
  BY <1>0, <1>3 DEF Updating, UpdateWritten, UpdateWriteFails, UpdateWinnerRestored,
     StoreWrites, Waits, PayloadMap
<1>4. CASE Removing
  BY <1>0, <1>4 DEF Removing, FileRemoved, FileRemovalFails, RemovalUndone, StoreWrites,
     StoreRemoves, Waits, PayloadMap
<1>5. CASE Loaded \/ ClearLoads \/ ClearLoadFails \/ ClearRemoved \/ ClearFinishes
  BY <1>5 DEF Loaded, ClearLoads, ClearLoadFails, ClearRemoved, ClearFinishes
<1>6. ASSUME NEW n \in Messages, ClearRemoves(n) \/ ClearRestores(n)
      PROVE  \/ disk'[m] \in {disk[m], None}
             \/ Waits("clear", "restoring") /\ m \in clear.left /\ disk'[m] = clear.keep[m]
  BY <1>0, <1>6 DEF ClearRemoves, ClearRestores, StoreWrites, StoreRemoves, PayloadMap
<1> QED
  BY <1>1, <1>2, <1>3, <1>4, <1>5, <1>6, StepKinds DEF Proceeding, Clearing

LEMMA MemorySources ==
  ASSUME ReleasedInv, [Next]_vars, NEW m \in Messages
  PROVE  \/ memory'[m] \in {memory[m], disk[m], None}
         \/ memory'[m] = payloads' /\ payloads' = payloads + 1
         \/ stage = "writing" /\ memory'[m] = running.payload
<1>0. TypeOK /\ LineInv /\ memory \in PayloadMap
  BY DEF ReleasedInv, FilesInv, LineInv, Line, Durable, TypeOK
<1>1. CASE Callers
  <2>1. ASSUME NEW n \in Messages, Enqueue(n)
        PROVE  \/ memory'[m] = memory[m]
               \/ memory'[m] = payloads' /\ payloads' = payloads + 1
    BY <1>0, <2>1 DEF Enqueue, PayloadMap
  <2> QED
    BY <1>1, <2>1, CallersFrame DEF queueVars
<1>2. CASE EnqueueWriteFails
  BY <1>0, <1>2 DEF EnqueueWriteFails, PayloadMap
<1>3. CASE UpdateWritten
  BY <1>0, <1>3 DEF UpdateWritten, PayloadMap, queueVars, Waits
<1>4. CASE FileRemoved
  BY <1>0, <1>4 DEF FileRemoved, PayloadMap, queueVars
<1>5. CASE Loaded
  BY <1>5 DEF Loaded
<1>6. CASE ClearFinishes
  <2>1. Cleaning
    BY <1>6 DEF ClearFinishes, Waits, Cleaning
  <2>2. /\ \A n \in clear.left \cup clear.gone :
             revisions[n] = clear.revisions[n] \/ Promised(n)
        /\ \A n \in Messages \ clear.gone : memory[n] = None => clear.all[n] = disk[n]
    BY <2>1 DEF ReleasedInv, FilesInv, StagesOK, ClearOK
  <2>3. Promised(m) => memory[m] # None
    BY <1>0, PromisedIsShown
  <2> QED
    BY <1>6, <2>2, <2>3 DEF ClearFinishes
<1>7. CASE /\ Starting \/ Proceeding
           /\ ~(EnqueueWriteFails \/ UpdateWritten \/ FileRemoved \/ Loaded \/ ClearFinishes)
  <2>1. memory' = memory
    BY <1>0, <1>7, StartingFrame DEF Proceeding, Enqueuing, Updating, Removing, Clearing,
       EnqueueWritten, EnqueueFileDropped, UpdateWriteFails, UpdateWinnerRestored,
       FileRemovalFails, RemovalUndone, ClearLoads, ClearLoadFails, ClearRemoved, ClearRemoves,
       ClearRestores, queueVars
  <2> QED
    BY <2>1
<1>8. CASE Crash
  BY <1>8 DEF Crash, Nothing
<1>9. CASE UNCHANGED vars
  BY <1>9 DEF vars, queueVars
<1> QED
  BY <1>1, <1>2, <1>3, <1>4, <1>5, <1>6, <1>7, <1>8, <1>9, StepKinds

\* What is reported as removed belongs to a message that leaves both places.
LEMMA ReleasedLeaves ==
  ASSUME ReleasedInv, [Next]_vars, NEW p \in released', p \notin released
  PROVE  \E id \in Messages : Belongs(p, id) /\ memory'[id] = None /\ disk'[id] = None
<1>0. /\ TypeOK /\ LineInv /\ memory \in PayloadMap /\ disk \in PayloadMap
  BY DEF ReleasedInv, FilesInv, LineInv, Line, Durable, TypeOK
<1>1. CASE FileRemoved /\ ~RemovalCanceled(running) /\ running.id \in Messages /\ p = leaving
  <2>1. PICK id \in Messages : id = running.id
    BY <1>1
  <2>2. /\ memory' = [memory EXCEPT ![id] = None] /\ disk' = [disk EXCEPT ![id] = None]
        /\ Leaves(id)
    BY <1>1, <2>1 DEF FileRemoved, StoreRemoves, Leaves, Waits
  <2> QED
    BY <1>0, <1>1, <2>2 DEF Belongs, PayloadMap
<1>2. CASE /\ ClearFinishes
           /\ \E m \in clear.gone :
                m \in Messages /\ revisions[m] = clear.revisions[m] /\ p = clear.all[m]
  <2>1. PICK m \in clear.gone :
          m \in Messages /\ revisions[m] = clear.revisions[m] /\ p = clear.all[m]
    BY <1>2
  <2>2. Cleaning
    BY <1>2 DEF ClearFinishes, Waits, Cleaning
  <2>3. disk[m] = None
    BY <2>1, <2>2 DEF ReleasedInv, FilesInv, StagesOK, ClearOK
  <2>4. memory'[m] = None /\ disk'[m] = None
    BY <1>2, <2>1, <2>3 DEF ClearFinishes
  <2> QED
    BY <2>1, <2>4 DEF Belongs
<1> QED
  BY <1>1, <1>2, ReleasedSteps

LEMMA GoneOKKept ==
  ASSUME ReleasedInv, [Next]_vars
  PROVE  GoneOK'
<1>0. /\ LineInv /\ TypeOK /\ TypeOK' /\ None = 0 /\ payloads \in Nat
      /\ \A m \in Messages : memory'[m] \in Nat /\ disk'[m] \in Nat
      /\ \A m \in Messages : memory[m] \notin Gone /\ disk[m] \notin Gone
      /\ stage = "writing" => running.payload \notin Gone
  <2>1. LineInv /\ TypeOK /\ TypeOK'
    BY StepTyped DEF ReleasedInv, FilesInv, LineInv, Line, Durable
  <2> QED
    BY <2>1 DEF TypeOK, PayloadMap, None, ReleasedInv, GoneOK
<1>1. ASSUME NEW m \in Messages, NEW p \in Nat, p # None, p \notin Gone, Belongs(p, m),
             memory'[m] = p \/ disk'[m] = p
      PROVE  p \notin released'
  <2> SUFFICES ASSUME p \in released' PROVE FALSE
    OBVIOUS
  <2>1. p \notin released
    BY <1>1 DEF Gone
  <2>2. PICK id \in Messages : Belongs(p, id) /\ memory'[id] = None /\ disk'[id] = None
    BY <2>1, ReleasedLeaves
  <2>3. id = m
    BY <1>1, <2>2 DEF ReleasedInv, Owned
  <2> QED
    BY <1>1, <2>2, <2>3
<1>2. ASSUME NEW m \in Messages, disk'[m] # None
      PROVE  disk'[m] \notin released'
  <2>1. disk'[m] \notin Gone
    <3>1. CASE stage = "restoring" /\ running.op \in {"update", "remove"} /\ disk'[m] = leaving
      BY <3>1 DEF ReleasedInv, PutBackOK
    <3>2. CASE Waits("clear", "restoring") /\ m \in clear.left /\ disk'[m] = clear.keep[m]
      BY <3>2 DEF ReleasedInv, PutBackOK
    <3> QED
      BY <1>0, <1>2, <3>1, <3>2, DiskSources
  <2>2. Belongs(disk'[m], m)
    BY <1>0, <1>2, DiskBelongs
  <2> QED
    BY <1>0, <1>1, <1>2, <2>1, <2>2
<1>3. ASSUME NEW m \in Messages, memory'[m] # None
      PROVE  memory'[m] \notin released'
  <2>1. CASE memory'[m] = payloads + 1
    BY <1>0, <2>1, SpentBefore
  <2>2. CASE memory'[m] # payloads + 1
    <3>1. memory'[m] \notin Gone
      BY <1>0, <1>3, <2>2, MemorySources
    <3>2. Belongs(memory'[m], m)
      BY <1>0, <1>3, <2>2, MemoryBelongs DEF Makes
    <3> QED
      BY <1>0, <1>1, <1>3, <3>1, <3>2
  <2> QED
    BY <2>1, <2>2
<1>4. ASSUME stage' = "writing"
      PROVE  running'.payload \notin released' \ {None}
  <2>1. CASE stage = "writing" /\ running' = running
    <3>1. running # NoMutation
      BY <1>0, <2>1 DEF TypeOK
    <3>2. released' = released
      BY <2>1, <3>1, ReleasedSteps DEF FileRemoved, ClearFinishes, Waits
    <3> QED
      BY <1>0, <2>1, <3>2 DEF Gone
  <2>2. CASE Starting /\ running' = Head(pending) /\ running'.op \in WrittenOnes
    <3>1. Head(pending) = pending[1] /\ 1 \in 1 .. Len(pending)
      BY <1>0, <2>2, StartingFrame, HeadAndTail DEF TypeOK
    <3> QED
      BY <2>2, <3>1, WaitingIsNotReleased
  <2> QED
    BY <1>0, <1>4, <2>1, <2>2, WritingSteps
<1> QED
  BY <1>2, <1>3, <1>4 DEF GoneOK, Gone

LEMMA ReleasedStart == Init => ReleasedInv
<1> SUFFICES ASSUME Init PROVE ReleasedInv
  OBVIOUS
<1>1. /\ running = NoMutation /\ pending = <<>> /\ stage = "idle" /\ leaving = None
      /\ holds = [w \in Writers |-> NoHold] /\ NoMutation.op = "none"
      /\ memory = Nothing /\ disk = Nothing /\ clear = NoClear
      /\ written = {} /\ released = {}
      /\ NoMutation.payload = None /\ NoHold.payload = None
  BY NoMutationIsTyped, NoHoldIsTyped DEF Init, NoMutation, Mutation
<1>2. \A i \in 0 .. Len(pending) : Job(i) = NoMutation
  BY <1>1 DEF Job
<1>3. Spent /\ WaitingOK /\ PutBackOK /\ GoneOK /\ LeavesOK
  BY <1>1, <1>2 DEF Spent, WaitingOK, PutBackOK, GoneOK, Gone, LeavesOK, Waits, Cleaning
<1>4. Owned
  <2>1. \A m \in Messages : /\ memory[m] = None /\ disk[m] = None
                            /\ clear.all[m] = None /\ clear.keep[m] = None
    BY <1>1 DEF Nothing, NoClear
  <2>2. \A m \in Messages, p \in Nat : Belongs(p, m) => p = None
    BY <1>1, <1>2, <2>1 DEF Belongs
  <2> QED
    BY <2>2 DEF Owned
<1> QED
  BY <1>3, <1>4, FilesStart DEF ReleasedInv

LEMMA ReleasedKept ==
  ASSUME ReleasedInv, ~PlainRemovals, [Next]_vars
  PROVE  ReleasedInv'
BY FilesKept, SpentBefore, WaitingOKKept, PutBackOKKept, LeavesOKKept, OwnedKept, GoneOKKept
   DEF ReleasedInv

\* Where every removal names its revision, a payload whose attachment files
\* remove or clearEnvironment of apps/mobile/src/state/thread-outbox-manager.ts let go
\* of comes back to neither the queue nor the disk: no rollback, restored winner, undone
\* removal, late load or clear that another caller overtook brings it back.
THEOREM ReleasedStaysGoneCorrect == ASSUME ~PlainRemovals PROVE Spec => []ReleasedStaysGone
<1>1. ReleasedInv => ReleasedStaysGone
  BY DEF ReleasedInv, GoneOK, Gone, ReleasedStaysGone
<1>2. ReleasedInv /\ [Next]_vars => ReleasedInv'
  BY ReleasedKept
<1> QED
  BY <1>1, <1>2, ReleasedStart, PTL DEF Spec

-----------------------------------------------------------------------------
(* What a writer has read, and AcceptedOnWhatWasRead.                      *)

\* A mutation of a writer is the one the writer waits for, and there is only one.
Reports(c, h) ==
  \/ c.op = "confirm" /\ h.status = "confirming"
  \/ c.op = "update" /\ h.status = "updating" /\ h.id = c.id /\ h.revision = c.expected
  \/ c.op = "remove" /\ h.status = "removing"
Linked ==
  /\ \A i \in 0 .. Len(pending) : \A w \in Writers :
       Job(i).by = w => Reports(Job(i), holds[w])
  /\ \A i, j \in 0 .. Len(pending) : \A w \in Writers :
       Job(i).by = w /\ Job(j).by = w => i = j

\* Enqueues have counted, and writers hold payloads.
Counted == \A i \in 0 .. Len(pending) : Job(i).op = "enqueue" => revisions[Job(i).id] > 0
Filled == \A w \in Writers : holds[w].status # "idle" => holds[w].payload # None

\* Whose write is under way or to come.
Enqueued(m) == (Waits("enqueue", "writing") /\ running.id = m) \/ Waiting(m)

\* The enqueue at place i of the line has still to write message m.
ToWrite(i, m) == Job(i).op = "enqueue" /\ Job(i).id = m /\ (i = 0 => stage = "writing")

\* The payload of an enqueue has left the screen when a later one of its message waits,
Superseded ==
  \A i, j \in 0 .. Len(pending) : \A m \in Messages :
    i < j /\ Job(i).op = "enqueue" /\ Job(i).id = m /\ ToWrite(j, m)
      => memory[m] # Job(i).payload
\* and is neither in the file of a message that is off the screen, nor in what a clear
\* has found, before it is written.
NotYetStored ==
  \A i \in 0 .. Len(pending) : \A m \in Messages :
    ToWrite(i, m) /\ memory[m] = None =>
      /\ disk[m] # Job(i).payload
      /\ Cleaning => clear.all[m] # Job(i).payload

\* What an update writes or a mutation puts back is of a message on screen.
PutBackShown ==
  /\ running.op \in {"update", "remove"} /\ stage \in {"writing", "restoring"}
       => memory[running.id] # None
  /\ Waits("clear", "restoring") => \A m \in clear.left : memory[m] # None
\* The file that a failed enqueue drops is of one off the screen, or enqueued again.
DropsUnshown ==
  Waits("enqueue", "removing") => memory[running.id] = None \/ Waiting(running.id)

\* Message m is nowhere to be found, or about to be.
Vanished(m) ==
  /\ memory[m] = None
  /\ disk[m] = None \/ (Waits("enqueue", "removing") /\ running.id = m)
  /\ Cleaning => clear.all[m] = None

\* While the revision of message m is the one at which payload p was read, so is the
\* payload; or no write of it is to come, and it has vanished or its file was left apart.
StillRead(m, p) ==
  \/ memory[m] = p
  \/ revisions[m] > 0 /\ ~Enqueued(m) /\ (m \in unsettled \/ Vanished(m))
ReadOK ==
  \A w \in Writers : \A m \in Messages :
    Reads(holds[w]) /\ holds[w].id = m /\ holds[w].revision = revisions[m]
      => StillRead(m, holds[w].payload)

ReadInv ==
  /\ Line /\ Linked /\ Counted /\ Filled
  /\ Superseded /\ NotYetStored /\ PutBackShown /\ DropsUnshown
  /\ ReadOK

LEMMA CountedKept ==
  ASSUME Line, Counted, [Next]_vars
  PROVE  Counted'
<1>0. /\ TypeOK /\ NoMutation.op = "none" /\ Len(pending) \in Nat
      /\ \A i \in 0 .. Len(pending) : Job(i).op = "enqueue" => Job(i).id \in Messages
  <2>1. TypeOK
    BY DEF Line, Durable
  <2> QED
    BY <2>1, JobIsTyped, MutationIsUsed, NoMutationIsTyped
<1>1. CASE Crash
  <2>1. \A i \in 0 .. Len(pending') : Job(i)' = NoMutation
    BY <1>1 DEF Crash, Job
  <2> QED
    BY <1>0, <2>1 DEF Counted
<1>2. CASE ~Crash
  <2>1. \A m \in Messages : /\ revisions[m] \in Nat /\ revisions'[m] \in Nat
                            /\ revisions[m] <= revisions'[m]
                            /\ Enqueue(m) => revisions[m] < revisions'[m]
    BY <1>0, <1>2, RevisionSteps
  <2>2. ASSUME NEW i \in 0 .. Len(pending'), (Job(i)').op = "enqueue"
        PROVE  revisions'[(Job(i)').id] > 0
    <3>1. CASE Job(i)' = NoMutation
      BY <1>0, <2>2, <3>1
    <3>2. CASE \E k \in 0 .. Len(pending) : Job(i)' = Job(k)
      BY <1>0, <2>1, <2>2, <3>2 DEF Counted
    <3>3. CASE Asked(Job(i)')
      BY <2>1, <2>2, <3>3 DEF Asked
    <3> QED
      BY <1>0, <3>1, <3>2, <3>3, JobSteps
  <2> QED
    BY <2>2 DEF Counted
<1> QED
  BY <1>1, <1>2

LEMMA FilledKept ==
  ASSUME Line, Filled, [Next]_vars
  PROVE  Filled'
<1>0. /\ TypeOK /\ Line /\ holds \in [Writers -> Holds] /\ NoHold.status = "idle"
      /\ pending \in Seq(Mutations) /\ Len(pending) \in Nat
      /\ Job(0) = running /\ 0 \in 0 .. Len(pending)
  <2>1. TypeOK /\ Line
    BY DEF Line, Durable
  <2> QED
    BY <2>1, NoHoldIsTyped, JobIsTyped DEF TypeOK
<1>f. \A w \in Writers : holds[w].status # "idle" => holds[w].payload # None
  BY DEF Filled
<1>1. SUFFICES ASSUME NEW w \in Writers, holds'[w].status # "idle"
               PROVE  holds'[w].payload # None
  BY DEF Filled
<1>2. CASE holds'[w] = holds[w]
  BY <1>f, <1>1, <1>2
<1>3. CASE Callers
  <2>1. ASSUME NEW v \in Writers, NEW n \in Messages, ConfirmQueued(v, n) \/ OpenEditor(v, n)
        PROVE  holds'[w] = holds[w] \/ holds'[w].payload # None
    <3>1. PICK h : h.payload = memory[n] /\ holds' = [holds EXCEPT ![v] = h]
      <4>1. Hold("confirming", n, memory[n], 0, TRUE).payload = memory[n]
        BY DEF Hold
      <4>2. Hold("ready", n, memory[n], revisions[n], FALSE).payload = memory[n]
        BY DEF Hold
      <4>3. \/ holds' = [holds EXCEPT ![v] = Hold("confirming", n, memory[n], 0, TRUE)]
            \/ holds' = [holds EXCEPT ![v] = Hold("ready", n, memory[n], revisions[n], FALSE)]
        BY <2>1 DEF ConfirmQueued, AwaitsConfirmation, OpenEditor
      <4> QED
        BY <4>1, <4>2, <4>3
    <3>2. memory[n] # None
      BY <2>1 DEF ConfirmQueued, OpenEditor
    <3> QED
      BY <1>0, <3>1, <3>2
  <2>2. ASSUME NEW v \in Writers, Capture(v)
        PROVE  holds'[w] = holds[w] \/ holds'[w] = NoHold \/ holds'[w].payload # None
    <3> DEFINE n == holds[v].id
               h == Hold("ready", n, memory[n], revisions[n], TRUE)
    <3>1. /\ holds' = [holds EXCEPT ![v] = IF memory[n] = holds[v].payload THEN h ELSE NoHold]
          /\ holds[v].payload # None
      BY <1>f, <2>2 DEF Capture
    <3>2. h.payload = memory[n]
      BY DEF Hold
    <3> HIDE DEF h
    <3> QED
      BY <1>0, <3>1, <3>2
  <2>3. ASSUME NEW v \in Writers, Update(v) \/ Remove(v) \/ GiveUp(v)
        PROVE  holds'[w] = holds[w] \/ holds'[w] = NoHold \/ holds'[w].payload # None
    <3>1. holds[v].status = "ready" /\ holds[v] \in Holds
      BY <1>0, <2>3 DEF Update, Remove, GiveUp
    <3>2. \/ holds' = [holds EXCEPT ![v].status = "updating"]
          \/ holds' = [holds EXCEPT ![v].status = "removing"]
          \/ holds' = [holds EXCEPT ![v] = NoHold]
      BY <2>3 DEF Update, Remove, GiveUp
    <3>3. /\ [holds[v] EXCEPT !.status = "updating"].payload = holds[v].payload
          /\ [holds[v] EXCEPT !.status = "removing"].payload = holds[v].payload
      BY <3>1, HoldMoves
    <3> QED
      BY <1>0, <1>f, <3>1, <3>2, <3>3
  <2>4. ASSUME \/ \E n \in Messages : Enqueue(n) \/ RemovePlainly(n) \/ ToggleEditing(n)
               \/ ClearEnvironment \/ Load
        PROVE  holds' = holds
    BY <2>4 DEF Enqueue, RemovePlainly, ToggleEditing, ClearEnvironment, Load, callerVars
  <2> QED
    BY <1>0, <1>1, <1>2, <1>3, <2>1, <2>2, <2>3, <2>4 DEF Callers
<1>4. CASE Confirm
  <2>1. pending # <<>> /\ Head(pending).op = "confirm"
    BY <1>4 DEF Confirm, Starts
  <2>2. Head(pending).payload # None
    BY <1>0, <2>1, HeadAndTail DEF Line, Durable, AsksLater
  <2>3. Hold("confirmed", Head(pending).id, Head(pending).payload, 0, TRUE).payload
          = Head(pending).payload
    BY DEF Hold
  <2>4. \/ holds'[w] = holds[w]
        \/ holds'[w] = NoHold
        \/ holds'[w] = Hold("confirmed", Head(pending).id, Head(pending).payload, 0, TRUE)
    BY <1>0, <1>4 DEF Confirm, Answers
  <2> QED
    BY <1>0, <1>1, <1>2, <2>2, <2>3, <2>4
<1>5. CASE UpdateWritten
  <2>1. \/ holds' = holds
        \/ Answers(running, NoHold)
        \/ Answers(running, Hold("ready", running.id, running.payload, running.expected + 1,
                                 holds[running.by].confirmed))
    BY <1>5 DEF UpdateWritten
  <2>2. \A c : Hold("ready", running.id, running.payload, running.expected + 1, c).payload
                 = running.payload
    BY DEF Hold
  <2>3. running.payload # None
    BY <1>0, <1>5 DEF UpdateWritten, Waits, Line, JobsSound, Sound, WrittenOnes
  <2>4. holds'[w] = holds[w] \/ holds'[w] = NoHold \/ holds'[w].payload = running.payload
    BY <1>0, <2>1, <2>2 DEF Answers
  <2> QED
    BY <1>0, <1>1, <1>2, <2>3, <2>4
<1>6. CASE \/ Starting /\ ~Confirm
           \/ Proceeding /\ ~UpdateWritten
  <2>1. \/ holds' = holds
        \/ \E c : Answers(c, NoHold)
    BY <1>6 DEF Starting, BeginEnqueue, BeginUpdate, BeginRemove, BeginLoading, Proceeding,
       Enqueuing, Updating, Removing, Clearing, EnqueueWritten, EnqueueWriteFails,
       EnqueueFileDropped, UpdateWriteFails, UpdateWinnerRestored, FileRemoved,
       FileRemovalFails, RemovalUndone, Loaded, ClearLoads, ClearLoadFails, ClearRemoved,
       ClearRemoves, ClearRestores, ClearFinishes
  <2>2. holds'[w] = holds[w] \/ holds'[w] = NoHold
    BY <1>0, <2>1 DEF Answers
  <2> QED
    BY <1>0, <1>1, <1>2, <2>2
<1>7. CASE Crash
  BY <1>0, <1>1, <1>7 DEF Crash
<1>8. CASE UNCHANGED vars
  BY <1>2, <1>8 DEF vars, callerVars
<1> QED
  BY <1>3, <1>4, <1>5, <1>6, <1>7, <1>8, StepKinds

\* Who is told what: the writer of the mutation that leaves the line, and no other.
Asks(h) == h.status \in {"confirming", "updating", "removing"}
LEMMA OthersAreNotTold ==
  ASSUME holds \in [Writers -> Holds], NEW c, NEW h, Answers(c, h),
         NEW w \in Writers, c.by # w
  PROVE  holds'[w] = holds[w]
BY DEF Answers

LEMMA StartingTells ==
  ASSUME Starting
  PROVE  \/ Begins(stage') /\ holds' = holds
         \/ Passes /\ \E h : Answers(Head(pending), h) /\ ~Asks(h)
<1>0. ~Asks(NoHold) /\ \A id, p : ~Asks(Hold("confirmed", id, p, 0, TRUE))
  BY DEF Asks, NoHold, Hold
<1>1. CASE BeginEnqueue
  BY <1>1 DEF BeginEnqueue, Begins
<1>2. CASE Confirm
  BY <1>0, <1>2 DEF Confirm
<1>3. CASE BeginUpdate
  BY <1>0, <1>3 DEF BeginUpdate, Begins
<1>4. CASE BeginRemove
  BY <1>0, <1>4 DEF BeginRemove, Begins
<1>5. CASE BeginLoading
  BY <1>5 DEF BeginLoading, Begins
<1> QED
  BY <1>1, <1>2, <1>3, <1>4, <1>5 DEF Starting

LEMMA ProceedingTells ==
  ASSUME Proceeding
  PROVE  /\ pending' = pending
         /\ \/ holds' = holds /\ running' = running
            \/ /\ holds' = holds /\ running' = NoMutation
               /\ running.op \in {"enqueue", "load", "clear"}
            \/ running' = NoMutation /\ \E h : Answers(running, h) /\ ~Asks(h)
<1>0. ~Asks(NoHold) /\ \A id, p, r, c : ~Asks(Hold("ready", id, p, r, c))
  BY DEF Asks, NoHold, Hold
<1>1. CASE Enqueuing
  BY <1>1 DEF Enqueuing, EnqueueWritten, EnqueueWriteFails, EnqueueFileDropped, Ends, Waits
<1>2. CASE Updating
  BY <1>0, <1>2 DEF Updating, UpdateWritten, UpdateWriteFails, UpdateWinnerRestored, Ends
<1>3. CASE Removing
  BY <1>0, <1>3 DEF Removing, FileRemoved, FileRemovalFails, RemovalUndone, Ends
<1>4. CASE Loaded \/ Clearing
  BY <1>4 DEF Loaded, Clearing, ClearLoads, ClearLoadFails, ClearRemoved, ClearFinishes,
     ClearRemoves, ClearRestores, Ends, Waits
<1> QED
  BY <1>1, <1>2, <1>3, <1>4 DEF Proceeding

LEMMA CallersTell ==
  ASSUME TypeOK, Callers
  PROVE  \/ /\ pending' = pending
            /\ \A w \in Writers :
                 Asks(holds[w]) \/ Asks(holds'[w]) => holds'[w] = holds[w]
         \/ \E c \in Mutations : Submit(c) /\ c.by = NoWriter /\ holds' = holds
         \/ \E c \in Mutations, w \in Writers :
              /\ Submit(c) /\ c.by = w
              /\ ~Asks(holds[w]) /\ Reports(c, holds'[w])
              /\ \A v \in Writers \ {w} : holds'[v] = holds[v]
<1>0. /\ \A m \in Messages : memory[m] \in Nat /\ revisions[m] \in Nat
      /\ holds \in [Writers -> Holds] /\ \A w \in Writers : holds[w] \in Holds
      /\ payloads \in Nat /\ NoWriter \in Writers \cup {NoWriter} /\ AnyRevision \in Int
      /\ {"enqueue", "confirm", "update", "remove", "load", "clear"} \subseteq Operations
      /\ None \in Nat /\ NoMessage \in Messages \cup {NoMessage}
      /\ TRUE \in BOOLEAN /\ FALSE \in BOOLEAN
  BY DEF TypeOK, PayloadMap, AnyRevision, Operations, None
<1>1. ASSUME \/ \E m \in Messages : Enqueue(m) \/ RemovePlainly(m)
             \/ ClearEnvironment \/ Load
      PROVE  \E c \in Mutations : Submit(c) /\ c.by = NoWriter /\ holds' = holds
  <2>1. PICK op \in {"enqueue", "remove", "clear", "load"},
             m \in Messages \cup {NoMessage}, p \in Nat :
               /\ Submit(Mutation(op, m, p, AnyRevision, FALSE, NoWriter))
               /\ op \in {"enqueue", "remove"} => m \in Messages
    <3>1. ASSUME NEW m \in Messages, Enqueue(m)
          PROVE  /\ Submit(Mutation("enqueue", m, payloads', AnyRevision, FALSE, NoWriter))
                 /\ payloads' \in Nat
      <4>1. Submit(Mutation("enqueue", m, payloads', AnyRevision, FALSE, NoWriter))
        BY <3>1 DEF Enqueue
      <4>2. payloads' = payloads + 1
        BY <3>1 DEF Enqueue
      <4>3. payloads' \in Nat
        BY <1>0, <4>2
      <4> QED
        BY <4>1, <4>3
    <3>2. ASSUME NEW m \in Messages, RemovePlainly(m)
          PROVE  Submit(Mutation("remove", m, memory[m], AnyRevision, FALSE, NoWriter))
      BY <3>2 DEF RemovePlainly
    <3>3. ASSUME ClearEnvironment
          PROVE  Submit(Mutation("clear", NoMessage, None, AnyRevision, FALSE, NoWriter))
      BY <3>3 DEF ClearEnvironment
    <3>4. ASSUME Load
          PROVE  Submit(Mutation("load", NoMessage, None, AnyRevision, FALSE, NoWriter))
      BY <3>4 DEF Load
    <3> QED
      BY <1>0, <1>1, <3>1, <3>2, <3>3, <3>4
  <2>2. holds' = holds
    BY <1>1 DEF Enqueue, RemovePlainly, ClearEnvironment, Load, callerVars
  <2>3. Mutation(op, m, p, AnyRevision, FALSE, NoWriter) \in Mutations
    BY <1>0, <2>1, MutationIsTyped
  <2>4. Mutation(op, m, p, AnyRevision, FALSE, NoWriter).by = NoWriter
    BY DEF Mutation
  <2> QED
    BY <2>1, <2>2, <2>3, <2>4
<1>2. ASSUME NEW w \in Writers, NEW m \in Messages, ConfirmQueued(w, m)
      PROVE  \E c \in Mutations : /\ Submit(c) /\ c.by = w
                                  /\ ~Asks(holds[w]) /\ Reports(c, holds'[w])
                                  /\ \A v \in Writers \ {w} : holds'[v] = holds[v]
  <2> DEFINE c == Mutation("confirm", m, memory[m], AnyRevision, FALSE, w)
             h == Hold("confirming", m, memory[m], 0, TRUE)
  <2>1. Submit(c) /\ holds' = [holds EXCEPT ![w] = h] /\ holds[w].status = "idle"
    BY <1>2 DEF ConfirmQueued, AwaitsConfirmation
  <2>2. c \in Mutations
    BY <1>0, MutationIsTyped
  <2>3. c.op = "confirm" /\ c.by = w /\ h.status = "confirming"
    BY DEF Mutation, Hold
  <2> HIDE DEF c, h
  <2>4. holds'[w] = h /\ \A v \in Writers \ {w} : holds'[v] = holds[v]
    BY <1>0, <2>1
  <2> QED
    BY <2>1, <2>2, <2>3, <2>4 DEF Reports, Asks
<1>3. ASSUME NEW w \in Writers, Update(w)
      PROVE  \E c \in Mutations : /\ Submit(c) /\ c.by = w
                                  /\ ~Asks(holds[w]) /\ Reports(c, holds'[w])
                                  /\ \A v \in Writers \ {w} : holds'[v] = holds[v]
  <2> DEFINE c == Mutation("update", holds[w].id, payloads', holds[w].revision, FALSE, w)
  <2>new. /\ payloads' \in Nat /\ holds[w].id \in Messages /\ holds[w].revision \in Int
    BY <1>0, <1>3, HoldIsUsed DEF Update
  <2>1. /\ Submit(c) /\ holds[w].status = "ready"
        /\ holds' = [holds EXCEPT ![w] = [holds[w] EXCEPT !.status = "updating"]]
    BY <1>0, <1>3 DEF Update
  <2>2. c \in Mutations
    BY <1>0, <2>new, MutationIsTyped
  <2>3. c.op = "update" /\ c.by = w /\ c.id = holds[w].id /\ c.expected = holds[w].revision
    BY DEF Mutation
  <2> HIDE DEF c
  <2>4. holds'[w] = [holds[w] EXCEPT !.status = "updating"]
        /\ \A v \in Writers \ {w} : holds'[v] = holds[v]
    BY <1>0, <2>1
  <2>5. /\ holds'[w].status = "updating" /\ holds'[w].id = holds[w].id
        /\ holds'[w].revision = holds[w].revision
    BY <1>0, <2>4 DEF Holds
  <2> QED
    BY <2>1, <2>2, <2>3, <2>4, <2>5 DEF Reports, Asks
<1>4. ASSUME NEW w \in Writers, Remove(w)
      PROVE  \E c \in Mutations : /\ Submit(c) /\ c.by = w
                                  /\ ~Asks(holds[w]) /\ Reports(c, holds'[w])
                                  /\ \A v \in Writers \ {w} : holds'[v] = holds[v]
  <2> DEFINE c == Mutation("remove", holds[w].id, holds[w].payload, holds[w].revision, TRUE, w)
  <2>new. /\ holds[w].id \in Messages /\ holds[w].revision \in Int
          /\ holds[w].payload \in Nat
    BY <1>0, <1>4, HoldIsUsed DEF Remove
  <2>1. /\ Submit(c) /\ holds[w].status = "ready"
        /\ holds' = [holds EXCEPT ![w] = [holds[w] EXCEPT !.status = "removing"]]
    BY <1>0, <1>4 DEF Remove
  <2>2. c \in Mutations
    BY <1>0, <2>new, MutationIsTyped
  <2>3. c.op = "remove" /\ c.by = w
    BY DEF Mutation
  <2> HIDE DEF c
  <2>4. holds'[w].status = "removing" /\ \A v \in Writers \ {w} : holds'[v] = holds[v]
    BY <1>0, <2>1, HoldMoves
  <2> QED
    BY <2>1, <2>2, <2>3, <2>4 DEF Reports, Asks
<1>5. ASSUME NEW v \in Writers,
             Capture(v) \/ GiveUp(v) \/ \E m \in Messages : OpenEditor(v, m)
      PROVE  /\ pending' = pending
             /\ \A w \in Writers : Asks(holds[w]) \/ Asks(holds'[w]) => holds'[w] = holds[w]
  <2>0. ~Asks(NoHold) /\ \A id, p, r, c : ~Asks(Hold("ready", id, p, r, c))
    BY DEF Asks, NoHold, Hold
  <2>1. PICK h : holds' = [holds EXCEPT ![v] = h] /\ ~Asks(h)
    <3>1. CASE Capture(v)
      <4>1. CASE memory[holds[v].id] = holds[v].payload
        BY <2>0, <3>1, <4>1 DEF Capture
      <4>2. CASE memory[holds[v].id] # holds[v].payload
        BY <2>0, <3>1, <4>2 DEF Capture
      <4> QED
        BY <4>1, <4>2
    <3>2. CASE GiveUp(v)
      BY <2>0, <3>2 DEF GiveUp
    <3>3. ASSUME NEW m \in Messages, OpenEditor(v, m)
          PROVE  \E h : holds' = [holds EXCEPT ![v] = h] /\ ~Asks(h)
      BY <2>0, <3>3 DEF OpenEditor
    <3> QED
      BY <1>5, <3>1, <3>2, <3>3
  <2>2. ~Asks(holds[v]) /\ pending' = pending
    BY <1>5 DEF Capture, GiveUp, OpenEditor, Asks
  <2> QED
    BY <1>0, <2>1, <2>2
<1>6. ASSUME NEW m \in Messages, ToggleEditing(m)
      PROVE  pending' = pending /\ holds' = holds
  BY <1>6 DEF ToggleEditing
<1> QED
  BY <1>1, <1>2, <1>3, <1>4, <1>5, <1>6 DEF Callers

\* Nothing is submitted: what stays in the line keeps its order, and its writers wait.
LEMMA LinkedStays ==
  ASSUME Linked, NEW shift \in {0, 1}, Len(pending) \in Nat, Len(pending') \in Nat,
         \A i \in 0 .. Len(pending') :
           (Job(i)').by \notin Writers
             \/ (i + shift \in 0 .. Len(pending) /\ Job(i)' = Job(i + shift)),
         \A i \in 0 .. Len(pending') : \A w \in Writers :
           (Job(i)').by = w => holds'[w] = holds[w]
  PROVE  Linked'
<1>1. ASSUME NEW i \in 0 .. Len(pending'), NEW w \in Writers, (Job(i)').by = w
      PROVE  Reports(Job(i)', holds'[w])
  BY <1>1 DEF Linked
<1>2. ASSUME NEW i \in 0 .. Len(pending'), NEW j \in 0 .. Len(pending'), NEW w \in Writers,
             (Job(i)').by = w, (Job(j)').by = w
      PROVE  i = j
  <2>1. /\ i + shift \in 0 .. Len(pending) /\ Job(i + shift).by = w
        /\ j + shift \in 0 .. Len(pending) /\ Job(j + shift).by = w
    BY <1>2
  <2>2. i + shift = j + shift
    BY <2>1 DEF Linked
  <2> QED
    BY <2>2
<1> QED
  BY <1>1, <1>2 DEF Linked

LEMMA LinkedKept ==
  ASSUME Line, Linked, [Next]_vars
  PROVE  Linked'
<1>0. /\ TypeOK /\ TypeOK' /\ pending \in Seq(Mutations) /\ holds \in [Writers -> Holds]
      /\ Len(pending) \in Nat /\ Len(pending') \in Nat
      /\ NoMutation.by \notin Writers /\ NoWriter \notin Writers /\ QueueTyped
  <2>1. TypeOK
    BY DEF Line, Durable
  <2>2. TypeOK'
    BY <2>1, StepTyped
  <2>3. NoMutation.by = NoWriter /\ NoWriter \notin Writers
    BY OutboxAssumption DEF NoMutation, Mutation
  <2> QED
    BY <2>1, <2>2, <2>3, JobIsTyped, NextJobIsTyped DEF TypeOK, QueueTyped
<1>l. \A i \in 0 .. Len(pending) : \A w \in Writers : Job(i).by = w => Asks(holds[w])
  BY DEF Linked, Reports, Asks
<1>1. CASE Callers
  <2>r. running' = running
    BY <1>1, CallersFrame
  <2>1. CASE pending' = pending /\ \A w \in Writers : Asks(holds[w]) => holds'[w] = holds[w]
    <3>1. \A i \in 0 .. Len(pending') : i + 0 \in 0 .. Len(pending) /\ Job(i)' = Job(i + 0)
      BY <1>0, <2>1, <2>r DEF Job
    <3>2. \A i \in 0 .. Len(pending') : \A w \in Writers :
            (Job(i)').by = w => holds'[w] = holds[w]
      BY <1>0, <1>l, <2>1, <3>1
    <3> QED
      BY <1>0, <3>1, <3>2, LinkedStays
  <2>2. ASSUME NEW c \in Mutations, Submit(c),
               \/ c.by = NoWriter /\ holds' = holds
               \/ \E w \in Writers : /\ c.by = w /\ ~Asks(holds[w]) /\ Reports(c, holds'[w])
                                     /\ \A v \in Writers \ {w} : holds'[v] = holds[v]
        PROVE  Linked'
    <3>1. /\ Len(pending') = Len(pending) + 1
          /\ \A i \in 1 .. Len(pending) : pending'[i] = pending[i]
          /\ pending'[Len(pending) + 1] = c
      BY <1>0, <2>2, Appended DEF Submit
    <3>2. ASSUME NEW i \in 0 .. Len(pending)
          PROVE  Job(i)' = Job(i)
      BY <1>0, <2>r, <3>1 DEF Job
    <3>3. ASSUME NEW i \in 0 .. Len(pending'), i \notin 0 .. Len(pending)
          PROVE  i = Len(pending') /\ Job(i)' = c
      BY <1>0, <3>1, <3>3 DEF Job
    <3>4. ASSUME NEW i \in 0 .. Len(pending), NEW w \in Writers, Job(i).by = w
          PROVE  c.by # w /\ holds'[w] = holds[w]
      BY <1>0, <1>l, <2>2, <3>4
    <3>5. ASSUME NEW i \in 0 .. Len(pending'), NEW w \in Writers, (Job(i)').by = w
          PROVE  Reports(Job(i)', holds'[w])
      <4>1. CASE i \in 0 .. Len(pending)
        BY <3>2, <3>4, <3>5, <4>1 DEF Linked
      <4>2. CASE i \notin 0 .. Len(pending)
        BY <1>0, <2>2, <3>3, <3>5, <4>2
      <4> QED
        BY <4>1, <4>2
    <3>6. ASSUME NEW i \in 0 .. Len(pending'), NEW j \in 0 .. Len(pending'), NEW w \in Writers,
                 (Job(i)').by = w, (Job(j)').by = w
          PROVE  i = j
      <4>1. CASE i \in 0 .. Len(pending) /\ j \in 0 .. Len(pending)
        BY <3>2, <3>6, <4>1 DEF Linked
      <4>2. CASE i \in 0 .. Len(pending) /\ j \notin 0 .. Len(pending)
        BY <3>2, <3>3, <3>4, <3>6, <4>2
      <4>3. CASE j \in 0 .. Len(pending) /\ i \notin 0 .. Len(pending)
        BY <3>2, <3>3, <3>4, <3>6, <4>3
      <4> QED
        BY <3>3, <3>6, <4>1, <4>2, <4>3
    <3> QED
      BY <3>5, <3>6 DEF Linked
  <2> QED
    BY <1>0, <1>1, <2>1, <2>2, CallersTell
<1>2. CASE Starting
  <2>1. /\ running = NoMutation /\ pending # <<>> /\ pending' = Tail(pending)
        /\ Head(pending) = pending[1] /\ Len(pending) >= 1
        /\ Len(pending') = Len(pending) - 1
        /\ \A i \in 1 .. Len(pending') : pending'[i] = pending[i + 1]
        /\ \/ running' = Head(pending) /\ holds' = holds
           \/ running' = running /\ \E h : Answers(Head(pending), h)
    <3>1. running = NoMutation /\ pending # <<>> /\ pending' = Tail(pending)
      BY <1>0, <1>2, StartingFrame DEF Begins, Passes
    <3>2. /\ Head(pending) = pending[1] /\ Len(pending) >= 1
          /\ Len(pending') = Len(pending) - 1
          /\ \A i \in 1 .. Len(pending') : pending'[i] = pending[i + 1]
      BY <1>0, <3>1, HeadAndTail
    <3> QED
      BY <1>2, <3>1, <3>2, StartingTells DEF Begins, Passes
  <2>2. \A i \in 1 .. Len(pending') : i + 1 \in 0 .. Len(pending) /\ Job(i)' = Job(i + 1)
    BY <1>0, <2>1 DEF Job
  <2>3. /\ 1 \in 0 .. Len(pending) /\ Job(1) = Head(pending)
        /\ Job(0)' = NoMutation \/ (Job(0)' = Job(1) /\ holds' = holds)
    BY <1>0, <2>1 DEF Job
  <2>4. \A i \in 0 .. Len(pending') :
          \/ (Job(i)').by \notin Writers
          \/ i + 1 \in 0 .. Len(pending) /\ Job(i)' = Job(i + 1)
    <3> SUFFICES ASSUME NEW i \in 0 .. Len(pending')
                 PROVE  \/ (Job(i)').by \notin Writers
                        \/ i + 1 \in 0 .. Len(pending) /\ Job(i)' = Job(i + 1)
      OBVIOUS
    <3>1. CASE i = 0
      BY <1>0, <2>3, <3>1
    <3>2. CASE i # 0
      BY <1>0, <2>2, <3>2
    <3> QED
      BY <3>1, <3>2
  <2>5. ASSUME NEW i \in 0 .. Len(pending'), NEW w \in Writers, (Job(i)').by = w
        PROVE  holds'[w] = holds[w]
    <3>1. CASE holds' = holds
      BY <3>1
    <3>2. ASSUME NEW h, Answers(Head(pending), h), Job(0)' = NoMutation
          PROVE  holds'[w] = holds[w]
      <4>1. i # 0
        BY <1>0, <2>5, <3>2
      <4>2. i + 1 \in 0 .. Len(pending) /\ Job(i + 1).by = w /\ i + 1 # 1
        BY <1>0, <2>2, <2>5, <4>1
      <4>3. Head(pending).by # w
        BY <2>3, <4>2 DEF Linked
      <4> QED
        BY <1>0, <3>2, <4>3, OthersAreNotTold
    <3> QED
      BY <2>1, <2>3, <3>1, <3>2 DEF Job
  <2> QED
    BY <1>0, <2>4, <2>5, LinkedStays
<1>3. CASE Proceeding
  <2>1. /\ pending' = pending
        /\ \/ holds' = holds /\ running' \in {running, NoMutation}
           \/ running' = NoMutation /\ \E h : Answers(running, h)
    BY <1>3, ProceedingTells
  <2>2. /\ \A i \in 1 .. Len(pending') : i + 0 \in 0 .. Len(pending) /\ Job(i)' = Job(i + 0)
        /\ 0 \in 0 .. Len(pending) /\ Job(0) = running /\ Job(0)' \in {Job(0), NoMutation}
    BY <1>0, <2>1 DEF Job
  <2>3. ASSUME NEW i \in 0 .. Len(pending')
        PROVE  \/ (Job(i)').by \notin Writers
               \/ i + 0 \in 0 .. Len(pending) /\ Job(i)' = Job(i + 0)
    <3>1. CASE i = 0
      BY <1>0, <2>2, <3>1
    <3>2. CASE i # 0
      BY <1>0, <2>2, <3>2
    <3> QED
      BY <3>1, <3>2
  <2>4. ASSUME NEW i \in 0 .. Len(pending'), NEW w \in Writers, (Job(i)').by = w
        PROVE  holds'[w] = holds[w]
    <3>1. CASE holds' = holds
      BY <3>1
    <3>2. ASSUME NEW h, Answers(running, h), running' = NoMutation
          PROVE  holds'[w] = holds[w]
      <4>1. i # 0
        BY <1>0, <2>4, <3>2 DEF Job
      <4>2. i \in 0 .. Len(pending) /\ Job(i).by = w
        BY <1>0, <2>2, <2>4, <4>1
      <4>3. running.by # w
        BY <2>2, <4>1, <4>2 DEF Linked
      <4> QED
        BY <1>0, <3>2, <4>3, OthersAreNotTold
    <3> QED
      BY <2>1, <3>1, <3>2
  <2> QED
    BY <1>0, <2>3, <2>4, LinkedStays
<1>4. CASE Crash
  <2>1. pending' = <<>> /\ running' = NoMutation
    BY <1>4 DEF Crash
  <2>2. Len(pending') = 0 /\ Job(0)' = NoMutation
    BY <2>1 DEF Job
  <2> QED
    BY <1>0, <2>2 DEF Linked
<1>5. CASE UNCHANGED vars
  <2>1. pending' = pending /\ running' = running /\ holds' = holds
    BY <1>5 DEF vars, mutationVars, callerVars
  <2>2. \A i \in 0 .. Len(pending') : i + 0 \in 0 .. Len(pending) /\ Job(i)' = Job(i + 0)
    BY <1>0, <2>1 DEF Job
  <2> QED
    BY <1>0, <2>1, <2>2, LinkedStays
<1> QED
  BY <1>1, <1>2, <1>3, <1>4, <1>5, StepKinds

-----------------------------------------------------------------------------
(* How a step changes a message on screen and in its file.                 *)

LEMMA ShownSteps ==
  ASSUME TypeOK, [Next]_vars, ~Crash, NEW m \in Messages
  PROVE  \/ memory'[m] = memory[m]
         \/ /\ revisions'[m] = revisions[m] + 1
            /\ \/ Enqueue(m) /\ memory'[m] = payloads + 1
               \/ /\ UpdateWritten /\ ~LostRace(running) /\ running.id = m
                  /\ memory'[m] = running.payload
               \/ FileRemoved /\ ~RemovalCanceled(running) /\ running.id = m
               \/ ClearFinishes /\ m \in clear.gone /\ revisions[m] = clear.revisions[m]
         \/ /\ EnqueueWriteFails /\ running.id = m /\ memory[m] = running.payload
            /\ memory'[m] = None
         \/ Loaded /\ memory[m] = None /\ revisions[m] = 0
         \/ ClearFinishes /\ memory[m] = None /\ memory'[m] = clear.all[m]
<1>0. memory \in PayloadMap /\ revisions \in PayloadMap
  BY DEF TypeOK
<1>1. CASE memory' = memory
  BY <1>1
<1>2. CASE Callers
  <2>1. ASSUME NEW n \in Messages, Enqueue(n)
        PROVE  \/ memory'[m] = memory[m]
               \/ /\ revisions'[m] = revisions[m] + 1
                  /\ Enqueue(m) /\ memory'[m] = payloads + 1
    BY <1>0, <2>1 DEF Enqueue, Bumped, PayloadMap
  <2> QED
    BY <1>1, <1>2, <2>1, CallersFrame DEF queueVars
<1>3. CASE Starting
  BY <1>1, <1>3, StartingFrame DEF queueVars
<1>4. CASE EnqueueWriteFails
  BY <1>0, <1>4 DEF EnqueueWriteFails, RollsBack, PayloadMap
<1>5. CASE UpdateWritten
  BY <1>0, <1>5 DEF UpdateWritten, Bumped, PayloadMap, queueVars
<1>6. CASE FileRemoved
  BY <1>0, <1>6 DEF FileRemoved, Tombstoned, Bumped, PayloadMap, queueVars
<1>7. CASE Loaded
  BY <1>7 DEF Loaded, Recovered
<1>8. CASE ClearFinishes
  BY <1>8 DEF ClearFinishes
<1>9. CASE /\ Proceeding
           /\ ~(EnqueueWriteFails \/ UpdateWritten \/ FileRemoved \/ Loaded \/ ClearFinishes)
  <2>1. memory' = memory
    BY <1>9 DEF Proceeding, Enqueuing, Updating, Removing, Clearing, EnqueueWritten,
       EnqueueFileDropped, UpdateWriteFails, UpdateWinnerRestored, FileRemovalFails,
       RemovalUndone, ClearLoads, ClearLoadFails, ClearRemoved, ClearRemoves, ClearRestores,
       queueVars
  <2> QED
    BY <1>1, <2>1
<1>10. CASE UNCHANGED vars
  BY <1>1, <1>10 DEF vars, queueVars
<1> QED
  BY <1>2, <1>3, <1>4, <1>5, <1>6, <1>7, <1>8, <1>9, <1>10, StepKinds

LEMMA StoredSteps ==
  ASSUME TypeOK, [Next]_vars, NEW m \in Messages
  PROVE  \/ disk'[m] \in {disk[m], None}
         \/ (EnqueueWritten \/ UpdateWritten) /\ running.id = m /\ disk'[m] = running.payload
         \/ running.op \in {"update", "remove"} /\ stage = "restoring" /\ running.id = m
         \/ Waits("clear", "restoring") /\ m \in clear.left
<1>0. disk \in PayloadMap
  BY DEF TypeOK
<1>1. CASE Callers \/ Starting \/ Crash \/ UNCHANGED vars
  BY <1>1, CallersFrame, StartingFrame DEF Crash, vars
<1>2. CASE Enqueuing
  BY <1>0, <1>2 DEF Enqueuing, EnqueueWritten, EnqueueWriteFails, EnqueueFileDropped,
     StoreWrites, StoreRemoves, PayloadMap
<1>3. CASE Updating
  BY <1>0, <1>3 DEF Updating, UpdateWritten, UpdateWriteFails, UpdateWinnerRestored,
     StoreWrites, Waits, PayloadMap
<1>4. CASE Removing
  BY <1>0, <1>4 DEF Removing, FileRemoved, FileRemovalFails, RemovalUndone, StoreWrites,
     StoreRemoves, Waits, PayloadMap
<1>5. CASE Loaded \/ ClearLoads \/ ClearLoadFails \/ ClearRemoved \/ ClearFinishes
  BY <1>5 DEF Loaded, ClearLoads, ClearLoadFails, ClearRemoved, ClearFinishes
<1>6. ASSUME NEW n \in Messages, ClearRemoves(n) \/ ClearRestores(n)
      PROVE  \/ disk'[m] \in {disk[m], None}
             \/ Waits("clear", "restoring") /\ m \in clear.left
  BY <1>0, <1>6 DEF ClearRemoves, ClearRestores, StoreWrites, StoreRemoves, PayloadMap
<1> QED
  BY <1>1, <1>2, <1>3, <1>4, <1>5, <1>6, StepKinds DEF Proceeding, Clearing

\* What has still to be written had it before, or is enqueued now.
LEMMA ToWriteSteps ==
  ASSUME TypeOK, [Next]_vars, NEW i \in 0 .. Len(pending'), NEW m \in Messages,
         ToWrite(i, m)'
  PROVE  \/ Enqueue(m)
         \/ \E k \in 0 .. Len(pending) :
              /\ ToWrite(k, m) /\ Job(i)' = Job(k)
              /\ k = 0 => stage' = "writing" /\ running' = running
<1>0. /\ Len(pending) \in Nat /\ Len(pending') \in Nat /\ NoMutation.op = "none"
      /\ Job(0) = running /\ Job(0)' = running'
  BY StepTyped, JobIsTyped, NextJobIsTyped, NoMutationIsTyped DEF Job
<1>1. /\ Job(i)'.op = "enqueue" /\ Job(i)'.id = m
      /\ i = 0 => stage' = "writing"
  BY DEF ToWrite
<1>2. CASE Asked(Job(i)')
  BY <1>1, <1>2 DEF Asked
<1>3. ASSUME NEW shift \in {0, 1}, i + shift \in 0 .. Len(pending), Job(i)' = Job(i + shift)
      PROVE  \E k \in 0 .. Len(pending) :
               /\ ToWrite(k, m) /\ Job(i)' = Job(k)
               /\ k = 0 => stage' = "writing" /\ running' = running
  <2>1. CASE i + shift # 0
    BY <1>1, <1>3, <2>1 DEF ToWrite
  <2>2. CASE i + shift = 0
    <3>1. i = 0 /\ running' = running /\ stage' = "writing" /\ running.op = "enqueue"
      BY <1>0, <1>1, <1>3, <2>2
    <3>2. stage = "writing"
      BY <1>0, <3>1, WritingSteps, StartingFrame
    <3> QED
      BY <1>0, <1>1, <1>3, <2>2, <3>1, <3>2 DEF ToWrite
  <2> QED
    BY <2>1, <2>2
<1> QED
  BY <1>0, <1>1, <1>2, <1>3, JobSteps

\* A message that was left apart stays apart, until its enqueue ends.
LEMMA UnsettledAtRevision ==
  ASSUME TypeOK, [Next]_vars, NEW m \in unsettled, revisions'[m] = revisions[m]
  PROVE  \/ m \in unsettled'
         \/ EnqueueWritten /\ running.id = m
         \/ EnqueueFileDropped /\ running.id = m
<1>0. m \in Messages /\ revisions \in PayloadMap /\ revisions[m] \in Nat
  BY DEF TypeOK, PayloadMap
<1>1. CASE unsettled' = unsettled
  BY <1>1
<1>2. CASE Callers
  BY <1>1, <1>2 DEF Callers, historyVars
<1>3. CASE Starting
  BY <1>1, <1>3, StartingFrame DEF historyVars
<1>4. CASE Proceeding
  <2>1. CASE EnqueueWritten \/ EnqueueFileDropped
    BY <2>1 DEF EnqueueWritten, EnqueueFileDropped, Settled
  <2>2. ASSUME NEW n \in Messages, revisions' = [revisions EXCEPT ![n] = @ + 1], Settled(n)
        PROVE  m \in unsettled'
    <3>1. n # m
      BY <1>0, <2>2 DEF PayloadMap
    <3> QED
      BY <2>2, <3>1 DEF Settled
  <2>3. CASE UpdateWritten
    <3>1. running.id \in Messages
      BY <2>3, MutationIsUsed DEF UpdateWritten, Waits, TypeOK
    <3>2. \/ unsettled' = unsettled
          \/ revisions' = [revisions EXCEPT ![running.id] = @ + 1] /\ Settled(running.id)
      BY <2>3 DEF UpdateWritten, Bumped
    <3> QED
      BY <1>1, <2>2, <3>1, <3>2
  <2>4. CASE FileRemoved
    <3>1. running.id \in Messages
      BY <2>4, MutationIsUsed DEF FileRemoved, Waits, TypeOK
    <3>2. \/ unsettled' = unsettled
          \/ revisions' = [revisions EXCEPT ![running.id] = @ + 1] /\ Settled(running.id)
      BY <2>4 DEF FileRemoved, Tombstoned, Bumped
    <3> QED
      BY <1>1, <2>2, <3>1, <3>2
  <2>5. CASE ClearFinishes
    BY <1>0, <2>5 DEF ClearFinishes
  <2>6. CASE RemovalUndone
    BY <2>6 DEF RemovalUndone
  <2>7. CASE \/ EnqueueWriteFails \/ UpdateWriteFails \/ UpdateWinnerRestored
             \/ FileRemovalFails \/ Loaded
             \/ ClearLoads \/ ClearLoadFails \/ ClearRemoved
             \/ \E n \in Messages : ClearRemoves(n) \/ ClearRestores(n)
    BY <1>1, <2>7 DEF EnqueueWriteFails, UpdateWriteFails, UpdateWinnerRestored,
       FileRemovalFails, Loaded, ClearLoads, ClearLoadFails, ClearRemoved, ClearRemoves,
       ClearRestores, historyVars
  <2> QED
    BY <1>4, <2>1, <2>3, <2>4, <2>5, <2>6, <2>7 DEF Proceeding, Enqueuing, Updating, Removing,
       Clearing
<1>5. CASE Crash
  BY <1>5 DEF Crash
<1>6. CASE UNCHANGED vars
  BY <1>1, <1>6 DEF vars, historyVars
<1> QED
  BY <1>2, <1>3, <1>4, <1>5, <1>6, StepKinds

\* An enqueue counts when it is submitted.
LEMMA EnqueuedAtRevision ==
  ASSUME TypeOK, [Next]_vars, ~Crash, NEW m \in Messages, revisions'[m] = revisions[m],
         Enqueued(m)'
  PROVE  Enqueued(m)
<1>0. Len(pending) \in Nat /\ pending \in Seq(Mutations)
  BY DEF TypeOK
<1>1. CASE (Waits("enqueue", "writing") /\ running.id = m)'
  <2>1. running'.op = "enqueue" /\ stage' = "writing" /\ running'.id = m
    BY <1>1 DEF Waits
  <2>2. CASE stage = "writing" /\ running' = running
    BY <2>1, <2>2 DEF Enqueued, Waits
  <2>3. CASE Starting /\ running' = Head(pending)
    <3>1. Head(pending) = pending[1] /\ 1 \in 1 .. Len(pending)
      BY <1>0, <2>3, StartingFrame, HeadAndTail
    <3> QED
      BY <2>1, <2>3, <3>1 DEF Enqueued, Waiting
  <2> QED
    BY <2>1, <2>2, <2>3, WritingSteps
<1>2. CASE Waiting(m)'
  <2>1. PICK i \in 1 .. Len(pending') : pending'[i].op = "enqueue" /\ pending'[i].id = m
    BY <1>2 DEF Waiting
  <2>2. ~Asked(pending'[i])
    <3>1. ~Enqueue(m)
      BY RevisionSteps
    <3> QED
      BY <2>1, <3>1 DEF Asked
  <2>3. \E k \in 1 .. Len(pending) : pending'[i] = pending[k]
    BY <2>1, <2>2, PendingSteps
  <2> QED
    BY <2>1, <2>3 DEF Enqueued, Waiting
<1> QED
  BY <1>1, <1>2 DEF Enqueued

-----------------------------------------------------------------------------
(* What is still to be written is nowhere yet once it has left the screen.  *)

LEMMA ReadTyped ==
  ASSUME ReadInv
  PROVE  /\ Line /\ TypeOK /\ Durable /\ Len(pending) \in Nat /\ pending \in Seq(Mutations)
         /\ 0 \in 0 .. Len(pending) /\ Job(0) = running /\ running \in Mutations
         /\ payloads \in Nat /\ None = 0 /\ NoMutation.op = "none"
         /\ \A i \in 1 .. Len(pending) :
              i \in 0 .. Len(pending) /\ 0 < i /\ Job(i) = pending[i]
         /\ \A i \in 0 .. Len(pending) :
              /\ Job(i) \in Mutations /\ Job(i).payload \in Nat /\ Job(i).payload <= payloads
              /\ Job(i).op \in WrittenOnes => Job(i).payload # None
         /\ \A m \in Messages : memory[m] \in Nat /\ disk[m] \in Nat /\ revisions[m] \in Nat
<1>1. Line /\ TypeOK /\ Durable /\ payloads \in Nat
  BY DEF ReadInv, Line, Durable, TypeOK
<1>2. /\ Len(pending) \in Nat /\ \A i \in 0 .. Len(pending) : Job(i) \in Mutations
      /\ Job(0) = running /\ \A i \in 1 .. Len(pending) : Job(i) = pending[i]
  BY <1>1, JobIsTyped
<1>3. \A m \in Messages : memory[m] \in Nat /\ disk[m] \in Nat /\ revisions[m] \in Nat
  BY <1>1 DEF TypeOK, PayloadMap
<1>4. pending \in Seq(Mutations) /\ running \in Mutations
  BY <1>1 DEF TypeOK
<1>5. ASSUME NEW i \in 0 .. Len(pending)
      PROVE  /\ Job(i).payload \in Nat /\ Job(i).payload <= payloads
             /\ Job(i).op \in WrittenOnes => Job(i).payload # None
  <2>1. Job(i).payload \in Nat
    BY <1>2, MutationIsUsed
  <2>2. Job(i).payload <= payloads
    BY <1>1, <1>2 DEF Durable, MadeBefore
  <2>3. Job(i).op \in WrittenOnes => Job(i).payload # None
    BY <1>1 DEF Line, JobsSound, Sound
  <2> QED
    BY <2>1, <2>2, <2>3
<1> QED
  BY <1>1, <1>2, <1>3, <1>4, <1>5, NoMutationIsTyped DEF None

\* An enqueue behind the running write carries another payload.
LEMMA LaterDiffers ==
  ASSUME ReadInv, NEW k \in 1 .. Len(pending), Job(k).op = "enqueue",
         running.op \in WrittenOnes
  PROVE  running.payload # Job(k).payload
<1>1. Behind(running, Job(k))
  BY ReadTyped DEF Line, Ordered
<1>2. running.payload \in Nat /\ Job(k).payload \in Nat
  BY ReadTyped
<1> QED
  BY <1>1, <1>2 DEF Behind, WrittenOnes

LEMMA SupersededKept ==
  ASSUME ReadInv, [Next]_vars, ~Crash
  PROVE  Superseded'
<1>0. /\ TypeOK /\ TypeOK' /\ Len(pending) \in Nat /\ Len(pending') \in Nat
      /\ NoMutation.op = "none" /\ Job(0) = running /\ payloads \in Nat /\ None = 0
  BY ReadTyped, StepTyped, NextJobIsTyped
<1> SUFFICES ASSUME NEW i \in 0 .. Len(pending'), NEW j \in 0 .. Len(pending'),
                    NEW m \in Messages, i < j, Job(i)'.op = "enqueue", Job(i)'.id = m,
                    ToWrite(j, m)'
             PROVE  memory'[m] # Job(i)'.payload
  BY DEF Superseded
<1>1. PICK shift \in {0, 1} : \A n \in 0 .. Len(pending') :
        \/ n = 0 /\ Job(n)' = NoMutation
        \/ n + shift \in 0 .. Len(pending) /\ Job(n)' = Job(n + shift)
        \/ n = Len(pending') /\ n > 0 /\ shift = 0 /\ Asked(Job(n)')
  BY <1>0, JobSteps
<1>2. i + shift \in 0 .. Len(pending) /\ Job(i)' = Job(i + shift)
  BY <1>0, <1>1
<1>3. PICK k \in 0 .. Len(pending) : k = i + shift
  BY <1>2
<1>4. PICK p \in Nat : p = Job(k).payload
  BY ReadTyped
<1>5. p = Job(i)'.payload /\ Job(k).op = "enqueue" /\ Job(k).id = m /\ p # None /\ p <= payloads
  BY <1>2, <1>3, <1>4, ReadTyped DEF WrittenOnes
<1>6. CASE Enqueue(m)
  <2>1. memory'[m] = payloads + 1
    BY <1>0, <1>6 DEF Enqueue, TypeOK, PayloadMap
  <2> QED
    BY <1>0, <1>5, <2>1
<1>7. CASE ~Enqueue(m)
  <2>1. j + shift \in 0 .. Len(pending) /\ Job(j)' = Job(j + shift)
    <3>1. Job(j)'.op = "enqueue" /\ Job(j)'.id = m /\ j # 0
      BY <1>0 DEF ToWrite
    <3>2. ~Asked(Job(j)')
      BY <1>7, <3>1 DEF Asked
    <3> QED
      BY <1>0, <1>1, <3>1, <3>2
  <2>2. ToWrite(j + shift, m) /\ k < j + shift
    BY <1>0, <1>3, <2>1 DEF ToWrite
  <2>3. memory[m] # p
    BY <1>4, <1>5, <2>1, <2>2 DEF ReadInv, Superseded
  <2>4. revisions[m] > 0
    BY <1>5 DEF ReadInv, Counted
  <2>5. ASSUME UpdateWritten, running.id = m, memory'[m] = running.payload
        PROVE  memory'[m] # p
    <3>1. running.op = "update"
      BY <2>5 DEF UpdateWritten, Waits
    <3>2. k \in 1 .. Len(pending)
      BY <1>0, <1>5, <3>1
    <3> QED
      BY <1>4, <1>5, <2>5, <3>1, <3>2, LaterDiffers DEF WrittenOnes
  <2>6. ASSUME ClearFinishes, memory[m] = None, memory'[m] = clear.all[m]
        PROVE  memory'[m] # p
    <3>1. Cleaning /\ running.op = "clear"
      BY <2>6 DEF ClearFinishes, Waits, Cleaning
    <3>2. ToWrite(k, m)
      BY <1>0, <1>5, <3>1 DEF ToWrite
    <3> QED
      BY <1>4, <2>6, <3>1, <3>2 DEF ReadInv, NotYetStored
  <2>7. CASE FileRemoved /\ ~RemovalCanceled(running) /\ running.id = m
    <3>1. memory'[m] = None
      BY <1>0, <2>7 DEF FileRemoved, TypeOK, PayloadMap
    <3> QED
      BY <1>5, <3>1
  <2>8. CASE ClearFinishes /\ m \in clear.gone /\ revisions[m] = clear.revisions[m]
    <3>1. memory'[m] = None
      BY <2>8 DEF ClearFinishes
    <3> QED
      BY <1>5, <3>1
  <2> QED
    BY <1>0, <1>5, <1>7, <2>3, <2>4, <2>5, <2>6, <2>7, <2>8, ShownSteps
<1> QED
  BY <1>6, <1>7

LEMMA NotYetStoredKept ==
  ASSUME ReadInv, [Next]_vars, ~Crash
  PROVE  NotYetStored'
<1>0. /\ TypeOK /\ TypeOK' /\ Len(pending) \in Nat /\ Job(0) = running
      /\ payloads \in Nat /\ None = 0 /\ 0 \in 0 .. Len(pending)
  BY ReadTyped, StepTyped
<1> SUFFICES ASSUME NEW i \in 0 .. Len(pending'), NEW m \in Messages, ToWrite(i, m)',
                    memory'[m] = None
             PROVE  /\ disk'[m] # Job(i)'.payload
                    /\ Cleaning' => clear'.all[m] # Job(i)'.payload
  BY DEF NotYetStored
<1>1. ~Enqueue(m)
  <2>1. Enqueue(m) => memory'[m] = payloads + 1
    BY <1>0 DEF Enqueue, TypeOK, PayloadMap
  <2> QED
    BY <1>0, <2>1
<1>2. PICK k \in 0 .. Len(pending) :
        /\ ToWrite(k, m) /\ Job(i)' = Job(k)
        /\ k = 0 => stage' = "writing" /\ running' = running
  BY <1>0, <1>1, ToWriteSteps
<1>3. PICK p \in Nat : p = Job(k).payload
  BY ReadTyped
<1>4. p = Job(i)'.payload /\ p # None /\ Job(k).op = "enqueue" /\ Job(k).id = m
  BY <1>2, <1>3, ReadTyped DEF ToWrite, WrittenOnes
<1>5. ASSUME running.op # "enqueue"
      PROVE  k \in 1 .. Len(pending) /\ Waiting(m)
  <2>1. k \in 1 .. Len(pending)
    BY <1>0, <1>4, <1>5
  <2> QED
    BY <1>4, <2>1, ReadTyped DEF Waiting
<1>6. ASSUME running.op = "enqueue", stage' # "writing"
      PROVE  k \in 1 .. Len(pending)
  BY <1>0, <1>2, <1>6
<1>7. CASE memory[m] = None
  <2>1. disk[m] # p /\ (Cleaning => clear.all[m] # p)
    BY <1>2, <1>3, <1>7 DEF ReadInv, NotYetStored
  <2>2. ASSUME EnqueueWritten \/ UpdateWritten, running.id = m, disk'[m] = running.payload
        PROVE  disk'[m] # p
    <3>1. running.op \in WrittenOnes /\ (running.op = "enqueue" => stage' # "writing")
      BY <2>2 DEF EnqueueWritten, UpdateWritten, Waits, Ends, WrittenOnes
    <3>2. k \in 1 .. Len(pending)
      BY <1>5, <1>6, <3>1
    <3> QED
      BY <1>3, <1>4, <2>2, <3>1, <3>2, LaterDiffers
  <2>3. /\ ~(running.op \in {"update", "remove"} /\ stage = "restoring" /\ running.id = m)
        /\ ~(Waits("clear", "restoring") /\ m \in clear.left)
    BY <1>7 DEF ReadInv, PutBackShown
  <2>4. disk'[m] # p
    BY <1>0, <1>4, <2>1, <2>2, <2>3, StoredSteps
  <2>5. ASSUME Cleaning'
        PROVE  clear'.all[m] # p
    <3>1. CASE ClearLoads
      <4>1. clear'.all[m] = disk[m]
        BY <1>0, <1>7, <3>1 DEF ClearLoads, TypeOK, Clears
      <4> QED
        BY <2>1, <4>1
    <3>2. CASE Cleaning /\ ~ClearEnvironment
      <4>1. ~ClearLoads
        BY <3>2 DEF Cleaning, ClearLoads, Waits
      <4>2. clear'.all = clear.all
        BY <1>0, <3>2, <4>1, ClearSteps
      <4> QED
        BY <2>1, <3>2, <4>2
    <3> QED
      BY <1>0, <2>5, <3>1, <3>2, CleaningSteps
  <2> QED
    BY <1>4, <2>4, <2>5
<1>8. CASE memory[m] # None
  <2>1. ~Cleaning'
    <3>1. ASSUME Cleaning'
          PROVE  FALSE
      <4>1. stage' # "idle" /\ running'.op = "clear"
        BY <3>1 DEF Cleaning
      <4>2. ClearLoads \/ Cleaning
        BY <1>0, <3>1, CleaningSteps
      <4>3. running.op = "clear"
        BY <4>2 DEF Cleaning, ClearLoads, Waits
      <4>4. ~(EnqueueWriteFails \/ UpdateWritten \/ FileRemoved \/ ClearFinishes)
        BY <4>1, <4>3 DEF EnqueueWriteFails, UpdateWritten, FileRemoved, ClearFinishes, Waits,
           Ends
      <4> QED
        BY <1>0, <1>1, <1>8, <4>4, ShownSteps
    <3> QED
      BY <3>1
  <2>2. CASE EnqueueWriteFails /\ running.id = m /\ memory[m] = running.payload
    <3>1. running.op = "enqueue" /\ stage' # "writing"
      BY <2>2 DEF EnqueueWriteFails, Waits, Ends
    <3>2. k \in 1 .. Len(pending) /\ 0 < k
      BY <1>0, <1>6, <3>1
    <3>3. memory[m] # running.payload
      BY <1>0, <1>2, <2>2, <3>1, <3>2 DEF ReadInv, Superseded
    <3> QED
      BY <2>2, <3>3
  <2>3. CASE FileRemoved /\ ~RemovalCanceled(running) /\ running.id = m
    <3>1. disk'[m] = None
      BY <1>0, <2>3 DEF FileRemoved, StoreRemoves, TypeOK, PayloadMap
    <3> QED
      BY <1>4, <2>1, <3>1
  <2>4. CASE ClearFinishes /\ m \in clear.gone /\ revisions[m] = clear.revisions[m]
    <3>1. Cleaning /\ running.op = "clear"
      BY <2>4 DEF ClearFinishes, Waits, Cleaning
    <3>2. revisions[m] = clear.requested[m] /\ Line
      BY <2>4, <3>1, ReadTyped DEF Line, Taken
    <3> QED
      BY <1>5, <3>1, <3>2, TakenIsAlone
  <2>5. ~(UpdateWritten /\ memory'[m] = running.payload)
    <3>1. UpdateWritten => running.op \in WrittenOnes
      BY DEF UpdateWritten, Waits, WrittenOnes
    <3>2. running.op \in WrittenOnes => running.payload # None
      BY ReadTyped
    <3> QED
      BY <3>1, <3>2
  <2> QED
    BY <1>0, <1>1, <1>8, <2>2, <2>3, <2>4, <2>5, ShownSteps
<1> QED
  BY <1>7, <1>8

\* Only a step that ends the mutation, or fails its write, takes a message off the screen.
LEMMA StaysShown ==
  ASSUME ReadInv, [Next]_vars, ~Crash, NEW m \in Messages, memory[m] # None,
         ~(EnqueueWriteFails \/ FileRemoved \/ ClearFinishes)
  PROVE  memory'[m] # None
<1>0. TypeOK /\ payloads \in Nat /\ None = 0
  BY ReadTyped
<1>1. ~(UpdateWritten /\ running.payload = None)
  <2>1. UpdateWritten => running.op \in WrittenOnes
    BY DEF UpdateWritten, Waits, WrittenOnes
  <2> QED
    BY <2>1, ReadTyped
<1> QED
  BY <1>0, <1>1, ShownSteps

LEMMA PutBackShownKept ==
  ASSUME ReadInv, [Next]_vars, ~Crash
  PROVE  PutBackShown'
<1>0. /\ TypeOK /\ TypeOK' /\ PutBackShown /\ NoMutation.op = "none" /\ clear \in Clears
  BY ReadTyped, StepTyped DEF ReadInv, TypeOK
<1>s. ASSUME NEW m \in Messages, memory[m] # None, running' = running, stage' # "idle",
             \/ running.op = "update"
             \/ running.op = "remove" /\ stage = "restoring"
             \/ Waits("clear", "restoring")
      PROVE  memory'[m] # None
  <2>1. ~(EnqueueWriteFails \/ FileRemoved \/ ClearFinishes)
    BY <1>s DEF EnqueueWriteFails, FileRemoved, ClearFinishes, Waits, Ends
  <2> QED
    BY <1>s, <2>1, StaysShown
<1>id. running.op \in {"update", "remove"} => running.id \in Messages
  BY <1>0, MutationIsUsed DEF TypeOK
<1>1. ASSUME running'.op \in {"update", "remove"}, stage' = "writing"
      PROVE  memory'[running'.id] # None
  <2>1. CASE stage = "writing" /\ running' = running
    <3>1. running.op = "update" \/ running.op = "remove"
      BY <1>1, <2>1
    <3>2. CASE running.op = "update"
      BY <1>0, <1>1, <1>s, <1>id, <2>1, <3>2 DEF PutBackShown
    <3>3. CASE running.op = "remove"
      <4>1. ~(EnqueueWriteFails \/ FileRemoved \/ ClearFinishes)
        BY <2>1, <3>3 DEF EnqueueWriteFails, FileRemoved, ClearFinishes, Waits
      <4> QED
        BY <1>0, <1>1, <1>id, <2>1, <4>1, StaysShown DEF PutBackShown
    <3> QED
      BY <3>1, <3>2, <3>3
  <2>2. CASE Starting
    <3>1. /\ running' = Head(pending) /\ ~StaleOrMissing(Head(pending))
          /\ memory' = memory
      BY <1>0, <1>1, <2>2, BeginsAs, StartingFrame DEF queueVars
    <3> QED
      BY <3>1 DEF StaleOrMissing
  <2> QED
    BY <1>0, <1>1, <2>1, <2>2, WritingSteps
<1>2. ASSUME running'.op \in {"update", "remove"}, stage' = "restoring"
      PROVE  memory'[running'.id] # None
  <2>1. CASE stage = "restoring" /\ running' = running
    BY <1>0, <1>2, <1>s, <1>id, <2>1 DEF PutBackShown
  <2>2. CASE UpdateWritten /\ LostRace(running)
    <3>1. memory' = memory /\ memory[running.id] # None /\ running' = running
      BY <1>2, <2>2 DEF UpdateWritten, queueVars, Ends
    <3> QED
      BY <3>1
  <2>3. CASE FileRemoved /\ RemovalCanceled(running)
    <3>1. memory' = memory /\ memory[running.id] # None /\ running' = running
      BY <1>2, <2>3 DEF FileRemoved, queueVars, Ends
    <3> QED
      BY <3>1
  <2>4. ~ClearRemoved
    BY <1>2 DEF ClearRemoved, Waits
  <2> QED
    BY <1>0, <1>2, <2>1, <2>2, <2>3, <2>4, RestoringSteps
<1>3. ASSUME Waits("clear", "restoring")', NEW m \in clear'.left
      PROVE  memory'[m] # None
  <2>1. running'.op = "clear" /\ stage' = "restoring" /\ m \in Messages
    BY <1>0, <1>3 DEF Waits, TypeOK, Clears
  <2>2. CASE ClearRemoved
    <3>1. clear'.left = Retained /\ memory' = memory
      BY <1>0, <2>2 DEF ClearRemoved, Clears, queueVars
    <3> QED
      BY <1>3, <3>1 DEF Retained
  <2>3. CASE stage = "restoring" /\ running' = running /\ clear'.left \subseteq clear.left
    <3>1. Waits("clear", "restoring") /\ m \in clear.left
      BY <1>3, <2>1, <2>3 DEF Waits
    <3> QED
      BY <1>0, <1>s, <2>1, <2>3, <3>1 DEF PutBackShown
  <2>4. ~UpdateWritten \/ stage' # "restoring" \/ running'.op # "clear"
    BY DEF UpdateWritten, Waits, Ends
  <2>5. ~FileRemoved \/ stage' # "restoring" \/ running'.op # "clear"
    BY DEF FileRemoved, Waits, Ends
  <2> QED
    BY <1>0, <2>1, <2>2, <2>3, <2>4, <2>5, RestoringSteps
<1> QED
  BY <1>1, <1>2, <1>3 DEF PutBackShown

\* Callers only add to what waits.
LEMMA WaitingStays ==
  ASSUME TypeOK, Callers, NEW m \in Messages
  PROVE  Waiting(m) \/ Enqueue(m) => Waiting(m)'
<1>0. pending \in Seq(Mutations) /\ Len(pending) \in Nat
  BY DEF TypeOK
<1>1. ASSUME Enqueue(m)
      PROVE  Waiting(m)'
  <2> DEFINE c == Mutation("enqueue", m, payloads', AnyRevision, FALSE, NoWriter)
  <2>1. pending' = Append(pending, c)
    BY <1>1 DEF Enqueue, Submit
  <2>2. c.op = "enqueue" /\ c.id = m
    BY DEF Mutation
  <2> HIDE DEF c
  <2>3. Len(pending') = Len(pending) + 1 /\ pending'[Len(pending) + 1] = c
    BY <1>0, <2>1
  <2> QED
    BY <1>0, <2>2, <2>3 DEF Waiting
<1>2. ASSUME Waiting(m)
      PROVE  Waiting(m)'
  <2>1. PICK i \in 1 .. Len(pending) : pending[i].op = "enqueue" /\ pending[i].id = m
    BY <1>2 DEF Waiting
  <2>2. CASE pending' = pending
    BY <2>1, <2>2 DEF Waiting
  <2>3. ASSUME NEW c \in Mutations, Submit(c)
        PROVE  Waiting(m)'
    <3>1. Len(pending') = Len(pending) + 1 /\ pending'[i] = pending[i]
      BY <1>0, <2>1, <2>3, Appended DEF Submit
    <3>2. i \in 1 .. Len(pending')
      BY <1>0, <3>1
    <3> QED
      BY <2>1, <3>1, <3>2 DEF Waiting
  <2> QED
    BY <2>2, <2>3, Submitted
<1> QED
  BY <1>1, <1>2

LEMMA DropsUnshownKept ==
  ASSUME ReadInv, [Next]_vars, ~Crash
  PROVE  DropsUnshown'
<1>0. TypeOK /\ NoMutation.op = "none" /\ DropsUnshown
  BY ReadTyped DEF ReadInv
<1> SUFFICES ASSUME running'.op = "enqueue", stage' = "removing"
             PROVE  (memory[running.id] = None \/ Waiting(running.id))'
  BY DEF DropsUnshown, Waits
<1>1. CASE Callers
  <2>1. running' = running /\ Waits("enqueue", "removing")
    BY <1>1, CallersFrame DEF Waits
  <2>2. PICK m \in Messages : m = running.id
    BY <1>0, <2>1, MutationIsUsed DEF Waits, TypeOK
  <2>3. memory[m] = None \/ Waiting(m)
    BY <1>0, <2>1, <2>2 DEF DropsUnshown
  <2>4. Enqueue(m) \/ memory'[m] = memory[m]
    <3>1. ~(UpdateWritten \/ FileRemoved \/ ClearFinishes \/ EnqueueWriteFails \/ Loaded)
      BY <2>1 DEF UpdateWritten, FileRemoved, ClearFinishes, EnqueueWriteFails, Loaded, Waits
    <3> QED
      BY <1>0, <3>1, ShownSteps
  <2>5. memory'[m] = None \/ Waiting(m)'
    BY <1>0, <1>1, <2>3, <2>4, WaitingStays
  <2> QED
    BY <2>1, <2>2, <2>5 DEF Waiting
<1>2. CASE Starting
  BY <1>0, <1>2, BeginsAs
<1>3. CASE Proceeding
  <2>1. running' = running /\ running.op = "enqueue"
    BY <1>0, <1>3, ProceedingFrame
  <2>2. Enqueuing
    BY <1>3, <2>1 DEF Proceeding, Updating, Removing, Loaded, Clearing, UpdateWritten,
       UpdateWriteFails, UpdateWinnerRestored, FileRemoved, FileRemovalFails, RemovalUndone,
       ClearLoads, ClearLoadFails, ClearRemoved, ClearFinishes, ClearRemoves, ClearRestores,
       Waits
  <2>3. EnqueueWriteFails /\ DropsFile(running.id)
    BY <2>2 DEF Enqueuing, EnqueueWritten, EnqueueWriteFails, EnqueueFileDropped, Ends
  <2> QED
    BY <2>1, <2>3 DEF DropsFile
<1>4. CASE UNCHANGED vars
  BY <1>0, <1>4 DEF vars, queueVars, mutationVars, DropsUnshown, Waits, Waiting
<1> QED
  BY <1>1, <1>2, <1>3, <1>4, StepKinds

-----------------------------------------------------------------------------
(* The inductive step, and the theorem.                                    *)

LEMMA VanishedKept ==
  ASSUME ReadInv, [Next]_vars, ~Crash, NEW m \in Messages, revisions'[m] = revisions[m],
         revisions[m] > 0, ~Enqueued(m), Vanished(m)
  PROVE  Vanished(m)' \/ m \in unsettled'
<1>0. TypeOK /\ payloads \in Nat /\ None = 0 /\ revisions[m] \in Nat /\ memory[m] = None
  BY ReadTyped DEF Vanished
<1>1. memory'[m] = None
  <2>1. ClearFinishes => clear.all[m] = None
    BY DEF Vanished, Cleaning, ClearFinishes, Waits
  <2> QED
    BY <1>0, <2>1, ShownSteps
<1>2. \/ disk'[m] = None
      \/ (Waits("enqueue", "removing") /\ running.id = m)'
      \/ m \in unsettled'
  <2>1. CASE disk[m] = None
    <3>1. ~(EnqueueWritten /\ running.id = m)
      BY DEF EnqueueWritten, Enqueued
    <3>2. /\ ~(UpdateWritten /\ running.id = m)
          /\ ~(running.op \in {"update", "remove"} /\ stage = "restoring" /\ running.id = m)
          /\ ~(Waits("clear", "restoring") /\ m \in clear.left)
      BY <1>0 DEF ReadInv, PutBackShown, UpdateWritten, Waits
    <3> QED
      BY <1>0, <2>1, <3>1, <3>2, StoredSteps
  <2>2. CASE Waits("enqueue", "removing") /\ running.id = m
    <3>1. CASE Callers
      BY <2>2, <3>1, CallersFrame DEF Waits
    <3>2. CASE Starting
      BY <1>0, <2>2, <3>2, StartingFrame, NoMutationIsTyped DEF Waits
    <3>3. CASE Proceeding
      <4>1. EnqueueFileDropped
        BY <2>2, <3>3 DEF Proceeding, Enqueuing, Updating, Removing, Loaded, Clearing,
           EnqueueWritten, EnqueueWriteFails, UpdateWritten, UpdateWriteFails,
           UpdateWinnerRestored, FileRemoved, FileRemovalFails, RemovalUndone, ClearLoads,
           ClearLoadFails, ClearRemoved, ClearFinishes, ClearRemoves, ClearRestores, Waits
      <4> QED
        BY <1>0, <2>2, <4>1 DEF EnqueueFileDropped, StoreRemoves, TypeOK, PayloadMap
    <3>4. CASE UNCHANGED vars
      BY <2>2, <3>4 DEF vars, mutationVars, Waits
    <3> QED
      BY <3>1, <3>2, <3>3, <3>4, StepKinds
  <2> QED
    BY <2>1, <2>2 DEF Vanished
<1>3. ASSUME Cleaning'
      PROVE  clear'.all[m] = None
  <2>1. CASE ClearLoads
    <3>1. clear'.all[m] = disk[m]
      BY <1>0, <2>1 DEF ClearLoads, TypeOK, Clears
    <3>2. disk[m] = None
      BY <2>1 DEF Vanished, ClearLoads, Waits
    <3> QED
      BY <3>1, <3>2
  <2>2. CASE Cleaning /\ ~ClearEnvironment
    <3>1. clear'.all = clear.all
      BY <1>0, <2>2, ClearSteps DEF Cleaning, ClearLoads, Waits
    <3> QED
      BY <2>2, <3>1 DEF Vanished
  <2> QED
    BY <1>0, <1>3, <2>1, <2>2, CleaningSteps
<1> QED
  BY <1>1, <1>2, <1>3 DEF Vanished

LEMMA StillReadKept ==
  ASSUME ReadInv, [Next]_vars, ~Crash, NEW m \in Messages, revisions'[m] = revisions[m],
         NEW p \in Nat \ {None}, StillRead(m, p)
  PROVE  StillRead(m, p)'
<1>0. TypeOK /\ revisions[m] \in Nat /\ None = 0 /\ 0 \in 0 .. Len(pending) /\ Job(0) = running
      /\ Len(pending) \in Nat
  BY ReadTyped
<1>1. ASSUME memory[m] = p
      PROVE  StillRead(m, p)'
  <2>1. CASE memory'[m] = p
    BY <2>1 DEF StillRead
  <2>2. CASE EnqueueWriteFails /\ running.id = m /\ memory[m] = running.payload
             /\ memory'[m] = None
    <3>1. /\ running.op = "enqueue" /\ stage' = "removing" /\ running' = running
          /\ pending' = pending
      BY <2>2 DEF EnqueueWriteFails, Waits, DropsFile
    <3>2. revisions[m] > 0
      BY <1>0, <2>2, <3>1 DEF ReadInv, Counted
    <3>3. ~Waiting(m)
      <4>1. SUFFICES ASSUME Waiting(m) PROVE FALSE
        OBVIOUS
      <4>2. PICK j \in 1 .. Len(pending) : pending[j].op = "enqueue" /\ pending[j].id = m
        BY <4>1 DEF Waiting
      <4>3. j \in 0 .. Len(pending) /\ 0 < j /\ ToWrite(j, m)
        BY <1>0, <4>2, ReadTyped DEF ToWrite
      <4> QED
        BY <1>0, <2>2, <3>1, <4>3 DEF ReadInv, Superseded
    <3>4. ~Enqueued(m)'
      BY <3>1, <3>3 DEF Enqueued, Waits, Waiting
    <3>5. Vanished(m)'
      BY <2>2, <3>1 DEF Vanished, Waits, Cleaning
    <3> QED
      BY <3>2, <3>4, <3>5 DEF StillRead
  <2> QED
    BY <1>0, <1>1, <2>1, <2>2, ShownSteps
<1>2. ASSUME revisions[m] > 0, ~Enqueued(m), m \in unsettled \/ Vanished(m)
      PROVE  StillRead(m, p)'
  <2>1. ~Enqueued(m)'
    BY <1>0, <1>2, EnqueuedAtRevision
  <2>2. CASE Vanished(m)
    BY <1>2, <2>1, <2>2, VanishedKept DEF StillRead
  <2>3. CASE EnqueueFileDropped /\ running.id = m
    <3>1. memory[m] = None /\ memory' = memory
      BY <1>2, <2>3 DEF ReadInv, DropsUnshown, EnqueueFileDropped, Enqueued, queueVars
    <3>2. disk'[m] = None \/ m \in unsettled'
      BY <1>0, <2>3 DEF EnqueueFileDropped, StoreRemoves, TypeOK, PayloadMap
    <3>3. ~Cleaning'
      BY <2>3 DEF EnqueueFileDropped, Ends, Cleaning
    <3> QED
      BY <1>2, <2>1, <3>1, <3>2, <3>3 DEF StillRead, Vanished
  <2>4. CASE m \in unsettled /\ ~(EnqueueFileDropped /\ running.id = m)
    <3>1. ~(EnqueueWritten /\ running.id = m)
      BY <1>2 DEF EnqueueWritten, Enqueued
    <3>2. m \in unsettled'
      BY <1>0, <2>4, <3>1, UnsettledAtRevision
    <3> QED
      BY <1>2, <2>1, <3>2 DEF StillRead
  <2> QED
    BY <1>2, <2>2, <2>3, <2>4
<1> QED
  BY <1>1, <1>2 DEF StillRead

LEMMA ReadOKKept ==
  ASSUME ReadInv, [Next]_vars
  PROVE  ReadOK'
<1>0. TypeOK /\ Line /\ memory \in PayloadMap /\ holds \in [Writers -> Holds]
      /\ NoHold.status = "idle"
  BY ReadTyped, NoHoldIsTyped DEF TypeOK
<1>1. CASE Crash
  BY <1>0, <1>1 DEF Crash, ReadOK, Reads
<1>2. CASE ~Crash
  <2>1. SUFFICES ASSUME NEW w \in Writers, NEW m \in Messages, NEW p, Reads(holds'[w]),
                        holds'[w].id = m, holds'[w].revision = revisions'[m],
                        holds'[w].payload = p
                 PROVE  StillRead(m, p)'
    BY DEF ReadOK, StillRead
  <2>2. CASE Held(w)
    <3>1. /\ Reads(holds[w]) /\ holds[w].id = m /\ holds[w].revision = revisions'[m]
          /\ holds'[w].payload = holds[w].payload
      BY <2>1, <2>2 DEF Held
    <3>2. revisions'[m] = revisions[m]
      <4>1. /\ revisions[m] \in Nat /\ revisions'[m] \in Nat
            /\ revisions[m] <= revisions'[m]
        BY <1>0, <1>2, RevisionSteps
      <4>2. revisions'[m] <= revisions[m]
        BY <1>0, <3>1 DEF Line, HoldsRead
      <4> QED
        BY <4>1, <4>2
    <3>3. holds[w].payload \in Nat \ {None}
      BY <1>0, <3>1, HoldIsUsed DEF ReadInv, Filled, Reads
    <3>4. StillRead(m, holds[w].payload)
      BY <3>1, <3>2 DEF ReadInv, ReadOK
    <3>5. p \in Nat \ {None} /\ StillRead(m, p)
      BY <2>1, <3>1, <3>3, <3>4
    <3> QED
      BY <1>2, <3>2, <3>5, StillReadKept
  <2>3. CASE HasRead(w)
    BY <2>1, <2>3 DEF HasRead, StillRead, queueVars
  <2>4. CASE HasWritten(w)
    <3>1. /\ memory' = [memory EXCEPT ![running.id] = running.payload]
          /\ running.id = m /\ running.payload = p
      BY <2>1, <2>4 DEF HasWritten, UpdateWritten
    <3> QED
      BY <1>0, <3>1 DEF StillRead, PayloadMap
  <2> QED
    BY <1>0, <2>1, <2>2, <2>3, <2>4, ReadSteps
<1> QED
  BY <1>1, <1>2

LEMMA ReadStart == Init => ReadInv
<1> SUFFICES ASSUME Init PROVE ReadInv
  OBVIOUS
<1>1. /\ \A w \in Writers : holds[w] = NoHold
      /\ stage = "idle"
  BY DEF Init
<1>2. /\ Len(pending) = 0 /\ Job(0) = NoMutation /\ NoMutation.op = "none"
      /\ NoMutation.by \notin Writers /\ NoHold.status = "idle"
  <2>1. NoMutation.by = NoWriter /\ NoWriter \notin Writers
    BY OutboxAssumption DEF NoMutation, Mutation
  <2> QED
    BY <2>1, NoMutationIsTyped, NoHoldIsTyped DEF Init, Job
<1>3. Line
  BY LineStarts DEF LineInv
<1>4. Superseded /\ NotYetStored /\ PutBackShown /\ DropsUnshown
  BY <1>1, <1>2 DEF Superseded, NotYetStored, PutBackShown, DropsUnshown, ToWrite, Waits
<1> QED
  BY <1>1, <1>2, <1>3, <1>4 DEF ReadInv, Linked, Counted, Filled, ReadOK, Reads

LEMMA ReadAfterCrash ==
  ASSUME Crash
  PROVE  Superseded' /\ NotYetStored' /\ PutBackShown' /\ DropsUnshown'
<1>1. pending' = <<>> /\ running' = NoMutation /\ stage' = "idle" /\ NoMutation.op = "none"
  BY NoMutationIsTyped DEF Crash
<1>2. \A i \in 0 .. Len(pending') : Job(i)' = NoMutation
  BY <1>1 DEF Job
<1> QED
  BY <1>1, <1>2 DEF Superseded, NotYetStored, PutBackShown, DropsUnshown, ToWrite, Waits

LEMMA ReadAlways == Spec => []ReadInv
<1>1. ReadInv /\ [Next]_vars => ReadInv'
  <2> SUFFICES ASSUME ReadInv, [Next]_vars PROVE ReadInv'
    OBVIOUS
  <2>1. Line' /\ Linked' /\ Counted' /\ Filled'
    BY LineKept, LinkedKept, CountedKept, FilledKept DEF ReadInv
  <2>2. Superseded' /\ NotYetStored' /\ PutBackShown' /\ DropsUnshown'
    BY ReadAfterCrash, SupersededKept, NotYetStoredKept, PutBackShownKept, DropsUnshownKept
  <2> QED
    BY <2>1, <2>2, ReadOKKept DEF ReadInv
<1> QED
  BY <1>1, ReadStart, PTL DEF Spec

\* Only an update that was written and has not lost answers its writer with a new
\* revision.
LEMMA AcceptedSteps ==
  ASSUME ReadInv, [Next]_vars, NEW w \in Writers,
         holds[w].status = "updating", holds'[w].status = "ready"
  PROVE  UpdateWritten /\ ~LostRace(running) /\ running.by = w
<1>0. /\ TypeOK /\ holds \in [Writers -> Holds] /\ NoHold.status = "idle"
      /\ \A id, p : Hold("confirmed", id, p, 0, TRUE).status = "confirmed"
  BY ReadTyped, NoHoldIsTyped DEF TypeOK, Hold
<1>1. Asks(holds[w]) /\ holds'[w] # holds[w]
  BY DEF Asks
<1>2. CASE Callers
  <2>1. ASSUME NEW c, Reports(c, holds'[w])
        PROVE  FALSE
    BY <2>1 DEF Reports
  <2> QED
    BY <1>0, <1>1, <1>2, <2>1, CallersTell
<1>3. CASE Starting
  <2>1. \/ holds' = holds
        \/ \E c : Answers(c, NoHold)
        \/ \E c : Answers(c, Hold("confirmed", c.id, c.payload, 0, TRUE))
    <3>1. CASE Confirm
      BY <3>1 DEF Confirm
    <3>2. CASE BeginUpdate \/ BeginRemove
      BY <3>2 DEF BeginUpdate, BeginRemove
    <3> QED
      BY <1>3, <3>1, <3>2 DEF Starting, BeginEnqueue, BeginLoading
  <2>2. ASSUME NEW c, NEW h, Answers(c, h)
        PROVE  holds'[w] = holds[w] \/ holds'[w] = h
    BY <1>0, <2>2 DEF Answers
  <2>3. \/ holds'[w] \in {holds[w], NoHold}
        \/ \E c : holds'[w] = Hold("confirmed", c.id, c.payload, 0, TRUE)
    BY <2>1, <2>2
  <2> QED
    BY <1>0, <1>1, <2>3
<1>4. CASE Proceeding
  <2>1. CASE UpdateWritten
    <3>1. \/ holds' = holds
          \/ Answers(running, NoHold)
          \/ ~LostRace(running) /\ \E h : Answers(running, h)
      BY <2>1 DEF UpdateWritten
    <3> QED
      BY <1>0, <1>1, <2>1, <3>1 DEF Answers
  <2>2. CASE ~UpdateWritten
    <3>1. holds' = holds \/ \E c : Answers(c, NoHold)
      BY <1>4, <2>2 DEF Proceeding, Enqueuing, Updating, Removing, Clearing, EnqueueWritten,
         EnqueueWriteFails, EnqueueFileDropped, UpdateWriteFails, UpdateWinnerRestored,
         FileRemoved, FileRemovalFails, RemovalUndone, Loaded, ClearLoads, ClearLoadFails,
         ClearRemoved, ClearRemoves, ClearRestores, ClearFinishes
    <3> QED
      BY <1>0, <1>1, <3>1 DEF Answers
  <2> QED
    BY <2>1, <2>2
<1>5. CASE Crash
  BY <1>0, <1>5 DEF Crash
<1>6. CASE UNCHANGED vars
  BY <1>1, <1>6 DEF vars, callerVars
<1> QED
  BY <1>2, <1>3, <1>4, <1>5, <1>6, StepKinds

\* An update of apps/mobile/src/state/thread-outbox-manager.ts that is accepted found
\* the payload its writer had read, or a message whose file an earlier compensation
\* left apart; whether or not messages are also removed without naming a revision.
THEOREM AcceptedCorrect == Spec => AcceptedOnWhatWasRead
<1> DEFINE Accepts ==
      \A w \in Writers :
        holds[w].status = "updating" /\ holds'[w].status = "ready"
          => \/ memory[holds[w].id] = holds[w].payload
             \/ holds[w].id \in unsettled
<1>1. ReadInv /\ [Next]_vars => Accepts
  <2> SUFFICES ASSUME ReadInv, [Next]_vars, NEW w \in Writers,
                      holds[w].status = "updating", holds'[w].status = "ready"
               PROVE  \/ memory[holds[w].id] = holds[w].payload
                      \/ holds[w].id \in unsettled
    OBVIOUS
  <2>1. UpdateWritten /\ ~LostRace(running) /\ running.by = w
    BY AcceptedSteps
  <2>2. /\ 0 \in 0 .. Len(pending) /\ Job(0) = running /\ running.op = "update"
        /\ running.id \in Messages /\ TypeOK
    BY <2>1, ReadTyped, MutationIsUsed DEF UpdateWritten, Waits
  <2>3. holds[w].id = running.id /\ holds[w].revision = running.expected
    BY <2>1, <2>2 DEF ReadInv, Linked, Reports
  <2>4. running.expected # AnyRevision
    BY <2>2 DEF ReadInv, Line, JobsSound, Sound
  <2>5. memory[running.id] # None /\ revisions[running.id] = running.expected
    BY <2>1, <2>4 DEF LostRace, StaleOrMissing
  <2> QED
    BY <2>2, <2>3, <2>5 DEF ReadInv, ReadOK, Reads, StillRead, Vanished
<1> QED
  BY <1>1, ReadAlways, PTL DEF Spec, AcceptedOnWhatWasRead

-----------------------------------------------------------------------------
(* Whoever waits is in the line, and the line goes on: what the liveness   *)
(* property WritersAreAnswered rests on, short of its fairness.            *)

Awaited ==
  \A w \in Writers : Asks(holds[w]) => \E i \in 0 .. Len(pending) : Job(i).by = w

\* What waits is a mutation of some kind, and what runs is at a stage of its kind.
RealJobs == \A i \in 1 .. Len(pending) : pending[i].op # "none"
AtWork ==
  \/ Waits("enqueue", "writing") \/ Waits("enqueue", "removing")
  \/ Waits("update", "writing") \/ Waits("update", "restoring")
  \/ Waits("remove", "removing") \/ Waits("remove", "restoring")
  \/ Waits("load", "loading")
  \/ Waits("clear", "loading") \/ Waits("clear", "removing") \/ Waits("clear", "restoring")
WorkInv == TypeOK /\ Linked /\ Awaited /\ RealJobs /\ (running # NoMutation => AtWork)

\* The guards of the steps the queue may take next.
Begun == {"enqueue", "confirm", "update", "remove", "load", "clear"}
CanGoOn ==
  \/ \E op \in Begun : Starts(op)
  \/ /\ AtWork
     /\ Waits("clear", "removing") \/ Waits("clear", "restoring")
          => clear.left = {} \/ \E m \in Messages : m \in clear.left

\* Whoever waits has a mutation in the line, and the queue can go on.
WritersCanBeAnswered ==
  \A w \in Writers : Asks(holds[w]) =>
    CanGoOn /\ \E i \in 0 .. Len(pending) : Job(i).by = w /\ Reports(Job(i), holds[w])

\* Nothing is submitted: who still waits has not been told, and its mutation stays.
LEMMA AwaitedStays ==
  ASSUME Awaited, NEW shift \in {0, 1}, Len(pending) \in Nat, Len(pending') \in Nat,
         \A i \in 0 .. Len(pending) : \A w \in Writers :
           Job(i).by = w /\ Asks(holds'[w]) =>
             i - shift \in 0 .. Len(pending') /\ Job(i - shift)' = Job(i),
         \A w \in Writers : Asks(holds'[w]) => Asks(holds[w])
  PROVE  Awaited'
<1> SUFFICES ASSUME NEW w \in Writers, Asks(holds'[w])
             PROVE  \E i \in 0 .. Len(pending') : (Job(i)').by = w
  BY DEF Awaited
<1>1. PICK i \in 0 .. Len(pending) : Job(i).by = w
  BY DEF Awaited
<1>2. i - shift \in 0 .. Len(pending') /\ Job(i - shift)' = Job(i)
  BY <1>1
<1> QED
  BY <1>1, <1>2

LEMMA AwaitedKept ==
  ASSUME TypeOK, Linked, Awaited, [Next]_vars
  PROVE  Awaited'
<1>0. /\ TypeOK' /\ pending \in Seq(Mutations) /\ holds \in [Writers -> Holds]
      /\ Len(pending) \in Nat /\ Len(pending') \in Nat
      /\ NoMutation.by = NoWriter /\ NoWriter \notin Writers /\ QueueTyped
  <2>1. TypeOK'
    BY StepTyped
  <2>2. NoMutation.by = NoWriter /\ NoWriter \notin Writers
    BY OutboxAssumption DEF NoMutation, Mutation
  <2> QED
    BY <2>1, <2>2, JobIsTyped, NextJobIsTyped DEF TypeOK, QueueTyped
<1>1. CASE Callers
  <2>r. running' = running
    BY <1>1, CallersFrame
  <2>1. CASE /\ pending' = pending
             /\ \A w \in Writers : Asks(holds[w]) \/ Asks(holds'[w]) => holds'[w] = holds[w]
    <3>1. \A i \in 0 .. Len(pending) :
            i - 0 \in 0 .. Len(pending') /\ Job(i - 0)' = Job(i)
      BY <1>0, <2>1, <2>r DEF Job
    <3>2. \A w \in Writers : Asks(holds'[w]) => Asks(holds[w])
      BY <2>1
    <3> QED
      BY <1>0, <3>1, <3>2, AwaitedStays
  <2>2. ASSUME NEW c \in Mutations, Submit(c),
               \/ c.by = NoWriter /\ holds' = holds
               \/ \E w \in Writers : /\ c.by = w /\ ~Asks(holds[w]) /\ Reports(c, holds'[w])
                                     /\ \A v \in Writers \ {w} : holds'[v] = holds[v]
        PROVE  Awaited'
    <3>1. /\ Len(pending') = Len(pending) + 1
          /\ \A i \in 1 .. Len(pending) : pending'[i] = pending[i]
          /\ pending'[Len(pending) + 1] = c
      BY <1>0, <2>2, Appended DEF Submit
    <3>2. \A i \in 0 .. Len(pending) : i \in 0 .. Len(pending') /\ Job(i)' = Job(i)
      BY <1>0, <2>r, <3>1 DEF Job
    <3>3. \E i \in 0 .. Len(pending') : Job(i)' = c
      <4>1. PICK k \in 1 .. Len(pending') : k = Len(pending) + 1
        BY <1>0, <3>1
      <4>2. k \in 0 .. Len(pending') /\ Job(k)' = c
        BY <1>0, <3>1, <4>1 DEF Job
      <4> QED
        BY <4>1, <4>2
    <3>4. ASSUME NEW w \in Writers, Asks(holds'[w])
          PROVE  \E i \in 0 .. Len(pending') : (Job(i)').by = w
      <4>1. CASE c.by = w
        BY <3>3, <4>1
      <4>2. CASE c.by # w
        <5>1. Asks(holds[w])
          BY <1>0, <2>2, <3>4, <4>2
        <5>2. PICK i \in 0 .. Len(pending) : Job(i).by = w
          BY <5>1 DEF Awaited
        <5> QED
          BY <3>2, <5>2
      <4> QED
        BY <4>1, <4>2
    <3> QED
      BY <3>4 DEF Awaited
  <2> QED
    BY <1>0, <1>1, <2>1, <2>2, CallersTell
<1>2. CASE Starting
  <2>1. /\ running = NoMutation /\ pending # <<>> /\ pending' = Tail(pending)
        /\ \/ running' = Head(pending) /\ holds' = holds
           \/ running' = running /\ \E h : Answers(Head(pending), h) /\ ~Asks(h)
    BY <1>0, <1>2, StartingFrame, StartingTells DEF Begins, Passes
  <2>2. /\ Head(pending) = pending[1] /\ Len(pending) >= 1
        /\ Len(pending') = Len(pending) - 1
        /\ \A i \in 1 .. Len(pending') : pending'[i] = pending[i + 1]
    BY <1>0, <2>1, HeadAndTail
  <2>3. \A i \in 2 .. Len(pending) : i - 1 \in 0 .. Len(pending') /\ Job(i - 1)' = Job(i)
    <3> SUFFICES ASSUME NEW i \in 2 .. Len(pending)
                 PROVE  i - 1 \in 0 .. Len(pending') /\ Job(i - 1)' = Job(i)
      OBVIOUS
    <3>1. /\ i - 1 \in 1 .. Len(pending') /\ (i - 1) + 1 = i
          /\ i - 1 \in 0 .. Len(pending') /\ i # 0 /\ i - 1 # 0
      BY <1>0, <2>2
    <3>2. pending'[i - 1] = pending[i]
      BY <2>2, <3>1
    <3>3. Job(i - 1)' = pending'[i - 1] /\ Job(i) = pending[i]
      BY <3>1 DEF Job
    <3> QED
      BY <3>1, <3>2, <3>3
  <2>4. ASSUME NEW i \in 0 .. Len(pending), NEW w \in Writers, Job(i).by = w, Asks(holds'[w])
        PROVE  i - 1 \in 0 .. Len(pending') /\ Job(i - 1)' = Job(i)
    <3>1. i # 0
      BY <1>0, <2>1, <2>4 DEF Job
    <3>2. CASE i = 1
      <4>1. Head(pending).by = w
        BY <2>2, <2>4, <3>2 DEF Job
      <4>2. running' = Head(pending)
        BY <1>0, <2>1, <2>4, <4>1 DEF Answers
      <4> QED
        BY <1>0, <2>2, <3>2, <4>2 DEF Job
    <3> QED
      BY <1>0, <2>3, <3>1, <3>2
  <2>5. \A w \in Writers : Asks(holds'[w]) => Asks(holds[w])
    BY <1>0, <2>1 DEF Answers
  <2> QED
    BY <1>0, <2>4, <2>5, AwaitedStays
<1>3. CASE Proceeding
  <2>1. /\ pending' = pending
        /\ \/ holds' = holds /\ running' = running
           \/ /\ holds' = holds /\ running' = NoMutation
              /\ running.op \in {"enqueue", "load", "clear"}
           \/ running' = NoMutation /\ \E h : Answers(running, h) /\ ~Asks(h)
    BY <1>3, ProceedingTells
  <2>2. 0 \in 0 .. Len(pending) /\ Job(0) = running
    BY <1>0 DEF Job
  <2>3. ASSUME NEW i \in 0 .. Len(pending), NEW w \in Writers, Job(i).by = w, Asks(holds'[w])
        PROVE  i - 0 \in 0 .. Len(pending') /\ Job(i - 0)' = Job(i)
    <3>1. CASE i # 0
      BY <1>0, <2>1, <3>1 DEF Job
    <3>2. CASE i = 0 /\ running' = running
      BY <1>0, <2>1, <3>2 DEF Job
    <3>3. CASE i = 0 /\ running' # running
      <4>1. running.by = w /\ Reports(running, holds[w])
        BY <2>2, <2>3, <3>3 DEF Linked
      <4>2. running.op \notin {"enqueue", "load", "clear"}
        BY <4>1 DEF Reports
      <4>3. PICK h : Answers(running, h) /\ ~Asks(h)
        BY <2>1, <3>3, <4>2
      <4> QED
        BY <1>0, <2>3, <4>1, <4>3 DEF Answers
    <3> QED
      BY <3>1, <3>2, <3>3
  <2>4. \A w \in Writers : Asks(holds'[w]) => Asks(holds[w])
    BY <1>0, <2>1 DEF Answers
  <2> QED
    BY <1>0, <2>3, <2>4, AwaitedStays
<1>4. CASE Crash
  BY <1>4, NoHoldIsTyped DEF Crash, Awaited, Asks, NoHold, Hold
<1>5. CASE UNCHANGED vars
  <2>1. pending' = pending /\ running' = running /\ holds' = holds
    BY <1>5 DEF vars, mutationVars, callerVars
  <2>2. \A i \in 0 .. Len(pending) : i - 0 \in 0 .. Len(pending') /\ Job(i - 0)' = Job(i)
    BY <1>0, <2>1 DEF Job
  <2> QED
    BY <1>0, <2>1, <2>2, AwaitedStays
<1> QED
  BY <1>1, <1>2, <1>3, <1>4, <1>5, StepKinds

LEMMA RealJobsKept ==
  ASSUME TypeOK, RealJobs, [Next]_vars
  PROVE  RealJobs'
<1>0. /\ TypeOK' /\ Len(pending) \in Nat /\ Len(pending') \in Nat
      /\ pending \in Seq(Mutations) /\ QueueTyped
  BY StepTyped, JobIsTyped, NextJobIsTyped DEF TypeOK, QueueTyped
<1>1. CASE pending' = pending
  BY <1>1 DEF RealJobs
<1>2. ASSUME NEW c \in Mutations, Submit(c), Asked(c)
      PROVE  RealJobs'
  <2>1. /\ Len(pending') = Len(pending) + 1
        /\ \A i \in 1 .. Len(pending) : pending'[i] = pending[i]
        /\ pending'[Len(pending) + 1] = c
    BY <1>0, <1>2, Appended DEF Submit
  <2>2. c.op # "none"
    BY <1>2 DEF Asked
  <2> QED
    BY <1>0, <2>1, <2>2 DEF RealJobs
<1>3. CASE pending # <<>> /\ pending' = Tail(pending)
  <2>1. /\ Len(pending) >= 1 /\ Len(pending') = Len(pending) - 1
        /\ \A i \in 1 .. Len(pending') : pending'[i] = pending[i + 1]
    BY <1>0, <1>3, HeadAndTail
  <2> QED
    BY <1>0, <2>1 DEF RealJobs
<1>4. CASE Crash
  BY <1>4 DEF Crash, RealJobs
<1>5. CASE Starting
  BY <1>0, <1>3, <1>5, StartingFrame DEF Begins, Passes
<1> QED
  BY <1>1, <1>2, <1>4, <1>5, StepKinds, Submitted, ProceedingFrame DEF vars

LEMMA AtWorkKept ==
  ASSUME TypeOK, running # NoMutation => AtWork, [Next]_vars
  PROVE  running' # NoMutation => AtWork'
<1>1. CASE Callers \/ UNCHANGED vars
  <2>1. running' = running /\ stage' = stage
    BY <1>1, CallersFrame DEF vars, mutationVars
  <2> QED
    BY <2>1 DEF AtWork, Waits
<1>2. CASE Starting
  BY <1>2, StartingFrame DEF Starting, BeginEnqueue, Confirm, BeginUpdate, BeginRemove,
     BeginLoading, Starts, Begins, Passes, AtWork, Waits
<1>3. CASE Enqueuing
  BY <1>3 DEF Enqueuing, EnqueueWritten, EnqueueWriteFails, EnqueueFileDropped, Ends,
     AtWork, Waits
<1>4. CASE Updating
  BY <1>4 DEF Updating, UpdateWritten, UpdateWriteFails, UpdateWinnerRestored, Ends,
     AtWork, Waits
<1>5. CASE Removing
  BY <1>5 DEF Removing, FileRemoved, FileRemovalFails, RemovalUndone, Ends, AtWork, Waits
<1>6. CASE Loaded \/ Clearing
  BY <1>6 DEF Loaded, Clearing, ClearLoads, ClearLoadFails, ClearRemoved, ClearFinishes,
     ClearRemoves, ClearRestores, Ends, AtWork, Waits
<1>7. CASE Crash
  BY <1>7 DEF Crash
<1> QED
  BY <1>1, <1>2, <1>3, <1>4, <1>5, <1>6, <1>7, StepKinds DEF Proceeding

LEMMA WorkAlways == Spec => []WorkInv
<1>1. Init => WorkInv
  <2> SUFFICES ASSUME Init PROVE WorkInv
    OBVIOUS
  <2>1. TypeOK
    BY InitIsTyped
  <2>2. Linked
    BY ReadStart DEF ReadInv
  <2>3. Awaited /\ RealJobs /\ running = NoMutation
    BY DEF Init, Awaited, RealJobs, Asks, NoHold, Hold
  <2> QED
    BY <2>1, <2>2, <2>3 DEF WorkInv
<1>2. WorkInv /\ ReadInv /\ [Next]_vars => WorkInv'
  <2> SUFFICES ASSUME WorkInv, ReadInv, [Next]_vars PROVE WorkInv'
    OBVIOUS
  <2>1. TypeOK' /\ Linked'
    BY StepTyped, LinkedKept DEF WorkInv, ReadInv
  <2>2. Awaited' /\ RealJobs' /\ (running' # NoMutation => AtWork')
    BY AwaitedKept, RealJobsKept, AtWorkKept DEF WorkInv
  <2> QED
    BY <2>1, <2>2 DEF WorkInv
<1> QED
  BY <1>1, <1>2, ReadAlways, PTL DEF Spec

\* A writer that waits for apps/mobile/src/state/thread-outbox-manager.ts has its own
\* mutation in the line or running, whatever else was submitted, failed or went away, and
\* the queue is never stuck before it: the next mutation can start, or the store
\* operation it waits for has a step for either answer.
THEOREM WritersAreNotForgotten == Spec => []WritersCanBeAnswered
<1>1. WorkInv => WritersCanBeAnswered
  <2> SUFFICES ASSUME WorkInv, NEW w \in Writers, Asks(holds[w])
               PROVE  /\ CanGoOn
                      /\ \E i \in 0 .. Len(pending) :
                           Job(i).by = w /\ Reports(Job(i), holds[w])
    BY DEF WritersCanBeAnswered
  <2>0. /\ TypeOK /\ Len(pending) \in Nat /\ pending \in Seq(Mutations) /\ QueueTyped
        /\ clear.left \subseteq Messages /\ NoMutation.by \notin Writers
    <3>1. NoMutation.by = NoWriter /\ NoWriter \notin Writers
      BY OutboxAssumption DEF NoMutation, Mutation
    <3> QED
      BY <3>1, JobIsTyped DEF WorkInv, TypeOK, QueueTyped, Clears
  <2>1. PICK i \in 0 .. Len(pending) : Job(i).by = w
    BY DEF WorkInv, Awaited
  <2>2. Reports(Job(i), holds[w])
    BY <2>1 DEF WorkInv, Linked
  <2>3. CanGoOn
    <3>1. CASE running # NoMutation
      <4>1. AtWork
        BY <3>1 DEF WorkInv
      <4>2. clear.left = {} \/ \E m \in Messages : m \in clear.left
        BY <2>0
      <4> QED
        BY <4>1, <4>2 DEF CanGoOn
    <3>2. CASE running = NoMutation
      <4>1. i # 0 /\ pending # <<>>
        BY <2>0, <2>1, <3>2 DEF Job
      <4>2. /\ Head(pending) = pending[1] /\ 1 \in 1 .. Len(pending)
            /\ Head(pending) \in Mutations
        BY <2>0, <4>1, HeadAndTail
      <4>3. Head(pending).op \in Begun
        BY <4>2 DEF WorkInv, RealJobs, Begun, Mutations, Operations
      <4>4. Starts(Head(pending).op)
        BY <3>2, <4>1 DEF Starts
      <4> QED
        BY <4>3, <4>4 DEF CanGoOn
    <3> QED
      BY <3>1, <3>2
  <2> QED
    BY <2>1, <2>2, <2>3
<1> QED
  BY <1>1, WorkAlways, PTL

\* What a step of the queue brings nearer: the end of the line, of the running mutation,
\* of its store operations, of the files a clear works through.
Later(s, t) ==
  \/ s \in {"loading", "writing"} /\ t = "removing"
  \/ s \in {"writing", "removing"} /\ t = "restoring"
Advances ==
  \/ /\ running = NoMutation /\ pending # <<>> /\ pending' = Tail(pending)
     /\ running' \in {NoMutation, Head(pending)}
  \/ running # NoMutation /\ running' = NoMutation /\ pending' = pending
  \/ running' = running /\ pending' = pending /\ Later(stage, stage')
  \/ /\ running' = running /\ pending' = pending /\ stage' = stage
     /\ clear.left' \subseteq clear.left /\ clear.left' # clear.left
\* Callers submit behind the line and touch nothing a running mutation has left to do.
LeavesLine ==
  /\ stage' = stage /\ (running.op = "clear" => clear' = clear)
  /\ Len(pending) <= Len(pending')
  /\ \A i \in 0 .. Len(pending) : Job(i)' = Job(i)
NearerToTheEnd == [][(Mutating => Advances) /\ (Callers => LeavesLine)]_vars

LEMMA MutatingAdvances ==
  ASSUME TypeOK, Mutating
  PROVE  Advances
<1>1. CASE Starting
  BY <1>1, StartingFrame DEF Begins, Passes, Advances
<1>2. CASE Enqueuing
  BY <1>2 DEF Enqueuing, EnqueueWritten, EnqueueWriteFails, EnqueueFileDropped, Ends, Waits,
     NoMutation, Mutation, Advances, Later
<1>3. CASE Updating
  BY <1>3 DEF Updating, UpdateWritten, UpdateWriteFails, UpdateWinnerRestored, Ends, Waits,
     NoMutation, Mutation, Advances, Later
<1>4. CASE Removing
  BY <1>4 DEF Removing, FileRemoved, FileRemovalFails, RemovalUndone, Ends, Waits,
     NoMutation, Mutation, Advances, Later
<1>5. CASE Loaded \/ ClearLoadFails \/ ClearFinishes \/ ClearLoads \/ ClearRemoved
  BY <1>5 DEF Loaded, ClearLoadFails, ClearFinishes, ClearLoads, ClearRemoved, Ends, Waits,
     NoMutation, Mutation, Advances, Later
<1>6. ASSUME NEW m \in Messages, ClearRemoves(m) \/ ClearRestores(m)
      PROVE  Advances
  <2>1. m \in clear.left /\ clear.left' = clear.left \ {m}
    <3>1. clear \in Clears
      BY DEF TypeOK
    <3> QED
      BY <1>6, <3>1 DEF ClearRemoves, ClearRestores, Clears
  <2>2. running' = running /\ pending' = pending /\ stage' = stage
    BY <1>6 DEF ClearRemoves, ClearRestores
  <2> QED
    BY <2>1, <2>2 DEF Advances
<1> QED
  BY <1>1, <1>2, <1>3, <1>4, <1>5, <1>6 DEF Mutating, Clearing

LEMMA CallersLeaveLine ==
  ASSUME TypeOK, Callers
  PROVE  LeavesLine
<1>0. pending \in Seq(Mutations) /\ Len(pending) \in Nat /\ QueueTyped
  BY DEF TypeOK, QueueTyped
<1>1. stage' = stage /\ running' = running /\ (running.op = "clear" => clear' = clear)
  BY CallersFrame DEF ClearEnvironment
<1>2. CASE pending' = pending
  BY <1>0, <1>1, <1>2 DEF LeavesLine, Job
<1>3. ASSUME NEW c \in Mutations, Submit(c)
      PROVE  LeavesLine
  <2>1. /\ Len(pending') = Len(pending) + 1
        /\ \A i \in 1 .. Len(pending) : pending'[i] = pending[i]
    BY <1>0, <1>3, Appended DEF Submit
  <2> QED
    BY <1>0, <1>1, <2>1 DEF LeavesLine, Job
<1> QED
  BY <1>2, <1>3, Submitted

\* No step of a mutation is for nothing, failures and lost races included, and no caller
\* gets ahead of one that waits: each takes the queue of
\* apps/mobile/src/state/thread-outbox-manager.ts nearer to the end of what is in line.
THEOREM QueueAdvances == Spec => NearerToTheEnd
<1>1. TypeOK /\ [Next]_vars => (Mutating => Advances) /\ (Callers => LeavesLine)
  BY MutatingAdvances, CallersLeaveLine
<1> QED
  BY <1>1, TypeCorrect, PTL DEF Spec, NearerToTheEnd
=============================================================================
