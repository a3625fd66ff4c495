------------------------- MODULE ThreadOutbox_proofs -------------------------
(***************************************************************************)
(* Theorems of ThreadOutbox, for every set of messages and writers and     *)
(* every bound on calls, faults and process deaths.                        *)
(***************************************************************************)
EXTENDS ThreadOutbox, TLAPS

-----------------------------------------------------------------------------
(* Types of the values the actions build                                   *)

LEMMA MutationIsTyped ==
  ASSUME NEW op \in Operations, NEW id \in Messages \cup {NoMessage}, NEW payload \in Nat,
         NEW expected \in Int, NEW guarded \in BOOLEAN, NEW by \in Writers \cup {NoWriter},
         op \in {"enqueue", "confirm", "update", "remove"} => id \in Messages,
         op = "update" => by \in Writers
  PROVE  Mutation(op, id, payload, expected, guarded, by) \in Mutations
BY DEF Mutation, Mutations

LEMMA MutationIsUsed ==
  ASSUME NEW c \in Mutations
  PROVE  /\ c.op \in Operations /\ c.id \in Messages \cup {NoMessage} /\ c.payload \in Nat
         /\ c.expected \in Int /\ c.guarded \in BOOLEAN /\ c.by \in Writers \cup {NoWriter}
         /\ c.op \in {"enqueue", "confirm", "update", "remove"} => c.id \in Messages
         /\ c.op = "update" => c.by \in Writers
BY DEF Mutations

LEMMA NoMutationIsTyped == NoMutation \in Mutations /\ NoMutation.op = "none"
BY DEF NoMutation, Mutation, Mutations, Operations, None, AnyRevision

LEMMA HoldIsTyped ==
  ASSUME NEW status \in {"idle", "confirming", "confirmed", "ready", "updating", "removing"},
         NEW id \in Messages \cup {NoMessage}, NEW payload \in Nat, NEW revision \in Nat,
         NEW confirmed \in BOOLEAN, status # "idle" => id \in Messages
  PROVE  Hold(status, id, payload, revision, confirmed) \in Holds
BY DEF Hold, Holds

LEMMA HoldIsUsed ==
  ASSUME NEW h \in Holds
  PROVE  /\ h.status \in {"idle", "confirming", "confirmed", "ready", "updating", "removing"}
         /\ h.id \in Messages \cup {NoMessage} /\ h.payload \in Nat
         /\ h.revision \in Nat /\ h.confirmed \in BOOLEAN
         /\ h.status # "idle" => h.id \in Messages
BY DEF Holds

LEMMA HoldMoves ==
  ASSUME NEW h \in Holds, h.status # "idle", NEW status \in {"updating", "removing"}
  PROVE  /\ [h EXCEPT !.status = status] \in Holds
         /\ [h EXCEPT !.status = status].payload = h.payload
         /\ [h EXCEPT !.status = status].status = status
         /\ [h EXCEPT !.status = status].confirmed = h.confirmed
BY DEF Holds

LEMMA NoHoldIsTyped == NoHold \in Holds /\ NoHold.status = "idle" /\ NoHold.payload = None
BY DEF NoHold, Hold, Holds, None

LEMMA HeadAndTail ==
  ASSUME NEW S, NEW s \in Seq(S), s # <<>>
  PROVE  /\ Head(s) \in S /\ Head(s) = s[1] /\ Tail(s) \in Seq(S)
         /\ Len(Tail(s)) = Len(s) - 1 /\ Len(s) \in Nat /\ Len(s) >= 1
         /\ \A i \in 1..Len(Tail(s)) : Tail(s)[i] = s[i + 1]
OBVIOUS

LEMMA Appended ==
  ASSUME NEW S, NEW s \in Seq(S), NEW e \in S
  PROVE  /\ Append(s, e) \in Seq(S)
         /\ Len(Append(s, e)) = Len(s) + 1 /\ Len(s) \in Nat
         /\ \A i \in 1..Len(s) : Append(s, e)[i] = s[i]
         /\ Append(s, e)[Len(s) + 1] = e
OBVIOUS

LEMMA ClearIsTyped ==
  /\ NoClear \in Clears /\ Nothing \in PayloadMap /\ NoRevisions \in PayloadMap
  /\ <<>> \in Seq(Mutations)
BY DEF NoClear, Clears, Nothing, NoRevisions, PayloadMap, None

LEMMA ClearIsUsed ==
  ASSUME NEW c \in Clears
  PROVE  /\ c.requested \in PayloadMap /\ c.all \in PayloadMap /\ c.revisions \in PayloadMap
         /\ c.left \subseteq Messages /\ c.gone \subseteq Messages /\ c.keep \in PayloadMap
BY DEF Clears

LEMMA BumpedIsTyped ==
  ASSUME revisions \in PayloadMap, NEW m \in Messages
  PROVE  Bumped(m) \in PayloadMap
BY DEF Bumped, PayloadMap

LEMMA Overwritten ==
  ASSUME NEW f \in PayloadMap, NEW m \in Messages, NEW p \in Nat
  PROVE  [f EXCEPT ![m] = p] \in PayloadMap
BY DEF PayloadMap

LEMMA Rehold ==
  ASSUME NEW f \in [Writers -> Holds], NEW w, NEW h \in Holds
  PROVE  [f EXCEPT ![w] = h] \in [Writers -> Holds]
OBVIOUS

-----------------------------------------------------------------------------
(* Types of the queue of mutations                                        *)

QueueTyped ==
  /\ pending \in Seq(Mutations) /\ running \in Mutations
  /\ stage \in {"idle", "writing", "removing", "restoring", "loading"}
  /\ running = NoMutation <=> stage = "idle"

LEMMA EndsTyped ==
  ASSUME QueueTyped, Ends
  PROVE  QueueTyped'
BY NoMutationIsTyped DEF QueueTyped, Ends

LEMMA PassesTyped ==
  ASSUME QueueTyped, pending # <<>>, Passes
  PROVE  QueueTyped'
BY HeadAndTail DEF QueueTyped, Passes

LEMMA BeginsTyped ==
  ASSUME QueueTyped, pending # <<>>, Head(pending).op # "none",
         NEW operation \in {"writing", "removing", "restoring", "loading"}, Begins(operation)
  PROVE  QueueTyped'
BY HeadAndTail, NoMutationIsTyped DEF QueueTyped, Begins

LEMMA StageMoves ==
  ASSUME QueueTyped, stage # "idle", stage' \in {"writing", "removing", "restoring", "loading"},
         UNCHANGED <<running, pending>>
  PROVE  QueueTyped'
BY DEF QueueTyped

LEMMA SubmitTyped ==
  ASSUME QueueTyped, NEW mutation \in Mutations, Submit(mutation), UNCHANGED <<running, stage>>
  PROVE  QueueTyped'
BY Appended DEF QueueTyped, Submit

LEMMA QueueKept ==
  ASSUME QueueTyped, UNCHANGED <<pending, running, stage>>
  PROVE  QueueTyped'
BY DEF QueueTyped

LEMMA AnswersTyped ==
  ASSUME holds \in [Writers -> Holds], NEW mutation \in Mutations, NEW hold \in Holds,
         Answers(mutation, hold)
  PROVE  holds' \in [Writers -> Holds]
BY Rehold DEF Answers

LEMMA StoreTyped ==
  ASSUME disk \in PayloadMap, written \subseteq Nat, faults \in Nat, NEW m \in Messages
  PROVE  /\ \A payload \in Nat : StoreWrites(m, payload)
              => disk' \in PayloadMap /\ written' \subseteq Nat /\ faults' \in Nat
         /\ StoreRemoves(m) => disk' \in PayloadMap /\ written' \subseteq Nat /\ faults' \in Nat
         /\ StoreFails => faults' \in Nat
<1>1. 0 \in Nat /\ MaxFaults \in Nat
  BY OutboxAssumption
<1>2. ASSUME NEW payload \in Nat, StoreWrites(m, payload)
      PROVE  disk' \in PayloadMap /\ written' \subseteq Nat /\ faults' \in Nat
  BY <1>2, Overwritten DEF StoreWrites
<1>3. ASSUME StoreRemoves(m)
      PROVE  disk' \in PayloadMap /\ written' \subseteq Nat /\ faults' \in Nat
  BY <1>1, <1>3, Overwritten DEF StoreRemoves, None
<1>4. ASSUME StoreFails
      PROVE  faults' \in Nat
  BY <1>1, <1>4 DEF StoreFails
<1> QED
  BY <1>2, <1>3, <1>4

LEMMA InitIsTyped == Init => TypeOK
<1>1. ASSUME Init
      PROVE  holds \in [Writers -> Holds]
  BY <1>1, NoHoldIsTyped DEF Init
<1>2. <<>> \in Seq(Mutations)
  OBVIOUS
<1> QED
  BY <1>1, <1>2, ClearIsTyped, NoMutationIsTyped DEF Init, TypeOK, None

-----------------------------------------------------------------------------
(* Each step of a caller keeps the types                                  *)

LEMMA CallersTyped == TypeOK /\ Callers => TypeOK'
<1> SUFFICES ASSUME TypeOK, Callers
             PROVE  TypeOK'
  OBVIOUS
<1>0. /\ UNCHANGED <<running, stage, leaving, disk, faults, crashes, historyVars>>
      /\ QueueTyped
      /\ \A m \in Messages : memory[m] \in Nat /\ revisions[m] \in Nat
      /\ \A w \in Writers : holds[w] \in Holds
      /\ NoWriter \in Writers \cup {NoWriter} /\ AnyRevision \in Int /\ Operations = Operations
  BY DEF Callers, TypeOK, QueueTyped, PayloadMap, AnyRevision
<1>names. /\ {"enqueue", "confirm", "update", "remove", "load", "clear"} \subseteq Operations
          /\ None \in Nat /\ 0 \in Nat
  BY DEF Operations, None
<1>1. ASSUME NEW m \in Messages, Enqueue(m)
      PROVE  TypeOK'
  <2>1. payloads' \in Nat /\ calls' \in Nat
    BY <1>1 DEF Enqueue, Call, TypeOK
  <2>2. revisions' \in PayloadMap /\ memory' \in PayloadMap
    BY <1>1, <2>1, BumpedIsTyped, Overwritten DEF Enqueue, TypeOK
  <2>3. Mutation("enqueue", m, payloads', AnyRevision, FALSE, NoWriter) \in Mutations
    BY <1>0, <1>names, <2>1, MutationIsTyped
  <2>4. QueueTyped'
    BY <1>0, <1>1, <2>3, SubmitTyped DEF Enqueue
  <2> QED
    BY <1>0, <1>1, <2>1, <2>2, <2>4 DEF Enqueue, TypeOK, QueueTyped, historyVars
<1>2. ASSUME NEW m \in Messages, RemovePlainly(m)
      PROVE  TypeOK'
  <2>1. Mutation("remove", m, memory[m], AnyRevision, FALSE, NoWriter) \in Mutations
    BY <1>0, <1>names, MutationIsTyped
  <2>2. QueueTyped'
    BY <1>0, <1>2, <2>1, SubmitTyped DEF RemovePlainly
  <2>calls. calls' \in Nat
    BY <1>2 DEF RemovePlainly, Call, TypeOK
  <2> QED
    BY <1>0, <1>2, <2>2, <2>calls DEF RemovePlainly, TypeOK, QueueTyped, historyVars, queueVars
<1>3. ASSUME NEW m \in Messages, ToggleEditing(m)
      PROVE  TypeOK'
  <2>1. calls' \in Nat /\ editing' \subseteq Messages /\ QueueTyped'
    BY <1>0, <1>3, QueueKept DEF ToggleEditing, Call, TypeOK
  <2> QED
    BY <1>0, <1>3, <2>1 DEF ToggleEditing, TypeOK, QueueTyped, historyVars, queueVars
<1>4. ASSUME NEW w \in Writers, NEW m \in Messages, ConfirmQueued(w, m)
      PROVE  TypeOK'
  <2>1. /\ Mutation("confirm", m, memory[m], AnyRevision, FALSE, w) \in Mutations
        /\ Hold("confirming", m, memory[m], 0, TRUE) \in Holds
    BY <1>0, <1>names, MutationIsTyped, HoldIsTyped
  <2>2. QueueTyped'
    BY <1>0, <1>4, <2>1, SubmitTyped DEF ConfirmQueued, AwaitsConfirmation
  <2>calls. calls' \in Nat
    BY <1>4 DEF ConfirmQueued, Call, TypeOK
  <2>3. holds' \in [Writers -> Holds]
    BY <1>4, <2>1, Rehold DEF ConfirmQueued, AwaitsConfirmation, TypeOK
  <2> QED
    BY <1>0, <1>4, <2>2, <2>calls, <2>3
       DEF ConfirmQueued, TypeOK, QueueTyped, historyVars, queueVars
<1>5. ASSUME NEW w \in Writers, NEW m \in Messages, OpenEditor(w, m)
      PROVE  TypeOK'
  <2>1. Hold("ready", m, memory[m], revisions[m], FALSE) \in Holds
    BY <1>0, <1>names, HoldIsTyped
  <2>2. holds' \in [Writers -> Holds] /\ QueueTyped'
    BY <1>0, <1>5, <2>1, Rehold, QueueKept DEF OpenEditor, TypeOK
  <2>calls. calls' \in Nat
    BY <1>5 DEF OpenEditor, Call, TypeOK
  <2> QED
    BY <1>0, <1>5, <2>2, <2>calls DEF OpenEditor, TypeOK, QueueTyped, historyVars, queueVars
<1>6. ASSUME NEW w \in Writers, Capture(w)
      PROVE  TypeOK'
  <2>1. holds[w].id \in Messages
    BY <1>0, <1>6, HoldIsUsed DEF Capture
  <2>2. Hold("ready", holds[w].id, memory[holds[w].id], revisions[holds[w].id], TRUE) \in Holds
    BY <1>0, <2>1, HoldIsTyped
  <2>3. holds' \in [Writers -> Holds] /\ QueueTyped'
    BY <1>0, <1>6, <2>2, NoHoldIsTyped, Rehold, QueueKept DEF Capture, TypeOK
  <2> QED
    BY <1>0, <1>6, <2>3 DEF Capture, TypeOK, QueueTyped, historyVars, queueVars
<1>7. ASSUME NEW w \in Writers, Update(w)
      PROVE  TypeOK'
  <2>1. payloads' \in Nat /\ holds[w].id \in Messages /\ holds[w].revision \in Int
    BY <1>0, <1>7, HoldIsUsed DEF Update, TypeOK
  <2>2. Mutation("update", holds[w].id, payloads', holds[w].revision, FALSE, w) \in Mutations
    BY <1>0, <1>names, <2>1, MutationIsTyped
  <2>3. QueueTyped'
    BY <1>0, <1>7, <2>2, SubmitTyped DEF Update
  <2>4. holds' \in [Writers -> Holds]
    BY <1>0, <1>7, HoldMoves, Rehold DEF Update, TypeOK
  <2> QED
    BY <1>0, <1>7, <2>1, <2>3, <2>4 DEF Update, TypeOK, QueueTyped, historyVars, queueVars
<1>8. ASSUME NEW w \in Writers, Remove(w)
      PROVE  TypeOK'
  <2>1. /\ holds[w].id \in Messages /\ holds[w].revision \in Int /\ holds[w].payload \in Nat
    BY <1>0, <1>8, HoldIsUsed DEF Remove
  <2>2. Mutation("remove", holds[w].id, holds[w].payload, holds[w].revision, TRUE, w)
          \in Mutations
    BY <1>0, <1>names, <2>1, MutationIsTyped
  <2>3. QueueTyped'
    BY <1>0, <1>8, <2>2, SubmitTyped DEF Remove
  <2>4. holds' \in [Writers -> Holds]
    BY <1>0, <1>8, HoldMoves, Rehold DEF Remove, TypeOK
  <2> QED
    BY <1>0, <1>8, <2>3, <2>4 DEF Remove, TypeOK, QueueTyped, historyVars, queueVars
<1>9. ASSUME NEW w \in Writers, GiveUp(w)
      PROVE  TypeOK'
  <2>1. holds' \in [Writers -> Holds] /\ QueueTyped'
    BY <1>0, <1>9, NoHoldIsTyped, Rehold, QueueKept DEF GiveUp, TypeOK
  <2> QED
    BY <1>0, <1>9, <2>1 DEF GiveUp, TypeOK, QueueTyped, historyVars, queueVars
<1>10. ASSUME ClearEnvironment
       PROVE  TypeOK'
  <2>1. Mutation("clear", NoMessage, None, AnyRevision, FALSE, NoWriter) \in Mutations
    BY <1>0, <1>names, MutationIsTyped
  <2>2. QueueTyped'
    BY <1>0, <1>10, <2>1, SubmitTyped DEF ClearEnvironment
  <2>calls. calls' \in Nat
    BY <1>10 DEF ClearEnvironment, Call, TypeOK
  <2>3. clear' \in Clears
    BY <1>10, ClearIsTyped DEF ClearEnvironment, Clears, TypeOK
  <2> QED
    BY <1>0, <1>10, <2>2, <2>calls, <2>3
       DEF ClearEnvironment, TypeOK, QueueTyped, historyVars, queueVars
<1>11. ASSUME Load
       PROVE  TypeOK'
  <2>1. Mutation("load", NoMessage, None, AnyRevision, FALSE, NoWriter) \in Mutations
    BY <1>0, <1>names, MutationIsTyped
  <2>2. QueueTyped'
    BY <1>0, <1>11, <2>1, SubmitTyped DEF Load
  <2> QED
    BY <1>0, <1>11, <2>2 DEF Load, TypeOK, QueueTyped, historyVars, queueVars, callerVars
<1> QED
  BY <1>1, <1>2, <1>3, <1>4, <1>5, <1>6, <1>7, <1>8, <1>9, <1>10, <1>11 DEF Callers
-----------------------------------------------------------------------------
(* Each step of a mutation keeps the types                                *)

\* The mutation at the head of the queue, and the writer it answers.
LEMMA Started ==
  ASSUME TypeOK, NEW op \in Operations \ {"none"}, Starts(op)
  PROVE  /\ QueueTyped /\ pending # <<>> /\ running = NoMutation
         /\ Head(pending) \in Mutations /\ Head(pending).op = op
BY HeadAndTail DEF TypeOK, QueueTyped, Starts

LEMMA StartingTyped == TypeOK /\ Starting /\ Mutating => TypeOK'
<1> SUFFICES ASSUME TypeOK, Starting, UNCHANGED <<editing, payloads, calls, crashes>>
             PROVE  TypeOK'
  BY DEF Mutating
<1>names. {"enqueue", "confirm", "update", "remove", "load", "clear"} \subseteq
            Operations \ {"none"}
  BY DEF Operations
<1>0. /\ \A m \in Messages : memory[m] \in Nat
      /\ holds \in [Writers -> Holds]
  BY DEF TypeOK, PayloadMap
<1>1. ASSUME BeginEnqueue
      PROVE  TypeOK'
  <2>1. QueueTyped'
    BY <1>1, <1>names, Started, BeginsTyped DEF BeginEnqueue
  <2> QED
    BY <1>1, <2>1 DEF BeginEnqueue, TypeOK, QueueTyped, historyVars, queueVars
<1>2. ASSUME Confirm
      PROVE  TypeOK'
  <2> DEFINE c == Head(pending)
  <2>1. /\ QueueTyped /\ pending # <<>> /\ c \in Mutations /\ c.op = "confirm"
    BY <1>2, <1>names, Started DEF Confirm
  <2>2. QueueTyped'
    BY <1>2, <2>1, PassesTyped DEF Confirm
  <2>3. Hold("confirmed", c.id, c.payload, 0, TRUE) \in Holds
    BY <2>1, MutationIsUsed, HoldIsTyped
  <2>4. holds' \in [Writers -> Holds]
    BY <1>0, <1>2, <2>1, <2>3, NoHoldIsTyped, AnswersTyped DEF Confirm
  <2> QED
    BY <1>2, <2>2, <2>4 DEF Confirm, TypeOK, QueueTyped, historyVars, queueVars
<1>3. ASSUME BeginUpdate
      PROVE  TypeOK'
  <2>1. /\ QueueTyped /\ pending # <<>> /\ Head(pending) \in Mutations
        /\ Head(pending).op = "update"
    BY <1>3, <1>names, Started DEF BeginUpdate
  <2>2. QueueTyped'
    BY <1>3, <2>1, PassesTyped, BeginsTyped DEF BeginUpdate
  <2>3. holds' \in [Writers -> Holds]
    BY <1>0, <1>3, <2>1, NoHoldIsTyped, AnswersTyped DEF BeginUpdate
  <2> QED
    BY <1>3, <2>2, <2>3 DEF BeginUpdate, TypeOK, QueueTyped, historyVars, queueVars
<1>4. ASSUME BeginRemove
      PROVE  TypeOK'
  <2>1. /\ QueueTyped /\ pending # <<>> /\ Head(pending) \in Mutations
        /\ Head(pending).op = "remove"
    BY <1>4, <1>names, Started DEF BeginRemove
  <2>2. QueueTyped'
    BY <1>4, <2>1, PassesTyped, BeginsTyped DEF BeginRemove
  <2>3. holds' \in [Writers -> Holds]
    BY <1>0, <1>4, <2>1, NoHoldIsTyped, AnswersTyped DEF BeginRemove
  <2>4. leaving' \in Nat
    BY <1>0, <1>4, <2>1, MutationIsUsed DEF BeginRemove, TypeOK
  <2> QED
    BY <1>4, <2>2, <2>3, <2>4 DEF BeginRemove, TypeOK, QueueTyped, historyVars, queueVars
<1>5. ASSUME BeginLoading
      PROVE  TypeOK'
  <2>1. QueueTyped'
    BY <1>5, <1>names, Started, BeginsTyped DEF BeginLoading
  <2> QED
    BY <1>5, <2>1 DEF BeginLoading, TypeOK, QueueTyped, historyVars, queueVars
<1> QED
  BY <1>1, <1>2, <1>3, <1>4, <1>5 DEF Starting

\* What a step of the running mutation finds.
LEMMA Running ==
  ASSUME TypeOK, NEW op \in Operations, NEW operation, operation # "idle", Waits(op, operation)
  PROVE  /\ QueueTyped /\ running \in Mutations /\ running.op = op
         /\ stage = operation /\ stage # "idle"
         /\ running.payload \in Nat /\ running.by \in Writers \cup {NoWriter}
         /\ op \in {"enqueue", "update", "remove"} =>
              running.id \in Messages /\ memory[running.id] \in Nat
         /\ op = "update" => running.by \in Writers
         /\ holds \in [Writers -> Holds] /\ disk \in PayloadMap /\ written \subseteq Nat
         /\ faults \in Nat /\ leaving \in Nat /\ clear \in Clears
         /\ memory \in PayloadMap /\ revisions \in PayloadMap /\ saved \in PayloadMap
         /\ released \subseteq Nat /\ unsettled \subseteq Messages
<1>1. /\ QueueTyped /\ running \in Mutations /\ running.op = op
      /\ stage = operation /\ stage # "idle"
      /\ holds \in [Writers -> Holds] /\ disk \in PayloadMap /\ written \subseteq Nat
      /\ faults \in Nat /\ leaving \in Nat /\ clear \in Clears
      /\ memory \in PayloadMap /\ revisions \in PayloadMap /\ saved \in PayloadMap
      /\ released \subseteq Nat /\ unsettled \subseteq Messages
  BY DEF TypeOK, QueueTyped, Waits
<1>2. \A m \in Messages : memory[m] \in Nat
  BY <1>1 DEF PayloadMap
<1> QED
  BY <1>1, <1>2, MutationIsUsed

LEMMA EnqueuingTyped == TypeOK /\ Enqueuing /\ Mutating => TypeOK'
<1> SUFFICES ASSUME TypeOK, Enqueuing, UNCHANGED <<editing, payloads, calls, crashes>>
             PROVE  TypeOK'
  BY DEF Mutating
<1>names. {"enqueue", "update", "remove", "load", "clear"} \subseteq Operations /\ None \in Nat
  BY DEF Operations, None
<1>1. ASSUME EnqueueWritten
      PROVE  TypeOK'
  <2>1. /\ QueueTyped /\ running.id \in Messages /\ running.payload \in Nat
        /\ disk \in PayloadMap /\ written \subseteq Nat /\ faults \in Nat /\ saved \in PayloadMap
        /\ unsettled \subseteq Messages
    BY <1>1, <1>names, Running DEF EnqueueWritten
  <2>2. QueueTyped'
    BY <1>1, <2>1, EndsTyped DEF EnqueueWritten
  <2>3. disk' \in PayloadMap /\ written' \subseteq Nat /\ faults' \in Nat
    BY <1>1, <2>1, StoreTyped DEF EnqueueWritten
  <2>4. saved' \in PayloadMap /\ unsettled' \subseteq Messages
    BY <1>1, <2>1, Overwritten DEF EnqueueWritten, Settled
  <2> QED
    BY <1>1, <2>2, <2>3, <2>4 DEF EnqueueWritten, TypeOK, QueueTyped, queueVars
<1>2. ASSUME EnqueueWriteFails
      PROVE  TypeOK'
  <2>1. /\ QueueTyped /\ running.id \in Messages /\ stage # "idle"
        /\ memory \in PayloadMap /\ faults \in Nat /\ saved \in PayloadMap
    BY <1>2, <1>names, Running DEF EnqueueWriteFails
  <2>2. QueueTyped'
    BY <1>2, <2>1, EndsTyped, StageMoves DEF EnqueueWriteFails
  <2>3. memory' \in PayloadMap /\ saved' \in PayloadMap
    BY <1>2, <1>names, <2>1, Overwritten DEF EnqueueWriteFails
  <2>4. faults' \in Nat
    BY <1>2, <2>1 DEF EnqueueWriteFails, StoreFails
  <2> QED
    BY <1>2, <2>2, <2>3, <2>4 DEF EnqueueWriteFails, TypeOK, QueueTyped
<1>3. ASSUME EnqueueFileDropped
      PROVE  TypeOK'
  <2>1. /\ QueueTyped /\ running.id \in Messages
        /\ disk \in PayloadMap /\ written \subseteq Nat /\ faults \in Nat
        /\ unsettled \subseteq Messages
    BY <1>3, <1>names, Running DEF EnqueueFileDropped
  <2>2. QueueTyped'
    BY <1>3, <2>1, EndsTyped DEF EnqueueFileDropped
  <2>3. disk' \in PayloadMap /\ written' \subseteq Nat /\ faults' \in Nat
    BY <1>3, <2>1, StoreTyped DEF EnqueueFileDropped
  <2>4. unsettled' \subseteq Messages
    BY <1>3, <2>1 DEF EnqueueFileDropped, Settled
  <2> QED
    BY <1>3, <2>2, <2>3, <2>4 DEF EnqueueFileDropped, TypeOK, QueueTyped, queueVars
<1> QED
  BY <1>1, <1>2, <1>3 DEF Enqueuing

LEMMA UpdatingTyped == TypeOK /\ Updating /\ Mutating => TypeOK'
<1> SUFFICES ASSUME TypeOK, Updating, UNCHANGED <<editing, payloads, calls, crashes>>
             PROVE  TypeOK'
  BY DEF Mutating
<1>names. {"enqueue", "update", "remove", "load", "clear"} \subseteq Operations /\ None \in Nat
  BY DEF Operations, None
<1>1. ASSUME UpdateWritten
      PROVE  TypeOK'
  <2>1. /\ QueueTyped /\ running \in Mutations /\ running.id \in Messages
        /\ running.payload \in Nat /\ running.by \in Writers /\ stage # "idle"
        /\ disk \in PayloadMap /\ written \subseteq Nat /\ faults \in Nat /\ saved \in PayloadMap
        /\ unsettled \subseteq Messages /\ memory \in PayloadMap /\ revisions \in PayloadMap
        /\ holds \in [Writers -> Holds] /\ leaving \in Nat /\ memory[running.id] \in Nat
    BY <1>1, <1>names, Running DEF UpdateWritten
  <2>2. disk' \in PayloadMap /\ written' \subseteq Nat /\ faults' \in Nat
    BY <1>1, <2>1, StoreTyped DEF UpdateWritten
  <2>3. CASE LostRace(running)
    <3>1. QueueTyped'
      BY <1>1, <2>1, <2>3, EndsTyped, StageMoves DEF UpdateWritten
    <3>2. holds' \in [Writers -> Holds]
      BY <1>1, <2>1, <2>3, NoHoldIsTyped, AnswersTyped DEF UpdateWritten
    <3>3. leaving' \in Nat
      BY <1>1, <2>1, <2>3 DEF UpdateWritten
    <3> QED
      BY <1>1, <2>2, <2>3, <3>1, <3>2, <3>3 DEF UpdateWritten, TypeOK, QueueTyped, queueVars
  <2>4. CASE ~LostRace(running)
    <3>1. QueueTyped'
      BY <1>1, <2>1, <2>4, EndsTyped DEF UpdateWritten
    <3>2. running.expected = revisions[running.id] \/ running.expected = AnyRevision
      BY <2>4 DEF LostRace, StaleOrMissing
    <3>3. running.expected + 1 \in Nat
      BY <2>1, <3>2 DEF AnyRevision, PayloadMap
    <3>4. holds[running.by].confirmed \in BOOLEAN
      BY <2>1, HoldIsUsed
    <3>5. Hold("ready", running.id, running.payload, running.expected + 1,
               holds[running.by].confirmed) \in Holds
      BY <2>1, <3>3, <3>4, HoldIsTyped
    <3>6. holds' \in [Writers -> Holds]
      BY <1>1, <2>1, <2>4, <3>5, AnswersTyped DEF UpdateWritten
    <3>7. /\ revisions' \in PayloadMap /\ memory' \in PayloadMap /\ saved' \in PayloadMap
          /\ unsettled' \subseteq Messages
      BY <1>1, <2>1, <2>4, BumpedIsTyped, Overwritten DEF UpdateWritten, Settled
    <3> QED
      BY <1>1, <2>2, <2>4, <3>1, <3>6, <3>7 DEF UpdateWritten, TypeOK, QueueTyped
  <2> QED
    BY <2>3, <2>4
<1>2. ASSUME UpdateWriteFails
      PROVE  TypeOK'
  <2>1. /\ QueueTyped /\ running \in Mutations /\ holds \in [Writers -> Holds] /\ faults \in Nat
    BY <1>2, <1>names, Running DEF UpdateWriteFails
  <2>2. QueueTyped' /\ holds' \in [Writers -> Holds]
    BY <1>2, <2>1, EndsTyped, NoHoldIsTyped, AnswersTyped DEF UpdateWriteFails
  <2>3. faults' \in Nat
    BY <1>2, <2>1 DEF UpdateWriteFails, StoreFails
  <2> QED
    BY <1>2, <2>2, <2>3 DEF UpdateWriteFails, TypeOK, QueueTyped, queueVars, historyVars
<1>3. ASSUME UpdateWinnerRestored
      PROVE  TypeOK'
  <2>1. /\ QueueTyped /\ running \in Mutations /\ holds \in [Writers -> Holds] /\ faults \in Nat
        /\ running.id \in Messages /\ disk \in PayloadMap /\ written \subseteq Nat
        /\ leaving \in Nat
    BY <1>3, <1>names, Running DEF UpdateWinnerRestored
  <2>2. QueueTyped' /\ holds' \in [Writers -> Holds]
    BY <1>3, <2>1, EndsTyped, NoHoldIsTyped, AnswersTyped DEF UpdateWinnerRestored
  <2>3. disk' \in PayloadMap /\ written' \subseteq Nat /\ faults' \in Nat
    BY <1>3, <2>1, StoreTyped DEF UpdateWinnerRestored
  <2> QED
    BY <1>3, <2>2, <2>3 DEF UpdateWinnerRestored, TypeOK, QueueTyped, queueVars
<1> QED
  BY <1>1, <1>2, <1>3 DEF Updating
LEMMA RemovingTyped == TypeOK /\ Removing /\ Mutating => TypeOK'
<1> SUFFICES ASSUME TypeOK, Removing, UNCHANGED <<editing, payloads, calls, crashes>>
             PROVE  TypeOK'
  BY DEF Mutating
<1>names. "remove" \in Operations /\ None \in Nat
  BY DEF Operations, None
<1>1. ASSUME FileRemoved
      PROVE  TypeOK'
  <2>1. /\ QueueTyped /\ running \in Mutations /\ running.id \in Messages /\ stage # "idle"
        /\ disk \in PayloadMap /\ written \subseteq Nat /\ faults \in Nat /\ saved \in PayloadMap
        /\ unsettled \subseteq Messages /\ memory \in PayloadMap /\ revisions \in PayloadMap
        /\ holds \in [Writers -> Holds] /\ leaving \in Nat /\ memory[running.id] \in Nat
        /\ released \subseteq Nat
    BY <1>1, <1>names, Running DEF FileRemoved
  <2>2. disk' \in PayloadMap /\ written' \subseteq Nat /\ faults' \in Nat
    BY <1>1, <2>1, StoreTyped DEF FileRemoved
  <2>3. QueueTyped'
    BY <1>1, <2>1, EndsTyped, StageMoves DEF FileRemoved
  <2>4. holds' \in [Writers -> Holds]
    BY <1>1, <2>1, NoHoldIsTyped, AnswersTyped DEF FileRemoved
  <2>5. CASE RemovalCanceled(running)
    BY <1>1, <2>1, <2>2, <2>3, <2>4, <2>5 DEF FileRemoved, TypeOK, QueueTyped, queueVars
  <2>6. CASE ~RemovalCanceled(running)
    <3>1. memory' \in PayloadMap /\ saved' \in PayloadMap
      BY <1>1, <1>names, <2>1, <2>6, Overwritten DEF FileRemoved
    <3>2. revisions' \in PayloadMap
      BY <1>1, <2>1, <2>6, BumpedIsTyped DEF FileRemoved, Tombstoned
    <3>3. released' = released \cup {leaving} /\ unsettled' = unsettled \ {running.id}
      BY <1>1, <2>6 DEF FileRemoved, Settled
    <3>4. unsettled' \subseteq Messages /\ released' \subseteq Nat
      BY <2>1, <3>3
    <3> QED
      BY <1>1, <2>2, <2>3, <2>4, <2>6, <3>1, <3>2, <3>4 DEF FileRemoved, TypeOK, QueueTyped
  <2> QED
    BY <2>5, <2>6
<1>2. ASSUME FileRemovalFails
      PROVE  TypeOK'
  <2>1. /\ QueueTyped /\ running \in Mutations /\ holds \in [Writers -> Holds] /\ faults \in Nat
    BY <1>2, <1>names, Running DEF FileRemovalFails
  <2>2. QueueTyped' /\ holds' \in [Writers -> Holds]
    BY <1>2, <2>1, EndsTyped, NoHoldIsTyped, AnswersTyped DEF FileRemovalFails
  <2>3. faults' \in Nat
    BY <1>2, <2>1 DEF FileRemovalFails, StoreFails
  <2> QED
    BY <1>2, <2>2, <2>3 DEF FileRemovalFails, TypeOK, QueueTyped, queueVars, historyVars
<1>3. ASSUME RemovalUndone
      PROVE  TypeOK'
  <2>1. /\ QueueTyped /\ running \in Mutations /\ holds \in [Writers -> Holds] /\ faults \in Nat
        /\ running.id \in Messages /\ disk \in PayloadMap /\ written \subseteq Nat
        /\ leaving \in Nat /\ unsettled \subseteq Messages
    BY <1>3, <1>names, Running DEF RemovalUndone
  <2>2. QueueTyped' /\ holds' \in [Writers -> Holds]
    BY <1>3, <2>1, EndsTyped, NoHoldIsTyped, AnswersTyped DEF RemovalUndone
  <2>3. disk' \in PayloadMap /\ written' \subseteq Nat /\ faults' \in Nat
    BY <1>3, <2>1, StoreTyped DEF RemovalUndone
  <2>4. unsettled' \subseteq Messages
    BY <1>3, <2>1 DEF RemovalUndone
  <2> QED
    BY <1>3, <2>2, <2>3, <2>4 DEF RemovalUndone, TypeOK, QueueTyped, queueVars
<1> QED
  BY <1>1, <1>2, <1>3 DEF Removing

LEMMA LoadedTyped == TypeOK /\ Loaded /\ Mutating => TypeOK'
<1> SUFFICES ASSUME TypeOK, Loaded, UNCHANGED <<editing, payloads, calls, crashes>>
             PROVE  TypeOK'
  BY DEF Mutating
<1>1. /\ QueueTyped /\ disk \in PayloadMap /\ memory \in PayloadMap /\ faults \in Nat
  BY Running DEF Loaded, Operations
<1>2. QueueTyped'
  BY <1>1, EndsTyped DEF Loaded
<1>3. memory' \in PayloadMap
  BY <1>1 DEF Loaded, PayloadMap
<1>4. faults' \in Nat /\ loaded' \in {"none", "loading", "done"}
  BY <1>1 DEF Loaded, StoreFails
<1> QED
  BY <1>2, <1>3, <1>4 DEF Loaded, TypeOK, QueueTyped, historyVars

\* The locals of clearEnvironment.
LEMMA ClearMoves ==
  ASSUME NEW c \in Clears, NEW all \in PayloadMap, NEW read \in PayloadMap,
         NEW left \in SUBSET Messages, NEW keep \in PayloadMap
  PROVE  /\ [c EXCEPT !.all = all, !.revisions = read, !.left = left] \in Clears
         /\ [c EXCEPT !.left = left, !.keep = keep] \in Clears
BY DEF Clears

LEMMA ClearShrinks ==
  ASSUME NEW c \in Clears, NEW left \in SUBSET Messages, NEW gone \in SUBSET Messages
  PROVE  /\ [c EXCEPT !.left = left, !.gone = gone] \in Clears
         /\ [c EXCEPT !.left = left] \in Clears
BY DEF Clears

LEMMA ClearingTyped == TypeOK /\ Clearing /\ Mutating => TypeOK'
<1> SUFFICES ASSUME TypeOK, Clearing, UNCHANGED <<editing, payloads, calls, crashes>>
             PROVE  TypeOK'
  BY DEF Mutating
<1>names. "clear" \in Operations /\ None \in Nat /\ Environment \subseteq Messages
  BY OutboxAssumption DEF Operations, None
<1>0. ASSUME NEW operation \in {"loading", "removing", "restoring"}, Waits("clear", operation)
      PROVE  /\ QueueTyped /\ stage # "idle" /\ disk \in PayloadMap /\ memory \in PayloadMap
             /\ revisions \in PayloadMap /\ saved \in PayloadMap /\ clear \in Clears
             /\ clear.left \subseteq Messages /\ clear.gone \subseteq Messages
             /\ clear.all \in PayloadMap /\ clear.keep \in PayloadMap
             /\ faults \in Nat /\ written \subseteq Nat /\ released \subseteq Nat
             /\ unsettled \subseteq Messages
  BY <1>0, <1>names, Running, ClearIsUsed
<1>1. ASSUME ClearLoads
      PROVE  TypeOK'
  <2> DEFINE all == [m \in Messages |-> IF memory[m] # None THEN memory[m] ELSE disk[m]]
             left == {m \in Environment : all[m] # None /\ Unchanged(m)}
  <2>1. /\ QueueTyped /\ stage # "idle" /\ disk \in PayloadMap /\ memory \in PayloadMap
        /\ revisions \in PayloadMap /\ clear \in Clears
    BY <1>0, <1>1 DEF ClearLoads
  <2>2. all \in PayloadMap /\ left \subseteq Messages
    BY <1>names, <2>1 DEF PayloadMap
  <2>3. clear' = [clear EXCEPT !.all = all, !.revisions = revisions, !.left = left]
    BY <1>1 DEF ClearLoads
  <2>4. clear' \in Clears
    <3> HIDE DEF all, left
    <3> QED
      BY <2>1, <2>2, <2>3, ClearMoves, ClearIsUsed
  <2>5. QueueTyped'
    BY <1>1, <2>1, StageMoves DEF ClearLoads
  <2> QED
    BY <1>1, <2>4, <2>5 DEF ClearLoads, TypeOK, QueueTyped, queueVars, historyVars
<1>2. ASSUME ClearLoadFails
      PROVE  TypeOK'
  <2>1. QueueTyped /\ faults \in Nat
    BY <1>0, <1>2 DEF ClearLoadFails
  <2>2. QueueTyped' /\ faults' \in Nat
    BY <1>2, <2>1, EndsTyped DEF ClearLoadFails, StoreFails
  <2> QED
    BY <1>2, <2>2 DEF ClearLoadFails, TypeOK, QueueTyped, queueVars, historyVars
<1>3. ASSUME ClearRemoved
      PROVE  TypeOK'
  <2>1. /\ QueueTyped /\ stage # "idle" /\ memory \in PayloadMap /\ clear \in Clears
        /\ clear.gone \subseteq Messages
    BY <1>0, <1>3 DEF ClearRemoved
  <2>2. clear' \in Clears
    BY <1>3, <2>1, ClearMoves, ClearIsUsed DEF ClearRemoved, Retained
  <2>3. QueueTyped'
    BY <1>3, <2>1, StageMoves DEF ClearRemoved
  <2> QED
    BY <1>3, <2>2, <2>3 DEF ClearRemoved, TypeOK, QueueTyped, queueVars, historyVars
<1>4. ASSUME ClearFinishes
      PROVE  TypeOK'
  <2> DEFINE removed == {m \in clear.gone : revisions[m] = clear.revisions[m]}
  <2>1. /\ QueueTyped /\ stage # "idle" /\ memory \in PayloadMap /\ revisions \in PayloadMap
        /\ clear \in Clears /\ clear.gone \subseteq Messages /\ clear.all \in PayloadMap
        /\ released \subseteq Nat /\ saved \in PayloadMap /\ unsettled \subseteq Messages
    BY <1>0, <1>4 DEF ClearFinishes
  <2>2. memory' \in PayloadMap
    BY <1>4, <1>names, <2>1 DEF ClearFinishes, PayloadMap
  <2>3. revisions' \in PayloadMap
    BY <1>4, <2>1 DEF ClearFinishes, PayloadMap
  <2>4. saved' \in PayloadMap
    BY <1>4, <1>names, <2>1 DEF ClearFinishes, PayloadMap
  <2>5. released' \subseteq Nat /\ unsettled' \subseteq Messages
    BY <1>4, <2>1 DEF ClearFinishes, PayloadMap
  <2>6. QueueTyped'
    BY <1>4, <2>1, EndsTyped DEF ClearFinishes
  <2> QED
    BY <1>4, <2>2, <2>3, <2>4, <2>5, <2>6 DEF ClearFinishes, TypeOK, QueueTyped
<1>5. ASSUME NEW m \in Messages, ClearRemoves(m)
      PROVE  TypeOK'
  <2>1. /\ QueueTyped /\ disk \in PayloadMap /\ written \subseteq Nat /\ faults \in Nat
        /\ clear \in Clears /\ clear.left \subseteq Messages /\ clear.gone \subseteq Messages
    BY <1>0, <1>5 DEF ClearRemoves
  <2>2. disk' \in PayloadMap /\ written' \subseteq Nat /\ faults' \in Nat
    BY <1>5, <2>1, StoreTyped DEF ClearRemoves
  <2>left. clear.left \ {m} \in SUBSET Messages /\ clear.gone \cup {m} \in SUBSET Messages
    BY <2>1
  <2>3. clear' \in Clears
    <3>1. \/ clear' = [clear EXCEPT !.left = clear.left \ {m}, !.gone = clear.gone \cup {m}]
          \/ clear' = [clear EXCEPT !.left = clear.left \ {m}]
      BY <1>5 DEF ClearRemoves
    <3> DEFINE left == clear.left \ {m}
               gone == clear.gone \cup {m}
    <3>2. /\ [clear EXCEPT !.left = left, !.gone = gone] \in Clears
          /\ [clear EXCEPT !.left = left] \in Clears
      <4> HIDE DEF left, gone
      <4>1. left \in SUBSET Messages /\ gone \in SUBSET Messages
        BY <2>left DEF left, gone
      <4> QED
        BY <2>1, <4>1, ClearShrinks
    <3> QED
      BY <3>1, <3>2
  <2>4. QueueTyped'
    BY <1>5, <2>1, QueueKept DEF ClearRemoves
  <2> QED
    BY <1>5, <2>2, <2>3, <2>4 DEF ClearRemoves, TypeOK, QueueTyped, queueVars
<1>6. ASSUME NEW m \in Messages, ClearRestores(m)
      PROVE  TypeOK'
  <2>1. /\ QueueTyped /\ disk \in PayloadMap /\ written \subseteq Nat /\ faults \in Nat
        /\ clear \in Clears /\ clear.left \subseteq Messages /\ clear.keep \in PayloadMap
    BY <1>0, <1>6 DEF ClearRestores
  <2>2. disk' \in PayloadMap /\ written' \subseteq Nat /\ faults' \in Nat
    BY <1>6, <2>1, StoreTyped DEF ClearRestores, PayloadMap
  <2>3. clear' \in Clears
    BY <1>6, <2>1, ClearShrinks DEF ClearRestores
  <2>4. QueueTyped'
    BY <1>6, <2>1, QueueKept DEF ClearRestores
  <2> QED
    BY <1>6, <2>2, <2>3, <2>4 DEF ClearRestores, TypeOK, QueueTyped, queueVars
<1> QED
  BY <1>1, <1>2, <1>3, <1>4, <1>5, <1>6 DEF Clearing

LEMMA CrashTyped == TypeOK /\ Crash => TypeOK'
<1> SUFFICES ASSUME TypeOK, Crash
             PROVE  TypeOK'
  OBVIOUS
<1>1. crashes' \in Nat
  BY DEF Crash, TypeOK
<1>2. Undoing \subseteq Messages
  BY ClearIsUsed, Running DEF Undoing, TypeOK, Operations
<1>3. holds' \in [Writers -> Holds]
  BY NoHoldIsTyped DEF Crash
<1>4. <<>> \in Seq(Mutations) /\ None \in Nat
  BY DEF None
<1>5. QueueTyped'
  BY <1>4, NoMutationIsTyped DEF Crash, QueueTyped
<1>6. unsettled' \subseteq Messages
  BY <1>2 DEF Crash, TypeOK
<1> QED
  BY <1>1, <1>3, <1>4, <1>5, <1>6, ClearIsTyped DEF Crash, TypeOK, QueueTyped

LEMMA StutteringTyped == TypeOK /\ UNCHANGED vars => TypeOK'
BY DEF TypeOK, vars, queueVars, mutationVars, callerVars, historyVars

LEMMA StepTyped == TypeOK /\ [Next]_vars => TypeOK'
<1> SUFFICES ASSUME TypeOK, [Next]_vars
             PROVE  TypeOK'
  OBVIOUS
<1>1. CASE Callers
  BY <1>1, CallersTyped
<1>2. CASE Mutating
  <2>1. Starting \/ Enqueuing \/ Updating \/ Removing \/ Loaded \/ Clearing
    BY <1>2 DEF Mutating
  <2> QED
    BY <1>2, <2>1, StartingTyped, EnqueuingTyped, UpdatingTyped, RemovingTyped, LoadedTyped,
       ClearingTyped
<1>3. CASE Crash
  BY <1>3, CrashTyped
<1>4. CASE UNCHANGED vars
  BY <1>4, StutteringTyped
<1> QED
  BY <1>1, <1>2, <1>3, <1>4 DEF Next

\* The variables keep their types, and a mutation waits for the store or is none.
THEOREM TypeCorrect == Spec => []TypeOK
BY InitIsTyped, StepTyped, PTL DEF Spec
-----------------------------------------------------------------------------
(* The inductive invariant behind ConfirmedWasWritten                      *)

\* No payload is larger than the last one made: the next one is new everywhere.
MadeBefore ==
  /\ \A m \in Messages : /\ memory[m] <= payloads /\ disk[m] <= payloads
                         /\ clear.all[m] <= payloads /\ clear.keep[m] <= payloads
  /\ leaving <= payloads /\ running.payload <= payloads
  /\ \A i \in 1..Len(pending) : pending[i].payload <= payloads
  /\ \A w \in Writers : holds[w].payload <= payloads

FilesWereWritten == \A m \in Messages : disk[m] # None => disk[m] \in written

\* What a clear puts back for a message that nobody enqueued meanwhile.
PutBackWasWritten ==
  Waits("clear", "removing") \/ Waits("clear", "restoring")
    => \A m \in Messages : memory[m] = None => clear.all[m] \in written \cup {None}

\* A payload on screen that was never written is still to be written.
Carries(c, m) == c.op = "enqueue" /\ c.id = m /\ c.payload = memory[m]
StillToWrite ==
  \A m \in Messages : memory[m] # None /\ memory[m] \notin written =>
    \/ stage = "writing" /\ Carries(running, m)
    \/ \E i \in 1..Len(pending) : Carries(pending[i], m)

\* A confirmation waits behind the enqueue it asks about.
AsksLater ==
  \A i \in 1..Len(pending) : pending[i].op = "confirm" =>
    /\ pending[i].payload # None
    /\ \A j \in i..Len(pending) :
         pending[j].op = "enqueue" => pending[j].payload # pending[i].payload

\* What a writer believes to be written.
Believes(h) ==
  \/ h.status = "confirmed"
  \/ h.confirmed /\ h.status \in {"ready", "updating", "removing"}
BelievedWasWritten == \A w \in Writers : Believes(holds[w]) => holds[w].payload \in written

Durable ==
  /\ TypeOK /\ MadeBefore /\ FilesWereWritten /\ PutBackWasWritten
  /\ StillToWrite /\ AsksLater /\ BelievedWasWritten

-----------------------------------------------------------------------------
(* How a step changes the queue of mutations, the files, the queue on      *)
(* screen and what the writers hold                                        *)

LEMMA QueueSteps ==
  ASSUME Durable, [Next]_vars
  PROVE  /\ payloads \in Nat /\ payloads' \in Nat /\ payloads <= payloads'
         /\ pending \in Seq(Mutations)
         /\ \/ pending' = pending
            \/ pending' = <<>>
            \/ pending # <<>> /\ pending' = Tail(pending)
            \/ \E c \in Mutations : /\ Submit(c) /\ c.payload <= payloads'
                                    /\ c.op = "confirm" => c.payload # None
                                    /\ c.op = "enqueue" => c.payload > payloads
<1>0. /\ payloads \in Nat /\ pending \in Seq(Mutations)
      /\ \A m \in Messages : memory[m] \in Nat /\ memory[m] <= payloads
      /\ \A w \in Writers : holds[w] \in Holds /\ holds[w].payload <= payloads
  BY DEF Durable, TypeOK, MadeBefore, PayloadMap
<1>names. /\ {"enqueue", "confirm", "update", "remove", "load", "clear"} \subseteq Operations
          /\ None \in Nat /\ None = 0 /\ AnyRevision \in Int
  BY DEF Operations, None, AnyRevision
<1>1. CASE Callers
  <2>1. ASSUME NEW m \in Messages, Enqueue(m)
        PROVE  /\ payloads' = payloads + 1
               /\ \E c \in Mutations : /\ Submit(c) /\ c.payload <= payloads'
                                       /\ c.op = "confirm" => c.payload # None
                                       /\ c.op = "enqueue" => c.payload > payloads
    <3> DEFINE c == Mutation("enqueue", m, payloads', AnyRevision, FALSE, NoWriter)
    <3>1. Submit(c) /\ payloads' = payloads + 1
      BY <2>1 DEF Enqueue
    <3>new. payloads' \in Nat
      BY <1>0, <3>1
    <3>2. c \in Mutations
      BY <1>names, <3>new, MutationIsTyped
    <3>3. c.payload = payloads' /\ c.op = "enqueue"
      BY DEF Mutation
    <3> QED
      <4> HIDE DEF c
      <4> QED
        BY <1>0, <3>1, <3>2, <3>3
  <2>2. ASSUME NEW m \in Messages, RemovePlainly(m)
        PROVE  payloads' = payloads /\ \E c \in Mutations :
                 Submit(c) /\ c.payload <= payloads' /\ c.op \notin {"confirm", "enqueue"}
    <3> DEFINE c == Mutation("remove", m, memory[m], AnyRevision, FALSE, NoWriter)
    <3>1. Submit(c) /\ payloads' = payloads
      BY <2>2 DEF RemovePlainly
    <3>2. c \in Mutations
      BY <1>0, <1>names, MutationIsTyped
    <3>3. c.payload = memory[m] /\ c.op = "remove"
      BY DEF Mutation
    <3> QED
      <4> HIDE DEF c
      <4> QED
        BY <1>0, <3>1, <3>2, <3>3
  <2>3. ASSUME NEW w \in Writers, NEW m \in Messages, ConfirmQueued(w, m)
        PROVE  payloads' = payloads /\ \E c \in Mutations :
                 Submit(c) /\ c.payload <= payloads' /\ c.op = "confirm" /\ c.payload # None
    <3> DEFINE c == Mutation("confirm", m, memory[m], AnyRevision, FALSE, w)
    <3>1. Submit(c) /\ payloads' = payloads /\ memory[m] # None
      BY <2>3 DEF ConfirmQueued, AwaitsConfirmation
    <3>2. c \in Mutations
      BY <1>0, <1>names, MutationIsTyped
    <3>3. c.payload = memory[m] /\ c.op = "confirm"
      BY DEF Mutation
    <3> QED
      <4> HIDE DEF c
      <4> QED
        BY <1>0, <3>1, <3>2, <3>3
  <2>4. ASSUME NEW w \in Writers, Update(w)
        PROVE  payloads' = payloads + 1 /\ \E c \in Mutations :
                 Submit(c) /\ c.payload <= payloads' /\ c.op \notin {"confirm", "enqueue"}
    <3> DEFINE c == Mutation("update", holds[w].id, payloads', holds[w].revision, FALSE, w)
    <3>1. Submit(c) /\ payloads' = payloads + 1
      BY <2>4 DEF Update
    <3>2. c \in Mutations
      <4>1. payloads' \in Nat /\ holds[w].id \in Messages /\ holds[w].revision \in Int
        BY <1>0, <2>4, <3>1, HoldIsUsed DEF Update
      <4> QED
        BY <1>names, <4>1, MutationIsTyped
    <3>3. c.payload = payloads' /\ c.op = "update"
      BY DEF Mutation
    <3> QED
      <4> HIDE DEF c
      <4> QED
        BY <1>0, <3>1, <3>2, <3>3
  <2>5. ASSUME NEW w \in Writers, Remove(w)
        PROVE  payloads' = payloads /\ \E c \in Mutations :
                 Submit(c) /\ c.payload <= payloads' /\ c.op \notin {"confirm", "enqueue"}
    <3> DEFINE c == Mutation("remove", holds[w].id, holds[w].payload, holds[w].revision,
                             TRUE, w)
    <3>1. Submit(c) /\ payloads' = payloads
      BY <2>5 DEF Remove
    <3>2. c \in Mutations
      <4>1. /\ holds[w].id \in Messages /\ holds[w].revision \in Int
            /\ holds[w].payload \in Nat
        BY <1>0, <2>5, HoldIsUsed DEF Remove
      <4> QED
        BY <1>names, <4>1, MutationIsTyped
    <3>3. c.payload = holds[w].payload /\ c.op = "remove"
      BY DEF Mutation
    <3> QED
      <4> HIDE DEF c
      <4> QED
        BY <1>0, <3>1, <3>2, <3>3
  <2>6. ASSUME ClearEnvironment \/ Load
        PROVE  payloads' = payloads /\ \E c \in Mutations :
                 Submit(c) /\ c.payload <= payloads' /\ c.op \notin {"confirm", "enqueue"}
    <3>1. PICK op \in {"clear", "load"} :
            Submit(Mutation(op, NoMessage, None, AnyRevision, FALSE, NoWriter))
      BY <2>6 DEF ClearEnvironment, Load
    <3>2. payloads' = payloads
      BY <2>6 DEF ClearEnvironment, Load, callerVars
    <3> DEFINE c == Mutation(op, NoMessage, None, AnyRevision, FALSE, NoWriter)
    <3>3. c \in Mutations
      BY <1>names, MutationIsTyped
    <3>4. c.payload = None /\ c.op = op
      BY DEF Mutation
    <3> QED
      <4> HIDE DEF c
      <4>1. Submit(c)
        BY <3>1 DEF c
      <4> QED
        BY <1>0, <1>names, <3>2, <3>3, <3>4, <4>1
  <2>7. ASSUME NEW w \in Writers, Capture(w) \/ GiveUp(w)
        PROVE  payloads' = payloads /\ pending' = pending
    BY <2>7 DEF Capture, GiveUp
  <2>8. ASSUME NEW m \in Messages, NEW w \in Writers, ToggleEditing(m) \/ OpenEditor(w, m)
        PROVE  payloads' = payloads /\ pending' = pending
    BY <2>8 DEF ToggleEditing, OpenEditor
  <2>9. ASSUME NEW m \in Messages, ToggleEditing(m)
        PROVE  payloads' = payloads /\ pending' = pending
    BY <2>9 DEF ToggleEditing
  <2> QED
    BY <1>0, <1>1, <2>1, <2>2, <2>3, <2>4, <2>5, <2>6, <2>7, <2>8, <2>9 DEF Callers
<1>2. CASE Mutating
  <2>1. payloads' = payloads
    BY <1>2 DEF Mutating
  <2>2. ASSUME Starting
        PROVE  pending # <<>> /\ pending' = Tail(pending)
    BY <2>2 DEF Starting, BeginEnqueue, Confirm, BeginUpdate, BeginRemove, BeginLoading,
       Starts, Begins, Passes
  <2>3. ASSUME Enqueuing \/ Updating \/ Removing \/ Loaded
        PROVE  pending' = pending
    BY <2>3 DEF Enqueuing, Updating, Removing, Loaded, Ends, EnqueueWritten,
       EnqueueWriteFails, EnqueueFileDropped, UpdateWritten, UpdateWriteFails,
       UpdateWinnerRestored, FileRemoved, FileRemovalFails, RemovalUndone
  <2>4. ASSUME Clearing
        PROVE  pending' = pending
    BY <2>4 DEF Clearing, Ends, ClearLoads, ClearLoadFails, ClearRemoves, ClearRemoved,
       ClearRestores, ClearFinishes
  <2> QED
    BY <1>0, <1>2, <2>1, <2>2, <2>3, <2>4 DEF Mutating
<1>3. CASE Crash \/ UNCHANGED vars
  BY <1>0, <1>3 DEF Crash, vars, callerVars
<1> QED
  BY <1>1, <1>2, <1>3 DEF Next

LEMMA PendingMadeBefore ==
  ASSUME Durable, [Next]_vars
  PROVE  \A i \in 1..Len(pending') : pending'[i].payload <= payloads'
<1>1. /\ payloads \in Nat /\ payloads' \in Nat /\ payloads <= payloads'
      /\ pending \in Seq(Mutations)
      /\ \A i \in 1..Len(pending) : pending[i].payload <= payloads /\ pending[i].payload \in Nat
  <2>1. pending \in Seq(Mutations) /\ \A i \in 1..Len(pending) : pending[i] \in Mutations
    BY DEF Durable, TypeOK
  <2> QED
    BY <2>1, QueueSteps, MutationIsUsed DEF Durable, MadeBefore
<1>2. CASE pending' = pending \/ pending' = <<>>
  BY <1>1, <1>2
<1>3. CASE pending # <<>> /\ pending' = Tail(pending)
  BY <1>1, <1>3, HeadAndTail
<1>4. ASSUME NEW c \in Mutations, Submit(c), c.payload <= payloads'
      PROVE  \A i \in 1..Len(pending') : pending'[i].payload <= payloads'
  BY <1>1, <1>4, Appended DEF Submit
<1> QED
  BY <1>2, <1>3, <1>4, QueueSteps

LEMMA AsksLaterKept == Durable /\ [Next]_vars => AsksLater'
<1> SUFFICES ASSUME Durable, [Next]_vars
             PROVE  AsksLater'
  OBVIOUS
<1>1. /\ payloads \in Nat /\ pending \in Seq(Mutations) /\ AsksLater
      /\ \A i \in 1..Len(pending) : pending[i].payload <= payloads /\ pending[i].payload \in Nat
  <2>1. pending \in Seq(Mutations) /\ \A i \in 1..Len(pending) : pending[i] \in Mutations
    BY DEF Durable, TypeOK
  <2> QED
    BY <2>1, QueueSteps, MutationIsUsed DEF Durable, MadeBefore
<1>2. CASE pending' = pending \/ pending' = <<>>
  BY <1>1, <1>2 DEF AsksLater
<1>3. CASE pending # <<>> /\ pending' = Tail(pending)
  <2>1. /\ Len(pending') = Len(pending) - 1 /\ Len(pending) \in Nat
        /\ \A i \in 1..Len(pending') : pending'[i] = pending[i + 1]
    BY <1>1, <1>3, HeadAndTail
  <2> SUFFICES ASSUME NEW i \in 1..Len(pending'), pending'[i].op = "confirm"
               PROVE  /\ pending'[i].payload # None
                      /\ \A j \in i..Len(pending') :
                           pending'[j].op = "enqueue" => pending'[j].payload # pending'[i].payload
    BY DEF AsksLater
  <2>2. i + 1 \in 1..Len(pending) /\ pending'[i] = pending[i + 1]
    BY <2>1
  <2>3. ASSUME NEW j \in i..Len(pending')
        PROVE  j + 1 \in (i + 1)..Len(pending) /\ pending'[j] = pending[j + 1]
    BY <2>1
  <2> QED
    BY <1>1, <2>2, <2>3 DEF AsksLater
<1>4. ASSUME NEW c \in Mutations, Submit(c),
             c.op = "confirm" => c.payload # None, c.op = "enqueue" => c.payload > payloads
      PROVE  AsksLater'
  <2>1. /\ Len(pending') = Len(pending) + 1 /\ Len(pending) \in Nat
        /\ \A i \in 1..Len(pending) : pending'[i] = pending[i]
        /\ pending'[Len(pending) + 1] = c
    BY <1>1, <1>4, Appended DEF Submit
  <2>2. c.payload \in Nat
    BY MutationIsUsed
  <2> SUFFICES ASSUME NEW i \in 1..Len(pending'), pending'[i].op = "confirm"
               PROVE  /\ pending'[i].payload # None
                      /\ \A j \in i..Len(pending') :
                           pending'[j].op = "enqueue" => pending'[j].payload # pending'[i].payload
    BY DEF AsksLater
  <2>3. CASE i = Len(pending) + 1
    BY <1>4, <2>1, <2>3
  <2>4. CASE i \in 1..Len(pending)
    <3>1. pending'[i] = pending[i] /\ pending[i].op = "confirm" /\ pending[i].payload # None
      BY <1>1, <2>1, <2>4 DEF AsksLater
    <3>2. ASSUME NEW j \in i..Len(pending'), pending'[j].op = "enqueue"
          PROVE  pending'[j].payload # pending'[i].payload
      <4>1. CASE j = Len(pending) + 1
        <5>1. pending'[j] = c /\ c.payload > payloads
          BY <1>4, <2>1, <3>2, <4>1
        <5>2. pending[i].payload <= payloads /\ pending[i].payload \in Nat
          BY <1>1, <2>4
        <5> QED
          BY <1>1, <2>2, <3>1, <5>1, <5>2
      <4>2. CASE j \in i..Len(pending)
        <5>1. j \in 1..Len(pending)
          BY <2>1, <2>4, <4>2
        <5> QED
          BY <1>1, <2>1, <2>4, <3>1, <3>2, <4>2, <5>1 DEF AsksLater
      <4> QED
        BY <2>1, <2>4, <4>1, <4>2
    <3> QED
      BY <3>1, <3>2
  <2> QED
    BY <2>1, <2>3, <2>4
<1> QED
  BY <1>2, <1>3, <1>4, QueueSteps
\* A file that changes is removed, or holds a payload the store has just accepted.
LEMMA StoreSteps ==
  ASSUME Durable, [Next]_vars
  PROVE  /\ written \subseteq written'
         /\ \A m \in Messages : \/ disk'[m] = disk[m]
                                \/ disk'[m] = None
                                \/ disk'[m] \in written' /\ disk'[m] <= payloads
<1>0. /\ disk \in PayloadMap /\ payloads \in Nat /\ leaving \in Nat /\ leaving <= payloads
      /\ running.payload <= payloads
      /\ \A m \in Messages : clear.keep[m] <= payloads
  BY DEF Durable, TypeOK, MadeBefore
<1>1. ASSUME UNCHANGED <<disk, written>>
      PROVE  /\ written \subseteq written'
             /\ \A m \in Messages : disk'[m] = disk[m]
  BY <1>1
<1>2. ASSUME NEW m, StoreRemoves(m)
      PROVE  /\ written \subseteq written'
             /\ \A n \in Messages : disk'[n] = disk[n] \/ disk'[n] = None
  BY <1>0, <1>2 DEF StoreRemoves, PayloadMap
<1>3. ASSUME NEW m, NEW payload, StoreWrites(m, payload), payload <= payloads
      PROVE  /\ written \subseteq written'
             /\ \A n \in Messages : \/ disk'[n] = disk[n]
                                    \/ disk'[n] \in written' /\ disk'[n] <= payloads
  BY <1>0, <1>3 DEF StoreWrites, PayloadMap
<1>4. CASE Callers
  BY <1>1, <1>4 DEF Callers, historyVars
<1>5. CASE Mutating
  <2>1. CASE Starting
    BY <1>1, <2>1 DEF Starting, BeginEnqueue, Confirm, BeginUpdate, BeginRemove, BeginLoading,
       historyVars
  <2>2. CASE Enqueuing
    BY <1>0, <1>1, <1>2, <1>3, <2>2 DEF Enqueuing, EnqueueWritten, EnqueueWriteFails,
       EnqueueFileDropped
  <2>3. CASE Updating
    BY <1>0, <1>1, <1>2, <1>3, <2>3 DEF Updating, UpdateWritten, UpdateWriteFails,
       UpdateWinnerRestored, historyVars
  <2>4. CASE Removing
    BY <1>0, <1>1, <1>2, <1>3, <2>4 DEF Removing, FileRemoved, FileRemovalFails,
       RemovalUndone, StoreRemoves, historyVars
  <2>5. CASE Loaded
    BY <1>1, <2>5 DEF Loaded, historyVars
  <2>6. CASE ClearLoads \/ ClearLoadFails \/ ClearRemoved \/ ClearFinishes
    BY <1>1, <2>6 DEF ClearLoads, ClearLoadFails, ClearRemoved, ClearFinishes, historyVars
  <2>7. CASE \E m \in Messages : ClearRemoves(m) \/ ClearRestores(m)
    BY <1>0, <1>1, <1>2, <1>3, <2>7 DEF ClearRemoves, ClearRestores
  <2> QED
    BY <1>5, <2>1, <2>2, <2>3, <2>4, <2>5, <2>6, <2>7 DEF Mutating, Clearing
<1>6. CASE Crash \/ UNCHANGED vars
  BY <1>1, <1>6 DEF Crash, vars, historyVars
<1> QED
  BY <1>4, <1>5, <1>6 DEF Next

\* A message on screen that changes is new, gone, or was written.
LEMMA MemorySteps ==
  ASSUME Durable, [Next]_vars
  PROVE  \A m \in Messages :
           \/ memory'[m] = memory[m]
           \/ memory'[m] = None
           \/ memory'[m] \in written' /\ memory'[m] <= payloads
           \/ Enqueue(m) /\ memory'[m] = payloads'
<1>0. /\ memory \in PayloadMap /\ payloads \in Nat /\ running.payload <= payloads
      /\ \A m \in Messages : disk[m] <= payloads /\ clear.all[m] <= payloads
      /\ \A m \in Messages : disk[m] # None => disk[m] \in written
      /\ written \subseteq written'
  BY StoreSteps DEF Durable, TypeOK, MadeBefore, FilesWereWritten
<1>1. ASSUME UNCHANGED memory
      PROVE  \A m \in Messages : memory'[m] = memory[m]
  BY <1>1
<1>2. CASE Callers
  <2>1. ASSUME NEW n \in Messages, Enqueue(n)
        PROVE  \A m \in Messages : \/ memory'[m] = memory[m]
                                   \/ Enqueue(m) /\ memory'[m] = payloads'
    BY <1>0, <2>1 DEF Enqueue, PayloadMap
  <2>2. ASSUME NEW n \in Messages, RemovePlainly(n) \/ ToggleEditing(n)
        PROVE  UNCHANGED memory
    BY <2>2 DEF RemovePlainly, ToggleEditing, queueVars
  <2>3. ASSUME NEW w \in Writers, NEW n \in Messages, ConfirmQueued(w, n) \/ OpenEditor(w, n)
        PROVE  UNCHANGED memory
    BY <2>3 DEF ConfirmQueued, OpenEditor, queueVars
  <2>4. ASSUME NEW w \in Writers, Capture(w) \/ Update(w) \/ Remove(w) \/ GiveUp(w)
        PROVE  UNCHANGED memory
    BY <2>4 DEF Capture, Update, Remove, GiveUp, queueVars
  <2>5. ASSUME ClearEnvironment \/ Load
        PROVE  UNCHANGED memory
    BY <2>5 DEF ClearEnvironment, Load, queueVars
  <2> QED
    BY <1>1, <1>2, <2>1, <2>2, <2>3, <2>4, <2>5 DEF Callers
<1>3. CASE Mutating
  <2>1. CASE Starting
    BY <1>1, <2>1 DEF Starting, BeginEnqueue, Confirm, BeginUpdate, BeginRemove, BeginLoading,
       queueVars
  <2>2. CASE EnqueueWriteFails
    BY <1>0, <2>2 DEF EnqueueWriteFails, PayloadMap
  <2>3. CASE UpdateWritten
    BY <1>0, <2>3 DEF UpdateWritten, StoreWrites, PayloadMap, queueVars
  <2>4. CASE FileRemoved
    BY <1>0, <2>4 DEF FileRemoved, PayloadMap, queueVars
  <2>5. CASE \/ EnqueueWritten \/ EnqueueFileDropped \/ UpdateWriteFails
             \/ UpdateWinnerRestored \/ FileRemovalFails \/ RemovalUndone
    BY <1>1, <2>5 DEF EnqueueWritten, EnqueueFileDropped, UpdateWriteFails,
       UpdateWinnerRestored, FileRemovalFails, RemovalUndone, queueVars
  <2>6. CASE Loaded
    BY <1>0, <2>6 DEF Loaded
  <2>7. CASE ClearFinishes
    <3>1. \A m \in Messages : memory[m] = None => clear.all[m] \in written \cup {None}
      BY <2>7 DEF ClearFinishes, Durable, PutBackWasWritten
    <3> QED
      BY <1>0, <2>7, <3>1 DEF ClearFinishes
  <2>8. CASE ClearLoads \/ ClearLoadFails \/ ClearRemoved
    BY <1>1, <2>8 DEF ClearLoads, ClearLoadFails, ClearRemoved, queueVars
  <2>9. CASE \E m \in Messages : ClearRemoves(m) \/ ClearRestores(m)
    BY <1>1, <2>9 DEF ClearRemoves, ClearRestores, queueVars
  <2> QED
    BY <1>3, <2>1, <2>2, <2>3, <2>4, <2>5, <2>6, <2>7, <2>8, <2>9
       DEF Mutating, Enqueuing, Updating, Removing, Clearing
<1>4. CASE Crash
  BY <1>4 DEF Crash, Nothing
<1>5. CASE UNCHANGED vars
  BY <1>1, <1>5 DEF vars, queueVars
<1> QED
  BY <1>2, <1>3, <1>4, <1>5 DEF Next

\* What a clear and a removal remember was on screen or on disk.
LEMMA LocalsMadeBefore ==
  ASSUME Durable, [Next]_vars
  PROVE  /\ \A m \in Messages : clear'.all[m] <= payloads' /\ clear'.keep[m] <= payloads'
         /\ leaving' <= payloads' /\ running'.payload <= payloads'
<1>0. /\ memory \in PayloadMap /\ payloads \in Nat /\ running.payload <= payloads
      /\ payloads' \in Nat /\ payloads <= payloads'
      /\ \A m \in Messages : /\ memory[m] <= payloads /\ disk[m] <= payloads
                             /\ clear.all[m] <= payloads /\ clear.keep[m] <= payloads
                             /\ clear.all[m] \in Nat /\ clear.keep[m] \in Nat
                             /\ disk[m] \in Nat /\ memory[m] \in Nat
      /\ leaving <= payloads /\ leaving \in Nat /\ running.payload \in Nat /\ clear \in Clears
  <2>1. clear.all \in PayloadMap /\ clear.keep \in PayloadMap
    BY ClearIsUsed DEF Durable, TypeOK
  <2>2. running.payload \in Nat
    BY MutationIsUsed DEF Durable, TypeOK
  <2> QED
    BY <2>1, <2>2, QueueSteps DEF Durable, TypeOK, MadeBefore, PayloadMap
<1>1. ASSUME UNCHANGED clear
      PROVE  \A m \in Messages : clear'.all[m] <= payloads' /\ clear'.keep[m] <= payloads'
  BY <1>0, <1>1
<1>2. ASSUME clear' = NoClear
      PROVE  \A m \in Messages : clear'.all[m] <= payloads' /\ clear'.keep[m] <= payloads'
  BY <1>0, <1>2 DEF NoClear, Nothing, None
<1>3. ASSUME UNCHANGED leaving
      PROVE  leaving' <= payloads'
  BY <1>0, <1>3
<1>4. ASSUME UNCHANGED running \/ running' = NoMutation
      PROVE  running'.payload <= payloads'
  BY <1>0, <1>4 DEF NoMutation, Mutation, None
<1>5. CASE Callers
  <2>1. ASSUME ClearEnvironment
        PROVE  \A m \in Messages : clear'.all[m] <= payloads' /\ clear'.keep[m] <= payloads'
    BY <1>0, <2>1 DEF ClearEnvironment, NoClear, Nothing, None
  <2>2. \/ ClearEnvironment
        \/ UNCHANGED clear
    BY <1>5 DEF Callers, Enqueue, RemovePlainly, ToggleEditing, ConfirmQueued, OpenEditor,
       Capture, Update, Remove, GiveUp, Load
  <2> QED
    BY <1>1, <1>3, <1>4, <1>5, <2>1, <2>2 DEF Callers
<1>6. CASE Mutating
  <2>1. CASE Starting
    <3>1. UNCHANGED clear
      BY <2>1 DEF Starting, BeginEnqueue, Confirm, BeginUpdate, BeginRemove, BeginLoading
    <3>2. Head(pending).payload <= payloads /\ pending # <<>>
      <4>1. pending # <<>>
        BY <2>1 DEF Starting, Starts, BeginEnqueue, Confirm, BeginUpdate, BeginRemove,
           BeginLoading
      <4>2. pending \in Seq(Mutations) /\ \A i \in 1..Len(pending) : pending[i].payload <= payloads
        BY DEF Durable, TypeOK, MadeBefore
      <4> QED
        BY <4>1, <4>2, HeadAndTail
    <3>3. UNCHANGED running \/ running' = Head(pending)
      BY <2>1 DEF Starting, BeginEnqueue, Confirm, BeginUpdate, BeginRemove, BeginLoading,
         Begins, Passes
    <3>4. \/ UNCHANGED leaving
          \/ BeginRemove
      BY <2>1 DEF Starting, BeginEnqueue, Confirm, BeginUpdate, BeginLoading
    <3>5. ASSUME BeginRemove
          PROVE  leaving' <= payloads'
      <4>1. Head(pending).id \in Messages
        BY <3>5, Started, MutationIsUsed DEF BeginRemove, Operations, Durable
      <4>2. Head(pending).payload \in Nat
        BY <3>5, Started, MutationIsUsed DEF BeginRemove, Operations, Durable
      <4>3. payloads' = payloads
        BY <1>6 DEF Mutating
      <4> QED
        BY <1>0, <1>3, <3>2, <3>5, <4>1, <4>2, <4>3 DEF BeginRemove
    <3>6. payloads' = payloads
      BY <1>6 DEF Mutating
    <3> QED
      BY <1>1, <1>3, <1>4, <3>1, <3>2, <3>3, <3>4, <3>5, <3>6
  <2>2. CASE Enqueuing \/ Loaded
    BY <1>1, <1>3, <1>4, <2>2 DEF Enqueuing, Loaded, EnqueueWritten, EnqueueWriteFails,
       EnqueueFileDropped, Ends
  <2>3. CASE Updating \/ Removing
    <3>1. UNCHANGED clear /\ (UNCHANGED running \/ running' = NoMutation)
      BY <2>3 DEF Updating, Removing, UpdateWritten, UpdateWriteFails, UpdateWinnerRestored,
         FileRemoved, FileRemovalFails, RemovalUndone, Ends
    <3>2. UNCHANGED leaving \/ (leaving' = memory[running.id] /\ running.id \in Messages)
      BY <2>3, Running DEF Updating, Removing, UpdateWritten, UpdateWriteFails,
         UpdateWinnerRestored, FileRemoved, FileRemovalFails, RemovalUndone, Durable, Operations
    <3> QED
      BY <1>0, <1>1, <1>3, <1>4, <3>1, <3>2
  <2>4. CASE Clearing
    <3>1. UNCHANGED leaving /\ (UNCHANGED running \/ running' = NoMutation)
      BY <2>4 DEF Clearing, ClearLoads, ClearLoadFails, ClearRemoves, ClearRemoved,
         ClearRestores, ClearFinishes, Ends
    <3>2. payloads' = payloads
      BY <1>6 DEF Mutating
    <3>3. ASSUME ClearLoads
          PROVE  \A m \in Messages : clear'.all[m] <= payloads' /\ clear'.keep[m] <= payloads'
      BY <1>0, <3>2, <3>3 DEF ClearLoads, Clears
    <3>4. ASSUME ClearRemoved
          PROVE  \A m \in Messages : clear'.all[m] <= payloads' /\ clear'.keep[m] <= payloads'
      BY <1>0, <3>2, <3>4 DEF ClearRemoved, Clears
    <3>5. ASSUME NEW n \in Messages, ClearRemoves(n) \/ ClearRestores(n)
          PROVE  \A m \in Messages : clear'.all[m] <= payloads' /\ clear'.keep[m] <= payloads'
      BY <1>0, <3>2, <3>5 DEF ClearRemoves, ClearRestores, Clears
    <3>6. ASSUME ClearLoadFails \/ ClearFinishes
          PROVE  UNCHANGED clear
      BY <3>6 DEF ClearLoadFails, ClearFinishes
    <3> QED
      BY <1>1, <1>3, <1>4, <2>4, <3>1, <3>3, <3>4, <3>5, <3>6 DEF Clearing
  <2> QED
    BY <1>6, <2>1, <2>2, <2>3, <2>4 DEF Mutating
<1>7. CASE Crash
  BY <1>0, <1>2, <1>4, <1>7 DEF Crash, None
<1>8. CASE UNCHANGED vars
  BY <1>1, <1>3, <1>4, <1>8 DEF vars, mutationVars
<1> QED
  BY <1>5, <1>6, <1>7, <1>8 DEF Next
-----------------------------------------------------------------------------
(* The parts of the invariant about the queue on screen                    *)

LEMMA PutBackKept == Durable /\ [Next]_vars => PutBackWasWritten'
<1> SUFFICES ASSUME Durable, [Next]_vars
             PROVE  PutBackWasWritten'
  OBVIOUS
<1>0. /\ PutBackWasWritten /\ written \subseteq written'
      /\ \A m \in Messages : disk[m] # None => disk[m] \in written
      /\ clear \in Clears
  BY StoreSteps DEF Durable, FilesWereWritten, TypeOK
\* Only an enqueue changes the queue on screen while a clear goes on.
<1>1. ASSUME Waits("clear", "removing") \/ Waits("clear", "restoring"),
             clear'.all = clear.all,
             \A m \in Messages : memory'[m] = memory[m] \/ memory'[m] # None
      PROVE  PutBackWasWritten'
  BY <1>0, <1>1 DEF PutBackWasWritten
<1>2. ASSUME ~(Waits("clear", "removing")' \/ Waits("clear", "restoring")')
      PROVE  PutBackWasWritten'
  BY <1>2 DEF PutBackWasWritten
<1>3. CASE Callers
  <2>1. UNCHANGED <<running, stage>>
    BY <1>3 DEF Callers
  <2>2. CASE Waits("clear", "removing") \/ Waits("clear", "restoring")
    <3>1. UNCHANGED clear
      BY <1>3, <2>2 DEF Callers, Enqueue, RemovePlainly, ToggleEditing, ConfirmQueued,
         OpenEditor, Capture, Update, Remove, GiveUp, Load, ClearEnvironment, Waits
    <3>2. \A m \in Messages : memory'[m] = memory[m] \/ memory'[m] # None
      <4>1. ASSUME NEW n \in Messages, Enqueue(n)
            PROVE  \A m \in Messages : memory'[m] = memory[m] \/ memory'[m] # None
        <5>1. /\ payloads' = payloads + 1 /\ payloads \in Nat /\ memory \in PayloadMap
              /\ memory' = [memory EXCEPT ![n] = payloads']
          BY <4>1 DEF Enqueue, Durable, TypeOK
        <5> QED
          BY <5>1 DEF PayloadMap, None
      <4>2. (\E n \in Messages : Enqueue(n)) \/ UNCHANGED memory
        BY <1>3 DEF Callers, RemovePlainly, ToggleEditing, ConfirmQueued, OpenEditor,
           Capture, Update, Remove, GiveUp, Load, ClearEnvironment, queueVars
      <4> QED
        BY <4>1, <4>2
    <3> QED
      BY <1>1, <2>2, <3>1, <3>2
  <2>3. CASE ~(Waits("clear", "removing") \/ Waits("clear", "restoring"))
    BY <1>2, <2>1, <2>3 DEF Waits
  <2> QED
    BY <2>2, <2>3
<1>4. CASE Mutating
  <2>1. CASE Starting
    <3>1. CASE UNCHANGED <<running, stage>>
      <4>1. running' = NoMutation
        BY <2>1, <3>1 DEF Starting, Starts, BeginEnqueue, Confirm, BeginUpdate, BeginRemove,
           BeginLoading
      <4> QED
        BY <1>2, <4>1 DEF NoMutation, Mutation, Waits
    <3>2. CASE ~UNCHANGED <<running, stage>>
      BY <1>2, <2>1, <3>2 DEF Starting, Starts, BeginEnqueue, Confirm, BeginUpdate,
         BeginRemove, BeginLoading, Begins, Passes, Waits
    <3> QED
      BY <3>1, <3>2
  <2>2. CASE Enqueuing \/ Updating \/ Removing \/ Loaded
    <3>1. running' = NoMutation \/ (running' = running /\ running.op # "clear")
      BY <2>2 DEF Enqueuing, Updating, Removing, Loaded, Ends, Waits, EnqueueWritten,
         EnqueueWriteFails, EnqueueFileDropped, UpdateWritten, UpdateWriteFails,
         UpdateWinnerRestored, FileRemoved, FileRemovalFails, RemovalUndone
    <3> QED
      BY <1>2, <3>1 DEF Waits, NoMutation, Mutation
  <2>3. CASE ClearLoads
    <3>1. /\ \A m \in Messages :
               clear'.all[m] = IF memory[m] # None THEN memory[m] ELSE disk[m]
          /\ UNCHANGED memory
      BY <1>0, <2>3 DEF ClearLoads, Clears, queueVars
    <3> QED
      BY <1>0, <3>1 DEF PutBackWasWritten
  <2>4. CASE ClearLoadFails \/ ClearFinishes
    BY <1>2, <2>4 DEF ClearLoadFails, ClearFinishes, Ends, Waits, NoMutation, Mutation
  <2>5. CASE ClearRemoved
    BY <1>0, <1>1, <2>5 DEF ClearRemoved, Clears, queueVars
  <2>6. CASE \E m \in Messages : ClearRemoves(m) \/ ClearRestores(m)
    BY <1>0, <1>1, <2>6 DEF ClearRemoves, ClearRestores, Clears, queueVars
  <2> QED
    BY <1>4, <2>1, <2>2, <2>3, <2>4, <2>5, <2>6 DEF Mutating, Clearing
<1>5. CASE Crash
  BY <1>2, <1>5 DEF Crash, Waits, NoMutation, Mutation
<1>6. CASE UNCHANGED vars
  BY <1>0, <1>6 DEF vars, queueVars, mutationVars, historyVars, PutBackWasWritten, Waits
<1> QED
  BY <1>3, <1>4, <1>5, <1>6 DEF Next

LEMMA StillToWriteKept == Durable /\ [Next]_vars => StillToWrite'
<1> SUFFICES ASSUME Durable, [Next]_vars
             PROVE  StillToWrite'
  OBVIOUS
<1>0. /\ StillToWrite /\ TypeOK /\ QueueTyped /\ written \subseteq written'
      /\ memory \in PayloadMap /\ pending \in Seq(Mutations)
  BY StoreSteps DEF Durable, TypeOK, QueueTyped
\* The queue only grows, and what is on screen is as it was, gone or written.
<1>1. ASSUME \A i \in 1..Len(pending) : i \in 1..Len(pending') /\ pending'[i] = pending[i],
             UNCHANGED <<running, stage>> \/ running.op # "enqueue" \/ stage # "writing",
             \A m \in Messages : \/ memory'[m] \in {memory[m], None} \cup written'
                                 \/ \E i \in 1..Len(pending') : Carries(pending[i], m)'
      PROVE  StillToWrite'
  <2> SUFFICES ASSUME NEW m \in Messages, memory'[m] # None, memory'[m] \notin written',
                      memory'[m] = memory[m]
               PROVE  \/ stage' = "writing" /\ Carries(running, m)'
                      \/ \E i \in 1..Len(pending') : Carries(pending[i], m)'
    BY <1>1 DEF StillToWrite
  <2>1. CASE stage = "writing" /\ Carries(running, m)
    BY <1>1, <2>1 DEF Carries
  <2>2. CASE \E i \in 1..Len(pending) : Carries(pending[i], m)
    BY <1>1, <2>2 DEF Carries
  <2> QED
    BY <1>0, <2>1, <2>2 DEF StillToWrite
<1>2. CASE Callers
  <2>1. UNCHANGED <<running, stage>>
    BY <1>2 DEF Callers
  <2>2. pending' = pending \/ \E c : pending' = Append(pending, c)
    BY <1>2 DEF Callers, Enqueue, RemovePlainly, ToggleEditing, ConfirmQueued,
       AwaitsConfirmation, OpenEditor, Capture, Update, Remove, GiveUp, Load,
       ClearEnvironment, Submit
  <2>3. \A i \in 1..Len(pending) : i \in 1..Len(pending') /\ pending'[i] = pending[i]
    BY <1>0, <2>2
  <2>4. ASSUME NEW n \in Messages, Enqueue(n)
        PROVE  \A m \in Messages : \/ memory'[m] = memory[m]
                                   \/ \E i \in 1..Len(pending') : Carries(pending[i], m)'
    <3> DEFINE c == Mutation("enqueue", n, payloads', AnyRevision, FALSE, NoWriter)
    <3>1. pending' = Append(pending, c) /\ memory' = [memory EXCEPT ![n] = payloads']
      BY <2>4 DEF Enqueue, Submit
    <3> HIDE DEF c
    <3>2. PICK i \in 1..Len(pending') : pending'[i] = c
      <4>1. /\ Len(pending) \in Nat /\ Len(pending') = Len(pending) + 1
            /\ pending'[Len(pending) + 1] = c
        BY <1>0, <3>1
      <4> QED
        BY <4>1
    <3>3. c.op = "enqueue" /\ c.id = n /\ c.payload = memory'[n]
      BY <1>0, <3>1 DEF c, Mutation, PayloadMap
    <3>4. Carries(pending[i], n)'
      BY <3>2, <3>3 DEF Carries
    <3>5. \A m \in Messages \ {n} : memory'[m] = memory[m]
      BY <1>0, <3>1 DEF PayloadMap
    <3> QED
      BY <3>2, <3>4, <3>5
  <2>5. \/ \E n \in Messages : Enqueue(n)
        \/ UNCHANGED memory
    BY <1>2 DEF Callers, RemovePlainly, ToggleEditing, ConfirmQueued, OpenEditor, Capture,
       Update, Remove, GiveUp, Load, ClearEnvironment, queueVars
  <2> QED
    BY <1>1, <2>1, <2>3, <2>4, <2>5
<1>3. CASE Starting /\ Mutating
  <2>1. /\ pending # <<>> /\ pending' = Tail(pending) /\ running = NoMutation
        /\ UNCHANGED <<memory, written>>
        /\ \/ running' = Head(pending) /\ stage' = "writing"
           \/ Head(pending).op # "enqueue"
    BY <1>3 DEF Starting, BeginEnqueue, Confirm, BeginUpdate, BeginRemove, BeginLoading,
       Starts, Begins, Passes, queueVars, historyVars
  <2>2. /\ Head(pending) = pending[1] /\ Len(pending) \in Nat
        /\ Len(pending') = Len(pending) - 1
        /\ \A i \in 1..Len(pending') : pending'[i] = pending[i + 1]
    BY <1>0, <2>1, HeadAndTail
  <2> SUFFICES ASSUME NEW m \in Messages, memory[m] # None, memory[m] \notin written
               PROVE  \/ stage' = "writing" /\ Carries(running, m)'
                      \/ \E i \in 1..Len(pending') : Carries(pending[i], m)'
    BY <2>1 DEF StillToWrite
  <2>3. PICK i \in 1..Len(pending) : Carries(pending[i], m)
    BY <1>0, <2>1 DEF StillToWrite, Carries, NoMutation, Mutation
  <2>4. CASE i = 1
    BY <2>1, <2>2, <2>3, <2>4 DEF Carries
  <2>5. CASE i > 1
    <3>1. i - 1 \in 1..Len(pending') /\ pending'[i - 1] = pending[i]
      BY <2>2, <2>5
    <3> QED
      BY <2>1, <2>3, <3>1 DEF Carries
  <2> QED
    BY <2>4, <2>5
<1>4. CASE EnqueueWritten
  <2>1. /\ UNCHANGED <<memory, pending>>
        /\ written' = written \cup {running.payload}
    BY <1>4 DEF EnqueueWritten, StoreWrites, Ends, queueVars
  <2> QED
    BY <1>0, <2>1 DEF StillToWrite, Carries
<1>5. CASE EnqueueWriteFails
  <2>1. /\ UNCHANGED <<pending, written>>
        /\ memory' = IF memory[running.id] = running.payload
                     THEN [memory EXCEPT ![running.id] = None] ELSE memory
    BY <1>5 DEF EnqueueWriteFails, RollsBack, Ends
  <2> SUFFICES ASSUME NEW m \in Messages, memory'[m] # None, memory'[m] \notin written
               PROVE  \E i \in 1..Len(pending) : Carries(pending[i], m)'
    BY <2>1 DEF StillToWrite
  <2>2. memory'[m] = memory[m]
    BY <1>0, <2>1 DEF PayloadMap
  <2>3. ~Carries(running, m)
    BY <1>0, <2>1, <2>2 DEF Carries, PayloadMap
  <2>4. \E i \in 1..Len(pending) : Carries(pending[i], m)
    BY <1>0, <2>2, <2>3 DEF StillToWrite
  <2> QED
    BY <2>1, <2>2, <2>4 DEF Carries
<1>6. CASE Mutating /\ (EnqueueFileDropped \/ Updating \/ Removing \/ Loaded \/ Clearing)
  <2>1. pending' = pending
    BY <1>6 DEF EnqueueFileDropped, Updating, Removing, Loaded, Clearing, Ends,
       UpdateWritten, UpdateWriteFails, UpdateWinnerRestored, FileRemoved, FileRemovalFails,
       RemovalUndone, ClearLoads, ClearLoadFails, ClearRemoves, ClearRemoved, ClearRestores,
       ClearFinishes
  <2>2. running.op # "enqueue" \/ stage # "writing"
    BY <1>6 DEF EnqueueFileDropped, Updating, Removing, Loaded, Clearing, Waits,
       UpdateWritten, UpdateWriteFails, UpdateWinnerRestored, FileRemoved, FileRemovalFails,
       RemovalUndone, ClearLoads, ClearLoadFails, ClearRemoves, ClearRemoved, ClearRestores,
       ClearFinishes
  <2>3. \A m \in Messages : ~Enqueue(m)
    <3>1. calls' = calls /\ calls \in Nat
      BY <1>0, <1>6 DEF Mutating, TypeOK
    <3> QED
      <4>1. ASSUME NEW m \in Messages, Enqueue(m)
            PROVE  calls' = calls + 1
        BY <4>1 DEF Enqueue, Call
      <4> QED
        BY <3>1, <4>1
  <2> QED
    BY <1>1, <2>1, <2>2, <2>3, MemorySteps
<1>7. CASE Crash
  BY <1>7 DEF Crash, StillToWrite, Nothing
<1>8. CASE UNCHANGED vars
  BY <1>0, <1>8 DEF vars, queueVars, mutationVars, historyVars, StillToWrite, Carries
<1> QED
  BY <1>2, <1>3, <1>4, <1>5, <1>6, <1>7, <1>8 DEF Next, Mutating, Enqueuing

-----------------------------------------------------------------------------
(* The part about the writers                                              *)

\* What a step makes a writer believe.
LEMMA HoldSteps ==
  ASSUME Durable, [Next]_vars, NEW w \in Writers
  PROVE  /\ holds'[w].payload <= payloads'
         /\ Believes(holds'[w]) => holds'[w].payload \in written'
<1>0. /\ holds \in [Writers -> Holds] /\ holds[w].payload <= payloads
      /\ holds[w].payload \in Nat /\ payloads \in Nat /\ payloads' \in Nat
      /\ payloads <= payloads' /\ written \subseteq written'
      /\ Believes(holds[w]) => holds[w].payload \in written
      /\ \A m \in Messages : memory[m] <= payloads /\ memory[m] \in Nat
  BY QueueSteps, StoreSteps, HoldIsUsed
     DEF Durable, TypeOK, MadeBefore, BelievedWasWritten, PayloadMap
<1>1. ASSUME \/ holds'[w] = holds[w]
             \/ holds'[w] = NoHold
             \/ /\ holds'[w].payload = holds[w].payload
                /\ Believes(holds'[w]) => Believes(holds[w])
             \/ \E m \in Messages : holds'[w].payload = memory[m] /\ ~Believes(holds'[w])
      PROVE  /\ holds'[w].payload <= payloads'
             /\ Believes(holds'[w]) => holds'[w].payload \in written'
  BY <1>0, <1>1 DEF NoHold, Hold, Believes, None
<1>2. CASE Callers
  <2>1. ASSUME NEW v \in Writers, NEW m \in Messages, ConfirmQueued(v, m)
        PROVE  \/ holds'[w] = holds[w]
               \/ holds'[w].payload = memory[m] /\ ~Believes(holds'[w])
    BY <1>0, <2>1 DEF ConfirmQueued, AwaitsConfirmation, Hold, Believes
  <2>2. ASSUME NEW v \in Writers, NEW m \in Messages, OpenEditor(v, m)
        PROVE  \/ holds'[w] = holds[w]
               \/ holds'[w].payload = memory[m] /\ ~Believes(holds'[w])
    BY <1>0, <2>2 DEF OpenEditor, Hold, Believes
  <2>3. ASSUME NEW v \in Writers, Capture(v)
        PROVE  \/ holds'[w] = holds[w]
               \/ holds'[w] = NoHold
               \/ /\ holds'[w].payload = holds[w].payload
                  /\ Believes(holds'[w]) => Believes(holds[w])
    BY <1>0, <2>3 DEF Capture, Hold, Believes
  <2>4. ASSUME NEW v \in Writers, Update(v) \/ Remove(v)
        PROVE  \/ holds'[w] = holds[w]
               \/ /\ holds'[w].payload = holds[w].payload
                  /\ Believes(holds'[w]) => Believes(holds[w])
    <3>1. PICK status \in {"updating", "removing"} :
            holds' = [holds EXCEPT ![v].status = status] /\ holds[v].status = "ready"
      BY <2>4 DEF Update, Remove
    <3>2. CASE w = v
      <4>1. holds'[w] = [holds[w] EXCEPT !.status = status]
        BY <1>0, <3>1, <3>2
      <4>2. /\ holds'[w].payload = holds[w].payload /\ holds'[w].status = status
            /\ holds'[w].confirmed = holds[w].confirmed
        BY <1>0, <3>1, <3>2, <4>1, HoldMoves
      <4> QED
        BY <3>1, <3>2, <4>2 DEF Believes
    <3>3. CASE w # v
      BY <1>0, <3>1, <3>3
    <3> QED
      BY <3>2, <3>3
  <2>5. ASSUME NEW v \in Writers, GiveUp(v)
        PROVE  holds'[w] = holds[w] \/ holds'[w] = NoHold
    BY <1>0, <2>5 DEF GiveUp
  <2>6. ASSUME \/ ClearEnvironment \/ Load
               \/ \E m \in Messages : Enqueue(m) \/ RemovePlainly(m) \/ ToggleEditing(m)
        PROVE  holds'[w] = holds[w]
    BY <2>6 DEF ClearEnvironment, Load, Enqueue, RemovePlainly, ToggleEditing, callerVars
  <2> QED
    BY <1>1, <1>2, <2>1, <2>2, <2>3, <2>4, <2>5, <2>6 DEF Callers
<1>3. ASSUME NEW mutation \in Mutations, Answers(mutation, NoHold)
      PROVE  holds'[w] = holds[w] \/ holds'[w] = NoHold
  BY <1>0, <1>3 DEF Answers
<1>4. CASE Confirm
  <2> DEFINE c == Head(pending)
  <2>1. /\ pending # <<>> /\ running = NoMutation /\ c \in Mutations /\ c.op = "confirm"
        /\ pending \in Seq(Mutations) /\ QueueTyped
    BY <1>4, Started DEF Confirm, Durable, Operations, TypeOK
  <2>2. CASE memory[c.id] # c.payload
    BY <1>1, <1>3, <1>4, <2>1, <2>2 DEF Confirm
  <2>3. CASE memory[c.id] = c.payload
    <3>1. c.id \in Messages /\ c = pending[1] /\ 1 \in 1..Len(pending)
      BY <2>1, MutationIsUsed, HeadAndTail
    <3>2. /\ c.payload # None
          /\ \A j \in 1..Len(pending) :
               pending[j].op = "enqueue" => pending[j].payload # c.payload
      BY <2>1, <3>1 DEF Durable, AsksLater
    <3>3. stage = "idle"
      BY <2>1 DEF QueueTyped
    <3>4. c.payload \in written
      <4>1. ASSUME c.payload \notin written
            PROVE  \E j \in 1..Len(pending) : Carries(pending[j], c.id)
        BY <2>3, <3>1, <3>2, <3>3, <4>1 DEF Durable, StillToWrite
      <4> QED
        BY <2>3, <3>2, <4>1 DEF Carries
    <3>5. \/ holds'[w] = holds[w]
          \/ holds'[w].payload = c.payload
      BY <1>0, <1>4, <2>3 DEF Confirm, Answers, Hold
    <3> QED
      BY <1>0, <1>1, <2>3, <3>1, <3>4, <3>5
  <2> QED
    BY <2>2, <2>3
<1>5. CASE Mutating /\ (BeginUpdate \/ BeginRemove)
  <2>1. Head(pending) \in Mutations
    BY <1>5, Started DEF BeginUpdate, BeginRemove, Durable, Operations
  <2> QED
    BY <1>1, <1>3, <1>5, <2>1 DEF BeginUpdate, BeginRemove
<1>6. CASE UpdateWritten
  <2>1. /\ running \in Mutations /\ running.payload \in Nat /\ running.payload <= payloads
    BY <1>6, Running DEF UpdateWritten, Durable, MadeBefore, Operations
  <2>2. running.payload \in written'
    BY <1>6 DEF UpdateWritten, StoreWrites
  <2>3. CASE LostRace(running)
    BY <1>1, <1>3, <1>6, <2>1, <2>3 DEF UpdateWritten
  <2>4. CASE ~LostRace(running)
    <3>1. holds'[w] = holds[w] \/ holds'[w].payload = running.payload
      BY <1>0, <1>6, <2>4 DEF UpdateWritten, Answers, Hold
    <3> QED
      BY <1>0, <1>1, <2>1, <2>2, <3>1
  <2> QED
    BY <2>3, <2>4
<1>7. CASE UpdateWriteFails \/ UpdateWinnerRestored \/ Removing
  <2>1. running \in Mutations
    BY DEF Durable, TypeOK
  <2> QED
    BY <1>1, <1>3, <1>7, <2>1 DEF UpdateWriteFails, UpdateWinnerRestored, Removing,
       FileRemoved, FileRemovalFails, RemovalUndone
<1>8. CASE BeginEnqueue \/ BeginLoading \/ Enqueuing \/ Loaded \/ Clearing
  BY <1>1, <1>8 DEF BeginEnqueue, BeginLoading, Enqueuing, Loaded, Clearing, EnqueueWritten,
     EnqueueWriteFails, EnqueueFileDropped, ClearLoads, ClearLoadFails, ClearRemoves,
     ClearRemoved, ClearRestores, ClearFinishes
<1>9. CASE Crash
  BY <1>1, <1>9 DEF Crash
<1>10. CASE UNCHANGED vars
  BY <1>1, <1>10 DEF vars, callerVars
<1> QED
  BY <1>2, <1>4, <1>5, <1>6, <1>7, <1>8, <1>9, <1>10 DEF Next, Mutating, Starting, Updating

-----------------------------------------------------------------------------
(* The theorem                                                             *)

LEMMA DurableInitially == Init => Durable
<1> SUFFICES ASSUME Init
             PROVE  Durable
  OBVIOUS
<1>1. TypeOK
  BY InitIsTyped
<1>2. /\ \A m \in Messages : memory[m] = 0 /\ disk[m] = 0 /\ clear.all[m] = 0 /\ clear.keep[m] = 0
      /\ leaving = 0 /\ running.payload = 0 /\ running.op = "none" /\ payloads = 0
      /\ pending = <<>>
  BY DEF Init, Nothing, NoClear, NoMutation, Mutation, None
<1>3. \A w \in Writers : holds[w].payload = 0 /\ holds[w].status = "idle"
  BY DEF Init, NoHold, Hold, None
<1>4. MadeBefore
  BY <1>2, <1>3 DEF MadeBefore
<1>5. FilesWereWritten /\ PutBackWasWritten /\ StillToWrite /\ AsksLater
  BY <1>2 DEF FilesWereWritten, PutBackWasWritten, StillToWrite, AsksLater, Waits, None
<1>6. BelievedWasWritten
  BY <1>3 DEF BelievedWasWritten, Believes
<1> QED
  BY <1>1, <1>4, <1>5, <1>6 DEF Durable

LEMMA DurableKept == Durable /\ [Next]_vars => Durable'
<1> SUFFICES ASSUME Durable, [Next]_vars
             PROVE  Durable'
  OBVIOUS
<1>0. /\ TypeOK' /\ payloads \in Nat /\ payloads' \in Nat /\ payloads <= payloads'
      /\ \A m \in Messages : /\ memory[m] <= payloads /\ disk[m] <= payloads
                             /\ memory'[m] \in Nat /\ disk'[m] \in Nat
                             /\ memory[m] \in Nat /\ disk[m] \in Nat
  BY StepTyped, QueueSteps DEF Durable, MadeBefore, TypeOK, PayloadMap
<1>1. \A m \in Messages : memory'[m] <= payloads' /\ disk'[m] <= payloads'
  BY <1>0, StoreSteps, MemorySteps DEF None
<1>2. MadeBefore'
  BY <1>1, LocalsMadeBefore, PendingMadeBefore, HoldSteps DEF MadeBefore
<1>3. FilesWereWritten'
  BY StoreSteps DEF Durable, FilesWereWritten
<1>4. BelievedWasWritten'
  BY HoldSteps DEF BelievedWasWritten, Believes
<1> QED
  BY <1>0, <1>2, <1>3, <1>4, PutBackKept, StillToWriteKept, AsksLaterKept DEF Durable

\* What the drain confirmed and is about to send, rewrite or remove has been accepted by
\* the store, whatever was enqueued, rolled back, cleared or lost in a crash meanwhile.
THEOREM ConfirmedWasWrittenCorrect == Spec => []ConfirmedWasWritten
<1>1. Durable => ConfirmedWasWritten
  BY DEF Durable, BelievedWasWritten, Believes, ConfirmedWasWritten
<1> QED
  BY <1>1, DurableInitially, DurableKept, PTL DEF Spec
=============================================================================
