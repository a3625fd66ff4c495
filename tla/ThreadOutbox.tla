---------------------------- MODULE ThreadOutbox ----------------------------
(***************************************************************************)
(* The mobile app's outbox of unsent thread messages:                      *)
(* apps/mobile/src/state/thread-outbox-manager.ts over the one-file-per-   *)
(* message store of thread-outbox-storage.ts.                              *)
(*                                                                         *)
(* Mutations run one at a time in the order of submission and wait for the *)
(* store; callers run between any two steps of them.  An enqueue publishes *)
(* its message at once and writes it when its turn comes.                  *)
(*                                                                         *)
(* A payload is a number: two writes never carry the same object, and the  *)
(* larger one was made later.  The order of the messages of a thread (by   *)
(* creation time) is left out.                                             *)
(***************************************************************************)
EXTENDS Integers, Sequences, FiniteSets

CONSTANTS
  Messages,       \* message ids
  Environment,    \* the messages of the environment that is removed
  Writers,        \* callers that read a message and write or remove it later
  NoMessage, NoWriter,
  PlainRemovals,  \* whether a message is also removed without a revision
  MaxPayloads,    \* bound: payloads ever made
  MaxCalls,       \* bound: calls of all kinds
  MaxFaults,      \* bound: store operations that fail
  MaxCrashes      \* bound: process deaths

ASSUME OutboxAssumption ==
  /\ Environment \subseteq Messages
  /\ NoMessage \notin Messages /\ NoWriter \notin Writers
  /\ PlainRemovals \in BOOLEAN
  /\ MaxPayloads \in Nat /\ MaxCalls \in Nat /\ MaxFaults \in Nat /\ MaxCrashes \in Nat

None == 0           \* no payload
AnyRevision == -1   \* no expectedRevision

VARIABLES
  memory,     \* queuedMessagesByThreadKeyAtom: the payload of each message
  revisions,  \* the write counter of each message, 0 when it has no entry
  loaded,     \* loadPromise: "none", "loading" or "done"
  pending,    \* mutations chained behind the running one
  running,    \* the mutation that waits for the store
  stage,      \* the store operation it waits for
  leaving,    \* remove: the live payload read before the store operation
  clear,      \* clearEnvironment: its locals
  disk,       \* the payload in the file of each message
  editing,    \* messages an editor holds
  holds,      \* what each writer has read and what it waits for
  payloads, calls, faults, crashes,   \* spent shares of the bounds
  written,    \* history: payloads the store accepted
  released,   \* history: payloads reported as removed
  saved,      \* history: newest payload of each message reported as written
  unsettled   \* history: messages a failed compensation or a crash left apart

queueVars == <<memory, revisions>>
mutationVars == <<running, stage, leaving, clear>>
callerVars == <<editing, holds, payloads, calls>>
historyVars == <<written, released, saved, unsettled>>
vars == <<queueVars, loaded, pending, mutationVars, disk, callerVars, faults, crashes,
          historyVars>>

Mutation(op, id, payload, expected, guarded, by) ==
  [op |-> op, id |-> id, payload |-> payload, expected |-> expected,
   guarded |-> guarded, by |-> by]
NoMutation == Mutation("none", NoMessage, None, AnyRevision, FALSE, NoWriter)
Hold(status, id, payload, revision, confirmed) ==
  [status |-> status, id |-> id, payload |-> payload, revision |-> revision,
   confirmed |-> confirmed]
NoHold == Hold("idle", NoMessage, None, 0, FALSE)

Nothing == [m \in Messages |-> None]
NoRevisions == [m \in Messages |-> 0]
NoClear == [requested |-> NoRevisions, all |-> Nothing, revisions |-> NoRevisions,
            left |-> {}, gone |-> {}, keep |-> Nothing]

Init ==
  /\ memory = Nothing /\ revisions = NoRevisions
  /\ loaded = "none"
  /\ pending = <<>> /\ running = NoMutation /\ stage = "idle"
  /\ leaving = None /\ clear = NoClear
  /\ disk = Nothing
  /\ editing = {} /\ holds = [w \in Writers |-> NoHold]
  /\ payloads = 0 /\ calls = 0 /\ faults = 0 /\ crashes = 0
  /\ written = {} /\ released = {} /\ saved = Nothing /\ unsettled = {}

\* Every accepted write counts.
Bumped(m) == [revisions EXCEPT ![m] = @ + 1]

(* Plausible bugs of the definitions below. *)
BugForgetsRevision(m) == [revisions EXCEPT ![m] = 0]
BugDropsAnyFile(m) == TRUE
BugConfirmsAtOnce(w, m) ==
  /\ holds' = [holds EXCEPT ![w] = Hold("confirmed", m, memory[m], 0, TRUE)]
  /\ UNCHANGED pending
BugClearsLatest(m) == TRUE
BugNeverLoses(mutation) == FALSE
BugNeverSettles == UNCHANGED <<running, stage, pending>>

-----------------------------------------------------------------------------
(* Callers.  Each runs in one go, up to its first await.  What none of     *)
(* them changes is said once, in Callers below.                            *)

Call == calls < MaxCalls /\ calls' = calls + 1
Submit(mutation) == pending' = Append(pending, mutation)

\* A new payload for message m, published before it is written.
Enqueue(m) ==
  /\ Call
  /\ payloads < MaxPayloads /\ payloads' = payloads + 1
  /\ revisions' = Bumped(m)
  /\ memory' = [memory EXCEPT ![m] = payloads']
  /\ Submit(Mutation("enqueue", m, payloads', AnyRevision, FALSE, NoWriter))
  /\ UNCHANGED <<loaded, clear, editing, holds>>

\* Waits behind every mutation submitted so far.
AwaitsConfirmation(w, m) ==
  /\ holds' = [holds EXCEPT ![w] = Hold("confirming", m, memory[m], 0, TRUE)]
  /\ Submit(Mutation("confirm", m, memory[m], AnyRevision, FALSE, w))

\* The drain asks whether the message it is about to send is still queued.
ConfirmQueued(w, m) ==
  /\ Call
  /\ holds[w].status = "idle" /\ memory[m] # None
  /\ AwaitsConfirmation(w, m)
  /\ UNCHANGED <<queueVars, loaded, clear, editing, payloads>>

\* Its continuation reads the revision and compares the payload again.
Capture(w) ==
  /\ holds[w].status = "confirmed"
  /\ LET m == holds[w].id IN
     holds' = [holds EXCEPT ![w] =
                IF memory[m] = holds[w].payload
                THEN Hold("ready", m, memory[m], revisions[m], TRUE) ELSE NoHold]
  /\ UNCHANGED <<queueVars, loaded, pending, clear, editing, payloads, calls>>

\* A pending-task editor reads the message and its revision when it opens.
OpenEditor(w, m) ==
  /\ Call
  /\ holds[w].status = "idle" /\ memory[m] # None
  /\ holds' = [holds EXCEPT ![w] = Hold("ready", m, memory[m], revisions[m], FALSE)]
  /\ UNCHANGED <<queueVars, loaded, pending, clear, editing, payloads>>

\* After slow work: attachments uploaded by the drain, edits made in the editor.
Update(w) ==
  /\ holds[w].status = "ready"
  /\ holds[w].confirmed => holds[w].id \notin editing
  /\ payloads < MaxPayloads /\ payloads' = payloads + 1
  /\ holds' = [holds EXCEPT ![w].status = "updating"]
  /\ Submit(Mutation("update", holds[w].id, payloads', holds[w].revision, FALSE, w))
  /\ UNCHANGED <<queueVars, loaded, clear, editing, calls>>

\* Once delivered, unless an editor holds it by now.
Remove(w) ==
  /\ holds[w].status = "ready" /\ holds[w].confirmed
  /\ holds[w].id \notin editing
  /\ holds' = [holds EXCEPT ![w].status = "removing"]
  /\ Submit(Mutation("remove", holds[w].id, holds[w].payload, holds[w].revision, TRUE, w))
  /\ UNCHANGED <<queueVars, loaded, clear, editing, payloads, calls>>

\* A writer whose message changed, or whose work failed, gives up.
GiveUp(w) ==
  /\ holds[w].status = "ready"
  /\ holds' = [holds EXCEPT ![w] = NoHold]
  /\ UNCHANGED <<queueVars, loaded, pending, clear, editing, payloads, calls>>

\* The user deletes a pending task; the drain drops one whose project is gone.
RemovePlainly(m) ==
  /\ PlainRemovals /\ memory[m] # None
  /\ Call
  /\ Submit(Mutation("remove", m, memory[m], AnyRevision, FALSE, NoWriter))
  /\ UNCHANGED <<queueVars, loaded, clear, editing, holds, payloads>>

\* The environment is removed, once at a time.
ClearEnvironment ==
  /\ Environment # {}
  /\ running.op # "clear" /\ \A i \in 1..Len(pending) : pending[i].op # "clear"
  /\ Call
  /\ clear' = [NoClear EXCEPT !.requested = revisions]
  /\ Submit(Mutation("clear", NoMessage, None, AnyRevision, FALSE, NoWriter))
  /\ UNCHANGED <<queueVars, loaded, editing, holds, payloads>>

Load ==
  /\ loaded = "none"
  /\ loaded' = "loading"
  /\ Submit(Mutation("load", NoMessage, None, AnyRevision, FALSE, NoWriter))
  /\ UNCHANGED <<queueVars, clear, callerVars>>

\* An editor takes or releases a message.
ToggleEditing(m) ==
  /\ Call
  /\ editing' = IF m \in editing THEN editing \ {m} ELSE editing \cup {m}
  /\ UNCHANGED <<queueVars, loaded, pending, clear, holds, payloads>>

-----------------------------------------------------------------------------
(* The store.  A write replaces the file by renaming a complete one over   *)
(* it, so one that fails leaves the old file.                              *)

StoreFails == faults < MaxFaults /\ faults' = faults + 1

StoreWrites(m, payload) ==
  /\ disk' = [disk EXCEPT ![m] = payload]
  /\ written' = written \cup {payload}
  /\ UNCHANGED faults

StoreRemoves(m) ==
  /\ disk' = [disk EXCEPT ![m] = None]
  /\ UNCHANGED <<faults, written>>

-----------------------------------------------------------------------------
(* Mutations, from the head of the queue to the first store operation.     *)
(* What none of them changes is said once, in Mutating below.              *)

Starts(op) == running = NoMutation /\ pending # <<>> /\ Head(pending).op = op

\* The mutation waits for a store operation.
Begins(operation) ==
  /\ running' = Head(pending) /\ stage' = operation
  /\ pending' = Tail(pending)

\* The mutation ends without one.
Passes == pending' = Tail(pending) /\ UNCHANGED <<running, stage>>

\* The running mutation ends, however it went: the next one starts after either.
Ends == running' = NoMutation /\ stage' = "idle" /\ UNCHANGED pending

\* What its writer is told.
Answers(mutation, hold) ==
  holds' = IF mutation.by = NoWriter THEN holds ELSE [holds EXCEPT ![mutation.by] = hold]

StaleOrMissing(mutation) ==
  \/ memory[mutation.id] = None
  \/ mutation.expected # AnyRevision /\ revisions[mutation.id] # mutation.expected

RemovalCanceled(mutation) ==
  \/ mutation.expected # AnyRevision /\ revisions[mutation.id] # mutation.expected
  \/ mutation.guarded /\ mutation.id \in editing

BeginEnqueue ==
  /\ Starts("enqueue") /\ Begins("writing")
  /\ UNCHANGED <<queueVars, loaded, leaving, clear, disk, holds, faults, historyVars>>

\* Is this very payload still queued?
Confirm ==
  /\ Starts("confirm") /\ Passes
  /\ LET c == Head(pending) IN
     Answers(c, IF memory[c.id] = c.payload
                THEN Hold("confirmed", c.id, c.payload, 0, TRUE) ELSE NoHold)
  /\ UNCHANGED <<queueVars, loaded, leaving, clear, disk, faults, historyVars>>

BeginUpdate ==
  /\ Starts("update")
  /\ IF StaleOrMissing(Head(pending))
     THEN Passes /\ Answers(Head(pending), NoHold)
     ELSE Begins("writing") /\ UNCHANGED holds
  /\ UNCHANGED <<queueVars, loaded, leaving, clear, disk, faults, historyVars>>

BeginRemove ==
  /\ Starts("remove")
  /\ LET c == Head(pending) IN
     IF RemovalCanceled(c)
     THEN Passes /\ Answers(c, NoHold) /\ UNCHANGED leaving
     ELSE /\ Begins("removing")
          /\ leaving' = IF memory[c.id] # None THEN memory[c.id] ELSE c.payload
          /\ UNCHANGED holds
  /\ UNCHANGED <<queueVars, loaded, clear, disk, faults, historyVars>>

BeginLoading ==
  /\ Starts("load") \/ Starts("clear")
  /\ Begins("loading")
  /\ UNCHANGED <<queueVars, loaded, leaving, clear, disk, holds, faults, historyVars>>

-----------------------------------------------------------------------------
(* enqueue                                                                 *)

Waits(op, operation) == running.op = op /\ stage = operation

Settled(m) == unsettled' = unsettled \ {m}

EnqueueWritten ==
  /\ Waits("enqueue", "writing")
  /\ StoreWrites(running.id, running.payload)
  /\ Ends
  /\ saved' = [saved EXCEPT ![running.id] = running.payload]
  /\ Settled(running.id)
  /\ UNCHANGED <<queueVars, loaded, leaving, clear, holds, released>>

\* Rolled back by reference: a newer payload of the message stays.
RollsBack(m, payload) == memory[m] = payload

\* The copy of an earlier payload goes with the last entry of the message.
DropsFile(m) == memory'[m] = None

EnqueueWriteFails ==
  /\ Waits("enqueue", "writing")
  /\ StoreFails
  /\ memory' = IF RollsBack(running.id, running.payload)
               THEN [memory EXCEPT ![running.id] = None] ELSE memory
  /\ IF DropsFile(running.id)
     THEN stage' = "removing" /\ UNCHANGED <<running, pending>>
     ELSE Ends
  /\ saved' = IF memory'[running.id] = None THEN [saved EXCEPT ![running.id] = None] ELSE saved
  /\ UNCHANGED <<revisions, loaded, leaving, clear, disk, holds, written, released,
                 unsettled>>

\* Best effort.
EnqueueFileDropped ==
  /\ Waits("enqueue", "removing")
  /\ Ends
  /\ \/ StoreRemoves(running.id) /\ Settled(running.id)
     \/ StoreFails /\ unsettled' = unsettled \cup {running.id} /\ UNCHANGED <<disk, written>>
  /\ UNCHANGED <<queueVars, loaded, leaving, clear, holds, released, saved>>

-----------------------------------------------------------------------------
(* update                                                                  *)

\* Checked again after the write: an enqueue may have published meanwhile.
LostRace(mutation) == StaleOrMissing(mutation)

UpdateWritten ==
  /\ Waits("update", "writing")
  /\ StoreWrites(running.id, running.payload)
  /\ IF LostRace(running)
     THEN /\ IF memory[running.id] # None
             THEN stage' = "restoring" /\ UNCHANGED <<running, pending, holds>>
             ELSE Ends /\ Answers(running, NoHold)
          /\ leaving' = memory[running.id]
          /\ UNCHANGED <<queueVars, saved, unsettled>>
     ELSE /\ Ends
          /\ Answers(running, Hold("ready", running.id, running.payload, running.expected + 1,
                                   holds[running.by].confirmed))
          /\ revisions' = Bumped(running.id)
          /\ memory' = [memory EXCEPT ![running.id] = running.payload]
          /\ saved' = [saved EXCEPT ![running.id] = running.payload]
          /\ Settled(running.id)
          /\ UNCHANGED leaving
  /\ UNCHANGED <<loaded, clear, released>>

UpdateWriteFails ==
  /\ Waits("update", "writing")
  /\ StoreFails /\ Ends /\ Answers(running, NoHold)
  /\ UNCHANGED <<queueVars, loaded, leaving, clear, disk, historyVars>>

\* The winner's own write follows; this one only shortens the wait for it.
UpdateWinnerRestored ==
  /\ Waits("update", "restoring")
  /\ Ends /\ Answers(running, NoHold)
  /\ \/ StoreWrites(running.id, leaving)
     \/ StoreFails /\ UNCHANGED <<disk, written>>
  /\ UNCHANGED <<queueVars, loaded, leaving, clear, released, saved, unsettled>>

-----------------------------------------------------------------------------
(* remove                                                                  *)

\* The entry stays: were it deleted, a message enqueued again would start over at
\* a revision that an old writer may still expect.
Tombstoned(m) == Bumped(m)

\* A removal that lost to an enqueue or an editor puts the live payload back.
FileRemoved ==
  /\ Waits("remove", "removing")
  /\ StoreRemoves(running.id)
  /\ IF RemovalCanceled(running)
     THEN /\ IF memory[running.id] # None
             THEN stage' = "restoring" /\ UNCHANGED <<running, pending, holds>>
             ELSE Ends /\ Answers(running, NoHold)
          /\ leaving' = memory[running.id]
          /\ UNCHANGED <<queueVars, released, saved, unsettled>>
     ELSE /\ Ends /\ Answers(running, NoHold)
          /\ memory' = [memory EXCEPT ![running.id] = None]
          /\ revisions' = Tombstoned(running.id)
          /\ released' = released \cup {leaving}
          /\ saved' = [saved EXCEPT ![running.id] = None]
          /\ Settled(running.id)
          /\ UNCHANGED leaving
  /\ UNCHANGED <<loaded, clear>>

FileRemovalFails ==
  /\ Waits("remove", "removing")
  /\ StoreFails /\ Ends /\ Answers(running, NoHold)
  /\ UNCHANGED <<queueVars, loaded, leaving, clear, disk, historyVars>>

RemovalUndone ==
  /\ Waits("remove", "restoring")
  /\ Ends /\ Answers(running, NoHold)
  /\ \/ StoreWrites(running.id, leaving) /\ UNCHANGED unsettled
     \/ /\ StoreFails /\ UNCHANGED <<disk, written>>
        /\ unsettled' = unsettled \cup {running.id}
  /\ UNCHANGED <<queueVars, loaded, leaving, clear, released, saved>>

-----------------------------------------------------------------------------
(* load                                                                    *)

\* Messages that were written or removed in this session are not taken from disk.
Recovered(m) == memory[m] = None /\ revisions[m] = 0

\* Readable messages are used even if others are not; only a complete load counts.
Loaded ==
  /\ Waits("load", "loading")
  /\ \E readable \in SUBSET Messages :
       /\ \A m \in Messages : disk[m] = None => m \in readable
       /\ IF readable = Messages THEN loaded' = "done" /\ UNCHANGED faults
          ELSE loaded' = "none" /\ StoreFails
       /\ memory' = [m \in Messages |-> IF m \in readable /\ Recovered(m)
                                        THEN disk[m] ELSE memory[m]]
  /\ Ends
  /\ UNCHANGED <<revisions, leaving, clear, disk, holds, historyVars>>

-----------------------------------------------------------------------------
(* clearEnvironment                                                        *)

\* What this clear may remove: not a message that changed since it was requested.
Unchanged(m) == revisions[m] = clear.requested[m]

ClearLoads ==
  /\ Waits("clear", "loading")
  /\ LET all == [m \in Messages |-> IF memory[m] # None THEN memory[m] ELSE disk[m]] IN
     clear' = [clear EXCEPT !.all = all, !.revisions = revisions,
                            !.left = {m \in Environment : all[m] # None /\ Unchanged(m)}]
  /\ stage' = "removing"
  /\ UNCHANGED <<queueVars, loaded, pending, running, leaving, disk, holds, faults,
                 historyVars>>

ClearLoadFails ==
  /\ Waits("clear", "loading")
  /\ StoreFails /\ Ends
  /\ UNCHANGED <<queueVars, loaded, leaving, clear, disk, holds, historyVars>>

\* The removals go on side by side; one that fails is reported and skipped.
ClearRemoves(m) ==
  /\ Waits("clear", "removing") /\ m \in clear.left
  /\ \/ StoreRemoves(m) /\ clear' = [clear EXCEPT !.left = @ \ {m}, !.gone = @ \cup {m}]
     \/ StoreFails /\ clear' = [clear EXCEPT !.left = @ \ {m}] /\ UNCHANGED <<disk, written>>
  /\ UNCHANGED <<queueVars, loaded, pending, running, stage, leaving, holds, released,
                 saved, unsettled>>

\* A message enqueued meanwhile gets its file back, before its own write.
Retained == {m \in clear.gone : revisions[m] # clear.revisions[m] /\ memory[m] # None}

ClearRemoved ==
  /\ Waits("clear", "removing") /\ clear.left = {}
  /\ clear' = [clear EXCEPT !.left = Retained, !.keep = memory]
  /\ stage' = "restoring"
  /\ UNCHANGED <<queueVars, loaded, pending, running, leaving, disk, holds, faults,
                 historyVars>>

ClearRestores(m) ==
  /\ Waits("clear", "restoring") /\ m \in clear.left
  /\ clear' = [clear EXCEPT !.left = @ \ {m}]
  /\ \/ StoreWrites(m, clear.keep[m])
     \/ StoreFails /\ UNCHANGED <<disk, written>>
  /\ UNCHANGED <<queueVars, loaded, pending, running, stage, leaving, holds, released,
                 saved, unsettled>>

ClearFinishes ==
  /\ Waits("clear", "restoring") /\ clear.left = {}
  /\ LET removed == {m \in clear.gone : revisions[m] = clear.revisions[m]} IN
       /\ memory' = [m \in Messages |->
                       IF m \in removed THEN None
                       ELSE IF memory[m] # None THEN memory[m] ELSE clear.all[m]]
       /\ revisions' = [m \in Messages |->
                          IF m \in removed THEN revisions[m] + 1 ELSE revisions[m]]
       /\ released' = released \cup {clear.all[m] : m \in removed}
       /\ saved' = [m \in Messages |-> IF m \in clear.gone THEN None ELSE saved[m]]
       /\ unsettled' = unsettled \ removed
  /\ Ends
  /\ UNCHANGED <<loaded, leaving, clear, disk, holds, faults, written>>

-----------------------------------------------------------------------------
(* The process dies, at any point; the files stay.  A removal that was     *)
(* being undone is then done.                                              *)

Undoing ==
  IF Waits("remove", "restoring") THEN {running.id}
  ELSE IF Waits("clear", "removing") \/ Waits("clear", "restoring")
       THEN clear.gone \cup clear.left
       ELSE {}

Crash ==
  /\ crashes < MaxCrashes /\ crashes' = crashes + 1
  /\ memory' = Nothing /\ revisions' = NoRevisions
  /\ loaded' = "none"
  /\ pending' = <<>> /\ running' = NoMutation /\ stage' = "idle"
  /\ leaving' = None /\ clear' = NoClear
  /\ editing' = {} /\ holds' = [w \in Writers |-> NoHold]
  /\ unsettled' = unsettled \cup Undoing
  /\ UNCHANGED <<disk, payloads, calls, faults, written, released, saved>>

-----------------------------------------------------------------------------
Callers ==
  /\ \/ \E m \in Messages : Enqueue(m) \/ RemovePlainly(m) \/ ToggleEditing(m)
     \/ \E w \in Writers, m \in Messages : ConfirmQueued(w, m) \/ OpenEditor(w, m)
     \/ \E w \in Writers : Capture(w) \/ Update(w) \/ Remove(w) \/ GiveUp(w)
     \/ ClearEnvironment \/ Load
  /\ UNCHANGED <<running, stage, leaving, disk, faults, crashes, historyVars>>

Starting == BeginEnqueue \/ Confirm \/ BeginUpdate \/ BeginRemove \/ BeginLoading
Enqueuing == EnqueueWritten \/ EnqueueWriteFails \/ EnqueueFileDropped
Updating == UpdateWritten \/ UpdateWriteFails \/ UpdateWinnerRestored
Removing == FileRemoved \/ FileRemovalFails \/ RemovalUndone
Clearing ==
  \/ ClearLoads \/ ClearLoadFails \/ ClearRemoved \/ ClearFinishes
  \/ \E m \in Messages : ClearRemoves(m) \/ ClearRestores(m)
Mutating ==
  /\ Starting \/ Enqueuing \/ Updating \/ Removing \/ Loaded \/ Clearing
  /\ UNCHANGED <<editing, payloads, calls, crashes>>

Next == Callers \/ Mutating \/ Crash

Spec == Init /\ [][Next]_vars

\* The store answers every operation, one way or the other.
FairSpec == Spec /\ WF_vars(Mutating)

-----------------------------------------------------------------------------
(* Properties                                                              *)

Operations == {"none", "enqueue", "confirm", "update", "remove", "load", "clear"}
Mutations ==
  {c \in [op : Operations, id : Messages \cup {NoMessage}, payload : Nat, expected : Int,
          guarded : BOOLEAN, by : Writers \cup {NoWriter}] :
     /\ c.op \in {"enqueue", "confirm", "update", "remove"} => c.id \in Messages
     /\ c.op = "update" => c.by \in Writers}
Holds ==
  {h \in [status : {"idle", "confirming", "confirmed", "ready", "updating", "removing"},
          id : Messages \cup {NoMessage}, payload : Nat, revision : Nat,
          confirmed : BOOLEAN] :
     h.status # "idle" => h.id \in Messages}
PayloadMap == [Messages -> Nat]
Clears ==
  [requested : PayloadMap, all : PayloadMap, revisions : PayloadMap,
   left : SUBSET Messages, gone : SUBSET Messages, keep : PayloadMap]

\* The types of the variables; a mutation waits for the store or is none.
TypeOK ==
  /\ memory \in PayloadMap /\ revisions \in PayloadMap /\ disk \in PayloadMap
  /\ loaded \in {"none", "loading", "done"}
  /\ pending \in Seq(Mutations) /\ running \in Mutations
  /\ stage \in {"idle", "writing", "removing", "restoring", "loading"}
  /\ running = NoMutation <=> stage = "idle"
  /\ leaving \in Nat /\ clear \in Clears
  /\ editing \subseteq Messages /\ holds \in [Writers -> Holds]
  /\ payloads \in Nat /\ calls \in Nat /\ faults \in Nat /\ crashes \in Nat
  /\ written \subseteq Nat /\ released \subseteq Nat
  /\ saved \in PayloadMap /\ unsettled \subseteq Messages

Quiet == pending = <<>> /\ running = NoMutation /\ loaded = "done"

\* When nothing is under way and everything was loaded, the queue on screen is
\* the queue on disk, except where a compensation itself failed.
Aligned == Quiet => \A m \in Messages \ unsettled : memory[m] = disk[m]

\* A payload reported as removed (its attachment files are deleted) never comes
\* back: not in the queue, and not to the disk for a restart to find.
ReleasedStaysGone ==
  \A m \in Messages : memory[m] \notin released \ {None} /\ disk[m] \notin released \ {None}

\* An update that was accepted replaces exactly what its writer had read, whatever
\* was enqueued, removed or enqueued again in between.  (A rollback counts no
\* revision: where its file could not be dropped either, a clear may bring the
\* earlier payload back under the revision of the later one.)
AcceptedOnWhatWasRead ==
  [][\A w \in Writers :
       holds[w].status = "updating" /\ holds'[w].status = "ready"
         => \/ memory[holds[w].id] = holds[w].payload
            \/ holds[w].id \in unsettled]_vars

\* A payload that was confirmed and is about to be sent is on disk or was: its
\* write can no longer fail.
ConfirmedWasWritten ==
  \A w \in Writers :
    holds[w].confirmed /\ holds[w].status \in {"ready", "updating", "removing"}
      => holds[w].payload \in written

\* What a writer was told is saved survives a crash: between mutations, the file
\* holds it or something newer until it is removed.
SavedSurvives ==
  \A m \in Messages \ unsettled :
    saved[m] # None /\ running.op \notin {"remove", "clear"} => disk[m] >= saved[m]

\* A failed store operation does not stop the queue: whoever waits is answered.
WritersAreAnswered ==
  \A w \in Writers :
    holds[w].status \in {"confirming", "updating", "removing"}
      ~> holds[w].status \notin {"confirming", "updating", "removing"}

=============================================================================
