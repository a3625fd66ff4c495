----------------------------- MODULE OutboxDrain -----------------------------
(***************************************************************************)
(* How the queued messages of one existing thread leave the mobile app's   *)
(* outbox, and what happens to their text on the way:                      *)
(*   use-thread-outbox-drain.ts       sends them one at a time and puts a  *)
(*                                    rejected one back into the composer; *)
(*   edit-pending-thread-message.ts   takes one back at the user's wish;   *)
(*   use-composer-drafts.ts           the draft they are put back into,    *)
(*                                    its debounced writes and the undoing *)
(*                                    of a merge.                          *)
(*                                                                         *)
(* Messages are numbered in the order they were sent from the composer; a  *)
(* text is a sequence of the pieces the user typed, with Break for the      *)
(* blank line a merge puts between two texts.  The outbox is what           *)
(* ThreadOutbox promises: a mutation is done or fails as a whole.           *)
(*                                                                         *)
(* Bounds: messages, pieces, failures of the store or of a request, and     *)
(* events (edits, the removal of the thread or the environment, crashes).   *)
(***************************************************************************)
EXTENDS Naturals, SequencesExt

CONSTANTS MaxMessages, MaxPieces, MaxFaults, MaxEvents

VARIABLES
  sent,          \* messages sent from the composer
  content,       \* their texts
  queued,        \* the messages in the queue
  unsaved,       \* those of them whose file is still being written
  files,         \* the messages that have a file
  draft,         \* the composer's text
  disk,          \* what drafts.json holds of it
  timer,         \* persistTimer is set
  retryNeeded,   \* persistRetryNeeded
  writes,        \* persistenceQueue
  tasks,         \* the dispatch and the edits in progress
  acknowledged,  \* delivered messages whose removal has not succeeded
  waiting,       \* messages whose retry timer is set
  thread,        \* what has become of the thread, and of its environment
  accepted,      \* the messages it took
  typed, faults, events,   \* spent shares of the bounds
  missed,        \* history: the last write of the draft failed
  safe,          \* history: pieces the app has promised to keep
  taken          \* history: pieces that a rollback took of another's text

queueVars == <<sent, content, queued, unsaved, files>>
draftVars == <<draft, disk, missed, timer, retryNeeded, writes>>
drainVars == <<acknowledged, waiting>>
serverVars == <<thread, accepted>>
boundVars == <<typed, faults, events>>
historyVars == <<safe, taken>>
vars == <<queueVars, draftVars, tasks, drainVars, serverVars, boundVars, historyVars>>

\* Task 0 is the message the drain dispatches, task m the editing of message m.
Messages == 1 .. MaxMessages
Drain == 0
Break == 0
Owners == 0 .. MaxMessages
Stages == {"idle", "confirming", "leaving", "sending", "completing", "dropping", "cleaning",
           "restoring", "merging", "flushing", "checking", "removing", "undoing"}
Kinds == {"debounced", "plain", "merge", "flush", "turn", "undo"}
Texts == Seq(Nat)

Tasks == [stage : Stages, id : Owners, snapshot : Texts, merged : Texts, retry : BOOLEAN]
Task(stage, m) == [stage |-> stage, id |-> m, snapshot |-> <<>>, merged |-> <<>>, retry |-> FALSE]
Idle == Task("idle", 0)
Records == [kind : Kinds, owner : Owners, text : Texts]
Write(kind, owner, text) == [kind |-> kind, owner |-> owner, text |-> text]

ASSUME DrainAssumption ==
  /\ MaxMessages \in Nat /\ MaxPieces \in Nat /\ MaxFaults \in Nat
  /\ MaxEvents \in Nat

Init ==
  /\ sent = 0 /\ content = [m \in Messages |-> <<>>]
  /\ queued = {} /\ unsaved = {} /\ files = {}
  /\ draft = <<>> /\ disk = <<>> /\ missed = FALSE
  /\ timer = FALSE /\ retryNeeded = FALSE /\ writes = <<>>
  /\ tasks = [o \in Owners |-> Idle]
  /\ acknowledged = {} /\ waiting = {}
  /\ thread = "live" /\ accepted = {}
  /\ typed = 0 /\ faults = 0 /\ events = 0
  /\ safe = {} /\ taken = {}

-----------------------------------------------------------------------------
(* Texts. *)

Pieces(text) == ToSet(text) \ {Break}
Held(ms) == UNION {Pieces(content[m]) : m \in ms}

\* mergeComposerDraftText: a text that is already there is not put in again.
Merge(text, incoming) ==
  IF text = <<>> \/ incoming = <<>> THEN text \o incoming
  ELSE IF text = incoming \/ IsSuffix(<<Break>> \o incoming, text) THEN text
  ELSE text \o <<Break>> \o incoming

\* undoComposerDraftMergeState: the snapshot if the draft is as it was merged,
\* and otherwise the draft without what the merge inserted, where it is found.
Undone(text, snapshot, merged) ==
  LET inserted == IF IsPrefix(snapshot, merged)
                    THEN SubSeq(merged, Len(snapshot) + 1, Len(merged)) ELSE <<>>
  IN IF text = merged THEN snapshot
     ELSE IF inserted = <<>> THEN text
     ELSE IF IsPrefix(merged, text)
       THEN snapshot \o SubSeq(text, Len(merged) + 1, Len(text))
     ELSE IF IsSuffix(inserted, text) THEN SubSeq(text, 1, Len(text) - Len(inserted))
     ELSE text

-----------------------------------------------------------------------------
(* The user. *)

Fault == faults < MaxFaults /\ faults' = faults + 1
Event == events < MaxEvents /\ events' = events + 1

\* setComposerDraftText
Type ==
  /\ thread = "live"
  /\ typed < MaxPieces /\ typed' = typed + 1
  /\ draft' = Append(draft, typed') /\ timer' = TRUE
  /\ UNCHANGED <<queueVars, disk, missed, retryNeeded, writes, tasks, acknowledged, waiting,
                 serverVars, faults, events, historyVars>>

\* The promise to keep a text ends when its user erases it or sends it on.
Erase ==
  /\ thread = "live" /\ draft # <<>>
  /\ draft' = <<>> /\ timer' = TRUE
  /\ safe' = safe \ Pieces(draft)
  /\ UNCHANGED <<queueVars, disk, missed, retryNeeded, writes, tasks, acknowledged, waiting,
                 serverVars, boundVars, taken>>

\* The message is in the queue at once, and the draft is cleared.
Send ==
  /\ thread = "live" /\ draft # <<>>
  /\ sent < MaxMessages /\ sent' = sent + 1
  /\ content' = [content EXCEPT ![sent'] = draft]
  /\ queued' = queued \cup {sent'} /\ unsaved' = unsaved \cup {sent'}
  /\ draft' = <<>> /\ timer' = TRUE
  /\ safe' = safe \ Pieces(draft)
  /\ UNCHANGED <<files, disk, missed, retryNeeded, writes, tasks, acknowledged, waiting, serverVars,
                 boundVars, taken>>

\* Its file is written, or its text comes back to the draft.
Writes(m) == m \in unsaved /\ \A n \in unsaved : m <= n
Saved(m) ==
  /\ Writes(m)
  /\ unsaved' = unsaved \ {m} /\ files' = files \cup {m}
  /\ safe' = safe \cup Pieces(content[m])
  /\ UNCHANGED <<sent, content, queued, draftVars, tasks, drainVars, serverVars, boundVars,
                 taken>>

NotSaved(m) ==
  /\ Writes(m) /\ Fault
  /\ unsaved' = unsaved \ {m} /\ queued' = queued \ {m}
  /\ draft' = Merge(draft, content[m]) /\ timer' = FALSE
  /\ writes' = Append(writes, Write("plain", Drain, draft'))
  /\ UNCHANGED <<sent, content, files, disk, missed, retryNeeded, tasks, acknowledged, waiting,
                 serverVars, typed, events, historyVars>>

DeleteThread ==
  /\ Event /\ thread = "live" /\ thread' = "deleted"
  /\ UNCHANGED <<queueVars, draftVars, tasks, drainVars, accepted, typed, faults, historyVars>>

\* The environment is removed: its draft is cleared at once, and its messages
\* once the writes before that have settled.
RemoveEnvironment ==
  /\ Event /\ thread = "live" /\ thread' = "removing"
  /\ draft' = <<>> /\ timer' = FALSE
  /\ writes' = Append(writes, Write("plain", Drain, <<>>))
  /\ safe' = {}
  /\ UNCHANGED <<queueVars, disk, missed, retryNeeded, tasks, drainVars, accepted, typed,
                 faults, taken>>

ClearOutbox ==
  /\ thread = "removing" /\ thread' = "removed" /\ unsaved = {}
  /\ \/ queued' = {} /\ files' = {} /\ safe' = {} /\ UNCHANGED boundVars
     \/ Fault /\ UNCHANGED <<queued, files, safe, typed, events>>
  /\ UNCHANGED <<sent, content, unsaved, draftVars, tasks, drainVars, accepted, taken>>

-----------------------------------------------------------------------------
(* Tasks.  Editing a message is holding it, from before its first await.   *)

Editing(m) == tasks[m].stage # "idle"
Dispatching(m) == tasks[Drain].stage # "idle" /\ tasks[Drain].id = m
At(o, stage) == tasks[o].stage = stage
Become(o, task) == tasks' = [tasks EXCEPT ![o] = task]
Go(o, stage) == tasks' = [tasks EXCEPT ![o].stage = stage]
End(o, retry) ==
  /\ Become(o, Idle)
  /\ waiting' = IF o # Drain THEN waiting
                ELSE IF retry THEN waiting \cup {tasks[o].id} ELSE waiting \ {tasks[o].id}

\* What a task works on has left the queue, or an editor has it.
Gone(o) == tasks[o].id \notin queued \/ (o = Drain /\ Editing(tasks[o].id))

\* Publish the merge and write it: the pending write gives way to this one.
StartMerge(o, m) ==
  /\ Become(o, [Task("merging", m) EXCEPT !.snapshot = draft])
  /\ draft' = Merge(draft, content[m]) /\ timer' = FALSE
  /\ writes' = Append(writes, Write("merge", o, draft'))

\* What no other message has of a text.
OnlyOf(m) == Pieces(content[m]) \ Held(Messages \ {m})

\* Back out: the draft is set right at once and then written.
StartUndo(o, snapshot, merged, retry, rest) ==
  /\ tasks' = [tasks EXCEPT ![o].stage = "undoing", ![o].retry = retry]
  /\ draft' = Undone(draft, snapshot, merged) /\ timer' = FALSE
  /\ writes' = Append(rest, Write("undo", o, draft'))
  /\ taken' = taken \cup ((Pieces(draft) \ Pieces(draft')) \ OnlyOf(tasks[o].id))

\* editPendingThreadMessage
Edit(m) ==
  /\ Event /\ thread = "live" /\ m \in queued /\ ~Dispatching(m) /\ ~Editing(m)
  /\ Become(m, Task("confirming", m))
  /\ UNCHANGED <<queueVars, draftVars, drainVars, serverVars, typed, faults, historyVars>>

EditConfirmed(m) ==
  /\ At(m, "confirming") /\ m \notin unsaved
  /\ IF m \in queued THEN StartMerge(m, m)
     ELSE Become(m, Idle) /\ UNCHANGED <<draft, timer, writes>>
  /\ UNCHANGED <<queueVars, disk, missed, retryNeeded, acknowledged, waiting, serverVars,
                 boundVars, historyVars>>

-----------------------------------------------------------------------------
(* The drain. *)

\* The first message of the queue, unless it is being edited; an editor that
\* took it since the last rendering is noticed later.
IsNext(m) == m \in queued /\ \A n \in queued : m <= n
Begin(m) ==
  /\ At(Drain, "idle") /\ IsNext(m) /\ m \notin waiting
  /\ \/ m \in acknowledged /\ Become(Drain, Task("cleaning", m))
     \/ /\ m \notin acknowledged
        /\ tasks[m].stage \in {"idle", "confirming"}
        /\ \/ thread = "live" /\ Become(Drain, Task("confirming", m))
           \/ thread = "deleted" /\ Become(Drain, Task("leaving", m))
  /\ UNCHANGED <<queueVars, draftVars, drainVars, serverVars, boundVars, historyVars>>

BugSendsWhatIsEdited(m) ==
  /\ Dispatching(m) /\ m \notin unsaved /\ m \in queued
  /\ At(Drain, "confirming") /\ thread = "live" /\ Go(Drain, "sending")
  /\ UNCHANGED <<queueVars, draftVars, drainVars, serverVars, boundVars, historyVars>>
Confirmed(m) ==
  /\ Dispatching(m) /\ m \notin unsaved
  /\ \/ /\ ~Gone(Drain)
        /\ \/ At(Drain, "confirming") /\ thread = "live" /\ Go(Drain, "sending")
           \/ At(Drain, "leaving") /\ Go(Drain, "dropping")
        /\ UNCHANGED waiting
     \/ /\ tasks[Drain].stage \in {"confirming", "leaving"}
        /\ Gone(Drain) \/ (At(Drain, "confirming") /\ thread # "live")
        /\ End(Drain, FALSE)
  /\ UNCHANGED <<queueVars, draftVars, acknowledged, serverVars, boundVars, historyVars>>

\* startTurn; the server takes a command once.
Delivered(m) ==
  /\ Dispatching(m) /\ At(Drain, "sending") /\ thread = "live"
  /\ accepted' = accepted \cup {m}
  /\ acknowledged' = acknowledged \cup {m} /\ Go(Drain, "completing")
  /\ UNCHANGED <<queueVars, draftVars, waiting, thread, boundVars, historyVars>>

AnswerLost(m) ==
  /\ Dispatching(m) /\ At(Drain, "sending") /\ Fault
  /\ accepted' \in {accepted, IF thread = "live" THEN accepted \cup {m} ELSE accepted}
  /\ End(Drain, TRUE)
  /\ UNCHANGED <<queueVars, draftVars, acknowledged, thread, typed, events, historyVars>>

Rejected(m) ==
  /\ Dispatching(m) /\ At(Drain, "sending")
  /\ Go(Drain, "restoring")
  /\ UNCHANGED <<queueVars, draftVars, drainVars, serverVars, boundVars, historyVars>>

\* completeQueuedMessageDelivery, removeAcknowledgedExistingThreadMessage and
\* the removal for a missing thread: only the first minds an edit and the revision.
Cleared(m) ==
  /\ Dispatching(m) /\ tasks[Drain].stage \in {"completing", "dropping", "cleaning"}
  /\ IF At(Drain, "completing") /\ Gone(Drain)
       THEN End(Drain, TRUE) /\ UNCHANGED <<queued, files, acknowledged>>
       ELSE /\ queued' = queued \ {m} /\ files' = files \ {m}
            /\ End(Drain, FALSE) /\ acknowledged' = acknowledged \ {m}
  /\ safe' = IF At(Drain, "dropping") THEN safe \ Pieces(content[m]) ELSE safe
  /\ UNCHANGED <<sent, content, unsaved, draftVars, serverVars, boundVars, taken>>

NotCleared(m) ==
  /\ Dispatching(m) /\ tasks[Drain].stage \in {"completing", "dropping", "cleaning"}
  /\ Fault /\ End(Drain, TRUE)
  /\ UNCHANGED <<queueVars, draftVars, acknowledged, serverVars, typed, events,
                 historyVars>>

BugRemovesFirst(m) ==
  /\ Dispatching(m) /\ At(Drain, "restoring") /\ m \in queued /\ StartMerge(Drain, m)
  /\ queued' = queued \ {m} /\ files' = files \ {m}
  /\ UNCHANGED <<sent, content, unsaved, disk, missed, retryNeeded, drainVars, serverVars,
                 boundVars, historyVars>>
\* restoreRejectedQueuedMessage
Restore(m) ==
  /\ Dispatching(m) /\ At(Drain, "restoring")
  /\ \/ Gone(Drain) /\ End(Drain, FALSE) /\ UNCHANGED <<draft, timer, writes>>
     \/ ~Gone(Drain) /\ StartMerge(Drain, m) /\ UNCHANGED waiting
  /\ UNCHANGED <<queueVars, disk, missed, retryNeeded, acknowledged, serverVars, boundVars,
                 historyVars>>

-----------------------------------------------------------------------------
(* The draft's writes, and what waits for them. *)

FireTimer ==
  /\ timer /\ timer' = FALSE
  /\ writes' = Append(writes, Write("debounced", Drain, <<>>))
  /\ UNCHANGED <<queueVars, draft, disk, missed, retryNeeded, tasks, drainVars, serverVars,
                 boundVars, historyVars>>

First(kind) == writes # <<>> /\ Head(writes).kind = kind
Lands ==
  /\ disk' = IF Head(writes).kind \in {"debounced", "flush"} THEN draft ELSE Head(writes).text
  /\ missed' = FALSE
Misses == missed' = TRUE /\ UNCHANGED disk
Unheeded == UNCHANGED <<queueVars, tasks, drainVars, serverVars, draft, timer>>

\* Nothing waits for these; a failed one is made up for by a later flush.
WriteDebounced ==
  /\ First("debounced") /\ writes' = Tail(writes)
  /\ \/ Lands /\ retryNeeded' = FALSE /\ UNCHANGED boundVars
     \/ Fault /\ retryNeeded' = TRUE /\ Misses /\ UNCHANGED <<typed, events>>
  /\ Unheeded /\ UNCHANGED historyVars

WritePlain ==
  /\ First("plain") /\ writes' = Tail(writes)
  /\ \/ Lands /\ UNCHANGED boundVars
     \/ Fault /\ Misses /\ UNCHANGED <<typed, events>>
  /\ Unheeded /\ UNCHANGED <<retryNeeded, historyVars>>

\* flushComposerDrafts writes while a write is due, and then waits its turn.
BugForgetsTimer(o, due) ==
  /\ writes' = Append(Tail(writes), Write("turn", o, <<>>))
  /\ timer' = FALSE /\ retryNeeded' = FALSE
Flush(o, due) ==
  /\ writes' = Append(Tail(writes), Write(IF due THEN "flush" ELSE "turn", o, <<>>))
  /\ timer' = FALSE /\ retryNeeded' = FALSE

\* The merge is on disk: the settings follow it, and a flush.  No editor can
\* have taken the message by now (OneOwner), so the drain's look is left out.
Merged(o) ==
  /\ First("merge") /\ Head(writes).owner = o
  /\ Lands
  /\ tasks' = [tasks EXCEPT ![o].stage = "flushing", ![o].merged = draft]
  /\ Flush(o, TRUE)
  /\ UNCHANGED <<queueVars, draft, drainVars, serverVars, boundVars, historyVars>>

NotMerged(o) ==
  /\ First("merge") /\ Head(writes).owner = o /\ Fault /\ Misses
  /\ StartUndo(o, tasks[o].snapshot, draft, TRUE, Tail(writes))
  /\ UNCHANGED <<queueVars, retryNeeded, acknowledged, waiting, serverVars, typed, events,
                 safe>>

Flushed(o) ==
  /\ First("flush") /\ Head(writes).owner = o
  /\ Lands /\ Flush(o, timer \/ retryNeeded)
  /\ UNCHANGED <<queueVars, draft, tasks, drainVars, serverVars, boundVars, historyVars>>

NotFlushed(o) ==
  /\ First("flush") /\ Head(writes).owner = o /\ Fault /\ Misses
  /\ retryNeeded' = TRUE
  /\ StartUndo(o, tasks[o].snapshot, tasks[o].merged, TRUE, Tail(writes))
  /\ UNCHANGED <<queueVars, acknowledged, waiting, serverVars, typed, events, safe>>

Turn(o) ==
  /\ First("turn") /\ Head(writes).owner = o
  /\ IF timer \/ retryNeeded THEN Flush(o, TRUE) /\ UNCHANGED tasks
     ELSE /\ Go(o, IF o = Drain THEN "checking" ELSE "removing")
          /\ writes' = Tail(writes) /\ UNCHANGED <<timer, retryNeeded>>
  /\ UNCHANGED <<queueVars, draft, disk, missed, drainVars, serverVars, boundVars, historyVars>>

BugKeepsHold(o) ==
  /\ First("undo") /\ Head(writes).owner = o /\ Lands /\ writes' = Tail(writes)
  /\ UNCHANGED <<queueVars, draft, timer, retryNeeded, tasks, drainVars, serverVars, boundVars,
                 historyVars>>
Undid(o) ==
  /\ First("undo") /\ Head(writes).owner = o
  /\ Lands /\ writes' = Tail(writes) /\ End(o, tasks[o].retry)
  /\ UNCHANGED <<queueVars, draft, timer, retryNeeded, acknowledged, serverVars, boundVars,
                 historyVars>>

\* A drain that backed out for another reason takes this for a failure and
\* backs out again.
NotUndone(o) ==
  /\ First("undo") /\ Head(writes).owner = o /\ Fault /\ Misses
  /\ IF o = Drain /\ ~tasks[o].retry
       THEN /\ StartUndo(o, tasks[o].snapshot, tasks[o].merged, TRUE, Tail(writes))
            /\ UNCHANGED waiting
       ELSE /\ writes' = Tail(writes) /\ End(o, tasks[o].retry)
            /\ UNCHANGED <<draft, timer, taken>>
  /\ UNCHANGED <<queueVars, retryNeeded, acknowledged, serverVars, typed, events, safe>>

BackOut(o, retry) ==
  /\ StartUndo(o, tasks[o].snapshot, tasks[o].merged, retry, writes)
  /\ UNCHANGED <<queueVars, disk, missed, retryNeeded, acknowledged, waiting, serverVars,
                 typed, events, safe>>

\* The drain looks once more whether the message is still its own.
Reconfirmed ==
  /\ At(Drain, "checking")
  /\ \/ /\ ~Gone(Drain) /\ Go(Drain, "removing")
        /\ UNCHANGED <<queueVars, draftVars, drainVars, serverVars, boundVars, historyVars>>
     \/ Gone(Drain) /\ BackOut(Drain, FALSE) /\ UNCHANGED faults

\* The draft has the text: the message leaves the queue, if it is as it was.
Recovered(o) ==
  /\ At(o, "removing") /\ ~Gone(o)
  /\ queued' = queued \ {tasks[o].id} /\ files' = files \ {tasks[o].id}
  /\ End(o, FALSE)
  /\ UNCHANGED <<sent, content, unsaved, draftVars, acknowledged, serverVars, boundVars,
                 historyVars>>

NotRecovered(o) ==
  /\ At(o, "removing")
  /\ \/ Gone(o) /\ BackOut(o, FALSE) /\ UNCHANGED faults
     \/ Fault /\ BackOut(o, TRUE)

\* The retry timer of a message.
RetryFires(m) ==
  /\ m \in waiting /\ waiting' = waiting \ {m}
  /\ UNCHANGED <<queueVars, draftVars, tasks, acknowledged, serverVars, boundVars, historyVars>>

\* The process dies; the queue and the draft are what the disk holds of them.
Crash ==
  /\ Event
  /\ queued' = files /\ unsaved' = {}
  /\ draft' = disk /\ missed' = FALSE
  /\ timer' = FALSE /\ retryNeeded' = FALSE /\ writes' = <<>>
  /\ tasks' = [o \in Owners |-> Idle]
  /\ acknowledged' = {} /\ waiting' = {}
  /\ UNCHANGED <<sent, content, files, disk, serverVars, typed, faults, historyVars>>

-----------------------------------------------------------------------------
User == Type \/ Erase \/ Send \/ DeleteThread \/ RemoveEnvironment
Saving == \E m \in Messages : Saved(m) \/ NotSaved(m)
Draining == \E m \in Messages :
  \/ Begin(m) \/ Confirmed(m) \/ Delivered(m) \/ AnswerLost(m) \/ Rejected(m)
  \/ Cleared(m) \/ NotCleared(m) \/ Restore(m)
Writing == FireTimer \/ WriteDebounced \/ WritePlain
Recovering(o) ==
  \/ Merged(o) \/ NotMerged(o) \/ Flushed(o) \/ NotFlushed(o) \/ Turn(o) \/ Undid(o) \/ NotUndone(o)
  \/ Recovered(o) \/ NotRecovered(o)
Editor(m) == EditConfirmed(m) \/ Recovering(m)

Delivering ==
  \/ Draining \/ Reconfirmed \/ Recovering(Drain)
  \/ \E m \in Messages : RetryFires(m)

Next ==
  \/ User \/ ClearOutbox \/ Saving \/ Delivering \/ Writing
  \/ \E m \in Messages : Edit(m) \/ Editor(m)
  \/ Crash
Spec == Init /\ [][Next]_vars

\* The store and the server answer or fail, timers fire, and what an answer
\* resolves goes on; the user owes nothing.
Fairness ==
  /\ WF_vars(Saving) /\ WF_vars(Writing)
  /\ WF_vars(Delivering)
  /\ WF_vars(\E m \in Messages : Editor(m))
FairSpec == Spec /\ Fairness

-----------------------------------------------------------------------------
\* The types of the variables.
TypeOK ==
  /\ sent \in 0 .. MaxMessages /\ content \in [Messages -> Texts]
  /\ queued \subseteq Messages /\ unsaved \subseteq Messages /\ files \subseteq Messages
  /\ draft \in Texts /\ disk \in Texts
  /\ {missed, timer, retryNeeded} \subseteq BOOLEAN
  /\ writes \in Seq(Records)
  /\ tasks \in [Owners -> Tasks]
  /\ acknowledged \subseteq Messages /\ waiting \subseteq Owners
  /\ thread \in {"live", "deleted", "removing", "removed"} /\ accepted \subseteq Messages
  /\ typed \in Nat /\ faults \in Nat /\ events \in Nat
  /\ safe \subseteq Nat /\ taken \subseteq Nat

\* What was saved as a message, and not erased, sent on or removed since, is at
\* every moment on disk or with the server, whatever fails and whenever the process
\* dies: a message leaves the outbox only when the server has it or the draft that
\* took it back is written.  What a rollback took that its own merge had not put in
\* is excepted once a write or a request has failed: the code then loses it
\* (RollbackTakesOwn).  Until then nothing is excepted.
Durable == Pieces(disk) \cup Held(files) \cup Held(accepted)
NothingLost ==
  /\ safe \ taken \subseteq Durable
  /\ faults = 0 => safe \subseteq Durable

\* The drain and an editor never both work on a message: while it is being
\* edited the drain is at most checking it, or clearing away what it sent.
Checking == {"confirming", "leaving", "cleaning"}
OneOwner ==
  \A m \in Messages :
    Dispatching(m) /\ Editing(m) => tasks[Drain].stage \in Checking

\* Once the writes have been made the disk has the composer's text, unless the last
\* of them failed: a merge, its undoing and a flush may cancel the timer because
\* they write what it would, and no write is made of an older text than the last.
DraftReachesDisk == ~missed /\ ~timer /\ writes = <<>> => disk = draft

\* A rollback takes back what its own merge inserted and nothing else.
RollbackTakesOwn == taken = {}

\* The queue of a thread keeps emptying, unless its environment is removed: no
\* hold, failed write or lost answer leaves the drain stuck.
QueueEmpties == []<>(queued = {} \/ thread \in {"removing", "removed"})
=============================================================================
