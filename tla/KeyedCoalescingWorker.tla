------------------------ MODULE KeyedCoalescingWorker ------------------------
(***************************************************************************)
(* packages/shared/src/KeyedCoalescingWorker.ts: one fiber works on the    *)
(* keys of a queue; values that arrive for a key meanwhile are merged.     *)
(*                                                                         *)
(* Every action is one transaction of the code.  The fiber takes a key in  *)
(* one and marks it active in the next.  A merged value is the set of the  *)
(* values it was merged from; values that wait or are worked on differ, so *)
(* that Values bounds how many there are at a time and nothing else.       *)
(* Closing the worker's scope is left out.                                 *)
(***************************************************************************)
EXTENDS Integers, Sequences, FiniteSets

CONSTANTS Keys, NoKey, Values, Drainers

ASSUME WorkerAssumption == NoKey \notin Keys

VARIABLES
  queue,   \* the queue of keys
  latest,  \* latestByKey; {} for a key without an entry
  queued,  \* queuedKeys
  active,  \* activeKeys
  taken,   \* the key the fiber has taken and not yet looked up
  batch,   \* what the fiber is processing
  drains   \* the key each call of drainKey waits for

stateVars == <<latest, queued, active>>
vars == <<queue, stateVars, taken, batch, drains>>

Idle == [key |-> NoKey, values |-> {}]

Init ==
  /\ queue = <<>>
  /\ latest = [k \in Keys |-> {}]
  /\ queued = {} /\ active = {}
  /\ taken = NoKey
  /\ batch = Idle
  /\ drains = [d \in Drainers |-> NoKey]

BugOfferFirst(k) == queue' = <<k>> \o queue
Offer(k) == queue' = Append(queue, k)

\* An enqueue leaves the queue alone while the key is queued or active.
BugOnlyQueued(k) == k \in queued
Scheduled(k) == k \in queued \/ k \in active

Fresh(v) == v \notin batch.values /\ \A k \in Keys : v \notin latest[k]

Enqueue(k, v) ==
  /\ Fresh(v)
  /\ latest' = [latest EXCEPT ![k] = @ \cup {v}]
  /\ \/ Scheduled(k) /\ UNCHANGED <<queue, queued>>
     \/ ~Scheduled(k) /\ Offer(k) /\ queued' = queued \cup {k}
  /\ UNCHANGED <<active, taken, batch, drains>>

Take ==
  /\ taken = NoKey /\ batch = Idle /\ queue # <<>>
  /\ taken' = Head(queue) /\ queue' = Tail(queue)
  /\ UNCHANGED <<stateVars, batch, drains>>

\* The value of the key is taken out; a key without one is passed over.
Start ==
  /\ taken # NoKey
  /\ queued' = queued \ {taken} /\ taken' = NoKey
  /\ LET values == latest[taken] IN
     IF values = {} THEN UNCHANGED <<latest, active, batch>>
     ELSE /\ latest' = [latest EXCEPT ![taken] = {}]
          /\ active' = active \cup {taken}
          /\ batch' = [key |-> taken, values |-> values]
  /\ UNCHANGED <<queue, drains>>

BugForgetsDirty(k) == FALSE
Dirty(k) == latest[k] # {} /\ k \notin queued

\* process has succeeded, failed or died: a key with a newer value is queued again.
Complete ==
  /\ batch # Idle
  /\ batch' = Idle /\ active' = active \ {batch.key}
  /\ \/ Dirty(batch.key) /\ Offer(batch.key) /\ queued' = queued \cup {batch.key}
     \/ ~Dirty(batch.key) /\ UNCHANGED <<queue, queued>>
  /\ UNCHANGED <<latest, taken, drains>>

Drain(d, k) ==
  /\ drains[d] = NoKey
  /\ drains' = [drains EXCEPT ![d] = k]
  /\ UNCHANGED <<queue, stateVars, taken, batch>>

BugIgnoresActive(k) == latest[k] = {} /\ k \notin queued
Drained(k) == latest[k] = {} /\ k \notin queued /\ k \notin active

\* A waiting drain looks again when the state has changed.
DrainReturns(d) ==
  /\ drains[d] # NoKey /\ Drained(drains[d])
  /\ drains' = [drains EXCEPT ![d] = NoKey]
  /\ UNCHANGED <<queue, stateVars, taken, batch>>

Work == Take \/ Start \/ Complete

Next ==
  \/ \E k \in Keys, v \in Values : Enqueue(k, v)
  \/ Work
  \/ \E d \in Drainers : DrainReturns(d) \/ \E k \in Keys : Drain(d, k)

Spec == Init /\ [][Next]_vars

\* The fiber runs and process ends; drains are resumed.
FairSpec == Spec /\ WF_vars(Work) /\ \A d \in Drainers : WF_vars(DrainReturns(d))

-----------------------------------------------------------------------------
\* Every variable stays within its type.
TypeOK ==
  /\ queue \in Seq(Keys)
  /\ latest \in [Keys -> SUBSET Values]
  /\ queued \subseteq Keys /\ active \subseteq Keys
  /\ taken \in Keys \cup {NoKey}
  /\ batch \in [key : Keys, values : SUBSET Values] \cup {Idle}
  /\ drains \in [Drainers -> Keys \cup {NoKey}]

Entries(q) == {q[i] : i \in DOMAIN q}
Distinct(q) == \A i, j \in DOMAIN q : q[i] = q[j] => i = j

\* A key is queued at most once and never while it is worked on: the set of queued
\* keys is the queue with the key on its way out of it, so that a burst of values
\* makes one batch. ("merged atomically instead of creating duplicate queued items",
\* KeyedCoalescingWorker.ts:4)
QueuedOnce ==
  /\ Distinct(queue)
  /\ queued = Entries(queue) \cup ({taken} \ {NoKey})
  /\ taken \notin Entries(queue)
  /\ queued \cap active = {}
  /\ active = {batch.key} \ {NoKey}

\* A value that waits has its key in the queue, or is found when the batch of its key
\* is done: it is never left for the next enqueue to bring up.
\* (KeyedCoalescingWorker.ts:46-50, 100-102)
WaitingIsScheduled == \A k \in Keys : latest[k] # {} => Scheduled(k)

Buffer == INSTANCE CoalescingBuffer WITH pending <- latest, work <- batch

\* No value is lost or worked on twice, and a drain does not return between the two
\* transactions that take a key, or before a value that was merged meanwhile is done.
\* (KeyedCoalescingWorker.ts:61-122)
ImplementsBuffer == Buffer!Spec

\* Waiting values are taken up although more keep coming, for their key and others: "Each batch yields to
\* other queued keys before processing newer updates". (KeyedCoalescingWorker.ts:5)
NoKeyStarves == \A k \in Keys : latest[k] # {} ~> latest[k] = {}

\* A drain returns once no more values come for its key, whatever comes for others.
\* (KeyedCoalescingWorker.ts:113-122)
DrainsEnd ==
  \A d \in Drainers, k \in Keys :
    <>[][\A v \in Values : ~Enqueue(k, v)]_vars => (drains[d] = k ~> drains[d] # k)
=============================================================================
