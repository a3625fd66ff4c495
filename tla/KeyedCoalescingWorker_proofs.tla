-------------------- MODULE KeyedCoalescingWorker_proofs --------------------
(***************************************************************************)
(* The coalescing worker keeps its queue and its sets in step and          *)
(* implements CoalescingBuffer, for any keys, values and drains; nobody    *)
(* waits for work that nobody has, and keys keep their turns.              *)
(***************************************************************************)
EXTENDS KeyedCoalescingWorker, TLAPS

\* The fiber looks up a key or processes a batch, and never both.
OneAtATime == taken # NoKey => batch = Idle

Inv == TypeOK /\ QueuedOnce /\ WaitingIsScheduled /\ OneAtATime

-----------------------------------------------------------------------------
(* Queues without duplicates. *)

LEMMA AppendDistinct ==
  ASSUME NEW q \in Seq(Keys), NEW k \in Keys, Distinct(q), k \notin Entries(q)
  PROVE  /\ Append(q, k) \in Seq(Keys) /\ Distinct(Append(q, k))
         /\ Entries(Append(q, k)) = Entries(q) \cup {k}
<1>1. /\ Append(q, k) \in Seq(Keys) /\ Len(q) \in Nat /\ DOMAIN q = 1..Len(q)
      /\ DOMAIN Append(q, k) = 1..(Len(q) + 1)
      /\ Append(q, k)[Len(q) + 1] = k
      /\ \A i \in 1..Len(q) : Append(q, k)[i] = q[i]
  OBVIOUS
<1>2. Distinct(Append(q, k))
  <2> SUFFICES ASSUME NEW i \in 1..(Len(q) + 1), NEW j \in 1..(Len(q) + 1),
                      Append(q, k)[i] = Append(q, k)[j]
               PROVE  i = j
    BY <1>1 DEF Distinct
  <2> QED
    BY <1>1 DEF Distinct, Entries
<1>3. Entries(Append(q, k)) = Entries(q) \cup {k}
  <2>1. ASSUME NEW x \in Entries(Append(q, k)) PROVE x \in Entries(q) \cup {k}
    BY <1>1, <2>1 DEF Entries
  <2>2. ASSUME NEW x \in Entries(q) PROVE x \in Entries(Append(q, k))
    <3>1. PICK i \in 1..Len(q) : x = q[i]
      BY <1>1 DEF Entries
    <3>2. i \in 1..(Len(q) + 1) /\ Append(q, k)[i] = x
      BY <1>1, <3>1
    <3> QED
      BY <1>1, <3>2 DEF Entries
  <2>3. k \in Entries(Append(q, k))
    <3>1. Len(q) + 1 \in 1..(Len(q) + 1)
      BY <1>1
    <3> QED
      BY <1>1, <3>1 DEF Entries
  <2> QED
    BY <2>1, <2>2, <2>3
<1> QED
  BY <1>1, <1>2, <1>3

LEMMA TailDistinct ==
  ASSUME NEW q \in Seq(Keys), q # <<>>, Distinct(q)
  PROVE  /\ Head(q) \in Keys /\ Tail(q) \in Seq(Keys) /\ Distinct(Tail(q))
         /\ Entries(q) = Entries(Tail(q)) \cup {Head(q)}
         /\ Head(q) \notin Entries(Tail(q))
<1>1. /\ Head(q) \in Keys /\ Tail(q) \in Seq(Keys)
      /\ Len(q) \in Nat /\ Len(q) > 0 /\ DOMAIN q = 1..Len(q)
      /\ Head(q) = q[1] /\ DOMAIN Tail(q) = 1..(Len(q) - 1)
      /\ \A i \in 1..(Len(q) - 1) : Tail(q)[i] = q[i + 1]
  OBVIOUS
<1>2. Distinct(Tail(q))
  <2> SUFFICES ASSUME NEW i \in 1..(Len(q) - 1), NEW j \in 1..(Len(q) - 1),
                      Tail(q)[i] = Tail(q)[j]
               PROVE  i = j
    BY <1>1 DEF Distinct
  <2>1. i + 1 \in 1..Len(q) /\ j + 1 \in 1..Len(q) /\ q[i + 1] = q[j + 1]
    BY <1>1
  <2> QED
    BY <1>1, <2>1 DEF Distinct
<1>3. Entries(q) = Entries(Tail(q)) \cup {Head(q)}
  <2>1. ASSUME NEW x \in Entries(q) PROVE x \in Entries(Tail(q)) \cup {Head(q)}
    <3>1. PICK i \in 1..Len(q) : x = q[i]
      BY <1>1 DEF Entries
    <3>2. CASE i = 1
      BY <1>1, <3>1, <3>2
    <3>3. CASE i # 1
      <4>1. i - 1 \in 1..(Len(q) - 1) /\ Tail(q)[i - 1] = x
        BY <1>1, <3>1, <3>3
      <4> QED
        BY <1>1, <4>1 DEF Entries
    <3> QED
      BY <3>2, <3>3
  <2>2. ASSUME NEW x \in Entries(Tail(q)) PROVE x \in Entries(q)
    <3>1. PICK i \in 1..(Len(q) - 1) : x = Tail(q)[i]
      BY <1>1 DEF Entries
    <3>2. i + 1 \in 1..Len(q) /\ q[i + 1] = x
      BY <1>1, <3>1
    <3> QED
      BY <1>1, <3>2 DEF Entries
  <2>3. Head(q) \in Entries(q)
    <3>1. 1 \in 1..Len(q)
      BY <1>1
    <3> QED
      BY <1>1, <3>1 DEF Entries
  <2> QED
    BY <2>1, <2>2, <2>3
<1>4. Head(q) \notin Entries(Tail(q))
  <2> SUFFICES ASSUME NEW i \in 1..(Len(q) - 1), Tail(q)[i] = Head(q) PROVE FALSE
    BY <1>1 DEF Entries
  <2>1. i + 1 \in 1..Len(q) /\ 1 \in 1..Len(q) /\ q[i + 1] = q[1]
    BY <1>1
  <2>2. i + 1 = 1
    BY <1>1, <2>1 DEF Distinct
  <2> QED
    BY <2>2
<1> QED
  BY <1>1, <1>2, <1>3, <1>4

-----------------------------------------------------------------------------
(* The invariant. *)

LEMMA Initially == ASSUME Init PROVE Inv
<1>1. TypeOK
  BY DEF Init, TypeOK, Idle
<1>2. QueuedOnce
  BY DEF Init, QueuedOnce, Distinct, Entries, Idle
<1> QED
  BY <1>1, <1>2 DEF Init, Inv, WaitingIsScheduled, OneAtATime

\* A key that is neither queued nor active is not in the queue either.
LEMMA EnqueuePreserves ==
  ASSUME Inv, NEW k \in Keys, NEW v \in Values, Enqueue(k, v)
  PROVE  Inv'
<1> USE DEF Inv
<1>1. /\ latest' = [latest EXCEPT ![k] = latest[k] \cup {v}]
      /\ UNCHANGED <<active, taken, batch, drains>>
  BY DEF Enqueue
<1>2. latest' \in [Keys -> SUBSET Values] /\ \A j \in Keys \ {k} : latest'[j] = latest[j]
  BY <1>1 DEF TypeOK
<1>3. CASE Scheduled(k) /\ UNCHANGED <<queue, queued>>
  <2>1. TypeOK'
    BY <1>1, <1>2, <1>3 DEF TypeOK
  <2>2. QueuedOnce'
    BY <1>1, <1>3 DEF QueuedOnce, Entries, Distinct
  <2>3. WaitingIsScheduled'
    BY <1>1, <1>2, <1>3 DEF WaitingIsScheduled, Scheduled
  <2> QED
    BY <1>1, <2>1, <2>2, <2>3 DEF OneAtATime
<1>4. CASE ~Scheduled(k) /\ Offer(k) /\ queued' = queued \cup {k}
  <2>1. k \notin queued /\ k \notin active /\ k \notin Entries(queue) /\ queue \in Seq(Keys)
    BY <1>4 DEF Scheduled, QueuedOnce, TypeOK
  <2>2. /\ queue' \in Seq(Keys) /\ Distinct(queue')
        /\ Entries(queue') = Entries(queue) \cup {k}
    BY <1>4, <2>1, AppendDistinct DEF Offer, QueuedOnce
  <2>3. TypeOK'
    BY <1>1, <1>2, <1>4, <2>2 DEF TypeOK
  <2>4. k # taken
    BY <2>1, WorkerAssumption DEF QueuedOnce
  <2>5. QueuedOnce'
    <3>1. queued' = Entries(queue') \cup ({taken'} \ {NoKey})
      BY <1>1, <1>4, <2>2 DEF QueuedOnce
    <3>2. taken' \notin Entries(queue')
      BY <1>1, <2>2, <2>4 DEF QueuedOnce
    <3>3. queued' \cap active' = {}
      BY <1>1, <1>4, <2>1 DEF QueuedOnce
    <3> QED
      BY <1>1, <2>2, <3>1, <3>2, <3>3 DEF QueuedOnce
  <2>6. WaitingIsScheduled'
    BY <1>1, <1>2, <1>4 DEF WaitingIsScheduled, Scheduled
  <2> QED
    BY <1>1, <2>3, <2>5, <2>6 DEF OneAtATime
<1> QED
  BY <1>3, <1>4 DEF Enqueue

LEMMA TakePreserves == ASSUME Inv, Take PROVE Inv'
<1> USE DEF Inv
<1>1. /\ taken = NoKey /\ batch = Idle /\ queue # <<>> /\ queue \in Seq(Keys)
      /\ taken' = Head(queue) /\ queue' = Tail(queue)
      /\ UNCHANGED <<latest, queued, active, batch, drains>>
  BY DEF Take, stateVars, TypeOK
<1>2. /\ taken' \in Keys /\ queue' \in Seq(Keys) /\ Distinct(queue')
      /\ Entries(queue) = Entries(queue') \cup {taken'} /\ taken' \notin Entries(queue')
  BY <1>1, TailDistinct DEF QueuedOnce
<1>3. TypeOK'
  BY <1>1, <1>2 DEF TypeOK
<1>4. QueuedOnce'
  <2>1. queued = Entries(queue)
    BY <1>1 DEF QueuedOnce
  <2>2. {taken'} \ {NoKey} = {taken'}
    BY <1>2, WorkerAssumption
  <2> QED
    BY <1>1, <1>2, <2>1, <2>2 DEF QueuedOnce
<1>5. WaitingIsScheduled'
  BY <1>1 DEF WaitingIsScheduled, Scheduled
<1> QED
  BY <1>1, <1>3, <1>4, <1>5 DEF OneAtATime

LEMMA StartPreserves == ASSUME Inv, Start PROVE Inv'
<1> USE DEF Inv
<1>1. /\ taken \in Keys /\ batch = Idle /\ taken' = NoKey /\ queued' = queued \ {taken}
      /\ UNCHANGED <<queue, drains>>
  BY DEF Start, TypeOK, OneAtATime
<1>2. active = {} /\ queued = Entries(queue) \cup {taken} /\ taken \notin Entries(queue)
  BY <1>1, WorkerAssumption DEF QueuedOnce, Idle
<1>3. queued' = Entries(queue) /\ Distinct(queue) /\ NoKey \notin Entries(queue)
  <2>1. NoKey \notin queued
    BY WorkerAssumption DEF TypeOK
  <2> QED
    BY <1>1, <1>2, <2>1 DEF QueuedOnce
<1>4. CASE latest[taken] = {}
  <2>1. UNCHANGED <<latest, active, batch>>
    BY <1>4 DEF Start
  <2>2. TypeOK'
    BY <1>1, <2>1 DEF TypeOK
  <2>3. QueuedOnce'
    BY <1>1, <1>2, <1>3, <2>1 DEF QueuedOnce
  <2>4. WaitingIsScheduled'
    BY <1>1, <1>4, <2>1 DEF WaitingIsScheduled, Scheduled
  <2> QED
    BY <1>1, <2>2, <2>3, <2>4 DEF OneAtATime
<1>5. CASE latest[taken] # {}
  <2>1. /\ latest' = [latest EXCEPT ![taken] = {}] /\ active' = active \cup {taken}
        /\ batch' = [key |-> taken, values |-> latest[taken]]
    BY <1>5 DEF Start
  <2>2. TypeOK'
    BY <1>1, <2>1 DEF TypeOK
  <2>3. active' = {batch'.key} \ {NoKey}
    BY <1>1, <1>2, <2>1, WorkerAssumption
  <2>4. QueuedOnce'
    BY <1>1, <1>2, <1>3, <2>1, <2>3 DEF QueuedOnce
  <2>5. WaitingIsScheduled'
    <3>1. ASSUME NEW k \in Keys, latest'[k] # {} PROVE Scheduled(k)'
      <4>1. k # taken /\ latest[k] # {}
        BY <1>1, <2>1, <3>1 DEF TypeOK
      <4> QED
        BY <1>1, <2>1, <4>1 DEF WaitingIsScheduled, Scheduled
    <3> QED
      BY <3>1 DEF WaitingIsScheduled
  <2> QED
    BY <1>1, <2>2, <2>4, <2>5 DEF OneAtATime
<1> QED
  BY <1>4, <1>5

LEMMA CompletePreserves == ASSUME Inv, Complete PROVE Inv'
<1> USE DEF Inv
<1>1. /\ batch.key \in Keys /\ taken = NoKey /\ batch' = Idle /\ active' = active \ {batch.key}
      /\ UNCHANGED <<latest, taken, drains>>
  BY DEF Complete, TypeOK, OneAtATime
<1>2. active = {batch.key} /\ active' = {} /\ batch'.key = NoKey /\ batch.key \notin queued
  BY <1>1, WorkerAssumption DEF QueuedOnce, Idle
<1>3. CASE ~Dirty(batch.key) /\ UNCHANGED <<queue, queued>>
  <2>1. TypeOK'
    BY <1>1, <1>3 DEF TypeOK
  <2>2. QueuedOnce'
    BY <1>1, <1>2, <1>3 DEF QueuedOnce
  <2>3. WaitingIsScheduled'
    BY <1>1, <1>2, <1>3 DEF WaitingIsScheduled, Scheduled, Dirty
  <2> QED
    BY <1>1, <2>1, <2>2, <2>3 DEF OneAtATime
<1>4. CASE Dirty(batch.key) /\ Offer(batch.key) /\ queued' = queued \cup {batch.key}
  <2>1. batch.key \notin Entries(queue) /\ queue \in Seq(Keys) /\ queued = Entries(queue)
    BY <1>1, <1>2 DEF QueuedOnce, TypeOK
  <2>2. /\ queue' \in Seq(Keys) /\ Distinct(queue')
        /\ Entries(queue') = Entries(queue) \cup {batch.key}
    BY <1>1, <1>4, <2>1, AppendDistinct DEF Offer, QueuedOnce
  <2>3. TypeOK'
    BY <1>1, <1>4, <2>2 DEF TypeOK
  <2>4. taken' \notin Entries(queue')
    BY <1>1, <2>1, <2>2, WorkerAssumption DEF QueuedOnce
  <2>5. QueuedOnce'
    BY <1>1, <1>2, <1>4, <2>1, <2>2, <2>4 DEF QueuedOnce
  <2>6. WaitingIsScheduled'
    BY <1>1, <1>2, <1>4 DEF WaitingIsScheduled, Scheduled
  <2> QED
    BY <1>1, <2>3, <2>5, <2>6 DEF OneAtATime
<1> QED
  BY <1>3, <1>4 DEF Complete

LEMMA DrainsPreserve ==
  ASSUME Inv, UNCHANGED <<queue, latest, queued, active, taken, batch>>,
         drains' \in [Drainers -> Keys \cup {NoKey}]
  PROVE  Inv'
BY DEF Inv, TypeOK, QueuedOnce, WaitingIsScheduled, Scheduled, OneAtATime

LEMMA Preserved == ASSUME Inv, [Next]_vars PROVE Inv'
<1>1. CASE UNCHANGED vars
  BY <1>1, DrainsPreserve DEF vars, stateVars, Inv, TypeOK
<1>2. ASSUME NEW k \in Keys, NEW v \in Values, Enqueue(k, v) PROVE Inv'
  BY <1>2, EnqueuePreserves
<1>3. CASE Work
  BY <1>3, TakePreserves, StartPreserves, CompletePreserves DEF Work
<1>4. ASSUME NEW d \in Drainers, DrainReturns(d) \/ \E k \in Keys : Drain(d, k) PROVE Inv'
  <2>1. drains' \in [Drainers -> Keys \cup {NoKey}]
    BY <1>4 DEF DrainReturns, Drain, Inv, TypeOK
  <2> QED
    BY <1>4, <2>1, DrainsPreserve DEF DrainReturns, Drain, stateVars
<1> QED
  BY <1>1, <1>2, <1>3, <1>4 DEF Next

LEMMA Invariance == Spec => []Inv
<1>1. Init => Inv
  BY Initially
<1>2. Inv /\ [Next]_vars => Inv'
  BY Preserved
<1> QED
  BY <1>1, <1>2, PTL DEF Spec

-----------------------------------------------------------------------------
\* The worker's state is well typed, for any keys and values.
THEOREM TypeCorrect == Spec => []TypeOK
BY Invariance, PTL DEF Inv

\* completeKey, enqueue and the take of the fiber together keep every key in the queue
\* at most once, and never while it is active.
THEOREM QueuedOnceCorrect == Spec => []QueuedOnce
BY Invariance, PTL DEF Inv

\* No value waits for a key that nobody will look at.
THEOREM WaitingIsScheduledCorrect == Spec => []WaitingIsScheduled
BY Invariance, PTL DEF Inv

LEMMA RefinesInit == Init => Buffer!Init
BY DEF Init, Buffer!Init, Idle, Buffer!Idle

LEMMA RefinesNext == ASSUME Inv, [Next]_vars PROVE [Buffer!Next]_Buffer!vars
<1> USE DEF Inv
<1>1. CASE UNCHANGED vars
  BY <1>1 DEF vars, stateVars, Buffer!vars
<1>2. ASSUME NEW k \in Keys, NEW v \in Values, Enqueue(k, v) PROVE Buffer!Next
  <2>1. Buffer!Put(k, v)
    BY <1>2 DEF Enqueue, Buffer!Put
  <2> QED
    BY <2>1 DEF Buffer!Next
<1>3. CASE Take
  BY <1>3 DEF Take, stateVars, Buffer!vars
<1>4. CASE Start
  <2>1. CASE latest[taken] = {}
    BY <1>4, <2>1 DEF Start, Buffer!vars
  <2>2. CASE latest[taken] # {}
    <3>1. taken \in Keys /\ batch = Idle
      BY <1>4 DEF Start, TypeOK, OneAtATime
    <3>2. Buffer!Begin(taken)
      BY <1>4, <2>2, <3>1 DEF Start, Buffer!Begin, Idle, Buffer!Idle
    <3> QED
      BY <3>1, <3>2 DEF Buffer!Next
  <2> QED
    BY <2>1, <2>2
<1>5. CASE Complete
  <2>1. Buffer!End
    BY <1>5 DEF Complete, Buffer!End, Idle, Buffer!Idle
  <2> QED
    BY <2>1 DEF Buffer!Next
<1>6. ASSUME NEW d \in Drainers, NEW k \in Keys, Drain(d, k) PROVE Buffer!Next
  <2>1. Buffer!Ask(d, k)
    BY <1>6 DEF Drain, stateVars, Buffer!Ask
  <2> QED
    BY <2>1 DEF Buffer!Next
<1>7. ASSUME NEW d \in Drainers, DrainReturns(d) PROVE Buffer!Next
  <2>1. batch.key # drains[d]
    <3>1. drains[d] \notin active /\ drains[d] # NoKey
      BY <1>7 DEF DrainReturns, Drained
    <3> QED
      BY <3>1 DEF QueuedOnce
  <2>2. Buffer!Return(d)
    BY <1>7, <2>1 DEF DrainReturns, Drained, stateVars, Buffer!Return
  <2> QED
    BY <2>2 DEF Buffer!Next
<1> QED
  BY <1>1, <1>2, <1>3, <1>4, <1>5, <1>6, <1>7 DEF Next, Work

\* The worker does what CoalescingBuffer promises: it loses no value, works on one batch
\* at a time, and its drains return only when their key has nothing left.
THEOREM ImplementsBufferCorrect == Spec => ImplementsBuffer
<1>1. Init => Buffer!Init
  BY RefinesInit
<1>2. Inv /\ [Next]_vars => [Buffer!Next]_Buffer!vars
  BY RefinesNext
<1> QED
  BY <1>1, <1>2, Invariance, PTL DEF Spec, ImplementsBuffer, Buffer!Spec

-----------------------------------------------------------------------------
(* Nobody waits in vain: what the liveness properties NoKeyStarves and     *)
(* DrainsEnd rest on, short of the fairness of the fiber and the drains.   *)

\* The guards of Take, Start and Complete.
CanWork ==
  \/ taken = NoKey /\ batch = Idle /\ queue # <<>>
  \/ taken # NoKey
  \/ batch # Idle
SomeoneGoesOn ==
  /\ \A k \in Keys : latest[k] # {} => CanWork
  /\ \A d \in Drainers : drains[d] # NoKey => Drained(drains[d]) \/ CanWork

\* While a value of a key waits the fiber of KeyedCoalescingWorker.ts has something to
\* do, and a call of drainKey that cannot return yet waits for work that can go on: no
\* order of enqueues, batches and drains leaves everybody waiting.
THEOREM NobodyIsStuck == Spec => []SomeoneGoesOn
<1>1. ASSUME Inv, NEW k \in Keys, ~Drained(k)
      PROVE  CanWork
  <2>1. k \in queued \/ k \in active
    BY <1>1 DEF Inv, WaitingIsScheduled, Drained, Scheduled
  <2>2. CASE k \in queued
    <3>1. k \in Entries(queue) \/ taken # NoKey
      BY <1>1, <2>2 DEF Inv, QueuedOnce
    <3>2. queue = <<>> => Entries(queue) = {}
      BY DEF Entries
    <3> QED
      BY <3>1, <3>2 DEF CanWork
  <2>3. CASE k \in active
    <3>1. batch.key = k /\ k # NoKey
      BY <1>1, <2>3 DEF Inv, QueuedOnce
    <3> QED
      BY <3>1 DEF CanWork, Idle
  <2> QED
    BY <2>1, <2>2, <2>3
<1>2. Inv => SomeoneGoesOn
  <2> SUFFICES ASSUME Inv PROVE SomeoneGoesOn
    OBVIOUS
  <2>1. \A k \in Keys : latest[k] # {} => CanWork
    BY <1>1 DEF Drained
  <2>2. \A d \in Drainers : drains[d] # NoKey => drains[d] \in Keys
    BY DEF Inv, TypeOK
  <2> QED
    BY <1>1, <2>1, <2>2 DEF SomeoneGoesOn
<1> QED
  BY <1>2, Invariance, PTL

\* Where a queued key goes: it stays, moves up when the first is taken, or is taken.
MovesUp(i) ==
  \/ i \in DOMAIN queue' /\ queue'[i] = queue[i]
  \/ i > 1 /\ i - 1 \in DOMAIN queue' /\ queue'[i - 1] = queue[i]
  \/ i = 1 /\ taken' = queue[i]
TurnsKept ==
  [][/\ \A i \in DOMAIN queue : MovesUp(i)
     /\ taken # NoKey => taken' = taken \/ latest'[taken] = {}]_vars

\* A key keeps its place in the queue whatever arrives or is queued again after it, and
\* when it is its turn its whole value is taken up: "Each batch yields to other queued
\* keys" (KeyedCoalescingWorker.ts:5) and no key is overtaken.
THEOREM TurnsAreKept == Spec => TurnsKept
<1> DEFINE Step == /\ \A i \in DOMAIN queue : MovesUp(i)
                   /\ taken # NoKey => taken' = taken \/ latest'[taken] = {}
<1>1. ASSUME Inv, [Next]_vars
      PROVE  Step
  <2>0. /\ queue \in Seq(Keys) /\ Len(queue) \in Nat /\ DOMAIN queue = 1 .. Len(queue)
        /\ latest \in [Keys -> SUBSET Values] /\ taken \in Keys \cup {NoKey}
    BY <1>1 DEF Inv, TypeOK
  <2>1. ASSUME queue' = queue, taken' = taken
        PROVE  Step
    BY <2>1 DEF MovesUp
  <2>2. ASSUME NEW k \in Keys, Offer(k), taken' = taken
        PROVE  Step
    <3>1. \A i \in DOMAIN queue : i \in DOMAIN queue' /\ queue'[i] = queue[i]
      BY <2>0, <2>2 DEF Offer
    <3> QED
      BY <2>2, <3>1 DEF MovesUp
  <2>3. CASE Take
    <3>1. /\ queue # <<>> /\ queue' = Tail(queue) /\ taken' = Head(queue) /\ taken = NoKey
      BY <2>3 DEF Take
    <3>2. /\ Head(queue) = queue[1] /\ DOMAIN queue' = 1 .. (Len(queue) - 1)
          /\ \A i \in 1 .. (Len(queue) - 1) : queue'[i] = queue[i + 1]
      BY <2>0, <3>1
    <3>3. ASSUME NEW i \in DOMAIN queue
          PROVE  MovesUp(i)
      <4>1. CASE i = 1
        BY <3>1, <3>2, <4>1 DEF MovesUp
      <4>2. CASE i # 1
        <5>1. i > 1 /\ i - 1 \in 1 .. (Len(queue) - 1) /\ (i - 1) + 1 = i
          BY <2>0, <4>2
        <5> QED
          BY <3>2, <5>1 DEF MovesUp
      <4> QED
        BY <4>1, <4>2
    <3> QED
      BY <3>1, <3>3
  <2>4. CASE Start
    <3>1. taken \in Keys /\ latest'[taken] = {}
      BY <2>0, <2>4 DEF Start
    <3>2. queue' = queue
      BY <2>4 DEF Start
    <3> QED
      BY <3>1, <3>2 DEF MovesUp
  <2>5. CASE Complete
    <3>1. batch.key \in Keys
      BY <1>1, <2>5 DEF Inv, TypeOK, Complete
    <3> QED
      BY <2>1, <2>2, <2>5, <3>1 DEF Complete
  <2>6. ASSUME NEW k \in Keys, NEW v \in Values, Enqueue(k, v)
        PROVE  Step
    BY <2>1, <2>2, <2>6 DEF Enqueue
  <2>7. ASSUME NEW d \in Drainers, DrainReturns(d) \/ \E k \in Keys : Drain(d, k)
        PROVE  Step
    BY <2>1, <2>7 DEF DrainReturns, Drain
  <2>8. CASE UNCHANGED vars
    BY <2>1, <2>8 DEF vars
  <2> QED
    BY <1>1, <2>3, <2>4, <2>5, <2>6, <2>7, <2>8 DEF Next, Work
<1> QED
  BY <1>1, Invariance, PTL DEF Spec, TurnsKept
=============================================================================
