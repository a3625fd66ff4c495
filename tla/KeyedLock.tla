------------------------------ MODULE KeyedLock ------------------------------
(***************************************************************************)
(* Mutual exclusion per key: packages/shared/src/KeyedLock.ts, and the     *)
(* same algorithm as withLeaseLock in the environment registry.            *)
(*                                                                         *)
(* The lock of a key exists while someone holds it or waits for it: its    *)
(* entry counts the users and is deleted with the last one.  A semaphore   *)
(* is named for its key and for the caller that made it.                   *)
(*                                                                         *)
(* A semaphore is the runtime's: a released permit goes to whoever waits   *)
(* longest, unless a newcomer takes it before that one is woken.           *)
(***************************************************************************)
EXTENDS Integers, FiniteSets, SequencesExt

CONSTANTS Keys, Callers, NoCaller

ASSUME KeyedLockAssumption == IsFiniteSet(Callers) /\ NoCaller \notin Callers

VARIABLES
  locks,    \* the entry of each key; without users there is none
  uses,     \* the semaphore each caller holds or waits for, and its key
  holder,   \* who holds the permit of each semaphore
  waiters   \* who waits for it, in order

lockVars == <<locks, uses, holder, waiters>>

NoUse == [key |-> NoCaller, semaphore |-> NoCaller]
NoLock == [semaphore |-> NoCaller, users |-> 0]

LockInit ==
  /\ locks = [k \in Keys |-> NoLock]
  /\ uses = [p \in Callers |-> NoUse]
  /\ holder = [k \in Keys |-> [s \in Callers |-> NoCaller]]
  /\ waiters = [k \in Keys |-> [s \in Callers |-> <<>>]]

HoldsPermit(p) == uses[p] # NoUse /\ holder[uses[p].key][uses[p].semaphore] = p
Queue(p) == waiters[uses[p].key][uses[p].semaphore]
WaitsForPermit(p) == uses[p] # NoUse /\ \E i \in DOMAIN Queue(p) : Queue(p)[i] = p

BugForgetsWaiters(lock) == NoLock

\* The entry after one of its users has gone.
Released(lock) == IF lock.users = 1 THEN NoLock ELSE [lock EXCEPT !.users = @ - 1]

\* The semaphore of a caller that joins the key.
Joined(p, k) == IF locks[k].users = 0 THEN p ELSE locks[k].semaphore

\* Joins the key's lock and takes its permit or queues up for it.
AskLock(p, k) ==
  /\ uses[p] = NoUse
  /\ LET s == Joined(p, k) IN
     /\ locks' = [locks EXCEPT ![k] = [semaphore |-> s, users |-> @.users + 1]]
     /\ uses' = [uses EXCEPT ![p] = [key |-> k, semaphore |-> s]]
     /\ \/ /\ holder[k][s] = NoCaller
           /\ holder' = [holder EXCEPT ![k][s] = p]
           /\ UNCHANGED waiters
        \/ /\ holder[k][s] # NoCaller
           /\ waiters' = [waiters EXCEPT ![k][s] = Append(@, p)]
           /\ UNCHANGED holder

\* A free permit reaches the caller that waits longest.
WakeWaiter(k, s) ==
  /\ holder[k][s] = NoCaller /\ waiters[k][s] # <<>>
  /\ holder' = [holder EXCEPT ![k][s] = Head(waiters[k][s])]
  /\ waiters' = [waiters EXCEPT ![k][s] = Tail(@)]
  /\ UNCHANGED <<locks, uses>>

\* A waiting caller is interrupted.
GiveUpLock(p) ==
  /\ uses[p] # NoUse
  /\ \E i \in DOMAIN Queue(p) :
       /\ Queue(p)[i] = p
       /\ waiters' = [waiters EXCEPT ![uses[p].key][uses[p].semaphore] = RemoveAt(@, i)]
  /\ UNCHANGED <<locks, uses, holder>>

\* The holder is done, has failed or is interrupted.
ExitLock(p) ==
  /\ HoldsPermit(p)
  /\ holder' = [holder EXCEPT ![uses[p].key][uses[p].semaphore] = NoCaller]
  /\ UNCHANGED <<locks, uses, waiters>>

\* Either way the caller then leaves the lock's entry.
LeaveLock(p) ==
  /\ uses[p] # NoUse /\ ~HoldsPermit(p) /\ ~WaitsForPermit(p)
  /\ locks' = [locks EXCEPT ![uses[p].key] = Released(@)]
  /\ uses' = [uses EXCEPT ![p] = NoUse]
  /\ UNCHANGED <<holder, waiters>>

LockNext ==
  \/ \E p \in Callers :
       (\E k \in Keys : AskLock(p, k)) \/ GiveUpLock(p) \/ ExitLock(p) \/ LeaveLock(p)
  \/ \E k \in Keys, s \in Callers : WakeWaiter(k, s)

LockSpec == LockInit /\ [][LockNext]_lockVars

-----------------------------------------------------------------------------
\* The lock of a key is held by one caller at a time, although its semaphore is
\* thrown away and made anew whenever the last user leaves.
\* (packages/shared/src/KeyedLock.ts:17)
MutualExclusion ==
  \A p, q \in Callers :
    HoldsPermit(p) /\ HoldsPermit(q) /\ uses[p].key = uses[q].key => p = q
=============================================================================
