--------------------------- MODULE KeyedLock_proofs ---------------------------
(***************************************************************************)
(* KeyedLock keeps the holders of a key apart, for any keys and callers.   *)
(***************************************************************************)
EXTENDS KeyedLock, FiniteSetTheorems, SequenceTheorems, TLAPS

UsersOf(k) == {p \in Callers : uses[p] # NoUse /\ uses[p].key = k}

LockTypeOK ==
  /\ locks \in [Keys -> [semaphore : Callers \cup {NoCaller}, users : Nat]]
  /\ uses \in [Callers -> [key : Keys, semaphore : Callers] \cup {NoUse}]

\* The entry of a key counts the callers that use it ...
Counted == \A k \in Keys : locks[k].users = Cardinality(UsersOf(k))

\* ... and they all use its semaphore.
SameSemaphore == \A k \in Keys : \A p \in UsersOf(k) : uses[p].semaphore = locks[k].semaphore

LockInv == LockTypeOK /\ Counted /\ SameSemaphore

-----------------------------------------------------------------------------
\* An entry without users has none, and the only user of one is the one it counts.
LEMMA UsersFinite ==
  ASSUME NEW k \in Keys
  PROVE  /\ IsFiniteSet(UsersOf(k)) /\ Cardinality(UsersOf(k)) \in Nat
         /\ Cardinality(UsersOf(k)) = 0 <=> UsersOf(k) = {}
<1>1. UsersOf(k) \subseteq Callers
  BY DEF UsersOf
<1>2. IsFiniteSet(UsersOf(k))
  BY <1>1, FS_Subset, KeyedLockAssumption
<1> QED
  BY <1>2, FS_CardinalityType, FS_EmptySet

LEMMA OnlyUser ==
  ASSUME NEW k \in Keys, NEW p \in UsersOf(k), Cardinality(UsersOf(k)) = 1
  PROVE  UsersOf(k) = {p}
<1>1. PICK q : UsersOf(k) = {q}
  BY UsersFinite, FS_Singleton
<1> QED
  BY <1>1

\* Joining a key: a new user of the semaphore that the others use.
LEMMA AskPreserves ==
  ASSUME LockInv, NEW p \in Callers, NEW k \in Keys, AskLock(p, k)
  PROVE  LockInv'
<1> DEFINE s == Joined(p, k)
<1>1. /\ uses[p] = NoUse
      /\ locks' = [locks EXCEPT ![k] = [semaphore |-> s, users |-> locks[k].users + 1]]
      /\ uses' = [uses EXCEPT ![p] = [key |-> k, semaphore |-> s]]
  BY DEF AskLock
<1>3. s \in Callers
  <2>1. CASE locks[k].users = 0
    BY <2>1 DEF Joined
  <2>2. CASE locks[k].users # 0
    <3>1. PICK q : q \in UsersOf(k)
      BY <2>2, UsersFinite DEF LockInv, Counted
    <3>2. uses[q] # NoUse /\ uses[q].semaphore = locks[k].semaphore /\ q \in Callers
      BY <3>1 DEF UsersOf, LockInv, SameSemaphore
    <3>3. uses[q] \in [key : Keys, semaphore : Callers]
      BY <3>2 DEF LockInv, LockTypeOK
    <3> QED
      BY <2>2, <3>2, <3>3 DEF Joined
  <2> QED
    BY <2>1, <2>2
<1>4. LockTypeOK'
  <2>1. locks' \in [Keys -> [semaphore : Callers \cup {NoCaller}, users : Nat]]
    <3>1. [semaphore |-> s, users |-> locks[k].users + 1]
            \in [semaphore : Callers \cup {NoCaller}, users : Nat]
      BY <1>3 DEF LockInv, LockTypeOK
    <3> HIDE DEF s
    <3> QED
      BY <1>1, <3>1 DEF LockInv, LockTypeOK
  <2>2. uses' \in [Callers -> [key : Keys, semaphore : Callers] \cup {NoUse}]
    <3> HIDE DEF s
    <3> QED
      BY <1>1, <1>3 DEF LockInv, LockTypeOK
  <2> QED
    BY <2>1, <2>2 DEF LockTypeOK
<1>5. [key |-> k, semaphore |-> s] # NoUse
  BY <1>3, KeyedLockAssumption DEF NoUse
<1>6. UsersOf(k)' = UsersOf(k) \cup {p} /\ p \notin UsersOf(k)
  <2> HIDE DEF s
  <2> QED
    BY <1>1, <1>5 DEF UsersOf, LockInv, LockTypeOK
<1>7. \A j \in Keys \ {k} : UsersOf(j)' = UsersOf(j) /\ locks'[j] = locks[j]
  <2> HIDE DEF s
  <2> QED
    BY <1>1, <1>5 DEF UsersOf, LockInv, LockTypeOK
<1>8. locks'[k] = [semaphore |-> s, users |-> locks[k].users + 1]
  BY <1>1 DEF LockInv, LockTypeOK
<1>9. Counted'
  <2>1. Cardinality(UsersOf(k) \cup {p}) = Cardinality(UsersOf(k)) + 1
    BY <1>6, UsersFinite, FS_AddElement
  <2>2. \A j \in Keys : locks[j].users = Cardinality(UsersOf(j))
    BY DEF LockInv, Counted
  <2>3. locks'[k].users = Cardinality(UsersOf(k)')
    BY <2>1, <2>2, <1>6, <1>8
  <2>4. \A j \in Keys \ {k} : locks'[j].users = Cardinality(UsersOf(j)')
    BY <2>2, <1>7
  <2> QED
    BY <2>3, <2>4 DEF Counted
<1>10. SameSemaphore'
  <2>1. ASSUME NEW j \in Keys \ {k}, NEW q \in UsersOf(j)'
        PROVE  uses'[q].semaphore = locks'[j].semaphore
    <3>1. q \in UsersOf(j) /\ q # p
      BY <2>1, <1>7, <1>1 DEF UsersOf
    <3> HIDE DEF s
    <3>2. uses'[q] = uses[q]
      BY <3>1, <1>1 DEF UsersOf, LockInv, LockTypeOK
    <3> QED
      BY <3>1, <3>2, <1>7 DEF LockInv, SameSemaphore
  <2>2. ASSUME NEW q \in UsersOf(k)'
        PROVE  uses'[q].semaphore = locks'[k].semaphore
    <3>1. CASE q = p
      <4> HIDE DEF s
      <4> QED
        BY <3>1, <1>1, <1>8 DEF LockInv, LockTypeOK
    <3>2. CASE q # p
      <4>1. q \in UsersOf(k)
        BY <3>2, <2>2, <1>6
      <4>2. locks[k].users # 0
        BY <4>1, UsersFinite DEF LockInv, Counted
      <4>3. s = locks[k].semaphore
        BY <4>2 DEF Joined
      <4>4. uses[q].semaphore = locks[k].semaphore
        BY <4>1 DEF LockInv, SameSemaphore
      <4> HIDE DEF s
      <4>5. uses'[q] = uses[q]
        BY <3>2, <4>1, <1>1 DEF UsersOf, LockInv, LockTypeOK
      <4> QED
        BY <4>3, <4>4, <4>5, <1>8
    <3> QED
      BY <3>1, <3>2
  <2> QED
    BY <2>1, <2>2 DEF SameSemaphore
<1> QED
  BY <1>4, <1>9, <1>10 DEF LockInv

\* Leaving a key: the entry is deleted exactly with its last user.
LEMMA LeavePreserves ==
  ASSUME LockInv, NEW p \in Callers, LeaveLock(p)
  PROVE  LockInv'
<1>0. PICK k \in Keys : k = uses[p].key
  BY DEF LeaveLock, LockInv, LockTypeOK
<1>1. k \in Keys /\ p \in UsersOf(k)
  BY <1>0 DEF LeaveLock, UsersOf, LockInv, LockTypeOK
<1>2. /\ locks' = [locks EXCEPT ![k] = Released(locks[k])]
      /\ uses' = [uses EXCEPT ![p] = NoUse]
  BY <1>0 DEF LeaveLock
<1>3. /\ locks[k].users \in Nat /\ locks[k].users # 0
      /\ locks[k] \in [semaphore : Callers \cup {NoCaller}, users : Nat]
  BY <1>1, UsersFinite DEF LockInv, LockTypeOK, Counted
<1>4. Released(locks[k]) \in [semaphore : Callers \cup {NoCaller}, users : Nat]
  <2>1. CASE locks[k].users = 1
    BY <2>1 DEF Released, NoLock
  <2>2. CASE locks[k].users # 1
    BY <2>2, <1>3 DEF Released
  <2> QED
    BY <2>1, <2>2
<1>5. LockTypeOK'
  BY <1>2, <1>4 DEF LockInv, LockTypeOK
<1>6. UsersOf(k)' = UsersOf(k) \ {p}
  <2>1. uses'[p] = NoUse /\ \A q \in Callers \ {p} : uses'[q] = uses[q]
    BY <1>2 DEF LockInv, LockTypeOK
  <2> QED
    BY <2>1 DEF UsersOf
<1>7. \A j \in Keys \ {k} : UsersOf(j)' = UsersOf(j) /\ locks'[j] = locks[j]
  BY <1>0, <1>2 DEF UsersOf, LockInv, LockTypeOK
<1>8. locks'[k] = Released(locks[k])
  BY <1>1, <1>2 DEF LockInv, LockTypeOK
<1>9. Counted'
  <2>1. Cardinality(UsersOf(k) \ {p}) = Cardinality(UsersOf(k)) - 1
    BY <1>1, UsersFinite, FS_RemoveElement
  <2>2. \A j \in Keys : locks[j].users = Cardinality(UsersOf(j))
    BY DEF LockInv, Counted
  <2>3. Released(locks[k]).users = locks[k].users - 1
    BY <1>3 DEF Released, NoLock
  <2>4. locks'[k].users = Cardinality(UsersOf(k)')
    BY <1>1, <2>1, <2>2, <2>3, <1>6, <1>8
  <2>5. \A j \in Keys \ {k} : locks'[j].users = Cardinality(UsersOf(j)')
    BY <2>2, <1>7
  <2> QED
    BY <2>4, <2>5 DEF Counted
<1>10. SameSemaphore'
  <2>1. ASSUME NEW j \in Keys \ {k}, NEW q \in UsersOf(j)'
        PROVE  uses'[q].semaphore = locks'[j].semaphore
    <3>1. q \in UsersOf(j) /\ q # p
      BY <2>1, <1>7, <1>1 DEF UsersOf
    <3>2. uses'[q] = uses[q]
      BY <3>1, <1>2 DEF UsersOf, LockInv, LockTypeOK
    <3> QED
      BY <3>1, <3>2, <1>7 DEF LockInv, SameSemaphore
  <2>2. ASSUME NEW q \in UsersOf(k)'
        PROVE  uses'[q].semaphore = locks'[k].semaphore
    <3>1. q \in UsersOf(k) /\ q # p
      BY <2>2, <1>6
    <3>2. locks[k].users # 1
      BY <3>1, <1>1, OnlyUser DEF LockInv, Counted
    <3>3. locks'[k].semaphore = locks[k].semaphore
      BY <3>2, <1>3, <1>8 DEF Released
    <3>4. uses'[q] = uses[q]
      BY <3>1, <1>2 DEF UsersOf, LockInv, LockTypeOK
    <3> QED
      BY <3>1, <3>3, <3>4, <1>1 DEF LockInv, SameSemaphore
  <2> QED
    BY <2>1, <2>2 DEF SameSemaphore
<1> QED
  BY <1>5, <1>9, <1>10 DEF LockInv

-----------------------------------------------------------------------------
LEMMA LockInitially == ASSUME LockInit PROVE LockInv
<1>1. LockTypeOK
  BY DEF LockInit, LockTypeOK, NoLock
<1>2. \A k \in Keys : UsersOf(k) = {}
  BY DEF LockInit, UsersOf
<1>3. Counted
  BY <1>2, UsersFinite DEF Counted, LockInit, NoLock
<1> QED
  BY <1>1, <1>2, <1>3 DEF LockInv, SameSemaphore

LEMMA LockStep == ASSUME LockInv, [LockNext]_lockVars PROVE LockInv'
<1>1. CASE UNCHANGED lockVars
  <2>1. \A k \in Keys : UsersOf(k)' = UsersOf(k)
    BY <1>1 DEF UsersOf, lockVars
  <2> QED
    BY <1>1, <2>1 DEF LockInv, LockTypeOK, Counted, SameSemaphore, lockVars
<1>2. ASSUME NEW p \in Callers, NEW k \in Keys, AskLock(p, k) PROVE LockInv'
  BY <1>2, AskPreserves
<1>3. ASSUME NEW p \in Callers, GiveUpLock(p) \/ ExitLock(p) PROVE LockInv'
  <2>1. UNCHANGED <<locks, uses>>
    BY <1>3 DEF GiveUpLock, ExitLock
  <2>2. \A j \in Keys : UsersOf(j)' = UsersOf(j)
    BY <2>1 DEF UsersOf
  <2> QED
    BY <2>1, <2>2 DEF LockInv, LockTypeOK, Counted, SameSemaphore
<1>4. ASSUME NEW p \in Callers, LeaveLock(p) PROVE LockInv'
  BY <1>4, LeavePreserves DEF LeaveLock
<1>5. ASSUME NEW k \in Keys, NEW s \in Callers, WakeWaiter(k, s) PROVE LockInv'
  <2>1. \A j \in Keys : UsersOf(j)' = UsersOf(j)
    BY <1>5 DEF WakeWaiter, UsersOf
  <2> QED
    BY <1>5, <2>1 DEF WakeWaiter, LockInv, LockTypeOK, Counted, SameSemaphore
<1> QED
  BY <1>1, <1>2, <1>3, <1>4, <1>5 DEF LockNext

\* Two callers that hold a key hold the same semaphore, which has one holder.
LEMMA LockInvExcludes == ASSUME LockInv PROVE MutualExclusion
<1> SUFFICES ASSUME NEW p \in Callers, NEW q \in Callers, HoldsPermit(p), HoldsPermit(q),
                    uses[p].key = uses[q].key
             PROVE  p = q
  BY DEF MutualExclusion
<1>1. uses[p].key \in Keys /\ p \in UsersOf(uses[p].key) /\ q \in UsersOf(uses[p].key)
  BY DEF HoldsPermit, UsersOf, LockInv, LockTypeOK
<1>2. uses[p].semaphore = uses[q].semaphore
  BY <1>1 DEF LockInv, SameSemaphore
<1> QED
  BY <1>2 DEF HoldsPermit

\* KeyedLock.withLock and withLeaseLock: the holders of a key are kept apart although
\* its semaphore is made anew, for any number of keys and callers.
THEOREM MutualExclusionCorrect == LockSpec => []MutualExclusion
<1>1. LockInit => LockInv
  BY LockInitially
<1>2. LockInv /\ [LockNext]_lockVars => LockInv'
  BY LockStep
<1>3. LockInv => MutualExclusion
  BY LockInvExcludes
<1> QED
  BY <1>1, <1>2, <1>3, PTL DEF LockSpec

-----------------------------------------------------------------------------
(* Who holds and who waits: a caller is served or queued only where it     *)
(* joined, once, and not both.                                             *)

Use(k, s) == [key |-> k, semaphore |-> s]
Reached(q, k, s) == \A i \in DOMAIN q : uses[q[i]] = Use(k, s) /\ q[i] # holder[k][s]
Once(q) == \A i, j \in DOMAIN q : q[i] = q[j] => i = j

QueueTypeOK ==
  /\ holder \in [Keys -> [Callers -> Callers \cup {NoCaller}]]
  /\ waiters \in [Keys -> [Callers -> Seq(Callers)]]
Served ==
  \A k \in Keys, s \in Callers : holder[k][s] # NoCaller => uses[holder[k][s]] = Use(k, s)
Lined ==
  \A k \in Keys, s \in Callers : Reached(waiters[k][s], k, s) /\ Once(waiters[k][s])
QueueInv == LockInv /\ QueueTypeOK /\ Served /\ Lined

\* What a caller does for itself changes nothing for the others.
Stays(p) ==
  /\ uses'[p] = uses[p]
  /\ HoldsPermit(p)' = HoldsPermit(p)
  /\ WaitsForPermit(p)' = WaitsForPermit(p)
OthersAreLeft(p) == \A q \in Callers \ {p} : Stays(q)

\* The sequence q without its i-th element.
Without(w, q, i) ==
  /\ DOMAIN w = 1 .. Len(q) - 1
  /\ \A j \in 1 .. Len(q) - 1 : w[j] = IF j < i THEN q[j] ELSE q[j + 1]

\* SequencesExt!RemoveAt: the elements before and after the one that goes.
LEMMA RemoveAtProperties ==
  ASSUME NEW S, NEW q \in Seq(S), NEW i \in DOMAIN q
  PROVE  RemoveAt(q, i) \in Seq(S) /\ Without(RemoveAt(q, i), q, i)
<1> DEFINE a == SubSeq(q, 1, i - 1)
           b == SubSeq(q, i + 1, Len(q))
<1>1. Len(q) \in Nat /\ i \in 1 .. Len(q) /\ DOMAIN q = 1 .. Len(q)
  OBVIOUS
<1>2. a \in Seq(S) /\ Len(a) = i - 1 /\ \A j \in 1 .. i - 1 : a[j] = q[j]
  <2>1. \A j \in 1 .. i - 1 : j \in 1 .. Len(q) /\ 1 + j - 1 = j
    BY <1>1
  <2> QED
    BY <1>1, <2>1, SubSeqProperties
<1>3. b \in Seq(S) /\ Len(b) = Len(q) - i /\ \A j \in 1 .. Len(q) - i : b[j] = q[i + j]
  <2>1. /\ \A j \in i + 1 .. Len(q) : q[j] \in S
        /\ i + 1 \in Int /\ Len(q) \in Int
    BY <1>1
  <2>2. /\ b \in Seq(S) /\ Len(b) = IF i + 1 <= Len(q) THEN Len(q) - (i + 1) + 1 ELSE 0
        /\ \A j \in 1 .. Len(q) - (i + 1) + 1 : b[j] = q[i + 1 + j - 1]
    BY <2>1, SubSeqProperties, SMTT(20)
  <2> HIDE DEF b
  <2>3. Len(q) - (i + 1) + 1 = Len(q) - i
    BY <1>1
  <2>4. Len(b) = Len(q) - i
    BY <1>1, <2>2
  <2>5. ASSUME NEW j \in 1 .. Len(q) - i PROVE b[j] = q[i + j]
    <3>1. i + 1 + j - 1 = i + j
      BY <1>1
    <3>2. b[j] = q[i + 1 + j - 1]
      BY <2>2, <2>3
    <3> QED
      BY <3>1, <3>2
  <2> QED
    BY <2>2, <2>4, <2>5
<1>4. RemoveAt(q, i) = a \o b
  BY DEF RemoveAt
<1> HIDE DEF a, b
<1>5. /\ a \o b \in Seq(S) /\ Len(a \o b) = Len(q) - 1
      /\ \A j \in 1 .. Len(q) - 1 : (a \o b)[j] = IF j <= i - 1 THEN a[j] ELSE b[j - (i - 1)]
  <2>1. /\ a \o b \in Seq(S) /\ Len(a \o b) = Len(a) + Len(b)
        /\ \A j \in 1 .. Len(a) + Len(b) :
             (a \o b)[j] = IF j <= Len(a) THEN a[j] ELSE b[j - Len(a)]
    BY <1>2, <1>3, ConcatProperties
  <2>2. Len(a) + Len(b) = Len(q) - 1
    BY <1>1, <1>2, <1>3
  <2> QED
    BY <1>2, <2>1, <2>2
<1>6. ASSUME NEW j \in 1 .. Len(q) - 1
      PROVE  (a \o b)[j] = IF j < i THEN q[j] ELSE q[j + 1]
  <2>1. CASE j < i
    BY <2>1, <1>1, <1>2, <1>5
  <2>2. CASE ~(j < i)
    <3>1. j - (i - 1) \in 1 .. Len(q) - i /\ i + (j - (i - 1)) = j + 1 /\ ~(j <= i - 1)
      BY <2>2, <1>1
    <3>2. (a \o b)[j] = b[j - (i - 1)]
      BY <3>1, <1>5
    <3>3. b[j - (i - 1)] = q[i + (j - (i - 1))]
      BY <3>1, <1>3
    <3> QED
      BY <2>2, <3>1, <3>2, <3>3
  <2> QED
    BY <2>1, <2>2
<1>7. DOMAIN (a \o b) = 1 .. Len(q) - 1
  BY <1>5, LenProperties
<1> QED
  BY <1>4, <1>5, <1>6, <1>7 DEF Without

LEMMA TableUpdate ==
  ASSUME NEW S, NEW f \in [Keys -> [Callers -> S]], NEW k \in Keys, NEW s \in Callers,
         NEW v \in S, NEW g, g = [f EXCEPT ![k][s] = v]
  PROVE  /\ g \in [Keys -> [Callers -> S]]
         /\ \A j \in Keys, r \in Callers : g[j][r] = IF j = k /\ r = s THEN v ELSE f[j][r]
OBVIOUS

LEMMA Appended ==
  ASSUME NEW S, NEW q \in Seq(S), NEW p \in S
  PROVE  /\ Append(q, p) \in Seq(S)
         /\ DOMAIN q = 1 .. Len(q) /\ Len(q) \in Nat
         /\ DOMAIN Append(q, p) = 1 .. Len(q) + 1
         /\ Append(q, p)[Len(q) + 1] = p /\ \A i \in 1 .. Len(q) : Append(q, p)[i] = q[i]
OBVIOUS

LEMMA JoinedIsCaller ==
  ASSUME LockInv, NEW p \in Callers, NEW k \in Keys
  PROVE  Joined(p, k) \in Callers
<1>1. CASE locks[k].users = 0
  BY <1>1 DEF Joined
<1>2. CASE locks[k].users # 0
  <2>1. PICK q : q \in UsersOf(k)
    BY <1>2, UsersFinite DEF LockInv, Counted
  <2>2. uses[q] # NoUse /\ uses[q].semaphore = locks[k].semaphore /\ q \in Callers
    BY <2>1 DEF UsersOf, LockInv, SameSemaphore
  <2>3. uses[q] \in [key : Keys, semaphore : Callers]
    BY <2>2 DEF LockInv, LockTypeOK
  <2> QED
    BY <1>2, <2>2, <2>3 DEF Joined
<1> QED
  BY <1>1, <1>2

\* What is known of a caller that uses a semaphore.
LEMMA UseTyped ==
  ASSUME QueueInv, NEW p \in Callers, uses[p] # NoUse
  PROVE  /\ uses[p].key \in Keys /\ uses[p].semaphore \in Callers
         /\ uses[p] = Use(uses[p].key, uses[p].semaphore)
         /\ holder[uses[p].key][uses[p].semaphore] \in Callers \cup {NoCaller}
         /\ Queue(p) \in Seq(Callers)
         /\ \A i \in DOMAIN Queue(p) : Queue(p)[i] \in Callers
<1>1. uses[p] \in [key : Keys, semaphore : Callers]
  BY DEF QueueInv, LockInv, LockTypeOK
<1>2. uses[p].key \in Keys /\ uses[p].semaphore \in Callers
      /\ uses[p] = Use(uses[p].key, uses[p].semaphore)
  BY <1>1 DEF Use
<1>3. Queue(p) \in Seq(Callers)
      /\ holder[uses[p].key][uses[p].semaphore] \in Callers \cup {NoCaller}
  BY <1>2 DEF QueueInv, QueueTypeOK, Queue
<1> QED
  BY <1>2, <1>3

LEMMA UseIsUse ==
  ASSUME NEW k \in Keys, NEW s \in Callers
  PROVE  Use(k, s) # NoUse /\ Use(k, s).key = k /\ Use(k, s).semaphore = s
BY KeyedLockAssumption DEF Use, NoUse

\* Nobody holds and waits at once, and who holds or waits uses the semaphore.
LEMMA HoldersDoNotWait ==
  ASSUME QueueInv, NEW p \in Callers, HoldsPermit(p)
  PROVE  ~WaitsForPermit(p)
<1>1. uses[p].key \in Keys /\ uses[p].semaphore \in Callers
      /\ holder[uses[p].key][uses[p].semaphore] = p
  BY UseTyped DEF HoldsPermit
<1>2. \A i \in DOMAIN Queue(p) : Queue(p)[i] # p
  BY <1>1 DEF QueueInv, Lined, Reached, Queue
<1> QED
  BY <1>2 DEF WaitsForPermit

\* Joining: the caller gets the free permit or goes to the end of the line.
LEMMA AskQueues ==
  ASSUME QueueInv, NEW p \in Callers, NEW k \in Keys, AskLock(p, k)
  PROVE  /\ QueueInv' /\ OthersAreLeft(p)
         /\ uses'[p] # NoUse /\ (HoldsPermit(p)' \/ WaitsForPermit(p)')
<1> DEFINE s == Joined(p, k)
<1>1. /\ uses[p] = NoUse /\ s \in Callers
      /\ uses' = [uses EXCEPT ![p] = Use(k, s)]
      /\ \/ /\ holder[k][s] = NoCaller
            /\ holder' = [holder EXCEPT ![k][s] = p] /\ waiters' = waiters
         \/ /\ holder[k][s] # NoCaller
            /\ waiters' = [waiters EXCEPT ![k][s] = Append(waiters[k][s], p)]
            /\ holder' = holder
  BY JoinedIsCaller DEF AskLock, QueueInv, Use
<1> HIDE DEF s
<1>2. LockInv'
  BY AskPreserves DEF QueueInv
<1>3. uses'[p] = Use(k, s) /\ \A q \in Callers \ {p} : uses'[q] = uses[q]
  BY <1>1 DEF QueueInv, LockInv, LockTypeOK
<1>4. Use(k, s) # NoUse /\ Use(k, s).key = k /\ Use(k, s).semaphore = s
  BY <1>1, UseIsUse
<1>5. \A j \in Keys, r \in Callers :
        /\ holder[j][r] # p
        /\ waiters[j][r] \in Seq(Callers) /\ holder[j][r] \in Callers \cup {NoCaller}
        /\ \A i \in DOMAIN waiters[j][r] : waiters[j][r][i] # p /\ waiters[j][r][i] \in Callers
  BY <1>1, UseIsUse, KeyedLockAssumption
     DEF QueueInv, Served, Lined, Reached, QueueTypeOK
<1>6. /\ holder' \in [Keys -> [Callers -> Callers \cup {NoCaller}]]
      /\ \A j \in Keys, r \in Callers :
           holder'[j][r] = IF j = k /\ r = s /\ holder[k][s] = NoCaller THEN p ELSE holder[j][r]
  <2>1. holder \in [Keys -> [Callers -> Callers \cup {NoCaller}]]
    BY DEF QueueInv, QueueTypeOK
  <2>2. CASE holder' = holder /\ holder[k][s] # NoCaller
    BY <2>1, <2>2
  <2>3. CASE holder' = [holder EXCEPT ![k][s] = p] /\ holder[k][s] = NoCaller
    BY <2>1, <2>3, <1>1, TableUpdate
  <2> QED
    BY <1>1, <2>2, <2>3
<1>7. /\ waiters' \in [Keys -> [Callers -> Seq(Callers)]]
      /\ \A j \in Keys, r \in Callers :
           waiters'[j][r] = IF j = k /\ r = s /\ holder[k][s] # NoCaller
                            THEN Append(waiters[k][s], p) ELSE waiters[j][r]
  <2>1. waiters \in [Keys -> [Callers -> Seq(Callers)]]
    BY DEF QueueInv, QueueTypeOK
  <2>2. CASE waiters' = waiters /\ holder[k][s] = NoCaller
    BY <2>1, <2>2
  <2>3. CASE /\ waiters' = [waiters EXCEPT ![k][s] = Append(waiters[k][s], p)]
             /\ holder[k][s] # NoCaller
    <3>1. Append(waiters[k][s], p) \in Seq(Callers)
      BY <1>1, <1>5, Appended
    <3> QED
      BY <2>1, <2>3, <3>1, <1>1, TableUpdate
  <2> QED
    BY <1>1, <2>2, <2>3
<1>8. QueueTypeOK'
  BY <1>6, <1>7 DEF QueueTypeOK
<1>9. Served'
  BY <1>1, <1>3, <1>5, <1>6, KeyedLockAssumption DEF QueueInv, Served
<1>10. ASSUME NEW j \in Keys, NEW r \in Callers
       PROVE  Reached(waiters[j][r], j, r)' /\ Once(waiters[j][r])'
  <2>1. CASE waiters'[j][r] = waiters[j][r]
    <3>1. \A i \in DOMAIN waiters[j][r] :
            uses'[waiters[j][r][i]] = Use(j, r) /\ waiters[j][r][i] # holder'[j][r]
      BY <1>3, <1>5, <1>6 DEF QueueInv, Lined, Reached
    <3> QED
      BY <2>1, <3>1 DEF QueueInv, Lined, Reached, Once
  <2>2. CASE waiters'[j][r] # waiters[j][r]
    <3>1. j = k /\ r = s /\ holder[k][s] # NoCaller /\ holder'[k][s] = holder[k][s]
          /\ waiters'[k][s] = Append(waiters[k][s], p)
      BY <2>2, <1>1, <1>6, <1>7
    <3> DEFINE q == waiters[k][s]
    <3>2. /\ q \in Seq(Callers) /\ DOMAIN q = 1 .. Len(q) /\ Len(q) \in Nat
          /\ DOMAIN Append(q, p) = 1 .. Len(q) + 1
          /\ Append(q, p)[Len(q) + 1] = p /\ \A i \in 1 .. Len(q) : Append(q, p)[i] = q[i]
      BY <1>1, <1>5
    <3>3. \A i \in DOMAIN q : /\ uses[q[i]] = Use(k, s) /\ q[i] # holder[k][s] /\ q[i] # p
                              /\ q[i] \in Callers
      BY <1>1, <1>5, <3>2 DEF QueueInv, Lined, Reached
    <3>4. Once(q)
      BY <1>1 DEF QueueInv, Lined
    <3> HIDE DEF q
    <3>5. \A i \in DOMAIN Append(q, p) :
            uses'[Append(q, p)[i]] = Use(k, s) /\ Append(q, p)[i] # holder[k][s]
      BY <1>1, <1>3, <1>5, <3>2, <3>3
    <3>6. Once(Append(q, p))
      BY <3>2, <3>3, <3>4 DEF Once
    <3>7. q = waiters[k][s]
      BY DEF q
    <3> QED
      BY <3>1, <3>5, <3>6, <3>7 DEF Reached, Once
  <2> QED
    BY <2>1, <2>2
<1>11. QueueInv'
  BY <1>2, <1>8, <1>9, <1>10 DEF QueueInv, Lined
<1>12. ASSUME NEW q \in Callers \ {p} PROVE Stays(q)
  <2>1. CASE uses[q] = NoUse
    BY <2>1, <1>3 DEF Stays, HoldsPermit, WaitsForPermit
  <2>2. CASE uses[q] # NoUse
    <3>1. uses[q].key \in Keys /\ uses[q].semaphore \in Callers
      BY <2>2, UseTyped
    <3> DEFINE h == holder[uses[q].key][uses[q].semaphore]
               w == waiters[uses[q].key][uses[q].semaphore]
    <3>2. holder'[uses[q].key][uses[q].semaphore] = q <=> h = q
      BY <3>1, <1>5, <1>6, KeyedLockAssumption
    <3>3. w \in Seq(Callers)
      BY <3>1, <1>5
    <3>4. waiters'[uses[q].key][uses[q].semaphore] \in {w, Append(w, p)}
      BY <3>1, <1>5, <1>7
    <3>5. (\E i \in DOMAIN Append(w, p) : Append(w, p)[i] = q) <=> \E i \in DOMAIN w : w[i] = q
      <4> HIDE DEF w
      <4>1. DOMAIN w = 1 .. Len(w) /\ Len(w) \in Nat
            /\ DOMAIN Append(w, p) = 1 .. Len(w) + 1
            /\ Append(w, p)[Len(w) + 1] = p /\ \A i \in 1 .. Len(w) : Append(w, p)[i] = w[i]
        BY <3>3, Appended
      <4> QED
        BY <4>1
    <3>6. HoldsPermit(q)' = HoldsPermit(q)
      BY <1>3, <3>2 DEF HoldsPermit
    <3>7. WaitsForPermit(q)' = WaitsForPermit(q)
      BY <1>3, <3>4, <3>5 DEF WaitsForPermit, Queue
    <3> QED
      BY <1>3, <3>6, <3>7 DEF Stays
  <2> QED
    BY <2>1, <2>2
<1>13. HoldsPermit(p)' \/ WaitsForPermit(p)'
  <2>1. CASE holder[k][s] = NoCaller
    BY <2>1, <1>1, <1>3, <1>4, <1>6 DEF HoldsPermit
  <2>2. CASE holder[k][s] # NoCaller
    <3>1. waiters[k][s] \in Seq(Callers) /\ waiters'[k][s] = Append(waiters[k][s], p)
      BY <2>2, <1>1, <1>5, <1>7
    <3>2. \E i \in DOMAIN waiters'[k][s] : waiters'[k][s][i] = p
      BY <3>1
    <3> QED
      BY <3>2, <1>3, <1>4 DEF WaitsForPermit, Queue
  <2> QED
    BY <2>1, <2>2
<1> QED
  BY <1>3, <1>4, <1>11, <1>12, <1>13 DEF OthersAreLeft

\* Two callers that use different semaphores, or one that holds and one that does
\* not, see different places of the tables.
LEMMA ElsewhereStays ==
  ASSUME QueueInv, NEW p \in Callers, uses' = uses, waiters' = waiters,
         NEW k \in Keys, NEW s \in Callers, NEW v \in Callers \cup {NoCaller},
         holder' = [holder EXCEPT ![k][s] = v], holder[k][s] # p, v # p
  PROVE  Stays(p)
<1>1. WaitsForPermit(p)' = WaitsForPermit(p)
  BY DEF WaitsForPermit, Queue
<1>2. CASE uses[p] = NoUse
  BY <1>1, <1>2 DEF Stays, HoldsPermit
<1>3. CASE uses[p] # NoUse
  <2>1. uses[p].key \in Keys /\ uses[p].semaphore \in Callers
    BY <1>3, UseTyped
  <2>2. holder'[uses[p].key][uses[p].semaphore]
          = IF uses[p].key = k /\ uses[p].semaphore = s THEN v
            ELSE holder[uses[p].key][uses[p].semaphore]
    BY <2>1, TableUpdate DEF QueueInv, QueueTypeOK
  <2> QED
    BY <1>1, <2>2 DEF Stays, HoldsPermit
<1> QED
  BY <1>2, <1>3

\* The holder lets go, and neither holds nor waits.
LEMMA ExitQueues ==
  ASSUME QueueInv, NEW p \in Callers, ExitLock(p)
  PROVE  /\ QueueInv' /\ OthersAreLeft(p)
         /\ uses'[p] # NoUse /\ ~HoldsPermit(p)' /\ ~WaitsForPermit(p)'
<1> DEFINE k == uses[p].key
           s == uses[p].semaphore
<1>1. /\ uses[p] # NoUse /\ holder[k][s] = p
      /\ holder' = [holder EXCEPT ![k][s] = NoCaller]
      /\ UNCHANGED <<locks, uses, waiters>>
  BY DEF ExitLock, HoldsPermit
<1>2. k \in Keys /\ s \in Callers /\ p # NoCaller
  BY <1>1, UseTyped, KeyedLockAssumption
<1>3. ~WaitsForPermit(p)
  BY HoldersDoNotWait DEF ExitLock
<1>4. ~HoldsPermit(p)' /\ ~WaitsForPermit(p)'
  <2>1. ~WaitsForPermit(p)'
    BY <1>1, <1>3 DEF WaitsForPermit, Queue
  <2>2. holder'[k][s] = NoCaller
    BY <1>1, <1>2, TableUpdate DEF QueueInv, QueueTypeOK
  <2> QED
    BY <1>1, <1>2, <2>1, <2>2 DEF HoldsPermit
<1> HIDE DEF k, s
<1>5. ASSUME NEW q \in Callers \ {p} PROVE Stays(q)
  <2>1. q \in Callers /\ holder[k][s] # q /\ NoCaller # q
        /\ NoCaller \in Callers \cup {NoCaller}
    BY <1>1, KeyedLockAssumption
  <2> QED
    BY <1>1, <1>2, <2>1, ElsewhereStays
<1>6. /\ holder' \in [Keys -> [Callers -> Callers \cup {NoCaller}]]
      /\ \A j \in Keys, r \in Callers : holder'[j][r] \in {NoCaller, holder[j][r]}
  BY <1>1, <1>2, TableUpdate DEF QueueInv, QueueTypeOK
<1>7. \A j \in Keys, r \in Callers : \A i \in DOMAIN waiters[j][r] : waiters[j][r][i] # NoCaller
  BY KeyedLockAssumption DEF QueueInv, QueueTypeOK
<1>8. LockInv'
  <2>1. ExitLock(p) => [LockNext]_lockVars
    BY DEF LockNext
  <2> QED
    BY <2>1, LockStep DEF QueueInv
<1>9. QueueTypeOK' /\ Served'
  BY <1>1, <1>6 DEF QueueInv, QueueTypeOK, Served
<1>10. Lined'
  BY <1>1, <1>6, <1>7 DEF QueueInv, Lined, Reached, Once
<1> QED
  BY <1>1, <1>4, <1>5, <1>8, <1>9, <1>10 DEF QueueInv, OthersAreLeft

\* Leaving: the caller is in nobody's way.
LEMMA LeaveQueues ==
  ASSUME QueueInv, NEW p \in Callers, LeaveLock(p)
  PROVE  QueueInv' /\ OthersAreLeft(p) /\ uses'[p] = NoUse
<1>1. /\ uses[p] # NoUse /\ ~HoldsPermit(p) /\ ~WaitsForPermit(p)
      /\ uses' = [uses EXCEPT ![p] = NoUse] /\ UNCHANGED <<holder, waiters>>
  BY DEF LeaveLock
<1>2. uses'[p] = NoUse /\ \A q \in Callers \ {p} : uses'[q] = uses[q]
  BY <1>1 DEF QueueInv, LockInv, LockTypeOK
<1>3. OthersAreLeft(p)
  BY <1>1, <1>2 DEF OthersAreLeft, Stays, HoldsPermit, WaitsForPermit, Queue
<1>4. ASSUME NEW k \in Keys, NEW s \in Callers
      PROVE  /\ holder[k][s] # p
             /\ \A i \in DOMAIN waiters[k][s] : waiters[k][s][i] # p
  <2>1. Use(k, s).key = k /\ Use(k, s).semaphore = s
    BY UseIsUse
  <2>2. p # NoCaller
    BY KeyedLockAssumption
  <2>3. holder[k][s] # p
    BY <1>1, <2>1, <2>2 DEF QueueInv, Served, HoldsPermit
  <2>4. ASSUME NEW i \in DOMAIN waiters[k][s], waiters[k][s][i] = p PROVE FALSE
    <3>1. uses[p] = Use(k, s)
      BY <2>4 DEF QueueInv, Lined, Reached
    <3> QED
      BY <1>1, <2>1, <2>4, <3>1 DEF WaitsForPermit, Queue
  <2> QED
    BY <2>3, <2>4
<1>5. \A k \in Keys, s \in Callers :
        /\ holder[k][s] \in Callers \cup {NoCaller}
        /\ \A i \in DOMAIN waiters[k][s] : waiters[k][s][i] \in Callers
  BY DEF QueueInv, QueueTypeOK
<1>6. LockInv'
  BY LeavePreserves DEF QueueInv
<1>7. QueueTypeOK'
  BY <1>1 DEF QueueInv, QueueTypeOK
<1>8. Served'
  BY <1>1, <1>2, <1>4, <1>5 DEF QueueInv, Served
<1>9. Lined'
  BY <1>1, <1>2, <1>4, <1>5 DEF QueueInv, Lined, Reached, Once
<1> QED
  BY <1>2, <1>3, <1>6, <1>7, <1>8, <1>9 DEF QueueInv

LEMMA TailProperties ==
  ASSUME NEW S, NEW q \in Seq(S), q # <<>>
  PROVE  /\ Head(q) = q[1] /\ Head(q) \in S /\ Tail(q) \in Seq(S)
         /\ 1 \in DOMAIN q /\ Without(Tail(q), q, 1)
<1>1. /\ Head(q) = q[1] /\ Head(q) \in S /\ Tail(q) \in Seq(S)
      /\ Len(Tail(q)) = Len(q) - 1 /\ \A i \in 1 .. Len(q) - 1 : Tail(q)[i] = q[i + 1]
  BY HeadTailProperties
<1>2. DOMAIN q = 1 .. Len(q) /\ Len(q) \in Nat /\ Len(q) # 0
  BY EmptySeq
<1>3. DOMAIN Tail(q) = 1 .. Len(q) - 1
  BY <1>1, LenProperties
<1>4. \A i \in 1 .. Len(q) - 1 : Tail(q)[i] = IF i < 1 THEN q[i] ELSE q[i + 1]
  BY <1>1
<1> QED
  BY <1>1, <1>2, <1>3, <1>4 DEF Without

Shortened(k, s, i, w) ==
  /\ waiters' \in [Keys -> [Callers -> Seq(Callers)]]
  /\ \A j \in Keys, r \in Callers :
       waiters'[j][r] = IF j = k /\ r = s THEN w ELSE waiters[j][r]
  /\ \A j \in Keys, r \in Callers :
       /\ \A m \in DOMAIN waiters'[j][r] : \E n \in DOMAIN waiters[j][r] :
            waiters'[j][r][m] = waiters[j][r][n]
       /\ Once(waiters[j][r])'
  /\ \A m \in DOMAIN w : w[m] # waiters[k][s][i]
  /\ \A p \in Callers : p # waiters[k][s][i] => WaitsForPermit(p)' = WaitsForPermit(p)

\* The line of a semaphore without one element, in the places of the others: who
\* was in it still is, but the one that has gone.
LEMMA ShorterLine ==
  ASSUME QueueInv, NEW k \in Keys, NEW s \in Callers, NEW i \in DOMAIN waiters[k][s],
         NEW w \in Seq(Callers), Without(w, waiters[k][s], i),
         waiters' = [waiters EXCEPT ![k][s] = w], uses' = uses
  PROVE  Shortened(k, s, i, w)
<1> DEFINE q == waiters[k][s]
<1>1. q \in Seq(Callers) /\ Once(q)
  BY DEF QueueInv, QueueTypeOK, Lined
<1>2. waiters' = [waiters EXCEPT ![k][s] = w] /\ i \in DOMAIN q
  OBVIOUS
<1>3. DOMAIN w = 1 .. Len(q) - 1
      /\ \A j \in 1 .. Len(q) - 1 : w[j] = IF j < i THEN q[j] ELSE q[j + 1]
  BY DEF Without
<1> HIDE DEF q
<1>4. DOMAIN q = 1 .. Len(q) /\ Len(q) \in Nat /\ i \in 1 .. Len(q)
  BY <1>1, <1>2
<1>5. /\ waiters' \in [Keys -> [Callers -> Seq(Callers)]]
      /\ \A j \in Keys, r \in Callers :
           waiters'[j][r] = IF j = k /\ r = s THEN w ELSE waiters[j][r]
  <2>1. waiters \in [Keys -> [Callers -> Seq(Callers)]]
    BY DEF QueueInv, QueueTypeOK
  <2> QED
    BY <1>2, <2>1, TableUpdate
<1>6. \A m \in DOMAIN w : \E n \in DOMAIN q : n # i /\ w[m] = q[n]
  BY <1>3, <1>4
<1>7. \A m \in DOMAIN w : w[m] # q[i]
  BY <1>1, <1>2, <1>6 DEF Once
<1>8. \A n \in DOMAIN q : n # i => \E m \in DOMAIN w : w[m] = q[n]
  <2> SUFFICES ASSUME NEW n \in DOMAIN q, n # i PROVE \E m \in DOMAIN w : w[m] = q[n]
    OBVIOUS
  <2>1. CASE n < i
    <3>1. n \in DOMAIN w /\ w[n] = q[n]
      BY <2>1, <1>3, <1>4
    <3> QED
      BY <3>1
  <2>2. CASE n > i
    <3>1. n - 1 \in DOMAIN w /\ ~(n - 1 < i) /\ (n - 1) + 1 = n
      BY <2>2, <1>3, <1>4
    <3>2. w[n - 1] = q[n]
      BY <3>1, <1>3
    <3> QED
      BY <3>1, <3>2
  <2> QED
    BY <2>1, <2>2, <1>4
<1>9. Once(w)
  <2> SUFFICES ASSUME NEW a \in DOMAIN w, NEW b \in DOMAIN w, w[a] = w[b] PROVE a = b
    BY DEF Once
  <2> DEFINE pos(j) == IF j < i THEN j ELSE j + 1
  <2>1. ASSUME NEW j \in DOMAIN w PROVE pos(j) \in DOMAIN q /\ w[j] = q[pos(j)]
    <3>1. j \in 1 .. Len(q) - 1
      BY <1>3
    <3>2. CASE j < i
      BY <3>1, <3>2, <1>3, <1>4
    <3>3. CASE ~(j < i)
      BY <3>1, <3>3, <1>3, <1>4
    <3> QED
      BY <3>2, <3>3
  <2>2. pos(a) = pos(b)
    BY <2>1, <1>1 DEF Once
  <2> QED
    BY <2>2, <1>3, <1>4
<1>10. ASSUME NEW j \in Keys, NEW r \in Callers
       PROVE  /\ \A m \in DOMAIN waiters'[j][r] : \E n \in DOMAIN waiters[j][r] :
                   waiters'[j][r][m] = waiters[j][r][n]
              /\ Once(waiters[j][r])'
  <2>1. CASE j = k /\ r = s
    <3>1. waiters'[j][r] = w /\ waiters[j][r] = q
      BY <2>1, <1>5 DEF q
    <3> QED
      BY <3>1, <1>6, <1>9 DEF Once
  <2>2. CASE ~(j = k /\ r = s)
    <3>1. waiters'[j][r] = waiters[j][r] /\ Once(waiters[j][r])
      BY <2>2, <1>5 DEF QueueInv, Lined
    <3> QED
      BY <3>1 DEF Once
  <2> QED
    BY <2>1, <2>2
<1>11. ASSUME NEW p \in Callers, p # q[i] PROVE WaitsForPermit(p)' = WaitsForPermit(p)
  <2>1. CASE uses[p] = NoUse
    BY <2>1 DEF WaitsForPermit
  <2>2. CASE uses[p] # NoUse
    <3>1. uses[p].key \in Keys /\ uses[p].semaphore \in Callers
      BY <2>2, UseTyped
    <3>2. CASE uses[p].key = k /\ uses[p].semaphore = s
      <4>1. Queue(p)' = w /\ Queue(p) = q
        BY <3>1, <3>2, <1>5 DEF Queue, q
      <4>2. (\E m \in DOMAIN w : w[m] = p) <=> \E n \in DOMAIN q : q[n] = p
        BY <1>6, <1>8, <1>11
      <4> QED
        BY <2>2, <4>1, <4>2 DEF WaitsForPermit
    <3>3. CASE ~(uses[p].key = k /\ uses[p].semaphore = s)
      <4>1. Queue(p)' = Queue(p)
        BY <3>1, <3>3, <1>5 DEF Queue
      <4> QED
        BY <4>1 DEF WaitsForPermit
    <3> QED
      BY <3>2, <3>3
  <2> QED
    BY <2>1, <2>2
<1>12. q = waiters[k][s]
  BY DEF q
<1> QED
  BY <1>5, <1>7, <1>10, <1>11, <1>12 DEF Shortened

\* A waiter that gives up is gone from the line, and the others wait on.
LEMMA GiveUpQueues ==
  ASSUME QueueInv, NEW p \in Callers, GiveUpLock(p)
  PROVE  /\ QueueInv' /\ OthersAreLeft(p)
         /\ uses'[p] # NoUse /\ ~HoldsPermit(p)' /\ ~WaitsForPermit(p)'
<1> DEFINE k == uses[p].key
           s == uses[p].semaphore
<1>1. PICK i \in DOMAIN Queue(p) :
        /\ uses[p] # NoUse /\ Queue(p)[i] = p
        /\ waiters' = [waiters EXCEPT ![k][s] = RemoveAt(Queue(p), i)]
        /\ UNCHANGED <<locks, uses, holder>>
  BY DEF GiveUpLock, Queue
<1>2. k \in Keys /\ s \in Callers /\ Queue(p) = waiters[k][s] /\ Queue(p) \in Seq(Callers)
  BY <1>1, UseTyped DEF Queue
<1> DEFINE w == RemoveAt(Queue(p), i)
<1>3. w \in Seq(Callers) /\ Without(w, Queue(p), i)
  BY <1>2, RemoveAtProperties
<1>4. waiters[k][s][i] = p /\ i \in DOMAIN waiters[k][s] /\ uses' = uses
      /\ waiters' = [waiters EXCEPT ![k][s] = w]
  BY <1>1, <1>2
<1>5. ~HoldsPermit(p)
  BY <1>1, HoldersDoNotWait DEF WaitsForPermit
<1>6. Queue(p)' = waiters'[k][s] /\ HoldsPermit(p)' = HoldsPermit(p)
  BY <1>1 DEF Queue, HoldsPermit
<1> HIDE DEF k, s, w
<1>7. Shortened(k, s, i, w)
  BY <1>2, <1>3, <1>4, ShorterLine
<1>8. ~WaitsForPermit(p)'
  <2>1. Queue(p)' = w
    BY <1>2, <1>6, <1>7 DEF Shortened
  <2> QED
    BY <2>1, <1>4, <1>7 DEF WaitsForPermit, Shortened
<1>9. OthersAreLeft(p)
  <2> SUFFICES ASSUME NEW q \in Callers \ {p} PROVE Stays(q)
    BY DEF OthersAreLeft
  <2>1. WaitsForPermit(q)' = WaitsForPermit(q)
    BY <1>4, <1>7 DEF Shortened
  <2> QED
    BY <2>1, <1>1 DEF Stays, HoldsPermit
<1>10. LockInv'
  <2>1. GiveUpLock(p) => [LockNext]_lockVars
    BY DEF LockNext
  <2> QED
    BY <2>1, LockStep DEF QueueInv
<1>11. QueueTypeOK' /\ Served'
  BY <1>1, <1>7 DEF QueueInv, QueueTypeOK, Served, Shortened
<1>12. ASSUME NEW j \in Keys, NEW r \in Callers
       PROVE  Reached(waiters[j][r], j, r)'
  <2> SUFFICES ASSUME NEW m \in DOMAIN waiters'[j][r]
               PROVE  uses'[waiters'[j][r][m]] = Use(j, r) /\ waiters'[j][r][m] # holder'[j][r]
    BY DEF Reached
  <2>1. PICK n \in DOMAIN waiters[j][r] : waiters'[j][r][m] = waiters[j][r][n]
    BY <1>7 DEF Shortened
  <2>2. uses[waiters[j][r][n]] = Use(j, r) /\ waiters[j][r][n] # holder[j][r]
    BY DEF QueueInv, Lined, Reached
  <2> QED
    BY <2>1, <2>2, <1>1
<1>13. Lined'
  BY <1>7, <1>12 DEF Lined, Shortened
<1> QED
  BY <1>1, <1>5, <1>6, <1>8, <1>9, <1>10, <1>11, <1>13 DEF QueueInv

\* Who is in a line was in it before.
LEMMA ShorterLineFrom ==
  ASSUME NEW k \in Keys, NEW s \in Callers, NEW i, NEW w, Shortened(k, s, i, w),
         NEW j \in Keys, NEW r \in Callers, NEW m \in DOMAIN waiters'[j][r]
  PROVE  \E n \in DOMAIN waiters[j][r] : waiters'[j][r][m] = waiters[j][r][n]
BY Zenon DEF Shortened

\* The permit reaches the first in line: everyone holds or waits as before, and
\* no holder loses it.
LEMMA WakeQueues ==
  ASSUME QueueInv, NEW k \in Keys, NEW s \in Callers, WakeWaiter(k, s)
  PROVE  /\ QueueInv' /\ uses' = uses
         /\ \A p \in Callers :
              /\ HoldsPermit(p) => HoldsPermit(p)'
              /\ (HoldsPermit(p)' \/ WaitsForPermit(p)') <=> (HoldsPermit(p) \/ WaitsForPermit(p))
<1> DEFINE q == waiters[k][s]
<1>1. /\ holder[k][s] = NoCaller /\ q # <<>> /\ UNCHANGED <<locks, uses>>
      /\ holder' = [holder EXCEPT ![k][s] = Head(q)]
      /\ waiters' = [waiters EXCEPT ![k][s] = Tail(q)]
  BY DEF WakeWaiter
<1>2. q \in Seq(Callers)
  BY DEF QueueInv, QueueTypeOK
<1>3. /\ Head(q) = q[1] /\ Head(q) \in Callers /\ Tail(q) \in Seq(Callers)
      /\ 1 \in DOMAIN q /\ Without(Tail(q), q, 1)
  BY <1>1, <1>2, TailProperties
<1>4. PICK h \in Callers : h = Head(q) /\ h = q[1]
  BY <1>3
<1>5. uses[h] = Use(k, s)
  BY <1>3, <1>4 DEF QueueInv, Lined, Reached
<1>6. Shortened(k, s, 1, Tail(q))
  BY <1>1, <1>3, ShorterLine
<1> HIDE DEF q
<1>7. /\ holder' \in [Keys -> [Callers -> Callers \cup {NoCaller}]]
      /\ \A j \in Keys, r \in Callers :
           holder'[j][r] = IF j = k /\ r = s THEN h ELSE holder[j][r]
  BY <1>1, <1>4, TableUpdate DEF QueueInv, QueueTypeOK
<1>8. ASSUME NEW p \in Callers, p = h PROVE HoldsPermit(p)' /\ WaitsForPermit(p)
  <2>1. uses[p] # NoUse /\ uses[p].key = k /\ uses[p].semaphore = s
    BY <1>5, <1>8, UseIsUse
  <2>2. HoldsPermit(p)'
    BY <2>1, <1>1, <1>7, <1>8 DEF HoldsPermit
  <2>3. Queue(p) = q
    BY <2>1 DEF Queue, q
  <2> QED
    BY <2>1, <2>2, <2>3, <1>3, <1>4, <1>8 DEF WaitsForPermit
<1>9. ASSUME NEW p \in Callers, p # h
      PROVE  HoldsPermit(p)' = HoldsPermit(p) /\ WaitsForPermit(p)' = WaitsForPermit(p)
  <2>1. WaitsForPermit(p)' = WaitsForPermit(p)
    BY <1>4, <1>6, <1>9 DEF Shortened, q
  <2>2. CASE uses[p] = NoUse
    BY <2>1, <2>2, <1>1 DEF HoldsPermit
  <2>3. CASE uses[p] # NoUse
    <3>1. uses[p].key \in Keys /\ uses[p].semaphore \in Callers /\ p # NoCaller
      BY <2>3, UseTyped, KeyedLockAssumption
    <3>2. holder'[uses[p].key][uses[p].semaphore] = p
            <=> holder[uses[p].key][uses[p].semaphore] = p
      BY <3>1, <1>1, <1>7, <1>9
    <3> QED
      BY <2>1, <3>2, <1>1 DEF HoldsPermit
  <2> QED
    BY <2>2, <2>3
<1>10. \A p \in Callers :
         /\ HoldsPermit(p) => HoldsPermit(p)'
         /\ (HoldsPermit(p)' \/ WaitsForPermit(p)') <=> (HoldsPermit(p) \/ WaitsForPermit(p))
  <2> SUFFICES ASSUME NEW p \in Callers
               PROVE  /\ HoldsPermit(p) => HoldsPermit(p)'
                      /\ (HoldsPermit(p)' \/ WaitsForPermit(p)')
                           <=> (HoldsPermit(p) \/ WaitsForPermit(p))
    OBVIOUS
  <2>1. CASE p = h
    <3>1. HoldsPermit(p)' /\ WaitsForPermit(p)
      BY <2>1, <1>8
    <3> QED
      BY <3>1, Zenon
  <2>2. CASE p # h
    <3>1. HoldsPermit(p)' = HoldsPermit(p) /\ WaitsForPermit(p)' = WaitsForPermit(p)
      BY <2>2, <1>9
    <3> QED
      BY <3>1, Zenon
  <2> QED
    BY <2>1, <2>2
<1>11. LockInv'
  <2>1. WakeWaiter(k, s) => [LockNext]_lockVars
    BY DEF LockNext
  <2> QED
    BY <2>1, LockStep DEF QueueInv
<1>12. QueueTypeOK' /\ Served'
  <2>1. QueueTypeOK'
    BY <1>6, <1>7 DEF QueueTypeOK, Shortened
  <2>2. ASSUME NEW j \in Keys, NEW r \in Callers, holder'[j][r] # NoCaller
        PROVE  uses'[holder'[j][r]] = Use(j, r)
    <3>1. CASE j = k /\ r = s
      BY <3>1, <1>1, <1>5, <1>7
    <3>2. CASE ~(j = k /\ r = s)
      BY <3>2, <2>2, <1>1, <1>7 DEF QueueInv, Served
    <3> QED
      BY <3>1, <3>2
  <2> QED
    BY <2>1, <2>2 DEF Served
<1>13. ASSUME NEW j \in Keys, NEW r \in Callers
       PROVE  Reached(waiters[j][r], j, r)'
  <2> SUFFICES ASSUME NEW m \in DOMAIN waiters'[j][r]
               PROVE  uses'[waiters'[j][r][m]] = Use(j, r) /\ waiters'[j][r][m] # holder'[j][r]
    BY DEF Reached
  <2>1. PICK n \in DOMAIN waiters[j][r] : waiters'[j][r][m] = waiters[j][r][n]
    BY <1>6, ShorterLineFrom
  <2>2. uses[waiters[j][r][n]] = Use(j, r) /\ waiters[j][r][n] # holder[j][r]
    BY DEF QueueInv, Lined, Reached
  <2>3. waiters'[j][r][m] # holder'[j][r]
    <3>1. CASE j = k /\ r = s
      <4>1. waiters'[j][r] = Tail(q) /\ holder'[j][r] = h
        BY <3>1, <1>6, <1>7 DEF Shortened
      <4>2. \A x \in DOMAIN Tail(q) : Tail(q)[x] # h
        BY <1>4, <1>6 DEF Shortened, q
      <4> QED
        BY <4>1, <4>2
    <3>2. CASE ~(j = k /\ r = s)
      BY <3>2, <2>1, <2>2, <1>7
    <3> QED
      BY <3>1, <3>2
  <2> QED
    BY <2>1, <2>2, <2>3, <1>1
<1>14. Lined'
  BY <1>6, <1>13 DEF Lined, Shortened
<1> QED
  BY <1>1, <1>10, <1>11, <1>12, <1>14 DEF QueueInv

-----------------------------------------------------------------------------
LEMMA QueueInitially == ASSUME LockInit PROVE QueueInv
<1>1. LockInv
  BY LockInitially
<1>2. \A k \in Keys, s \in Callers : holder[k][s] = NoCaller /\ waiters[k][s] = <<>>
  BY DEF LockInit
<1>3. QueueTypeOK
  BY DEF LockInit, QueueTypeOK
<1> QED
  BY <1>1, <1>2, <1>3 DEF QueueInv, Served, Lined, Reached, Once

LEMMA QueueStep == ASSUME QueueInv, [LockNext]_lockVars PROVE QueueInv'
<1>1. CASE UNCHANGED lockVars
  <2>1. LockInv'
    BY <1>1, LockStep DEF QueueInv
  <2> QED
    BY <1>1, <2>1 DEF lockVars, QueueInv, QueueTypeOK, Served, Lined, Reached, Once
<1>2. ASSUME NEW p \in Callers, NEW k \in Keys, AskLock(p, k) PROVE QueueInv'
  BY <1>2, AskQueues
<1>3. ASSUME NEW p \in Callers, GiveUpLock(p) \/ ExitLock(p) \/ LeaveLock(p) PROVE QueueInv'
  BY <1>3, GiveUpQueues, ExitQueues, LeaveQueues
<1>4. ASSUME NEW k \in Keys, NEW s \in Callers, WakeWaiter(k, s) PROVE QueueInv'
  BY <1>4, WakeQueues
<1> QED
  BY <1>1, <1>2, <1>3, <1>4 DEF LockNext

\* A caller that waits is not forgotten: the permit is free and it or one before it
\* can have it, or the holder is another caller of the same key.
WaitersAreServed ==
  \A p \in Callers : WaitsForPermit(p) =>
    LET h == holder[uses[p].key][uses[p].semaphore] IN
    h = NoCaller \/ (h \in Callers \ {p} /\ HoldsPermit(h) /\ uses[h].key = uses[p].key)

LEMMA QueueServes == ASSUME QueueInv PROVE WaitersAreServed
<1> SUFFICES ASSUME NEW p \in Callers, WaitsForPermit(p),
                    holder[uses[p].key][uses[p].semaphore] # NoCaller
             PROVE  LET h == holder[uses[p].key][uses[p].semaphore] IN
                    h \in Callers \ {p} /\ HoldsPermit(h) /\ uses[h].key = uses[p].key
  BY DEF WaitersAreServed
<1> DEFINE k == uses[p].key
           s == uses[p].semaphore
           h == holder[k][s]
<1>1. k \in Keys /\ s \in Callers /\ uses[p] # NoUse /\ h \in Callers
  BY UseTyped DEF WaitsForPermit
<1>2. uses[h] = Use(k, s) /\ uses[h] # NoUse /\ uses[h].key = k /\ uses[h].semaphore = s
  BY <1>1, UseIsUse DEF QueueInv, Served
<1>3. HoldsPermit(h)
  BY <1>2 DEF HoldsPermit
<1>4. h # p
  BY <1>3, HoldersDoNotWait
<1> QED
  BY <1>1, <1>2, <1>3, <1>4

\* KeyedLock.withLock: a semaphore that is thrown away leaves nobody waiting for a
\* permit that no caller holds and none can hand on, interrupted waiters included.
THEOREM WaitersServed == LockSpec => []WaitersAreServed
<1>1. LockInit => QueueInv
  BY QueueInitially
<1>2. QueueInv /\ [LockNext]_lockVars => QueueInv'
  BY QueueStep
<1>3. QueueInv => WaitersAreServed
  BY QueueServes
<1> QED
  BY <1>1, <1>2, <1>3, PTL DEF LockSpec
=============================================================================
