--------------------------- MODULE CoalescingBuffer ---------------------------
(***************************************************************************)
(* What a keyed coalescing worker promises: the values of a key pile up    *)
(* until they are worked on together, one key at a time, and a drain of a  *)
(* key returns when nothing of it is left.                                 *)
(***************************************************************************)
CONSTANTS Keys, NoKey, Values, Drainers

VARIABLES
  pending,  \* the values of each key that wait
  work,     \* the key that is worked on, with its values
  drains    \* the key each drain waits for

vars == <<pending, work, drains>>

Idle == [key |-> NoKey, values |-> {}]

Init ==
  /\ pending = [k \in Keys |-> {}]
  /\ work = Idle
  /\ drains = [d \in Drainers |-> NoKey]

Put(k, v) ==
  /\ pending' = [pending EXCEPT ![k] = @ \cup {v}]
  /\ UNCHANGED <<work, drains>>

Begin(k) ==
  /\ work = Idle /\ pending[k] # {}
  /\ work' = [key |-> k, values |-> pending[k]]
  /\ pending' = [pending EXCEPT ![k] = {}]
  /\ UNCHANGED drains

End ==
  /\ work # Idle
  /\ work' = Idle
  /\ UNCHANGED <<pending, drains>>

Ask(d, k) ==
  /\ drains[d] = NoKey
  /\ drains' = [drains EXCEPT ![d] = k]
  /\ UNCHANGED <<pending, work>>

Return(d) ==
  /\ drains[d] # NoKey
  /\ pending[drains[d]] = {} /\ work.key # drains[d]
  /\ drains' = [drains EXCEPT ![d] = NoKey]
  /\ UNCHANGED <<pending, work>>

Next ==
  \/ \E k \in Keys : (\E v \in Values : Put(k, v)) \/ Begin(k)
  \/ End
  \/ \E d \in Drainers : Return(d) \/ \E k \in Keys : Ask(d, k)

Spec == Init /\ [][Next]_vars
=============================================================================
