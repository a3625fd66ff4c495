------------------------ MODULE EnvironmentSession ------------------------
(***************************************************************************)
(* What the rest of the client relies on: an environment has one session   *)
(* at a time, opened only while the connection is wanted, under a          *)
(* generation no earlier session had, and the generation announced with    *)
(* the connected state is the one of that session.  Subscriptions follow   *)
(* the session; packages/client-runtime/src/state/vcs.ts:189 reloads       *)
(* whenever the announced generation changes.                              *)
(***************************************************************************)
EXTENDS Integers

VARIABLES
  wanted,     \* the user asked for a connection
  current,    \* generation of the published session, 0 when there is none
  last,       \* newest generation published so far
  announced,  \* generation of the connected state, 0 in any other state
  closing     \* the owner is shutting down

sessionVars == <<wanted, current, last, announced, closing>>

Init ==
  /\ wanted \in BOOLEAN /\ closing = FALSE
  /\ current = 0 /\ last = 0 /\ announced = 0

ChangeMind ==
  /\ wanted' = ~wanted
  /\ UNCHANGED <<current, last, announced, closing>>

Open ==
  /\ wanted
  /\ current = 0 /\ announced = 0
  /\ current' > last
  /\ last' = current' /\ announced' = current'
  /\ UNCHANGED <<wanted, closing>>

Withdraw ==
  /\ current' = 0
  /\ UNCHANGED <<wanted, last, announced, closing>>

\* The connected state outlives its session until the failure is published.
StopAnnouncing ==
  /\ current = 0
  /\ announced' = 0
  /\ UNCHANGED <<wanted, current, last, closing>>

\* A session that is just being set up may still open before its fiber stops.
Close ==
  /\ closing' = TRUE
  /\ current' = 0
  /\ UNCHANGED <<wanted, last, announced>>

Next == ChangeMind \/ Open \/ Withdraw \/ StopAnnouncing \/ Close

Spec == Init /\ [][Next]_sessionVars
=============================================================================
