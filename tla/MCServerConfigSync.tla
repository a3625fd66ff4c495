-------------------------- MODULE MCServerConfigSync --------------------------
(* Instances of ServerConfigSync for TLC. *)
EXTENDS ServerConfigSync

\* One event of the first session, three of the second.
EventBounds == <<1, 3>>
=============================================================================
