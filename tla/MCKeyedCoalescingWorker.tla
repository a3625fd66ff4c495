----------------------- MODULE MCKeyedCoalescingWorker -----------------------
(* Instances of KeyedCoalescingWorker for TLC. *)
EXTENDS KeyedCoalescingWorker
=============================================================================
