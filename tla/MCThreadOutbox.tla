--------------------------- MODULE MCThreadOutbox ---------------------------
(* Instances of ThreadOutbox for TLC: two or fewer messages and writers. *)
EXTENDS ThreadOutbox, TLC

MessageSymmetry == Permutations(Messages)
WriterSymmetry == Permutations(Writers)
=============================================================================
