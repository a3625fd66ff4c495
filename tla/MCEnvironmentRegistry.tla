----------------------- MODULE MCEnvironmentRegistry -----------------------
(* Instances of EnvironmentRegistry for TLC: one environment. *)
EXTENDS EnvironmentRegistry

MCSupervisors == {1, 2}
MCCallers == Users \cup {Platform, Discovery}
              \cup {Learner(s) : s \in MCSupervisors} \cup {Watcher(s) : s \in MCSupervisors}
MCSymmetry == Permutations(DirectIds) \cup Permutations(Addresses)
=============================================================================
