----------------------------- MODULE MCExecute -----------------------------
(* Instances of Execute for TLC: see the .cfg files. *)
EXTENDS ExecuteProperties, TLC

LinuxFaults == {"thread", "reserve"}
DarwinFaults == {"read", "poll", "kill"}
AllFaults == FaultKinds
Symmetry == Permutations(Forked)
=============================================================================
