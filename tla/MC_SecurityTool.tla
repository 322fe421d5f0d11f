-------------------------- MODULE MC_SecurityTool --------------------------
(* Instances of SecurityTool for TLC. *)
EXTENDS SecurityTool, TLC

CONSTANTS p1, p2, pw, other

AllActions == {"unlock", "change", "disable", "enable", "reset"}

ProcSymmetry == Permutations(Procs)
=============================================================================
