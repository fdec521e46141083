---------------------------- MODULE MCAcpThread ----------------------------
(* Instances of AcpThread for TLC. *)
EXTENDS AcpThread, TLC

ToolSymmetry == Permutations(ToolIds)
=============================================================================
