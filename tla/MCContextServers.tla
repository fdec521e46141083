-------------------------- MODULE MCContextServers --------------------------
(* Instances of ContextServers for TLC. *)
EXTENDS ContextServers, TLC

On(c) == [enabled |-> TRUE, configuration |-> c]
Off(c) == [enabled |-> FALSE, configuration |-> c]

CONSTANTS custom, extension, c1, c2, x1, x2

\* One server of the user's own, with two commands, and one of an extension.
TwoServers == [s \in Servers |->
  IF s = custom THEN {Absent, On(c1), On(c2), Off(c1)} ELSE {Absent, On(x2), Off(x2)}]

InstanceSymmetry == Permutations(Instances)
=============================================================================
