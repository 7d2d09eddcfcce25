---------------------------- MODULE MCControlRelay ----------------------------
(* Small instances of ControlRelay for TLC. *)
EXTENDS ControlRelay, TLC

\* For the safety properties only: symmetry is not sound for liveness.
Symmetry == Permutations(Agent)

==============================================================================
