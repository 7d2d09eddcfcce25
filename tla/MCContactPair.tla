----------------------------- MODULE MCContactPair -----------------------------
(* Small instances of ContactPair for TLC. *)
EXTENDS ContactPair, TLC

Symmetry == Permutations(Conv) \cup Permutations(Invite) \cup Permutations(Proc)

==============================================================================
