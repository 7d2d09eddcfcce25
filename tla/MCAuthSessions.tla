---------------------------- MODULE MCAuthSessions ----------------------------
(* Small instances of AuthSessions for TLC. *)
EXTENDS AuthSessions, TLC

Symmetry == Permutations(Row) \cup Permutations(Family) \cup Permutations(Proc)

==============================================================================
