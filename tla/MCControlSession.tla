--------------------------- MODULE MCControlSession ---------------------------
(* Small instances of ControlSession for TLC. *)
EXTENDS ControlSession, TLC

Symmetry == Permutations(Session) \cup Permutations(Token) \cup Permutations(Proc)
              \cup Permutations(User)

==============================================================================
