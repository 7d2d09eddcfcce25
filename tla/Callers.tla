-------------------------------- MODULE Callers --------------------------------
(* What the service modules share: calls of route handlers in flight at the    *)
(* same time, and the people they are about.                                   *)
EXTENDS Naturals, FiniteSets

CONSTANTS
  Proc,      \* calls in flight at the same time
  User,      \* people
  Founder    \* the one who owns what a behaviour starts with

ASSUME CallersAssumption == Founder \in User /\ IsFiniteSet(User)

==============================================================================
