----------------------------- MODULE MCAdmission -----------------------------
(* Sessions, the ways into an account and the audience of a presentation,      *)
(* checked in one run: they share no state, so a behaviour belongs to one of   *)
(* them, chosen at its start, and the states of the run are the sum of theirs. *)
(* The audience comes twice: with hands, under a cap that stays and an end     *)
(* that is final, and without hands, under edits and late starts.              *)
EXTENDS AuthSessions, SignIn, Attendance, TLC

VARIABLE part

AllVars == <<vars, SignInVars, SeatVars, part>>

AllInit ==
  /\ Init /\ SignInInit /\ SeatInit
  /\ part \in {"sessions", "sign-in", "hands", "cap"}
  /\ part \notin {"hands", "cap"} => guests = {} /\ cap = 1

AllNext ==
  /\ UNCHANGED part
  /\ \/ part = "sessions" /\ Next
        /\ UNCHANGED <<SignInVars, SeatVars>>
     \/ part = "sign-in" /\ SignInNext
        /\ UNCHANGED <<vars, SeatVars>>
     \/ /\ part \in {"hands", "cap"} /\ SeatNext
        /\ part = "hands" => UNCHANGED cap /\ (over => over')
        /\ part = "cap" => \A p \in Proc : seatCall'[p].at \notin {"up", "down"}
        /\ UNCHANGED <<vars, SignInVars>>

AllSpec == AllInit /\ [][AllNext]_AllVars

AllTypeOK == TypeOK /\ SignInTypeOK /\ SeatTypeOK

\* The constants of different parts share model values, so that one group
\* permutes rows and seats, families, identities and links alike.
Symmetry == Permutations(Row) \cup Permutations(Family) \cup Permutations(Proc)

==============================================================================
