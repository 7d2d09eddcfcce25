------------------------------ MODULE MCRealtime ------------------------------
(* What is live, checked in one run: the event log and resume, presence,       *)
(* one-to-one calls, message threads, presentations and the jobs of a space's  *)
(* assistant share no state, so a behaviour belongs to one of them, chosen at  *)
(* its start, and the states of the run are the sum of theirs.                 *)
EXTENDS EventReplay, Presence, DmCalls, ChatThread, PresentationRoom, SpaceKnowledge, TLC

CONSTANTS ann, ben, cat, a1, b1, k1   \* three users and one page of each

VARIABLE part

vars == <<ReplayVars, PresenceVars, CallVars, ChatVars, PresVars, KnowVars, part>>

Dms == {{ann, ben}, {ben, cat}}
Own == [t \in Page |-> CASE t = a1 -> ann [] t = b1 -> ben [] t = k1 -> cat]

Init ==
  /\ ReplayInit /\ PresenceInit /\ CallsInit /\ ChatInit /\ PresInit /\ KnowInit
  /\ part \in {"events", "presence", "calls", "threads", "presentations", "knowledge"}

Next ==
  /\ UNCHANGED part
  /\ \/ part = "events" /\ ReplayNext
        /\ UNCHANGED <<PresenceVars, CallVars, ChatVars, PresVars, KnowVars>>
     \/ part = "presence" /\ PresenceNext
        /\ UNCHANGED <<ReplayVars, CallVars, ChatVars, PresVars, KnowVars>>
     \/ part = "calls" /\ CallsNext
        /\ UNCHANGED <<ReplayVars, PresenceVars, ChatVars, PresVars, KnowVars>>
     \/ part = "threads" /\ ChatNext
        /\ UNCHANGED <<ReplayVars, PresenceVars, CallVars, PresVars, KnowVars>>
     \/ part = "presentations" /\ PresNext
        /\ UNCHANGED <<ReplayVars, PresenceVars, CallVars, ChatVars, KnowVars>>
     \/ part = "knowledge" /\ KnowNext
        /\ UNCHANGED <<ReplayVars, PresenceVars, CallVars, ChatVars, PresVars>>

Spec == Init /\ [][Next]_vars

TypeOK == ReplayTypeOK /\ PresenceTypeOK /\ CallsTypeOK /\ ChatTypeOK /\ PresTypeOK /\ KnowTypeOK

\* The constants of different parts share model values, so that one small group
\* permutes connections, messages and egresses alike, and one the calls.
Symmetry == Permutations(Conn) \cup Permutations(Proc)

==============================================================================
