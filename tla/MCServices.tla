------------------------------ MODULE MCServices ------------------------------
(* The services behind the pages, checked in one run: they share no row, so a  *)
(* behaviour belongs to one of them, chosen at its start, and the states of    *)
(* the run are the sum of theirs.  Access to a community comes twice: people   *)
(* who dispute the uses of a link, and one person let in and put out while     *)
(* roles change and the space is switched.                                     *)
EXTENDS OrgSeats, CommunityAccess, CommunityEntry, CourseItems, SkillVersions, FloodGuard, TLC

VARIABLE service

vars == <<OrgVars, ComVars, EntryVars, CourseVars, SkillVars, FloodVars, service>>

Init ==
  /\ OrgInit /\ ComInit /\ EntryInit /\ CourseInit /\ SkillInit /\ FloodInit
  /\ service \in {"orgs", "links", "spaces", "entry", "training", "studio", "contacts"}
  /\ service # "orgs" => seatlimit = MaxSeats
  /\ service # "spaces" => adminonly = {}
  /\ service # "entry" => policy = "open"
  /\ service # "studio" => skill.schema = CHOOSE s \in Schema : TRUE

Undergo == {comCall'[p].op : p \in Proc}
Involved == {u \in Person : \/ standing[u] # "none" \/ u \in crossed
                            \/ \E i \in Link : <<i, u>> \in redeemed
                            \/ \E p \in Proc : comCall[p].u = u}

Next ==
  /\ UNCHANGED service
  /\ \/ service = "orgs" /\ OrgNext
        /\ UNCHANGED <<ComVars, EntryVars, CourseVars, SkillVars, FloodVars>>
     \/ /\ service \in {"links", "spaces"} /\ ComNext
        /\ service = "links" => UNCHANGED adminonly /\ Undergo \subseteq {"none", "join", "redeem", "remove"}
        /\ service = "spaces" =>
             /\ Cardinality(Involved' \ {Founder}) <= 1
             /\ \A p \in Proc : comCall'[p].u = Founder => comCall'[p].op \notin {"join", "ensure", "redeem"}
             /\ \A i \in Link : link'[i] # NoLink => link'[i].cap = 1 /\ link'[i].space \in Space
        /\ UNCHANGED <<OrgVars, EntryVars, CourseVars, SkillVars, FloodVars>>
     \/ service = "entry" /\ EntryNext
        /\ UNCHANGED <<OrgVars, ComVars, CourseVars, SkillVars, FloodVars>>
     \/ service = "training" /\ CourseNext
        /\ UNCHANGED <<OrgVars, ComVars, EntryVars, SkillVars, FloodVars>>
     \/ service = "studio" /\ SkillNext
        /\ UNCHANGED <<OrgVars, ComVars, EntryVars, CourseVars, FloodVars>>
     \/ service = "contacts" /\ FloodNext
        /\ UNCHANGED <<OrgVars, ComVars, EntryVars, CourseVars, SkillVars>>

Spec == Init /\ [][Next]_vars

TypeOK == OrgTypeOK /\ ComTypeOK /\ EntryTypeOK /\ CourseTypeOK /\ SkillTypeOK /\ FloodTypeOK

\* The constants of different services share model values, so that one small
\* group permutes users and items alike.
Symmetry == Permutations(Proc) \cup Permutations(User \ {Founder})

==============================================================================
