---------------------------- MODULE CommunityAccess ----------------------------
(***************************************************************************)
(* Membership of one community (lib/communities/membership.ts): joining,   *)
(* invitation links with a use cap, roles and removal, and the             *)
(* conversations of its spaces that membership opens.  Nothing runs in a   *)
(* transaction.  The community admits in every way a join policy names, so *)
(* that each behaviour of each policy is one of the model's.               *)
(*                                                                         *)
(* A space is open to every member, who is synced into it, or adminonly,   *)
(* and the host may switch it.  Only owners are synced into one that is    *)
(* adminonly; a link to it and the consumer seam put others there.         *)
(***************************************************************************)
EXTENDS Callers

CONSTANTS
  Person, Link, Space,   \* people about; invitation links; spaces
  MaxUses                \* greatest cap of a link

ASSUME CommunityAssumption == Founder \in Person /\ IsFiniteSet(Person) /\ MaxUses \in Nat /\ "none" \notin Space

VARIABLES
  standing,    \* standing[u]: the communitymembers row, "none" without one
  chats,       \* chats[u]: the spaces whose conversation u is a member of
  adminonly,   \* spaces.adminonly: the spaces it is set for
  link,        \* link[i]: the communityinvites row
  redeemed,    \* communityinviteredemptions: pairs of link and user
  comCall,     \* comCall[p]: where call p stands
  crossed,     \* history: users being admitted and put out at the same time
  waved        \* history: space and user, put into an adminonly space by the seam,
               \*   or in it, or on the way, when it was made adminonly

ComVars == <<standing, chats, adminonly, link, redeemed, comCall, crossed, waved>>

NoLink == [space |-> "none", cap |-> 0, uses |-> 0, live |-> FALSE]
ComIdle == [at |-> "idle", op |-> "none", u |-> Founder, i |-> "none", s |-> "none", spaces |-> {}]
ComCalls ==
  [at : {"idle", "claim", "bump", "unclaim", "insert_member", "sync", "join_spaces", "admit",
         "write_role", "staff_spaces", "leave_spaces", "delete_member", "delete_chats"},
   op : {"none", "join", "ensure", "redeem", "promote", "demote", "remove"},
   u : Person, i : Link \cup {"none"}, s : Space \cup {"none"}, spaces : SUBSET Space]

ComInit ==
  /\ standing = [u \in Person |-> IF u = Founder THEN "owner" ELSE "none"]
  /\ chats = [u \in Person |-> IF u = Founder THEN Space ELSE {}]
  /\ adminonly \in SUBSET Space
  /\ link = [i \in Link |-> NoLink] /\ redeemed = {}
  /\ comCall = [p \in Proc |-> ComIdle]
  /\ crossed = {} /\ waved = {}

ComGoto(p, at) == comCall' = [comCall EXCEPT ![p].at = at]
ComReturn(p) == comCall' = [comCall EXCEPT ![p] = ComIdle]

Admitting == {"join", "ensure", "redeem", "promote"}
Expelling == {"remove", "demote"}

Enter(p, op, u, i, s, at) ==
  /\ comCall[p] = ComIdle
  /\ comCall' = [comCall EXCEPT ![p] = [at |-> at, op |-> op, u |-> u, i |-> i, s |-> s, spaces |-> {}]]
  /\ crossed' = IF \E q \in Proc : comCall[q].u = u /\ comCall[q].op \in
                      (IF op \in Expelling THEN Admitting \cup Expelling ELSE Expelling)
                  THEN crossed \cup {u} ELSE crossed
  /\ UNCHANGED <<standing, chats, adminonly, link, redeemed, waved>>

(***************************************************************************)
(* Links, and the switch of a space.  A link into a space that is          *)
(* adminonly is single-use.                                                *)
(***************************************************************************)
CreateInvite(i, space, cap) ==
  /\ link[i] = NoLink
  /\ space \in adminonly => cap = 1
  /\ link' = [link EXCEPT ![i] = [space |-> space, cap |-> cap, uses |-> 0, live |-> TRUE]]
  /\ UNCHANGED <<standing, chats, adminonly, redeemed, comCall, crossed, waved>>

\* Revoked; its row stays.  A link that expires is one nobody starts to use any
\* more: the count does not look at the expiry again.
EndInvite(i) ==
  /\ link[i].live
  /\ link' = [link EXCEPT ![i].live = FALSE]
  /\ UNCHANGED <<standing, chats, adminonly, redeemed, comCall, crossed, waved>>

\* In the space, or about to enter it.
Within(u, s) ==
  \/ s \in chats[u]
  \/ \E p \in Proc : comCall[p].u = u /\ comCall[p].at = "join_spaces" /\ s \in comCall[p].spaces

\* Nobody is taken out of a space that becomes adminonly, or put into one that opens.
SwitchSpace(s) ==
  /\ IF s \in adminonly
       THEN /\ adminonly' = adminonly \ {s}
            /\ waved' = waved \ ({s} \X Person)
       ELSE /\ adminonly' = adminonly \cup {s}
            /\ waved' = waved \cup {<<s, u>> : u \in {v \in Person : standing[v] # "owner" /\ Within(v, s)}}
  /\ UNCHANGED <<standing, chats, link, redeemed, comCall, crossed>>

Usable(i) == link[i].live /\ link[i].uses < link[i].cap

(***************************************************************************)
(* joinCommunity with or without a link, redeemInvite, and the consumer    *)
(* seam ensureCommunityAndSpaceMember.  To be let in by an open policy or  *)
(* by an approved request is the same admission.                           *)
(***************************************************************************)
JoinCommunity(p, u) ==
  /\ standing[u] = "none"
  /\ \/ Enter(p, "join", u, "none", "none", "insert_member")
     \/ \E i \in Link : Usable(i) /\ Enter(p, "join", u, i, "none", "claim")

RedeemInvite(p, u, i) ==
  /\ Usable(i)
  /\ IF link[i].space = "none" THEN standing[u] = "none" ELSE link[i].space \notin chats[u]
  /\ Enter(p, "redeem", u, i, link[i].space, "claim")

\* For a user who may be a member already, and a space whatever its policy.
EnsureMember(p, u, s) == Enter(p, "ensure", u, "none", s, "insert_member")

\* claimInviteUse: the user's redemption row, then the guarded count; without
\* a use left the row is taken back.  A row that exists means "already": a
\* redemption then reports success, a join goes on.
ClaimRow(p) ==
  LET c == comCall[p] IN
  /\ c.at = "claim"
  /\ redeemed' = redeemed \cup {<<c.i, c.u>>}
  /\ IF <<c.i, c.u>> \notin redeemed THEN ComGoto(p, "bump")
     ELSE IF c.op = "join" THEN ComGoto(p, "insert_member") ELSE ComReturn(p)
  /\ UNCHANGED <<standing, chats, adminonly, link, crossed, waved>>

\* Slip: the count is not guarded by the cap.
BumpUnguarded(p) ==
  LET i == comCall[p].i IN
  /\ comCall[p].at = "bump"
  /\ link' = [link EXCEPT ![i].uses = @ + 1, ![i].live = @ /\ link[i].uses + 1 < link[i].cap]
  /\ ComGoto(p, "insert_member")
  /\ UNCHANGED <<standing, chats, adminonly, redeemed, crossed, waved>>

BumpUse(p) ==
  LET i == comCall[p].i IN
  /\ comCall[p].at = "bump"
  /\ IF Usable(i)
       THEN /\ link' = [link EXCEPT ![i].uses = @ + 1, ![i].live = link[i].uses + 1 < link[i].cap]
            /\ ComGoto(p, "insert_member")
       ELSE /\ ComGoto(p, "unclaim")
            /\ UNCHANGED link
  /\ UNCHANGED <<standing, chats, adminonly, redeemed, crossed, waved>>

Unclaim(p) ==
  /\ comCall[p].at = "unclaim"
  /\ redeemed' = redeemed \ {<<comCall[p].i, comCall[p].u>>}
  /\ ComReturn(p)
  /\ UNCHANGED <<standing, chats, adminonly, link, crossed, waved>>

\* addMember: the row if there is none, then syncMemberToSpaces.  A redemption
\* by a member skips both.
InsertMember(p) ==
  LET c == comCall[p] IN
  /\ c.at = "insert_member"
  /\ standing' = [standing EXCEPT ![c.u] = IF @ = "none" THEN "member" ELSE @]
  /\ ComGoto(p, IF c.op = "redeem" /\ standing[c.u] # "none" THEN "admit" ELSE "sync")
  /\ UNCHANGED <<chats, adminonly, link, redeemed, crossed, waved>>

\* The call goes through the spaces that are left, then to the space it is for.
GoThrough(p, at, left) ==
  LET c == comCall[p] IN
  comCall' = [comCall EXCEPT ![p] =
    IF left # {} THEN [c EXCEPT !.at = at, !.spaces = left]
    ELSE IF c.op \in {"redeem", "ensure"} THEN [c EXCEPT !.at = "admit", !.spaces = {}] ELSE ComIdle]

\* Slip: every space is synced.
SyncAllSpaces(p) ==
  /\ comCall[p].at = "sync"
  /\ GoThrough(p, "join_spaces", Space)
  /\ UNCHANGED <<standing, chats, adminonly, link, redeemed, crossed, waved>>

\* The spaces are read, then entered one by one.
SyncMemberToSpaces(p) ==
  /\ comCall[p].at = "sync"
  /\ GoThrough(p, "join_spaces", Space \ adminonly)
  /\ UNCHANGED <<standing, chats, adminonly, link, redeemed, crossed, waved>>

JoinSpace(p, s) ==
  LET c == comCall[p] IN
  /\ c.at = "join_spaces" /\ s \in c.spaces
  /\ chats' = [chats EXCEPT ![c.u] = @ \cup {s}]
  /\ GoThrough(p, "join_spaces", c.spaces \ {s})
  /\ UNCHANGED <<standing, adminonly, link, redeemed, crossed, waved>>

\* The space the link or the consumer names, whatever its policy.
AdmitToSpace(p) ==
  LET c == comCall[p] IN
  /\ c.at = "admit"
  /\ chats' = [chats EXCEPT ![c.u] = @ \cup ({c.s} \ {"none"})]
  /\ waved' = IF c.op = "ensure" /\ c.s \in adminonly THEN waved \cup {<<c.s, c.u>>} ELSE waved
  /\ ComReturn(p)
  /\ UNCHANGED <<standing, adminonly, link, redeemed, crossed>>

(***************************************************************************)
(* setMemberRole and removeMember: the last owner stays; access to the     *)
(* adminonly spaces follows the role, a removal takes every space away.    *)
(***************************************************************************)
StaffCount == Cardinality({v \in Person : standing[v] = "owner"})

SetMemberRole(p, u, r) ==
  /\ standing[u] # "none"
  /\ standing[u] = "owner" /\ r = "member" => StaffCount > 1
  /\ Enter(p, IF r = "owner" THEN "promote" ELSE "demote", u, "none", "none", "write_role")

WriteRole(p) ==
  LET c == comCall[p] IN
  /\ c.at = "write_role"
  /\ standing' = [standing EXCEPT ![c.u] = IF @ = "none" THEN @ ELSE IF c.op = "promote" THEN "owner" ELSE "member"]
  /\ ComGoto(p, "staff_spaces")
  /\ UNCHANGED <<chats, adminonly, link, redeemed, crossed, waved>>

SyncStaffSpaces(p) ==
  /\ comCall[p].at = "staff_spaces"
  /\ GoThrough(p, IF comCall[p].op = "promote" THEN "join_spaces" ELSE "leave_spaces", adminonly)
  /\ UNCHANGED <<standing, chats, adminonly, link, redeemed, crossed, waved>>

LeaveSpace(p, s) ==
  LET c == comCall[p] IN
  /\ c.at = "leave_spaces" /\ s \in c.spaces
  /\ chats' = [chats EXCEPT ![c.u] = @ \ {s}]
  /\ waved' = waved \ {<<s, c.u>>}
  /\ GoThrough(p, "leave_spaces", c.spaces \ {s})
  /\ UNCHANGED <<standing, adminonly, link, redeemed, crossed>>

RemoveMember(p, u) ==
  /\ standing[u] # "none"
  /\ standing[u] = "owner" => StaffCount > 1
  /\ Enter(p, "remove", u, "none", "none", "delete_member")

DeleteMember(p) ==
  /\ comCall[p].at = "delete_member"
  /\ standing' = [standing EXCEPT ![comCall[p].u] = "none"]
  /\ ComGoto(p, "delete_chats")
  /\ UNCHANGED <<chats, adminonly, link, redeemed, crossed, waved>>

DeleteChats(p) ==
  /\ comCall[p].at = "delete_chats"
  /\ chats' = [chats EXCEPT ![comCall[p].u] = {}]
  /\ waved' = waved \ (Space \X {comCall[p].u})
  /\ ComReturn(p)
  /\ UNCHANGED <<standing, adminonly, link, redeemed, crossed>>

ComNext ==
  \/ \E p \in Proc :
       \/ \E u \in Person :
            \/ JoinCommunity(p, u) \/ RemoveMember(p, u) \/ \E s \in Space : EnsureMember(p, u, s)
            \/ \E i \in Link : RedeemInvite(p, u, i)
            \/ \E r \in {"member", "owner"} : SetMemberRole(p, u, r)
       \/ ClaimRow(p) \/ BumpUse(p) \/ Unclaim(p)
       \/ InsertMember(p) \/ SyncMemberToSpaces(p) \/ AdmitToSpace(p)
       \/ WriteRole(p) \/ SyncStaffSpaces(p) \/ DeleteMember(p) \/ DeleteChats(p)
       \/ \E s \in Space : JoinSpace(p, s) \/ LeaveSpace(p, s)
  \/ \E s \in Space : SwitchSpace(s)
  \/ \E i \in Link :
       \/ \E s \in Space \cup {"none"}, cap \in 1..MaxUses : CreateInvite(i, s, cap)
       \/ EndInvite(i)

ComSpec == ComInit /\ [][ComNext]_ComVars

------------------------------------------------------------------------------
(***************************************************************************)
(* Properties.                                                             *)
(***************************************************************************)
ComTypeOK ==
  /\ standing \in [Person -> {"none", "member", "owner"}]
  /\ chats \in [Person -> SUBSET Space] /\ adminonly \subseteq Space
  /\ link \in [Link -> [space : Space \cup {"none"}, cap : 0..MaxUses, uses : Nat, live : BOOLEAN]]
  /\ redeemed \subseteq Link \X Person /\ crossed \subseteq Person /\ waved \subseteq Space \X Person
  /\ comCall \in [Proc -> ComCalls]

\* However many people open one link at the same time, it never admits more
\* than its cap, and once no claim is under way its count is exactly the number
\* of people who hold a redemption: nobody burns two uses, none leaks.
UsesAreCounted ==
  \A i \in Link :
    /\ link[i].uses <= link[i].cap
    /\ (\A p \in Proc : comCall[p].i = i => comCall[p].at \notin {"bump", "unclaim"})
         => link[i].uses = Cardinality({u \in Person : <<i, u>> \in redeemed})

\* Once the calls about a user are done, the user is in the conversation of a
\* space only as a member of the community, and in one that is adminonly only as
\* staff, as the holder of a link to it, or waved in, unless an admission of the
\* user overlapped a removal or demotion: a removal really takes every access
\* away, and a demotion those of the spaces that are adminonly by then.
AccessFollowsMembership ==
  \A u \in Person \ crossed :
    (\A p \in Proc : comCall[p].op # "none" => comCall[p].u # u) =>
      /\ chats[u] # {} => standing[u] # "none"
      /\ \A s \in chats[u] \cap adminonly :
           \/ standing[u] = "owner" \/ <<s, u>> \in waved
           \/ \E i \in Link : link[i].space = s /\ <<i, u>> \in redeemed

==============================================================================
