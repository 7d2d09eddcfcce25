------------------------------- MODULE OrgSeats -------------------------------
(***************************************************************************)
(* Members, roles and seats of one company organisation.  It is changed by *)
(* its admins (lib/orgs/service.ts: reads and writes without a transaction *)
(* or a lock) and by the consumer API (lib/consumer/groups.ts: in          *)
(* transactions that lock the organisation's row).  The lock excludes the  *)
(* consumer calls from each other only; and the two count seats            *)
(* differently: the admins' calls count everybody, the consumer API counts *)
(* everybody but owners.                                                   *)
(***************************************************************************)
EXTENDS Callers

CONSTANTS OrgInvite, MaxSeats

ASSUME OrgAssumption == MaxSeats \in Nat \ {0}

VARIABLES
  role,        \* role[u] in the organisation, "none" for others
  seatlimit,
  invite,      \* invite[i]: the invitation row
  orgLock,     \* calls that hold the organisation's row
  orgCall,     \* orgCall[p]: where call p stands and what it read
  overbooked,  \* history: the count of a seat was stale when the seat was taken, or
               \* an owner was demoted into a full house
  ownerRace    \* history: a removal or re-role acted on a stale owner count or role

OrgVars == <<role, seatlimit, invite, orgLock, orgCall, overbooked, ownerRace>>

Roles == {"member", "owner"}   \* "member" stands for admins too
OrgIdle == [at |-> "idle", u |-> Founder, to |-> "none", i |-> "none", n |-> 0]
NoInvite == [u |-> Founder, state |-> "none"]

Members == {u \in User : role[u] # "none"}
Owners == {u \in User : role[u] = "owner"}
NonOwners == Members \ Owners
Pending == {i \in OrgInvite : invite[i].state = "open"}

\* createCompanyGroup: the organisation with its owner.
OrgInit ==
  /\ role = [u \in User |-> IF u = Founder THEN "owner" ELSE "none"]
  /\ seatlimit \in 1..MaxSeats
  /\ invite = [i \in OrgInvite |-> NoInvite]
  /\ orgLock = {}
  /\ orgCall = [p \in Proc |-> OrgIdle]
  /\ overbooked = FALSE /\ ownerRace = FALSE

OrgGoto(p, c) == orgCall' = [orgCall EXCEPT ![p] = c]
NoOrgRace == UNCHANGED <<overbooked, ownerRace>>

(***************************************************************************)
(* Invitations.  The limit is compared with members and pending            *)
(* invitations when one is made, and with members when it is accepted.     *)
(***************************************************************************)
InviteOrgMember(p, u) ==
  /\ orgCall[p] = OrgIdle
  /\ role[u] = "none"
  /\ Cardinality(Members) + Cardinality(Pending) < seatlimit
  /\ OrgGoto(p, [OrgIdle EXCEPT !.at = "invite", !.u = u])
  /\ UNCHANGED <<role, seatlimit, invite, orgLock>> /\ NoOrgRace

InsertInvite(p) ==
  /\ orgCall[p].at = "invite"
  /\ \E i \in OrgInvite :
       /\ invite[i] = NoInvite /\ \A q \in Proc : orgCall[q].i # i
       /\ invite' = [invite EXCEPT ![i] = [u |-> orgCall[p].u, state |-> "open"]]
  /\ OrgGoto(p, OrgIdle)
  /\ UNCHANGED <<role, seatlimit, orgLock>> /\ NoOrgRace

ExpireInvite(i) ==
  /\ invite[i].state = "open"
  /\ invite' = [invite EXCEPT ![i].state = "expired"]
  /\ UNCHANGED <<role, seatlimit, orgLock, orgCall>> /\ NoOrgRace

ResendOrgInvitation(i) ==
  /\ invite[i].state = "expired"
  /\ invite' = [invite EXCEPT ![i].state = "open"]
  /\ UNCHANGED <<role, seatlimit, orgLock, orgCall>> /\ NoOrgRace

RevokeOrgInvite(i) ==
  /\ invite[i].state # "none"
  /\ invite' = [invite EXCEPT ![i] = NoInvite]
  /\ UNCHANGED <<role, seatlimit, orgLock, orgCall>> /\ NoOrgRace

\* acceptOrgInvitation: the invitation and the limit, the count, the insert
\* (nothing if the user is a member already), the consumption.
AcceptInvitation(p, i) ==
  /\ orgCall[p] = OrgIdle
  /\ invite[i].state = "open"
  /\ OrgGoto(p, [OrgIdle EXCEPT !.at = "count", !.u = invite[i].u, !.i = i, !.n = seatlimit])
  /\ UNCHANGED <<role, seatlimit, invite, orgLock>> /\ NoOrgRace

\* Slip: the seat that is about to be taken is not counted.
AcceptOneTooMany(p) ==
  /\ orgCall[p].at = "count"
  /\ OrgGoto(p, IF Cardinality(Members) <= orgCall[p].n + 1 THEN [orgCall[p] EXCEPT !.at = "join", !.n = 0] ELSE OrgIdle)
  /\ UNCHANGED <<role, seatlimit, invite, orgLock>> /\ NoOrgRace

AcceptCount(p) ==
  /\ orgCall[p].at = "count"
  /\ OrgGoto(p, IF Cardinality(Members) < orgCall[p].n THEN [orgCall[p] EXCEPT !.at = "join", !.n = 0] ELSE OrgIdle)
  /\ UNCHANGED <<role, seatlimit, invite, orgLock>> /\ NoOrgRace

\* A seat is taken.  Whoever is between its count and its insert races it.
Counting == {"count", "join", "put_insert"}

\* No seat is left for an owner who becomes a member, or none may be.
NoSeatFor(p) ==
  \/ Cardinality(NonOwners) >= seatlimit
  \/ \E q \in Proc \ {p} : orgCall[q].at \in Counting \cup {"limit"}

TakeSeat(p, u) ==
  /\ role' = IF role[u] = "none" THEN [role EXCEPT ![u] = "member"] ELSE role
  /\ overbooked' = (overbooked \/ \E q \in Proc \ {p} : orgCall[q].at \in Counting)
  /\ UNCHANGED ownerRace

AcceptJoin(p) ==
  /\ orgCall[p].at = "join"
  /\ TakeSeat(p, orgCall[p].u)
  /\ OrgGoto(p, [OrgIdle EXCEPT !.at = "consume", !.i = orgCall[p].i])
  /\ UNCHANGED <<seatlimit, invite, orgLock>>

AcceptConsume(p) ==
  /\ orgCall[p].at = "consume"
  /\ invite' = [invite EXCEPT ![orgCall[p].i].state = IF @ = "none" THEN @ ELSE "consumed"]
  /\ OrgGoto(p, OrgIdle)
  /\ UNCHANGED <<role, seatlimit, orgLock>> /\ NoOrgRace

(***************************************************************************)
(* removeOrgMember ("none") and setOrgMemberRole: read the role, for an    *)
(* owner count the owners, then write.                                     *)
(***************************************************************************)
ChangeMember(p, u, r) ==
  /\ orgCall[p] = OrgIdle
  /\ role[u] # "none"
  /\ OrgGoto(p, [OrgIdle EXCEPT !.at = IF role[u] = "owner" /\ r # "owner" THEN "owners" ELSE "write", !.u = u, !.to = r])
  /\ UNCHANGED <<role, seatlimit, invite, orgLock>> /\ NoOrgRace

\* Slip: an owner may go as long as there is one.
CountOwnersOffByOne(p) ==
  /\ orgCall[p].at = "owners"
  /\ OrgGoto(p, IF Cardinality(Owners) >= 1 THEN [orgCall[p] EXCEPT !.at = "write", !.n = 1] ELSE OrgIdle)
  /\ UNCHANGED <<role, seatlimit, invite, orgLock>> /\ NoOrgRace

CountOwners(p) ==
  /\ orgCall[p].at = "owners"
  /\ OrgGoto(p, IF Cardinality(Owners) > 1 THEN [orgCall[p] EXCEPT !.at = "write", !.n = 1] ELSE OrgIdle)
  /\ UNCHANGED <<role, seatlimit, invite, orgLock>> /\ NoOrgRace

\* n = 1 when the owners were counted: stale if they are fewer than two now.
\* Without a count the user was no owner: stale if it has become one.
WriteMember(p) ==
  LET u == orgCall[p].u IN
  /\ orgCall[p].at = "write"
  /\ role' = IF role[u] = "none" THEN role ELSE [role EXCEPT ![u] = orgCall[p].to]
  /\ overbooked' = (overbooked \/ (role[u] = "owner" /\ orgCall[p].to = "member" /\ NoSeatFor(p)))
  /\ ownerRace' = (ownerRace \/ (role[u] = "owner" /\ orgCall[p].to # "owner"
                                   /\ (orgCall[p].n = 0 \/ \E q \in Proc \ {p} : orgCall[q].at = "write" /\ orgCall[q].n = 1)))
  /\ OrgGoto(p, OrgIdle)
  /\ UNCHANGED <<seatlimit, invite, orgLock>>

(***************************************************************************)
(* The consumer API: lock and check, then write and commit.                *)
(***************************************************************************)
Locked(p, c) == orgLock = {} /\ orgLock' = {p} /\ OrgGoto(p, c)
Commit(p) == orgLock' = {} /\ OrgGoto(p, OrgIdle)

UpdateGroupSeatlimit(p, n) ==
  /\ orgCall[p] = OrgIdle
  /\ Cardinality(NonOwners) <= n
  /\ Locked(p, [OrgIdle EXCEPT !.at = "limit", !.n = n])
  /\ UNCHANGED <<role, seatlimit, invite>> /\ NoOrgRace

WriteSeatlimit(p) ==
  /\ orgCall[p].at = "limit"
  /\ seatlimit' = orgCall[p].n
  /\ overbooked' = (overbooked \/ Cardinality(NonOwners) > orgCall[p].n
                               \/ \E q \in Proc \ {p} : orgCall[q].at \in Counting)
  /\ Commit(p)
  /\ UNCHANGED <<role, invite, ownerRace>>

\* owner_protected; a member is given the role, anybody else a seat.
PutGroupMember(p, u) ==
  /\ orgCall[p] = OrgIdle
  /\ role[u] # "owner"
  /\ role[u] = "none" => Cardinality(NonOwners) + 1 <= seatlimit
  /\ Locked(p, [OrgIdle EXCEPT !.at = IF role[u] = "none" THEN "put_insert" ELSE "put_role", !.u = u, !.to = "member"])
  /\ UNCHANGED <<role, seatlimit, invite>> /\ NoOrgRace

InsertGroupMember(p) ==
  /\ orgCall[p].at = "put_insert"
  /\ TakeSeat(p, orgCall[p].u)
  /\ Commit(p)
  /\ UNCHANGED <<seatlimit, invite>>

DeleteGroupMember(p, u) ==
  /\ orgCall[p] = OrgIdle
  /\ role[u] = "member"
  /\ Locked(p, [OrgIdle EXCEPT !.at = "put_role", !.u = u])
  /\ UNCHANGED <<role, seatlimit, invite>> /\ NoOrgRace

\* updateOrgMemberRole or deleteOrgMember, of whatever role the row has by now.
WriteGroupMember(p) ==
  LET u == orgCall[p].u IN
  /\ orgCall[p].at = "put_role"
  /\ role' = IF role[u] = "none" THEN role ELSE [role EXCEPT ![u] = orgCall[p].to]
  /\ overbooked' = (overbooked \/ (role[u] = "owner" /\ orgCall[p].to = "member" /\ NoSeatFor(p)))
  /\ ownerRace' = (ownerRace \/ role[u] = "owner")
  /\ Commit(p)
  /\ UNCHANGED <<seatlimit, invite>>

OrgNext ==
  \/ \E p \in Proc :
       \/ \E u \in User :
            \/ InviteOrgMember(p, u) \/ PutGroupMember(p, u) \/ DeleteGroupMember(p, u)
            \/ \E r \in Roles \cup {"none"} : ChangeMember(p, u, r)
       \/ \E i \in OrgInvite : AcceptInvitation(p, i)
       \/ \E n \in 1..MaxSeats : UpdateGroupSeatlimit(p, n)
       \/ InsertInvite(p) \/ AcceptCount(p) \/ AcceptJoin(p) \/ AcceptConsume(p)
       \/ CountOwners(p) \/ WriteMember(p)
       \/ WriteSeatlimit(p) \/ InsertGroupMember(p) \/ WriteGroupMember(p)
  \/ \E i \in OrgInvite : ExpireInvite(i) \/ ResendOrgInvitation(i) \/ RevokeOrgInvite(i)

OrgSpec == OrgInit /\ [][OrgNext]_OrgVars

------------------------------------------------------------------------------
(***************************************************************************)
(* Properties.                                                             *)
(***************************************************************************)
OrgTypeOK ==
  /\ role \in [User -> Roles \cup {"none"}] /\ seatlimit \in 1..MaxSeats
  /\ invite \in [OrgInvite -> [u : User, state : {"none", "open", "expired", "consumed"}]]
  /\ orgLock \subseteq Proc
  /\ \A p \in Proc : orgCall[p].u \in User /\ orgCall[p].to \in Roles \cup {"none"} /\ orgCall[p].n \in Nat

\* The organisation keeps an owner, whatever admins and the consumer API do to
\* it at the same time, except where the code lets go: two owners leave on the
\* count of each other, or somebody is removed or re-roled as a plain member
\* after becoming an owner.
OwnerIsKept == ownerRace \/ Owners # {}

\* Seats: there are never more members other than owners than the limit, by
\* whichever door they come and however the limit moves, unless a seat is taken
\* on a stale count or an owner is demoted into a full house.
SeatsWithinLimit == overbooked \/ Cardinality(NonOwners) <= seatlimit

==============================================================================
