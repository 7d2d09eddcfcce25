---------------------------- MODULE CommunityEntry ----------------------------
(***************************************************************************)
(* Who gets into a community and into a space of it: the join policy, the  *)
(* requests it leads to and their decision (lib/communities/membership.ts),*)
(* and the space, created and given an entry level of its own while people *)
(* come and go (lib/communities/service.ts).  No statement is in a         *)
(* transaction with another, and any of them may fail.                     *)
(***************************************************************************)
EXTENDS Callers

CONSTANTS
  Newcomer,  \* people other than the founder of the community
  Request    \* joinrequests rows

ASSUME EntryAssumption == Founder \notin Newcomer /\ "none" \notin Request

People == Newcomer \cup {Founder}

VARIABLES
  policy,      \* communities.joinpolicy
  room,        \* the spaces row: whether there is one, and its joinpolicy
  belongs,     \* communitymembers
  inRoom,      \* members of the space's conversation
  request,     \* request[r]: the joinrequests row
  entryCall,   \* entryCall[p]: where call p stands
  admitted,    \* history: the requests whose approval let the person in
  torn,        \* history: requests decided twice at a time, or by a call that failed
  missed       \* history: whose admission failed midway or met their removal

EntryVars == <<policy, room, belongs, inRoom, request, entryCall, admitted, torn, missed>>

Policies == {"open", "approval", "invite"}
Rank == [x \in Policies |-> CASE x = "open" -> 0 [] x = "approval" -> 1 [] x = "invite" -> 2]
Stricter(community, space) == space # "none" /\ Rank[space] > Rank[community]
Legal(community, space) == space # "none" => Rank[space] >= Rank[community]

NoRequest == [u |-> Founder, status |-> "none"]
EntryIdle == [at |-> "idle", op |-> "none", u |-> Founder, r |-> "none", seen |-> "none", list |-> {}]
EntryCalls ==
  [at : {"idle", "look", "insert_request", "insert_member", "read_policy", "read_spaces", "admit",
         "decide", "insert_space", "read_members", "seed", "write_entry", "put_out"},
   op : {"none", "join", "approve", "deny", "space", "remove"},
   u : People, r : Request \cup {"none"}, seen : Policies \cup {"none"}, list : SUBSET People]

EntryInit ==
  /\ policy \in Policies
  /\ room = [made |-> FALSE, entry |-> "none", plain |-> FALSE]
  /\ belongs = {Founder} /\ inRoom = {}
  /\ request = [r \in Request |-> NoRequest]
  /\ entryCall = [p \in Proc |-> EntryIdle]
  /\ admitted = {} /\ torn = {} /\ missed = {}

EntryRows == <<policy, room, belongs, inRoom, request>>
EntryNotes == <<admitted, torn, missed>>
Call(p, c) == entryCall' = [entryCall EXCEPT ![p] = c]
Step(p, at) == Call(p, [entryCall[p] EXCEPT !.at = at])
Done(p) == Call(p, EntryIdle)
Others(p, ops) == {entryCall[q] : q \in {q \in Proc \ {p} : entryCall[q].op \in ops}}
Meets(p, u, ops) == \E c \in Others(p, ops) : c.u = u

(***************************************************************************)
(* joinCommunity without an invitation: by the policy, a member at once, a *)
(* pending request, or nothing.  addMember is the row, then                *)
(* syncMemberToSpaces: the policy, the spaces, the conversation.           *)
(***************************************************************************)
JoinByPolicy(p, u) ==
  /\ entryCall[p] = EntryIdle /\ u \notin belongs /\ policy # "invite"
  /\ Call(p, [EntryIdle EXCEPT !.op = "join", !.u = u,
                               !.at = IF policy = "open" THEN "insert_member" ELSE "look"])
  /\ missed' = IF Meets(p, u, {"remove"}) THEN missed \cup {u} ELSE missed
  /\ UNCHANGED <<EntryRows, admitted, torn>>

LookForRequest(p) ==
  /\ entryCall[p].at = "look"
  /\ IF \E r \in Request : request[r] = [u |-> entryCall[p].u, status |-> "pending"]
       THEN Done(p) ELSE Step(p, "insert_request")
  /\ UNCHANGED <<EntryRows, EntryNotes>>

InsertRequest(p, r) ==
  /\ entryCall[p].at = "insert_request" /\ request[r] = NoRequest
  /\ request' = [request EXCEPT ![r] = [u |-> entryCall[p].u, status |-> "pending"]]
  /\ Done(p)
  /\ UNCHANGED <<policy, room, belongs, inRoom, EntryNotes>>

AddMember(p) ==
  LET c == entryCall[p] IN
  /\ c.at = "insert_member"
  /\ belongs' = belongs \cup {c.u}
  /\ admitted' = IF c.op = "approve" THEN admitted \cup {c.r} ELSE admitted
  /\ Step(p, "read_policy")
  /\ UNCHANGED <<policy, room, inRoom, request, torn, missed>>

AfterSync(p) ==
  IF entryCall[p].op = "approve" THEN Call(p, [entryCall[p] EXCEPT !.at = "decide", !.seen = "none"]) ELSE Done(p)

ReadPolicy(p) ==
  /\ entryCall[p].at = "read_policy"
  /\ Call(p, [entryCall[p] EXCEPT !.at = "read_spaces", !.seen = policy])
  /\ UNCHANGED <<EntryRows, EntryNotes>>

\* Slip: a space without a policy of its own is taken for the strictest.
ReadSpacesStrictly(p) ==
  /\ entryCall[p].at = "read_spaces"
  /\ IF room.made /\ room.entry # "none" /\ ~Stricter(entryCall[p].seen, room.entry)
       THEN Call(p, [entryCall[p] EXCEPT !.at = "admit", !.seen = "none"]) ELSE AfterSync(p)
  /\ UNCHANGED <<EntryRows, EntryNotes>>

ReadSpaces(p) ==
  /\ entryCall[p].at = "read_spaces"
  /\ IF room.made /\ ~Stricter(entryCall[p].seen, room.entry)
       THEN Call(p, [entryCall[p] EXCEPT !.at = "admit", !.seen = "none"]) ELSE AfterSync(p)
  /\ UNCHANGED <<EntryRows, EntryNotes>>

Admit(p) ==
  /\ entryCall[p].at = "admit"
  /\ inRoom' = inRoom \cup {entryCall[p].u}
  /\ AfterSync(p)
  /\ UNCHANGED <<policy, room, belongs, request, EntryNotes>>

(***************************************************************************)
(* decideJoinRequest: the request must be pending; an approval admits, and *)
(* the row is written last, whatever it says by then.                      *)
(***************************************************************************)
Decide(p, r, op) ==
  /\ entryCall[p] = EntryIdle
  /\ Call(p, [EntryIdle EXCEPT !.op = op, !.u = request[r].u, !.r = r,
                               !.at = IF op = "approve" THEN "insert_member" ELSE "decide"])
  /\ torn' = IF \E c \in Others(p, {"approve", "deny"}) : c.r = r THEN torn \cup {r} ELSE torn
  /\ missed' = IF Meets(p, request[r].u, {"remove"}) THEN missed \cup {request[r].u} ELSE missed
  /\ UNCHANGED <<EntryRows, admitted>>

\* Slip: a request that was decided is decided again.
DecideAgain(p, r, op) == request[r] # NoRequest /\ Decide(p, r, op)

DecideJoinRequest(p, r, op) == request[r].status = "pending" /\ Decide(p, r, op)

WriteDecision(p) ==
  LET c == entryCall[p] IN
  /\ c.at = "decide"
  /\ request' = [request EXCEPT ![c.r].status = IF c.op = "approve" THEN "approved" ELSE "denied"]
  /\ Done(p)
  /\ UNCHANGED <<policy, room, belongs, inRoom, EntryNotes>>

(***************************************************************************)
(* removeMember: the member's row, then the conversations.                 *)
(***************************************************************************)
RemovePerson(p, u) ==
  /\ entryCall[p] = EntryIdle /\ u \in belongs \ {Founder}
  /\ belongs' = belongs \ {u}
  /\ Call(p, [EntryIdle EXCEPT !.op = "remove", !.u = u, !.at = "put_out"])
  /\ missed' = IF Meets(p, u, {"join", "approve", "remove"}) THEN missed \cup {u} ELSE missed \ {u}
  /\ UNCHANGED <<policy, room, inRoom, request, admitted, torn>>

PutOut(p) ==
  /\ entryCall[p].at = "put_out"
  /\ inRoom' = inRoom \ {entryCall[p].u}
  /\ Done(p)
  /\ UNCHANGED <<policy, room, belongs, request, EntryNotes>>

(***************************************************************************)
(* updateCommunity; createSpace: the space, then those who belong in it;   *)
(* updateSpace.  A space's policy is compared with the community's.        *)
(***************************************************************************)
UpdateCommunity(j) ==
  /\ policy' = j /\ j # policy
  /\ UNCHANGED <<room, belongs, inRoom, request, entryCall, EntryNotes>>

CreateSpace(p, e) ==
  /\ entryCall[p] = EntryIdle /\ ~room.made /\ Others(p, {"space"}) = {}
  /\ Legal(policy, e)
  /\ Call(p, [EntryIdle EXCEPT !.op = "space", !.at = "insert_space", !.seen = e,
                               !.list = IF Stricter(policy, e) THEN {Founder} ELSE {}])
  /\ UNCHANGED <<EntryRows, EntryNotes>>

InsertSpace(p) ==
  LET c == entryCall[p] IN
  /\ c.at = "insert_space"
  /\ room' = [made |-> TRUE, entry |-> c.seen, plain |-> c.seen = "none"]
  /\ Call(p, [c EXCEPT !.at = IF c.list = {} THEN "read_members" ELSE "seed", !.seen = "none"])
  /\ UNCHANGED <<policy, belongs, inRoom, request, EntryNotes>>

ReadMembers(p) ==
  /\ entryCall[p].at = "read_members"
  /\ Call(p, [entryCall[p] EXCEPT !.at = "seed", !.list = belongs])
  /\ UNCHANGED <<EntryRows, EntryNotes>>

SeedMember(p, u) ==
  LET c == entryCall[p] IN
  /\ c.at = "seed" /\ u \in c.list
  /\ inRoom' = inRoom \cup {u}
  /\ IF c.list = {u} THEN Done(p) ELSE Call(p, [c EXCEPT !.list = @ \ {u}])
  /\ UNCHANGED <<policy, room, belongs, request, EntryNotes>>

UpdateSpace(p, e) ==
  /\ entryCall[p] = EntryIdle /\ room.made /\ e # room.entry /\ Legal(policy, e)
  /\ Call(p, [EntryIdle EXCEPT !.op = "space", !.at = "write_entry", !.seen = e])
  /\ UNCHANGED <<EntryRows, EntryNotes>>

WriteEntry(p) ==
  /\ entryCall[p].at = "write_entry"
  /\ room' = [room EXCEPT !.entry = entryCall[p].seen, !.plain = FALSE]
  /\ Done(p)
  /\ UNCHANGED <<policy, belongs, inRoom, request, EntryNotes>>

\* A statement fails and the call with it.
CallFails(p) ==
  LET c == entryCall[p] IN
  /\ c # EntryIdle /\ Done(p)
  /\ torn' = IF c.op = "approve" THEN torn \cup {c.r} ELSE torn
  /\ missed' = CASE c.at \in {"read_policy", "read_spaces", "admit"} -> missed \cup {c.u}
                 [] c.at \in {"read_members", "seed"} -> People
                 [] OTHER -> missed
  /\ UNCHANGED <<EntryRows, admitted>>

EntryNext ==
  \/ \E j \in Policies : UpdateCommunity(j)
  \/ \E p \in Proc :
       \/ \E u \in People : JoinByPolicy(p, u) \/ RemovePerson(p, u) \/ SeedMember(p, u)
       \/ \E r \in Request : InsertRequest(p, r) \/ \E op \in {"approve", "deny"} : DecideJoinRequest(p, r, op)
       \/ \E e \in Policies \cup {"none"} : CreateSpace(p, e) \/ UpdateSpace(p, e)
       \/ LookForRequest(p) \/ AddMember(p) \/ ReadPolicy(p) \/ ReadSpaces(p) \/ Admit(p)
       \/ WriteDecision(p) \/ PutOut(p) \/ InsertSpace(p) \/ ReadMembers(p) \/ WriteEntry(p)
       \/ CallFails(p)

EntrySpec == EntryInit /\ [][EntryNext]_EntryVars

------------------------------------------------------------------------------
(***************************************************************************)
(* Properties.                                                             *)
(***************************************************************************)
\* Every variable holds a value of its kind.
EntryTypeOK ==
  /\ policy \in Policies /\ belongs \subseteq People /\ inRoom \subseteq People
  /\ room \in [made : BOOLEAN, entry : Policies \cup {"none"}, plain : BOOLEAN]
  /\ request \in [Request -> [u : People, status : {"none", "pending", "approved", "denied"}]]
  /\ entryCall \in [Proc -> EntryCalls]
  /\ admitted \subseteq Request /\ torn \subseteq Request /\ missed \subseteq People

\* What a request says was decided is what was done: the approved let the
\* person in and the denied did not, although the person is let in first and
\* the row written afterwards, whatever it says by then; except for a request
\* decided by two calls at a time or by one that failed.
DecisionIsWhatWasDone ==
  \A r \in Request \ torn :
    /\ request[r].status = "approved" => r \in admitted
    /\ request[r].status = "denied" => r \notin admitted

\* A space that asks nothing of its own has every member in it once nothing is
\* under way: whoever joins while it is created is found by the one or finds
\* the other.  Except for those whose admission failed or met their own removal.
PlainSpaceHasEveryMember ==
  (room.plain /\ \A p \in Proc : entryCall[p] = EntryIdle) => belongs \subseteq inRoom \cup missed

==============================================================================
