------------------------------ MODULE ContactPair ------------------------------
(***************************************************************************)
(* Contact requests and email invitations between two people               *)
(* (apps/web/src/lib/contacts/service.ts).  A contacts row is one request; *)
(* being connected is derived from an accepted row.  Each SQL statement is *)
(* a step: no call here runs in a transaction, and what keeps them apart   *)
(* is the partial unique index on active rows and the status guards of the *)
(* UPDATEs.  The flood guard, which only refuses requests, is left out.    *)
(***************************************************************************)
EXTENDS Naturals, FiniteSets, FiniteSetsExt

CONSTANTS
  Inviter,   \* the person who may invite the other one by email
  Invitee,   \* the other one, who has no account at first
  Conv,      \* conversation ids
  Invite,    \* contactinvites ids
  Proc,      \* calls in flight at the same time
  MaxRows,   \* bound on the contacts rows ever inserted
  NoConv, NoInvite

ASSUME ContactAssumption ==
  Inviter # Invitee /\ NoConv \notin Conv /\ NoInvite \notin Invite /\ MaxRows \in Nat

VARIABLES
  row,       \* row[c]: the c-th contacts row inserted
  inv,       \* inv[i]: "none", "open", "consumed" or "cancelled"
  joined,    \* Invitee has an account
  lines,     \* lines[v]: the contact notices in conversation v
  created,   \* the 1:1 conversations created for the pair
  call,      \* call[p]: where call p stands and its local variables
  raced      \* history: a retracting and a connecting call have overlapped

vars == <<row, inv, joined, lines, created, call, raced>>

User == {Inviter, Invitee}
Row == 1..MaxRows
NoRow == 0

NoCall == [at |-> "idle", op |-> "none", u |-> Inviter, c |-> NoRow, v |-> NoConv, i |-> NoInvite]
NoRecord == [status |-> "none", from |-> Inviter, conv |-> NoConv, agreed |-> {}]

Connecting == {"request", "accept", "redeem"}
Retracting == {"decline", "withdraw"}

ActiveRows == {c \in Row : row[c].status \in {"pending", "accepted"}}

Other(u) == CHOOSE w \in User : w # u

Goto(p, c) == call' = [call EXCEPT ![p] = c]
Overlaps(op) ==
  raced' = (raced \/ \E q \in Proc : {op, call[q].op} \cap Connecting # {}
                                     /\ {op, call[q].op} \cap Retracting # {})

------------------------------------------------------------------------------
Init ==
  /\ row = [c \in Row |-> NoRecord]
  /\ inv = [i \in Invite |-> "none"]
  /\ joined = FALSE
  /\ lines = [v \in Conv |-> {}]
  /\ created = {}
  /\ call = [p \in Proc |-> NoCall]
  /\ raced = FALSE

SignUp == ~joined /\ joined' = TRUE /\ UNCHANGED <<row, inv, lines, created, call, raced>>

(***************************************************************************)
(* requestContact.  purgeStaleDeclined first deletes declined rows past    *)
(* their retention, which may be any of them.                              *)
(***************************************************************************)
Request(p, u) ==
  /\ call[p] = NoCall /\ joined
  /\ \E old \in SUBSET {c \in Row : row[c].status = "declined"} :
       row' = [c \in Row |-> IF c \in old THEN [NoRecord EXCEPT !.status = "deleted"] ELSE row[c]]
  /\ Goto(p, [NoCall EXCEPT !.at = "read_active", !.op = "request", !.u = u])
  /\ Overlaps("request")
  /\ UNCHANGED <<inv, joined, lines, created>>

\* Slip: any pending row is taken for one of the other direction.
RequestTakesAnyPending(p) ==
  /\ call[p].at = "read_active" /\ call[p].op = "request"
  /\ \/ /\ ActiveRows = {}
        /\ Goto(p, [call[p] EXCEPT !.at = "read_conv"])
     \/ \E c \in ActiveRows :
          Goto(p, IF row[c].status = "pending"
                    THEN [call[p] EXCEPT !.at = "update", !.c = c, !.v = row[c].conv]
                    ELSE NoCall)
  /\ UNCHANGED <<row, inv, joined, lines, created, raced>>

\* activeRowBetween: nothing to do if connected or already asked; the other
\* one's pending request is accepted; otherwise a new one is made.
ReadActive(p) ==
  /\ call[p].at = "read_active" /\ call[p].op = "request"
  /\ \/ /\ ActiveRows = {}
        /\ Goto(p, [call[p] EXCEPT !.at = "read_conv"])
     \/ \E c \in ActiveRows :
          Goto(p, IF row[c].status = "pending" /\ row[c].from # call[p].u
                    THEN [call[p] EXCEPT !.at = "update", !.c = c, !.v = row[c].conv]
                    ELSE NoCall)
  /\ UNCHANGED <<row, inv, joined, lines, created, raced>>

(***************************************************************************)
(* getOrCreateDirectConversation: the conversation of the pair's newest    *)
(* row that has one, or a new one with both as members.                    *)
(***************************************************************************)
ReadConv(p) ==
  /\ call[p].at = "read_conv"
  /\ LET withConv == {c \in Row : row[c].conv # NoConv} IN
     Goto(p, IF withConv = {} THEN [call[p] EXCEPT !.at = "create_conv"]
             ELSE [call[p] EXCEPT !.at = "insert", !.v = row[Max(withConv)].conv])
  /\ UNCHANGED <<row, inv, joined, lines, created, raced>>

CreateConv(p) ==
  /\ call[p].at = "create_conv"
  /\ \E v \in Conv \ created :
       /\ created' = created \cup {v}
       /\ Goto(p, [call[p] EXCEPT !.at = "insert", !.v = v])
  /\ UNCHANGED <<row, inv, joined, lines, raced>>

\* The INSERT of a new row, which takes the next place in createdat order; the
\* unique index refuses it while the pair has an active row.
Inserted(r) ==
  /\ ActiveRows = {}
  /\ \E c \in Row :
       /\ row[c].status = "none" /\ \A d \in 1..(c - 1) : row[d].status # "none"
       /\ row' = [row EXCEPT ![c] = r]

\* A request that loses to the index answers with the row that won.
InsertRequest(p) ==
  /\ call[p].at = "insert" /\ call[p].op = "request"
  /\ \/ /\ Inserted([status |-> "pending", from |-> call[p].u, conv |-> call[p].v,
                     agreed |-> {call[p].u}])
        /\ Goto(p, [call[p] EXCEPT !.at = "post_wants"])
     \/ /\ ActiveRows # {}
        /\ Goto(p, NoCall)
        /\ UNCHANGED row
  /\ UNCHANGED <<inv, joined, lines, created, raced>>

PostWants(p) ==
  /\ call[p].at = "post_wants"
  /\ lines' = [lines EXCEPT ![call[p].v] = @ \cup {"wants"}]
  /\ Goto(p, NoCall)
  /\ UNCHANGED <<row, inv, joined, created, raced>>

(***************************************************************************)
(* respondToContact: the addressee reads a pending row, then writes it.    *)
(***************************************************************************)
Respond(p, c, op) ==
  /\ call[p] = NoCall
  /\ row[c].status = "pending"
  /\ Goto(p, [NoCall EXCEPT !.at = "update", !.op = op, !.u = Other(row[c].from),
                            !.c = c, !.v = row[c].conv])
  /\ Overlaps(op)
  /\ UNCHANGED <<row, inv, joined, lines, created>>

\* Who stands behind a row once call p has accepted it.
Agreed(p) == IF call[p].op = "redeem" THEN User ELSE row[call[p].c].agreed \cup {call[p].u}

\* Slip: the UPDATE does not look at the status again.
UpdateUnguarded(p) ==
  /\ call[p].at = "update"
  /\ row' = [row EXCEPT ![call[p].c].status = IF call[p].op = "decline" THEN "declined" ELSE "accepted",
                        ![call[p].c].agreed = IF call[p].op = "decline" THEN @ ELSE Agreed(p)]
  /\ Goto(p, IF call[p].op = "decline" THEN NoCall ELSE [call[p] EXCEPT !.at = "post_connected"])
  /\ UNCHANGED <<inv, joined, lines, created, raced>>

\* The UPDATE of a response, of a mutual request or of a redeemed invitation:
\* it takes effect on a row that is still pending, and nobody looks whether it
\* did before the notice is posted.
Update(p) ==
  /\ call[p].at = "update"
  /\ row' = IF row[call[p].c].status # "pending" THEN row
            ELSE [row EXCEPT ![call[p].c].status = IF call[p].op = "decline" THEN "declined" ELSE "accepted",
                             ![call[p].c].agreed = IF call[p].op = "decline" THEN @ ELSE Agreed(p)]
  /\ Goto(p, IF call[p].op = "decline" THEN NoCall ELSE [call[p] EXCEPT !.at = "post_connected"])
  /\ UNCHANGED <<inv, joined, lines, created, raced>>

PostConnected(p) ==
  /\ call[p].at = "post_connected"
  /\ lines' = [lines EXCEPT ![call[p].v] = @ \cup {"connected"}]
  /\ Goto(p, NoCall)
  /\ UNCHANGED <<row, inv, joined, created, raced>>

(***************************************************************************)
(* withdrawOutgoingRequest: read the requester's own pending row, delete   *)
(* the notices of its conversation, then the row if it is still pending.   *)
(***************************************************************************)
Withdraw(p, c) ==
  /\ call[p] = NoCall
  /\ row[c].status = "pending"
  /\ Goto(p, [NoCall EXCEPT !.at = "delete_lines", !.op = "withdraw", !.u = row[c].from,
                            !.c = c, !.v = row[c].conv])
  /\ Overlaps("withdraw")
  /\ UNCHANGED <<row, inv, joined, lines, created>>

DeleteLines(p) ==
  /\ call[p].at = "delete_lines"
  /\ lines' = [lines EXCEPT ![call[p].v] = {}]
  /\ Goto(p, [call[p] EXCEPT !.at = "delete_row"])
  /\ UNCHANGED <<row, inv, joined, created, raced>>

DeleteRow(p) ==
  /\ call[p].at = "delete_row"
  /\ row' = IF row[call[p].c].status # "pending" THEN row
            ELSE [row EXCEPT ![call[p].c] = [NoRecord EXCEPT !.status = "deleted"]]
  /\ Goto(p, NoCall)
  /\ UNCHANGED <<inv, joined, lines, created, raced>>

(***************************************************************************)
(* inviteContactByEmail while nobody has that address, and cancelInvite.   *)
(***************************************************************************)
InviteContact(p, i) ==
  /\ call[p] = NoCall /\ ~joined
  /\ inv[i] = "none" /\ \A q \in Proc : call[q].i # i
  /\ Goto(p, [NoCall EXCEPT !.at = "insert_invite", !.op = "invite", !.i = i])
  /\ UNCHANGED <<row, inv, joined, lines, created, raced>>

InsertInvite(p) ==
  /\ call[p].at = "insert_invite"
  /\ inv' = [inv EXCEPT ![call[p].i] = "open"]
  /\ Goto(p, NoCall)
  /\ UNCHANGED <<row, joined, lines, created, raced>>

CancelInvite(i) ==
  /\ inv[i] = "open"
  /\ inv' = [inv EXCEPT ![i] = "cancelled"]
  /\ UNCHANGED <<row, joined, lines, created, call, raced>>

(***************************************************************************)
(* acceptContactInvite, and one round of autoAcceptContactInvitesForUser:  *)
(* read an open invitation, claim it, and upsertAcceptedContact.           *)
(***************************************************************************)
Redeem(p, i) ==
  /\ call[p] = NoCall /\ joined
  /\ inv[i] = "open"
  /\ Goto(p, [NoCall EXCEPT !.at = "claim", !.op = "redeem", !.u = Invitee, !.i = i])
  /\ Overlaps("redeem")
  /\ UNCHANGED <<row, inv, joined, lines, created>>

Claim(p) ==
  /\ call[p].at = "claim"
  /\ \/ /\ inv[call[p].i] = "open"
        /\ inv' = [inv EXCEPT ![call[p].i] = "consumed"]
        /\ Goto(p, [call[p] EXCEPT !.at = "read_conv"])
     \/ /\ inv[call[p].i] # "open"
        /\ Goto(p, NoCall)
        /\ UNCHANGED inv
  /\ UNCHANGED <<row, joined, lines, created, raced>>

\* Slip: the row to accept is not carried to the UPDATE.
UpsertForgetsRow(p, none) ==
  IF ActiveRows = {} THEN [call[p] EXCEPT !.at = none] ELSE [call[p] EXCEPT !.at = "update"]

\* upsertAcceptedContact reads the active row and keeps it if it is accepted,
\* goes to accept it if it is pending, and to insert one if there is none; a
\* refused insert reads again and does the same, except for the notice, which
\* the caller posts in the conversation it found in any case.
Upsert(p, none) ==
  IF ActiveRows = {} THEN [call[p] EXCEPT !.at = none]
  ELSE LET c == CHOOSE c \in ActiveRows : TRUE IN
       IF row[c].status = "accepted" THEN [call[p] EXCEPT !.at = "post_connected"]
       ELSE [call[p] EXCEPT !.at = "update", !.c = c]

ReadUpsert(p) ==
  /\ call[p].at = "insert" /\ call[p].op = "redeem"
  /\ Goto(p, Upsert(p, "insert_accepted"))
  /\ UNCHANGED <<row, inv, joined, lines, created, raced>>

\* Slip: an insert the index refused is taken for a connection.
InsertAcceptedOrGiveUp(p) ==
  /\ call[p].at = "insert_accepted"
  /\ Goto(p, [call[p] EXCEPT !.at = "post_connected"])
  /\ \/ Inserted([status |-> "accepted", from |-> Inviter, conv |-> call[p].v, agreed |-> User])
     \/ ActiveRows # {} /\ UNCHANGED row
  /\ UNCHANGED <<inv, joined, lines, created, raced>>

InsertAccepted(p) ==
  /\ call[p].at = "insert_accepted"
  /\ \/ /\ Inserted([status |-> "accepted", from |-> Inviter, conv |-> call[p].v, agreed |-> User])
        /\ Goto(p, [call[p] EXCEPT !.at = "post_connected"])
     \/ /\ ActiveRows # {}
        /\ Goto(p, [call[p] EXCEPT !.at = "reread"])
        /\ UNCHANGED row
  /\ UNCHANGED <<inv, joined, lines, created, raced>>

RereadUpsert(p) ==
  /\ call[p].at = "reread"
  /\ Goto(p, Upsert(p, "post_connected"))
  /\ UNCHANGED <<row, inv, joined, lines, created, raced>>

Next ==
  \/ SignUp
  \/ \E i \in Invite : CancelInvite(i)
  \/ \E p \in Proc :
       \/ \E u \in User : Request(p, u)
       \/ \E c \in Row : (\E op \in {"accept", "decline"} : Respond(p, c, op)) \/ Withdraw(p, c)
       \/ \E i \in Invite : InviteContact(p, i) \/ Redeem(p, i)
       \/ ReadActive(p) \/ ReadConv(p) \/ CreateConv(p) \/ InsertRequest(p) \/ PostWants(p)
       \/ Update(p) \/ PostConnected(p) \/ DeleteLines(p) \/ DeleteRow(p)
       \/ InsertInvite(p) \/ Claim(p) \/ ReadUpsert(p) \/ InsertAccepted(p) \/ RereadUpsert(p)

Spec == Init /\ [][Next]_vars

------------------------------------------------------------------------------
(***************************************************************************)
(* Properties.                                                             *)
(***************************************************************************)
Labels == {"idle", "read_active", "read_conv", "create_conv", "insert", "post_wants", "update",
           "post_connected", "delete_lines", "delete_row", "insert_invite", "claim",
           "insert_accepted", "reread"}

Calls == [at : Labels, op : {"none", "invite"} \cup Connecting \cup Retracting, u : User,
          c : Row \cup {NoRow}, v : Conv \cup {NoConv}, i : Invite \cup {NoInvite}]

Records == [status : {"none", "pending", "accepted", "declined", "deleted"}, from : User,
            conv : Conv \cup {NoConv}, agreed : SUBSET User]

\* Every variable holds a value of its kind, and a call that is about to write
\* a row or a notice knows which.
TypeOK ==
  /\ row \in [Row -> Records]
  /\ inv \in [Invite -> {"none", "open", "consumed", "cancelled"}]
  /\ joined \in BOOLEAN
  /\ lines \in [Conv -> SUBSET {"wants", "connected"}]
  /\ created \subseteq Conv
  /\ call \in [Proc -> Calls]
  /\ raced \in BOOLEAN
  /\ \A p \in Proc :
       /\ call[p].at \in {"update", "delete_row"} => call[p].c \in Row
       /\ call[p].at \in {"post_wants", "post_connected", "delete_lines"} => call[p].v \in created

Settled == \A p \in Proc : call[p] = NoCall

\* "a row moves pending -> (accepted|declined) exactly once": a response is
\* never overwritten by a late accept, decline, withdrawal or invitation.
RespondedIsFinal ==
  [][\A c \in Row :
       /\ row[c].status = "accepted" => row'[c] = row[c]
       /\ row[c].status = "declined" => row'[c] = row[c] \/ row'[c].status = "deleted"]_vars

\* Nobody is connected without both having asked, accepted, invited or redeemed.
ConnectionNeedsBoth ==
  \A c \in Row : row[c].status = "accepted" => row[c].agreed = User

\* To the two people, however calls of the one and the other overlap: the active
\* row is what is asked or agreed, and only an accepted one connects.
Pair == INSTANCE Acquaintance WITH
  behind <- UNION {row[c].agreed : c \in ActiveRows},
  connected <- \E c \in Row : row[c].status = "accepted",
  invited <- \E i \in Invite : inv[i] = "consumed"

\* The statements keep the promise in every interleaving: one asks, the other one
\* agrees or has redeemed an invitation, nobody agrees for both, and nothing ever
\* takes a connection back.
ImplementsAcquaintance == Pair!Spec

\* A redeemed invitation leaves the pair connected, whatever requests and other
\* redemptions overlapped it, unless a decline or a withdrawal did too.
ClaimedInviteConnects ==
  Settled /\ ~raced /\ (\E i \in Invite : inv[i] = "consumed")
    => \E c \in Row : row[c].status = "accepted"

\* "you're now connected" stands in a thread only if the pair is, with the same
\* exception: the notice is posted without looking whether the UPDATE took.
ConnectedNoticeIsTrue ==
  Settled /\ ~raced /\ (\E v \in Conv : "connected" \in lines[v])
    => \E c \in Row : row[c].status = "accepted"

\* Both of them: whatever told two people that they are connected, a redeemed
\* invitation or the notice in their thread, they are.
ToldIsConnected == ClaimedInviteConnects /\ ConnectedNoticeIsTrue

------------------------------------------------------------------------------
\* "Reuses the pair's existing conversation across re-requests - a re-request
\* lands in the same thread" (getOrCreateDirectConversation).
OneThreadPerPair == Cardinality(created) <= 1

==============================================================================
