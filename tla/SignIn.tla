-------------------------------- MODULE SignIn --------------------------------
(***************************************************************************)
(* The ways into an account (lib/auth/service.ts): a password, identities  *)
(* at a provider, and links sent by mail, for people who may have none of  *)
(* them yet.  A person is known by one mail address.  What follows a sign- *)
(* in, sessions and their tokens, is in AuthSessions.                      *)
(***************************************************************************)
EXTENDS Callers

CONSTANTS
  Address,    \* mail addresses
  Identity,   \* accounts at a provider
  Ticket      \* magic links

ASSUME SignInAssumption == "none" \notin Address \cup Identity \cup Ticket /\ "other" \notin Ticket

VARIABLES
  account,    \* account[u]: the users row of u's address
  holder,     \* holder[i]: the ssoidentities row of i
  ticket,     \* ticket[t]: the magiclinktokens row, and whether there was an account when it was asked for
  visit,      \* visit[p]: where call p stands
  entered,    \* history: the links that signed their owner in
  armed,      \* history: accounts that had a password or an identity
  crossing    \* history: accounts of which two unlinks overlapped

SignInVars == <<account, holder, ticket, visit, entered, armed, crossing>>

NoAccount == [made |-> FALSE, password |-> FALSE, by |-> "none"]
NoTicket == [u |-> "none", bound |-> FALSE, known |-> FALSE, state |-> "none"]
VisitIdle == [at |-> "idle", u |-> "none", i |-> "none", t |-> "none", saw |-> FALSE]
Visits ==
  [at : {"idle", "provision", "sso_mail", "sso_insert", "link_insert", "unlink_password", "unlink_count",
         "unlink_delete", "send", "spend", "create", "enter"},
   u : Address \cup {"none"}, i : Identity \cup {"none"}, t : Ticket \cup {"none"}, saw : BOOLEAN]

Held(u) == {i \in Identity : holder[i] = u}
HasMethod(u) == account[u].password \/ Held(u) # {}
Unlinking(u) == {p \in Proc : visit[p].u = u /\ visit[p].at \in {"unlink_password", "unlink_count", "unlink_delete"}}

SignInInit ==
  /\ account = [u \in Address |-> NoAccount]
  /\ holder = [i \in Identity |-> "none"]
  /\ ticket = [t \in Ticket |-> NoTicket]
  /\ visit = [p \in Proc |-> VisitIdle]
  /\ entered = {} /\ armed = {} /\ crossing = {}

Visit(p, v) == visit' = [visit EXCEPT ![p] = v]
VisitAt(p, at) == Visit(p, [visit[p] EXCEPT !.at = at])
Leave(p) == Visit(p, VisitIdle)
Start(p, v) == visit[p] = VisitIdle /\ Visit(p, v)

\* The transaction of an account, its organisation and what comes with it: it
\* fails as a whole when the address has an account.
Create(u, password, by) ==
  account' = IF account[u].made THEN account ELSE [account EXCEPT ![u] = [made |-> TRUE, password |-> password, by |-> by]]

(***************************************************************************)
(* signup and consumePasswordReset, each one transaction; the consumer     *)
(* seam provisionOrLookupUserByEmail.                                      *)
(***************************************************************************)
Signup(u) ==
  /\ ~account[u].made /\ Create(u, TRUE, "other")
  /\ armed' = armed \cup {u}
  /\ UNCHANGED <<holder, ticket, visit, entered, crossing>>

ResetPassword(u) ==
  /\ account[u].made /\ ~account[u].password
  /\ account' = [account EXCEPT ![u].password = TRUE]
  /\ armed' = armed \cup {u}
  /\ UNCHANGED <<holder, ticket, visit, entered, crossing>>

LookupByEmail(p, u) ==
  /\ ~account[u].made /\ Start(p, [VisitIdle EXCEPT !.at = "provision", !.u = u])
  /\ UNCHANGED <<account, holder, ticket, entered, armed, crossing>>

Provision(p) ==
  /\ visit[p].at = "provision"
  /\ Create(visit[p].u, FALSE, "other")
  /\ Leave(p)
  /\ UNCHANGED <<holder, ticket, entered, armed, crossing>>

(***************************************************************************)
(* linkOrProvisionSso, linkSsoIdentity, unlinkSsoIdentity.  An identity    *)
(* that is held signs its holder in, which changes nothing here.           *)
(***************************************************************************)
SsoSignIn(p, i, u) ==
  /\ holder[i] = "none" /\ Start(p, [VisitIdle EXCEPT !.at = "sso_mail", !.u = u, !.i = i])
  /\ UNCHANGED <<account, holder, ticket, entered, armed, crossing>>

LookUpMail(p) ==
  /\ visit[p].at = "sso_mail"
  /\ IF account[visit[p].u].made THEN Leave(p) ELSE VisitAt(p, "sso_insert")
  /\ UNCHANGED <<account, holder, ticket, entered, armed, crossing>>

SsoProvision(p) ==
  LET v == visit[p]
      free == ~account[v.u].made /\ holder[v.i] = "none"
  IN
  /\ v.at = "sso_insert"
  /\ account' = IF free THEN [account EXCEPT ![v.u] = [made |-> TRUE, password |-> FALSE, by |-> "other"]] ELSE account
  /\ holder' = IF free THEN [holder EXCEPT ![v.i] = v.u] ELSE holder
  /\ armed' = IF free THEN armed \cup {v.u} ELSE armed
  /\ Leave(p)
  /\ UNCHANGED <<ticket, entered, crossing>>

LinkSsoIdentity(p, u, i) ==
  /\ account[u].made /\ holder[i] = "none"
  /\ Start(p, [VisitIdle EXCEPT !.at = "link_insert", !.u = u, !.i = i])
  /\ UNCHANGED <<account, holder, ticket, entered, armed, crossing>>

\* An identity is held once: a second INSERT fails.
LinkInsert(p) ==
  LET v == visit[p] IN
  /\ v.at = "link_insert"
  /\ IF holder[v.i] = "none"
       THEN holder' = [holder EXCEPT ![v.i] = v.u] /\ armed' = armed \cup {v.u}
       ELSE UNCHANGED <<holder, armed>>
  /\ Leave(p)
  /\ UNCHANGED <<account, ticket, entered, crossing>>

UnlinkSsoIdentity(p, u, i) ==
  /\ holder[i] = u /\ Start(p, [VisitIdle EXCEPT !.at = "unlink_password", !.u = u, !.i = i])
  /\ crossing' = IF Unlinking(u) # {} THEN crossing \cup {u} ELSE crossing
  /\ UNCHANGED <<account, holder, ticket, entered, armed>>

ReadPassword(p) ==
  /\ visit[p].at = "unlink_password"
  /\ Visit(p, [visit[p] EXCEPT !.at = "unlink_count", !.saw = account[visit[p].u].password])
  /\ UNCHANGED <<account, holder, ticket, entered, armed, crossing>>

CountOthers(p) ==
  LET v == visit[p] IN
  /\ v.at = "unlink_count"
  /\ IF v.saw \/ Held(v.u) \ {v.i} # {} THEN VisitAt(p, "unlink_delete") ELSE Leave(p)
  /\ UNCHANGED <<account, holder, ticket, entered, armed, crossing>>

\* The row that was read, if it is still there: it is gone for the other calls
\* about it, and one linked again is another row.
DeleteIdentity(p) ==
  LET i == visit[p].i IN
  /\ visit[p].at = "unlink_delete"
  /\ holder' = [j \in Identity |-> IF j = i THEN "none" ELSE holder[j]]
  /\ visit' = [q \in Proc |-> IF q = p THEN VisitIdle
                 ELSE [visit[q] EXCEPT !.i = IF @ = i /\ q \in Unlinking(visit[q].u) THEN "none" ELSE @]]
  /\ UNCHANGED <<account, ticket, entered, armed, crossing>>

(***************************************************************************)
(* requestMagicLink: the account of the address, if any, goes into the     *)
(* link.  consumeMagicLink: the link is read, spent, and signs in the      *)
(* account it was sent for, or one made now.                               *)
(***************************************************************************)
RequestMagicLink(p, u) ==
  /\ Start(p, [VisitIdle EXCEPT !.at = "send", !.u = u, !.saw = account[u].made])
  /\ UNCHANGED <<account, holder, ticket, entered, armed, crossing>>

\* Slip: a link carries the address alone.
SendUnbound(p, t) ==
  /\ visit[p].at = "send" /\ ticket[t] = NoTicket
  /\ ticket' = [ticket EXCEPT ![t] = [u |-> visit[p].u, bound |-> FALSE, known |-> visit[p].saw, state |-> "sent"]]
  /\ Leave(p)
  /\ UNCHANGED <<account, holder, entered, armed, crossing>>

SendLink(p, t) ==
  /\ visit[p].at = "send" /\ ticket[t] = NoTicket
  /\ ticket' = [ticket EXCEPT ![t] = [u |-> visit[p].u, bound |-> visit[p].saw, known |-> visit[p].saw, state |-> "sent"]]
  /\ Leave(p)
  /\ UNCHANGED <<account, holder, entered, armed, crossing>>

ConsumeMagicLink(p, t) ==
  /\ ticket[t].state = "sent"
  /\ Start(p, [VisitIdle EXCEPT !.at = "spend", !.u = ticket[t].u, !.t = t, !.saw = ticket[t].bound])
  /\ UNCHANGED <<account, holder, ticket, entered, armed, crossing>>

SpendLink(p) ==
  /\ visit[p].at = "spend"
  /\ ticket' = [ticket EXCEPT ![visit[p].t].state = "spent"]
  /\ VisitAt(p, IF visit[p].saw THEN "enter" ELSE "create")
  /\ UNCHANGED <<account, holder, entered, armed, crossing>>

CreateOnConsume(p) ==
  LET v == visit[p] IN
  /\ v.at = "create"
  /\ Create(v.u, FALSE, v.t)
  /\ IF account[v.u].made THEN Leave(p) ELSE VisitAt(p, "enter")
  /\ UNCHANGED <<holder, ticket, entered, armed, crossing>>

EnterByLink(p) ==
  /\ visit[p].at = "enter"
  /\ entered' = entered \cup {visit[p].t}
  /\ Leave(p)
  /\ UNCHANGED <<account, holder, ticket, armed, crossing>>

SignInNext ==
  \/ \E u \in Address : Signup(u) \/ ResetPassword(u)
  \/ \E p \in Proc :
       \/ \E u \in Address :
            \/ LookupByEmail(p, u) \/ RequestMagicLink(p, u)
            \/ \E i \in Identity : SsoSignIn(p, i, u) \/ LinkSsoIdentity(p, u, i) \/ UnlinkSsoIdentity(p, u, i)
       \/ \E t \in Ticket : SendLink(p, t) \/ ConsumeMagicLink(p, t)
       \/ Provision(p) \/ LookUpMail(p) \/ SsoProvision(p) \/ LinkInsert(p)
       \/ ReadPassword(p) \/ CountOthers(p) \/ DeleteIdentity(p)
       \/ SpendLink(p) \/ CreateOnConsume(p) \/ EnterByLink(p)

SignInSpec == SignInInit /\ [][SignInNext]_SignInVars

------------------------------------------------------------------------------
(***************************************************************************)
(* Properties.                                                             *)
(***************************************************************************)
\* Every variable holds a value of its kind.
SignInTypeOK ==
  /\ account \in [Address -> [made : BOOLEAN, password : BOOLEAN, by : {"none", "other"} \cup Ticket]]
  /\ holder \in [Identity -> Address \cup {"none"}]
  /\ ticket \in [Ticket -> [u : Address \cup {"none"}, bound : BOOLEAN, known : BOOLEAN, state : {"none", "sent", "spent"}]]
  /\ visit \in [Proc -> Visits]
  /\ entered \subseteq Ticket /\ armed \subseteq Address /\ crossing \subseteq Address

\* An account that had a way in keeps one ("so a user can never lock themselves
\* out of their own account"), as long as its unlinks come one at a time: the
\* password and the other identities are read before the row goes, and neither
\* can go meanwhile.
MethodRemainsAlone == \A u \in armed \ crossing : HasMethod(u)

\* A link that was spent signed its owner in, once no call is at it, unless it
\* was sent to an address without an account that has got one in another way.
SpentLinkSignedIn ==
  \A t \in Ticket :
    (ticket[t].state = "spent" /\ \A p \in Proc : visit[p].t # t) =>
       t \in entered \/ (~ticket[t].known /\ account[ticket[t].u].by # t)

\* Both of them.
NobodyIsLockedOut == MethodRemainsAlone /\ SpentLinkSignedIn

==============================================================================
