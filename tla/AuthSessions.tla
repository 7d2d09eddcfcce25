------------------------------ MODULE AuthSessions ------------------------------
(***************************************************************************)
(* Sessions and refresh tokens of one user                                 *)
(* (apps/web/src/lib/auth/service.ts): sign-in, refresh rotation with its  *)
(* grace window and reuse detection, sign-out and password reset.          *)
(*                                                                         *)
(* A row stands for a session together with the refresh token issued with  *)
(* it; a family is the chain of rows one sign-in starts.  Every SQL        *)
(* statement is a step of its own: no call but the account writes runs in  *)
(* a transaction.  A client may present any token it was ever given, which *)
(* covers retries, delayed requests and copies.                            *)
(***************************************************************************)
EXTENDS Callers

CONSTANTS
  Row,       \* ids of session/refresh-token pairs
  Family,    \* familyid values; each sign-in takes a new one
  NoRow,
  NoFamily

ASSUME AuthAssumption == NoRow \notin Row /\ NoFamily \notin Family

VARIABLES
  sess,      \* sess[r]: the sessions row, "none" before it is inserted
  fam,       \* fam[r]: familyid of the refreshtokens row, NoFamily before
  dead,      \* the refresh tokens with a revokedat
  rotated,   \* rotated[r]: "no", or how long ago replacedbyid was set
  given,     \* the rows whose tokens a response has carried to the client
  call,      \* call[p]: where call p stands and its local variables
  raced      \* history: families on which an issuing and a revoking call overlapped

vars == <<sess, fam, dead, rotated, given, call, raced>>

NoCall == [at |-> "idle", op |-> "none", f |-> NoFamily, old |-> NoRow, new |-> NoRow, ids |-> {}]

Issuing == {"login", "rotate", "grace"}
Revoking == {"reuse", "signout", "reset"}

OfFamily(f) == {r \in Row : fam[r] = f}

Goto(p, c) == call' = [call EXCEPT ![p] = c]

Touches(q, f) == call[q].f = f \/ call[q].op = "reset"

\* A call of one side starts on family f: it races those of the other side.
Races(f, others) == \E q \in Proc : call[q].op \in others /\ Touches(q, f)

Revoked(ids) == [r \in Row |-> IF r \in ids /\ sess[r] = "live" THEN "revoked" ELSE sess[r]]

------------------------------------------------------------------------------
Init ==
  /\ sess = [r \in Row |-> "none"]
  /\ fam = [r \in Row |-> NoFamily]
  /\ dead = {}
  /\ rotated = [r \in Row |-> "no"]
  /\ given = {}
  /\ call = [p \in Proc |-> NoCall]
  /\ raced = {}

(***************************************************************************)
(* login and refresh, up to the read that decides what they do.            *)
(***************************************************************************)
Login(p, f) ==
  /\ call[p] = NoCall
  /\ OfFamily(f) = {} /\ \A q \in Proc : call[q].f # f
  /\ Goto(p, [NoCall EXCEPT !.at = "insert_session", !.op = "login", !.f = f])
  /\ raced' = IF Races(f, Revoking) THEN raced \cup {f} ELSE raced
  /\ UNCHANGED <<sess, fam, dead, rotated, given>>

\* Slip: the replaced token's id is passed where its family id belongs.
RefreshIntoOwnId(p, r) ==
  /\ call[p] = NoCall
  /\ r \in given \ dead /\ rotated[r] # "long ago"
  /\ Goto(p, [NoCall EXCEPT !.at = "insert_session", !.f = r, !.old = r,
                            !.op = IF rotated[r] = "no" THEN "rotate" ELSE "grace"])
  /\ UNCHANGED <<sess, fam, dead, rotated, given, raced>>

\* A revoked token is refused; one not yet replaced rotates; one replaced
\* within REFRESH_GRACE_MS gets another rotation.
Refresh(p, r) ==
  /\ call[p] = NoCall
  /\ r \in given \ dead /\ rotated[r] # "long ago"
  /\ Goto(p, [NoCall EXCEPT !.at = "insert_session", !.f = fam[r], !.old = r,
                            !.op = IF rotated[r] = "no" THEN "rotate" ELSE "grace"])
  /\ raced' = IF Races(fam[r], Revoking) THEN raced \cup {fam[r]} ELSE raced
  /\ UNCHANGED <<sess, fam, dead, rotated, given>>

\* One replaced longer ago is reuse: the family is revoked.
RefreshReused(p, r) ==
  /\ call[p] = NoCall
  /\ r \in given \ dead /\ rotated[r] = "long ago"
  /\ Goto(p, [NoCall EXCEPT !.at = "read_family", !.op = "reuse", !.f = fam[r], !.old = r])
  /\ raced' = IF Races(fam[r], Issuing) THEN raced \cup {fam[r]} ELSE raced
  /\ UNCHANGED <<sess, fam, dead, rotated, given>>

(***************************************************************************)
(* issueSession and issueSessionContinuingFamily: the session, then its    *)
(* refresh token; a sign-in answers with them at once.                     *)
(***************************************************************************)
InsertSession(p) ==
  /\ call[p].at = "insert_session"
  /\ \E n \in Row :
       /\ sess[n] = "none"
       /\ sess' = [sess EXCEPT ![n] = "live"]
       /\ Goto(p, [call[p] EXCEPT !.at = "insert_refresh", !.new = n])
  /\ UNCHANGED <<fam, dead, rotated, given, raced>>

InsertRefresh(p) ==
  /\ call[p].at = "insert_refresh"
  /\ fam' = [fam EXCEPT ![call[p].new] = call[p].f]
  /\ \/ /\ call[p].op = "login"
        /\ given' = given \cup {call[p].new}
        /\ Goto(p, NoCall)
     \/ /\ call[p].op = "rotate"
        /\ Goto(p, [call[p] EXCEPT !.at = "mark_replaced"])
        /\ UNCHANGED given
     \/ /\ call[p].op = "grace"
        /\ Goto(p, [call[p] EXCEPT !.at = "read_others"])
        /\ UNCHANGED given
  /\ UNCHANGED <<sess, dead, rotated, raced>>

\* The rest of refresh: the old token is marked, then revokeOtherFamilySessions
\* reads the family and revokes all but the new session.
MarkReplaced(p) ==
  /\ call[p].at = "mark_replaced"
  /\ rotated' = [rotated EXCEPT ![call[p].old] = "just now"]
  /\ Goto(p, [call[p] EXCEPT !.at = "read_others"])
  /\ UNCHANGED <<sess, fam, dead, given, raced>>

\* Slip: only the session that was replaced is revoked.
ReadReplaced(p) ==
  /\ call[p].at = "read_others"
  /\ Goto(p, [call[p] EXCEPT !.at = "revoke_others", !.ids = {call[p].old}])
  /\ UNCHANGED <<sess, fam, dead, rotated, given, raced>>

ReadOthers(p) ==
  /\ call[p].at = "read_others"
  /\ Goto(p, [call[p] EXCEPT !.at = "revoke_others", !.ids = OfFamily(call[p].f) \ {call[p].new}])
  /\ UNCHANGED <<sess, fam, dead, rotated, given, raced>>

RevokeOthers(p) ==
  /\ call[p].at = "revoke_others"
  /\ sess' = Revoked(call[p].ids)
  /\ given' = given \cup {call[p].new}
  /\ Goto(p, NoCall)
  /\ UNCHANGED <<fam, dead, rotated, raced>>

(***************************************************************************)
(* logout and revokeSessionById find the family of a session and revoke    *)
(* it; neither looks whether the session is still live.                    *)
(***************************************************************************)
SignOut(p, r) ==
  /\ call[p] = NoCall
  /\ r \in given
  /\ Goto(p, [NoCall EXCEPT !.at = "read_family", !.op = "signout", !.f = fam[r], !.old = r])
  /\ raced' = IF Races(fam[r], Issuing) THEN raced \cup {fam[r]} ELSE raced
  /\ UNCHANGED <<sess, fam, dead, rotated, given>>

\* Slip: only the session that signed out is revoked.
ReadOwnSession(p) ==
  /\ call[p].at = "read_family"
  /\ Goto(p, [call[p] EXCEPT !.at = "revoke_tokens", !.ids = {call[p].old}])
  /\ UNCHANGED <<sess, fam, dead, rotated, given, raced>>

\* revokeFamily: read the sessions, revoke the tokens, revoke what was read.
ReadFamily(p) ==
  /\ call[p].at = "read_family"
  /\ Goto(p, [call[p] EXCEPT !.at = "revoke_tokens", !.ids = OfFamily(call[p].f)])
  /\ UNCHANGED <<sess, fam, dead, rotated, given, raced>>

RevokeTokens(p) ==
  /\ call[p].at = "revoke_tokens"
  /\ dead' = dead \cup OfFamily(call[p].f)
  /\ Goto(p, [call[p] EXCEPT !.at = "revoke_sessions"])
  /\ UNCHANGED <<sess, fam, rotated, given, raced>>

\* Sign-out then revokes the session it started from, which is one of them.
RevokeSessions(p) ==
  /\ call[p].at = "revoke_sessions"
  /\ sess' = Revoked(call[p].ids)
  /\ Goto(p, NoCall)
  /\ UNCHANGED <<fam, dead, rotated, given, raced>>

(***************************************************************************)
(* consumePasswordReset after its transaction: every session of the user,  *)
(* then every refresh token.                                               *)
(***************************************************************************)
ResetSessions(p) ==
  /\ call[p] = NoCall
  /\ sess' = Revoked(Row)
  /\ Goto(p, [NoCall EXCEPT !.at = "reset_tokens", !.op = "reset"])
  /\ raced' = raced \cup {f \in Family : Races(f, Issuing)}
  /\ UNCHANGED <<fam, dead, rotated, given>>

ResetTokens(p) ==
  /\ call[p].at = "reset_tokens"
  /\ dead' = dead \cup {r \in Row : fam[r] # NoFamily}
  /\ Goto(p, NoCall)
  /\ UNCHANGED <<sess, fam, rotated, given, raced>>

\* REFRESH_GRACE_MS passes.
GraceEnds(r) ==
  /\ rotated[r] = "just now"
  /\ rotated' = [rotated EXCEPT ![r] = "long ago"]
  /\ UNCHANGED <<sess, fam, dead, given, call, raced>>

Next ==
  \/ \E p \in Proc :
       \/ \E f \in Family : Login(p, f)
       \/ \E r \in Row : Refresh(p, r) \/ RefreshReused(p, r) \/ SignOut(p, r)
       \/ InsertSession(p) \/ InsertRefresh(p)
       \/ MarkReplaced(p) \/ ReadOthers(p) \/ RevokeOthers(p)
       \/ ReadFamily(p) \/ RevokeTokens(p) \/ RevokeSessions(p)
       \/ ResetSessions(p) \/ ResetTokens(p)
  \/ \E r \in Row : GraceEnds(r)

Spec == Init /\ [][Next]_vars

------------------------------------------------------------------------------
(***************************************************************************)
(* Properties.                                                             *)
(***************************************************************************)
Labels == {"idle", "insert_session", "insert_refresh", "mark_replaced", "read_others",
           "revoke_others", "read_family", "revoke_tokens", "revoke_sessions", "reset_tokens"}

Calls == [at : Labels, op : {"none"} \cup Issuing \cup Revoking, f : Family \cup {NoFamily},
          old : Row \cup {NoRow}, new : Row \cup {NoRow}, ids : SUBSET Row]

\* Every variable holds a value of its kind.
TypeOK ==
  /\ sess \in [Row -> {"none", "live", "revoked"}]
  /\ fam \in [Row -> Family \cup {NoFamily}]
  /\ dead \subseteq Row
  /\ rotated \in [Row -> {"no", "just now", "long ago"}]
  /\ given \subseteq Row
  /\ call \in [Proc -> Calls]
  /\ raced \subseteq Family

LiveOf(f) == {r \in OfFamily(f) : sess[r] = "live"}

Settled(f) == \A p \in Proc : ~(call[p].op # "none" /\ Touches(p, f))

\* However many refreshes of a device overlap, it is left with at most one live
\* session: each links its session to the family before it reads the others.
AtMostOneLiveSession ==
  \A f \in Family : Settled(f) => \A r1, r2 \in LiveOf(f) : r1 = r2

\* No session outlives the call that inserted it without a refresh token that
\* ties it to a family, hence to sign-out.
LiveSessionsHaveAFamily ==
  \A r \in Row :
    sess[r] = "live" /\ fam[r] = NoFamily => \E p \in Proc : call[p].new = r

\* A sign-out, a detected reuse or a password reset that no sign-in or refresh
\* of the family overlapped leaves nothing usable: no live session, no token.
SignOutIsComplete ==
  \A f \in Family \ raced :
    Settled(f) /\ OfFamily(f) \cap dead # {} => LiveOf(f) = {} /\ OfFamily(f) \subseteq dead

\* Both of them: every session that is issued can be signed out, and is.
NothingEscapesSignOut == LiveSessionsHaveAFamily /\ SignOutIsComplete

------------------------------------------------------------------------------
\* "Keeps exactly one live session per device after rotation" (service.ts): a
\* device that nobody signed out has a live session once its calls are done.
ExactlyOneLiveSession ==
  \A f \in Family :
    Settled(f) /\ OfFamily(f) # {} /\ OfFamily(f) \cap dead = {} /\ f \notin raced
      => \E r \in LiveOf(f) : LiveOf(f) = {r}

==============================================================================
