---------------------------- MODULE ControlSession ----------------------------
(***************************************************************************)
(* The remote-control service (apps/web/src/lib/remotecontrol/service.ts)  *)
(* for the sessions of one 1:1 DM.  Every SQL statement is one atomic      *)
(* step; a call of the service is a process p that runs from statement to  *)
(* statement, so concurrent calls (two browser tabs, the host and the      *)
(* controller, the WS engine registering an agent) interleave between      *)
(* their statements exactly where the code awaits the database.  No call   *)
(* runs in a transaction.                                                  *)
(***************************************************************************)
EXTENDS ControlStates, Naturals

CONSTANTS
  Session,     \* ids of remotecontrolsessions rows; an id is used once
  Token,       \* raw agent tokens; generateToken never repeats one
  Proc,        \* the calls that can be in flight at the same time
  User,        \* the two members of the DM
  NoToken,     \* a null tokenhash
  NoUser,      \* a null user id
  MaxFailures  \* bound: how many statements may throw (lost connection, crash)

ASSUME ControlAssumption ==
  /\ NoToken \notin Token
  /\ NoUser \notin User
  /\ MaxFailures \in Nat

VARIABLES
  row,      \* the remotecontrolsessions table
  audit,    \* audit[s]: the events in remotecontrolaudit for s
  call,     \* call[p]: where call p stands and its local variables
  issued,   \* raw tokens returned to the host, hence usable by an agent
  minted,   \* history: every token generated
  minter,   \* history: minter[s] are the users whose consent minted a token of s
  uses,     \* history: uses[t] counts the agents registered with token t
  failures  \* how many statements have thrown

vars == <<row, audit, call, issued, minted, minter, uses, failures>>

history == <<issued, minted, minter, uses, failures>>

------------------------------------------------------------------------------
NoRow == [status |-> "absent", tok |-> NoToken, expired |-> FALSE, host |-> NoUser]

NoCall == [at |-> "idle", op |-> "none", by |-> NoUser, sid |-> {},
           tok |-> NoToken, todo |-> {}, log |-> {}]

\* Slip: only sessions that have not started yet count as active.
ActiveUnstarted == {s \in Session : row[s].status \in {"requested", "agent_pending"}}

Active == {s \in Session : row[s].status \in ActiveStatuses}

Fresh == {s \in Session : row[s].status = "absent"}

Init ==
  /\ row = [s \in Session |-> NoRow]
  /\ audit = [s \in Session |-> {}]
  /\ call = [p \in Proc |-> NoCall]
  /\ issued = {}
  /\ minted = {}
  /\ minter = [s \in Session |-> {}]
  /\ uses = [t \in Token |-> 0]
  /\ failures = 0

\* Call p enters the service (it was idle) or moves on within it.
Goto(p, c) == call' = [call EXCEPT ![p] = c]

\* Call p still has to insert the audit events of its last update; the token
\* it minted, if any, is returned to the caller after that.
ThenAudit(p, s, tok, events) ==
  Goto(p, [NoCall EXCEPT !.at = "audit", !.sid = {s}, !.tok = tok, !.log = events])

\* Row s is inserted or updated.
Put(s, r) == row' = [row EXCEPT ![s] = r]

\* Slips: the reason is stored as the status; the token stays on the row.
EndedAsReason(r) == [r EXCEPT !.status = "stopped", !.tok = NoToken]
EndedKeepsToken(r) == [r EXCEPT !.status = "ended"]

\* What the UPDATE of endControl leaves: the token is cleared.
Ended(r) == [r EXCEPT !.status = "ended", !.tok = NoToken, !.expired = FALSE]

\* Slip: the audit insert is forgotten.
EndUpdateUnaudited(p, s) ==
  /\ row[s].status \in ActiveStatuses
  /\ Put(s, Ended(row[s]))
  /\ Goto(p, NoCall)
  /\ UNCHANGED <<audit, history>>

\* An UPDATE of endControl by call p, followed by its audit when it hit a row.
EndUpdate(p, s) ==
  /\ UNCHANGED <<audit, history>>
  /\ \/ /\ row[s].status \in ActiveStatuses
        /\ Put(s, Ended(row[s]))
        /\ ThenAudit(p, s, NoToken, {"ended"})
     \/ /\ row[s].status = "ended"
        /\ Goto(p, NoCall)
        /\ UNCHANGED row

------------------------------------------------------------------------------
(***************************************************************************)
(* requestControl and offerControl: select the DM's active sessions, end   *)
(* them one by one, then insert the new one.                               *)
(***************************************************************************)
SelectStale(p, u, op) ==
  /\ call[p].at = "idle"
  /\ Goto(p, [NoCall EXCEPT !.at = "supersede", !.op = op, !.by = u, !.todo = Active])
  /\ UNCHANGED <<row, audit, history>>

RequestControl(p, u) == SelectStale(p, u, "request")

OfferControl(p, u) == SelectStale(p, u, "offer")

\* endControl(s, u, "disconnected") inside the loop, in the order the rows came.
SupersedeStale(p) ==
  /\ call[p].at = "supersede"
  /\ \E s \in call[p].todo :
       LET rest == [call[p] EXCEPT !.todo = @ \ {s}]
       IN \/ /\ row[s].status # "ended"
             /\ Put(s, Ended(row[s]))
             /\ Goto(p, [rest EXCEPT !.at = "audit_stale", !.sid = {s}])
          \/ /\ row[s].status = "ended"
             /\ Goto(p, rest)
             /\ UNCHANGED row
  /\ UNCHANGED <<audit, history>>

AuditStale(p) ==
  /\ call[p].at = "audit_stale"
  /\ audit' = [s \in Session |-> IF s \in call[p].sid THEN audit[s] \cup {"ended"} ELSE audit[s]]
  /\ Goto(p, [call[p] EXCEPT !.at = "supersede", !.sid = {}])
  /\ UNCHANGED <<row, history>>

InsertRequested(p) ==
  /\ call[p].at = "supersede" /\ call[p].op = "request" /\ call[p].todo = {}
  /\ \E s \in Fresh, h \in User \ {call[p].by} :
       /\ Put(s, [NoRow EXCEPT !.status = "requested", !.host = h])
       /\ ThenAudit(p, s, NoToken, {"requested"})
  /\ UNCHANGED <<audit, history>>

InsertOffered(p) ==
  /\ call[p].at = "supersede" /\ call[p].op = "offer" /\ call[p].todo = {}
  /\ \E s \in Fresh, t \in Token \ minted :
       /\ Put(s, [NoRow EXCEPT !.status = "agent_pending", !.tok = t, !.host = call[p].by])
       /\ minted' = minted \cup {t}
       /\ minter' = [minter EXCEPT ![s] = @ \cup {call[p].by}]
       /\ ThenAudit(p, s, t, {"requested", "allowed"})
  /\ UNCHANGED <<audit, issued, uses, failures>>

------------------------------------------------------------------------------
\* Slip: either participant may allow.
AllowAnyone(p, s, u) ==
  /\ call[p].at = "idle"
  /\ row[s].status = "requested"
  /\ Goto(p, [NoCall EXCEPT !.at = "allow_update", !.op = "allow", !.by = u, !.sid = {s}])
  /\ UNCHANGED <<row, audit, history>>

(***************************************************************************)
(* allowControl: read and check the row, then an UPDATE whose WHERE names  *)
(* only the id.                                                            *)
(***************************************************************************)
AllowControl(p, s, u) ==
  /\ call[p].at = "idle"
  /\ row[s].host = u
  /\ row[s].status = "requested"
  /\ Goto(p, [NoCall EXCEPT !.at = "allow_update", !.op = "allow", !.by = u, !.sid = {s}])
  /\ UNCHANGED <<row, audit, history>>

AllowUpdate(p) ==
  /\ call[p].at = "allow_update"
  /\ \E s \in call[p].sid, t \in Token \ minted :
       /\ Put(s, [row[s] EXCEPT !.status = "agent_pending", !.tok = t, !.expired = FALSE])
       /\ minted' = minted \cup {t}
       /\ minter' = [minter EXCEPT ![s] = @ \cup {call[p].by}]
       /\ ThenAudit(p, s, t, {"allowed"})
  /\ UNCHANGED <<audit, issued, uses, failures>>

DeclineControl(p, s, u) ==
  /\ call[p].at = "idle"
  /\ row[s].host = u
  /\ row[s].status = "requested"
  /\ Goto(p, [NoCall EXCEPT !.at = "decline_update", !.op = "decline", !.by = u, !.sid = {s}])
  /\ UNCHANGED <<row, audit, history>>

DeclineUpdate(p) ==
  /\ call[p].at = "decline_update"
  /\ \E s \in call[p].sid : EndUpdate(p, s)

(***************************************************************************)
(* registerAgent: look the presented token up, then an UPDATE by id alone. *)
(***************************************************************************)
RegisterAgent(p, t) ==
  /\ call[p].at = "idle"
  /\ t \in issued
  /\ \E s \in Session :
       /\ row[s].tok = t
       /\ row[s].status = "agent_pending"
       /\ Goto(p, [NoCall EXCEPT !.at = IF row[s].expired THEN "expire_update" ELSE "register_update",
                                 !.op = "register", !.sid = {s}, !.tok = t])
  /\ UNCHANGED <<row, audit, history>>

ExpireUpdate(p) ==
  /\ call[p].at = "expire_update"
  /\ \E s \in call[p].sid : EndUpdate(p, s)

\* Slip: the token hash is left on the granted row.
RegisterKeepsToken(p) ==
  /\ call[p].at = "register_update"
  /\ \E s \in call[p].sid :
       /\ Put(s, [row[s] EXCEPT !.status = "granted"])
       /\ ThenAudit(p, s, NoToken, {"granted"})
  /\ uses' = [uses EXCEPT ![call[p].tok] = @ + 1]
  /\ UNCHANGED <<audit, issued, minted, minter, failures>>

RegisterUpdate(p) ==
  /\ call[p].at = "register_update"
  /\ \E s \in call[p].sid :
       /\ Put(s, [row[s] EXCEPT !.status = "granted", !.tok = NoToken, !.expired = FALSE])
       /\ ThenAudit(p, s, NoToken, {"granted"})
  /\ uses' = [uses EXCEPT ![call[p].tok] = @ + 1]
  /\ UNCHANGED <<audit, issued, minted, minter, failures>>

------------------------------------------------------------------------------
(***************************************************************************)
(* pauseControl, resumeControl and endControl start with a guarded UPDATE; *)
(* one that hits no row is a call without effect and is left out.          *)
(***************************************************************************)
\* Slip: any session that has not ended can be paused.
PauseUnended(p, s) ==
  /\ call[p].at = "idle"
  /\ row[s].status \in ActiveStatuses
  /\ Put(s, [row[s] EXCEPT !.status = "paused"])
  /\ ThenAudit(p, s, NoToken, {"paused"})
  /\ UNCHANGED <<audit, history>>

PauseControl(p, s) ==
  /\ call[p].at = "idle"
  /\ row[s].status = "granted"
  /\ Put(s, [row[s] EXCEPT !.status = "paused"])
  /\ ThenAudit(p, s, NoToken, {"paused"})
  /\ UNCHANGED <<audit, history>>

ResumeControl(p, s) ==
  /\ call[p].at = "idle"
  /\ row[s].status = "paused"
  /\ Put(s, [row[s] EXCEPT !.status = "granted"])
  /\ ThenAudit(p, s, NoToken, {"paused"})
  /\ UNCHANGED <<audit, history>>

\* The stop route (stopped, panic) and the engine when an agent's socket drops.
EndControl(p, s) ==
  /\ call[p].at = "idle"
  /\ row[s].status \in ActiveStatuses
  /\ EndUpdate(p, s)

\* The audit inserts that follow an update; the call then returns, and with it
\* the raw token of an allow or an offer.
AuditInsert(p) ==
  /\ call[p].at = "audit"
  /\ audit' = [s \in Session |-> IF s \in call[p].sid THEN audit[s] \cup call[p].log ELSE audit[s]]
  /\ issued' = issued \cup ({call[p].tok} \ {NoToken})
  /\ Goto(p, NoCall)
  /\ UNCHANGED <<row, minted, minter, uses, failures>>

------------------------------------------------------------------------------
\* TOKEN_TTL_MS passes before an agent shows up.
TokenExpires(s) ==
  /\ row[s].status = "agent_pending" /\ ~row[s].expired
  /\ Put(s, [row[s] EXCEPT !.expired = TRUE])
  /\ UNCHANGED <<audit, call, history>>

\* A statement throws: the call is abandoned where it stands, except that the
\* supersede loop swallows the error and goes on with the next stale session.
StatementFails(p) ==
  /\ failures < MaxFailures
  /\ call[p].at # "idle"
  /\ \/ /\ call[p].at = "supersede" /\ call[p].todo # {}
        /\ \E s \in call[p].todo : Goto(p, [call[p] EXCEPT !.todo = @ \ {s}])
     \/ /\ call[p].at = "audit_stale"
        /\ Goto(p, [call[p] EXCEPT !.at = "supersede", !.sid = {}])
     \/ /\ call[p].at # "audit_stale"
        /\ Goto(p, NoCall)
  /\ failures' = failures + 1
  /\ UNCHANGED <<row, audit, issued, minted, minter, uses>>

Next ==
  \/ \E p \in Proc :
       \/ \E u \in User : RequestControl(p, u) \/ OfferControl(p, u)
       \/ SupersedeStale(p)
       \/ AuditStale(p)
       \/ InsertRequested(p)
       \/ InsertOffered(p)
       \/ \E s \in Session, u \in User : AllowControl(p, s, u) \/ DeclineControl(p, s, u)
       \/ AllowUpdate(p)
       \/ DeclineUpdate(p)
       \/ \E t \in Token : RegisterAgent(p, t)
       \/ ExpireUpdate(p)
       \/ RegisterUpdate(p)
       \/ \E s \in Session : PauseControl(p, s) \/ ResumeControl(p, s) \/ EndControl(p, s)
       \/ AuditInsert(p)
       \/ StatementFails(p)
  \/ \E s \in Session : TokenExpires(s)

Spec == Init /\ [][Next]_vars

------------------------------------------------------------------------------
(***************************************************************************)
(* Properties.                                                             *)
(***************************************************************************)
Labels == {"idle", "supersede", "audit_stale", "allow_update", "decline_update",
           "expire_update", "register_update", "audit"}

\* "granted" stands for agent_registered and granted, inserted back to back;
\* "paused" for paused and resumed; "ended" for the END_EVENT of any reason.
Events == {"requested", "allowed", "granted", "paused", "ended"}

Rows == [status : Statuses \cup {"absent"}, tok : Token \cup {NoToken}, expired : BOOLEAN,
         host : User \cup {NoUser}]

Calls == [at : Labels, op : {"none", "request", "offer", "allow", "decline", "register"},
          by : User \cup {NoUser}, sid : SUBSET Session, tok : Token \cup {NoToken},
          todo : SUBSET Session, log : SUBSET Events]

\* Every variable holds a value of its kind.
TypeOK ==
  /\ row \in [Session -> Rows]
  /\ audit \in [Session -> SUBSET Events]
  /\ call \in [Proc -> Calls]
  /\ issued \subseteq Token
  /\ minted \subseteq Token
  /\ minter \in [Session -> SUBSET (User \cup {NoUser})]
  /\ uses \in [Token -> Nat]
  /\ failures \in Nat

\* A token hash is stored exactly while a session waits for its agent: no
\* interleaving of the unguarded UPDATEs leaves a usable token on a granted,
\* paused or ended session ("hash stored, cleared on register/end").
TokenOnlyWhilePending ==
  \A s \in Session : row[s].tok # NoToken <=> row[s].status = "agent_pending"

\* Once an agent has registered with a token, the table never holds that token
\* again, whatever calls were in flight: a later presentation finds no row.
SpentTokenNeverStored ==
  \A t \in Token, s \in Session : uses[t] > 0 => row[s].tok # t

\* A session that waits for an agent, is under control or is paused has the
\* consent of its host, and nobody else ever minted a token for it.
ConsentBeforeControl ==
  \A s \in Session :
    /\ minter[s] \subseteq {row[s].host}
    /\ row[s].status \in {"agent_pending", "granted", "paused"} => row[s].host \in minter[s]

\* When no call is at work on it and no statement failed, a session's audit trail
\* accounts for its status: that it was allowed and registered when it is live,
\* that it ended when it has ("every transition is audited", service.ts).
AuditAccountsForStatus ==
  failures = 0 => \A s \in Session :
    (\A p \in Proc : s \notin call[p].sid) =>
      /\ row[s].status \in {"granted", "paused"} =>
           {"requested", "allowed", "granted"} \subseteq audit[s]
      /\ row[s].status = "ended" => "ended" \in audit[s]

\* A session only leaves the transition table of state.ts when allowControl or
\* registerAgent writes over a status that changed after the call read it.
OnlyStaleWritesAreIllegal ==
  [][\A s \in Session :
       \/ row'[s].status = row[s].status
       \/ row[s].status = "absent"
       \/ LegalMove(row[s].status, row'[s].status)
       \/ \E p \in Proc :
            /\ s \in call[p].sid
            /\ \/ call[p].at = "allow_update" /\ row[s].status # "requested"
               \/ call[p].at = "register_update" /\ row[s].status # "agent_pending"]_vars

\* The sessions of the DM as the abstract lifecycle sees them.
Lifecycle == INSTANCE ControlLifecycle WITH state <- [s \in Session |-> row[s].status]

\* Calls that do not overlap implement the lifecycle: legal moves only, and a
\* session is created only when every other one has ended.
ImplementsLifecycle == Lifecycle!Spec

------------------------------------------------------------------------------
(***************************************************************************)
(* What the documents say and overlapping calls break.                     *)
(***************************************************************************)
\* "ended is terminal for every action" (state.test.ts).
EndedIsTerminal ==
  [][\A s \in Session : row[s].status = "ended" => row'[s].status = "ended"]_vars

==============================================================================
