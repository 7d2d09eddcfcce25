------------------------- MODULE ControlSession_proofs -------------------------
(***************************************************************************)
(* Proofs about ControlSession for every set of sessions, tokens, callers  *)
(* and users, with failing statements or without.                          *)
(***************************************************************************)
EXTENDS ControlSession, TLAPS

------------------------------------------------------------------------------
(***************************************************************************)
(* Type correctness.                                                       *)
(***************************************************************************)
USE DEF Statuses, ActiveStatuses, Labels, Events

LEMMA NoCallType == NoCall \in Calls
  BY DEF NoCall, Calls

\* Entering, moving within or leaving the service keeps the calls well formed.
LEMMA GotoType ==
  ASSUME TypeOK, NEW p \in Proc, NEW c \in Calls, Goto(p, c)
  PROVE  call' \in [Proc -> Calls]
  BY DEF TypeOK, Goto

LEMMA PutType ==
  ASSUME TypeOK, NEW s \in Session, NEW r \in Rows, Put(s, r)
  PROVE  row' \in [Session -> Rows]
  BY DEF TypeOK, Put

LEMMA AuditCallType ==
  ASSUME NEW s \in Session, NEW t \in Token \cup {NoToken}, NEW e \in SUBSET Events
  PROVE  [NoCall EXCEPT !.at = "audit", !.sid = {s}, !.tok = t, !.log = e] \in Calls
  BY DEF NoCall, Calls

LEMMA RowUpdateType ==
  ASSUME NEW r \in Rows, NEW st \in Statuses, NEW t \in Token \cup {NoToken}, NEW e \in BOOLEAN
  PROVE  [r EXCEPT !.status = st, !.tok = t, !.expired = e] \in Rows
  BY DEF Rows

LEMMA EndedType ==
  ASSUME NEW r \in Rows
  PROVE  Ended(r) \in Rows
  BY RowUpdateType DEF Ended

\* The supersede loop of requestControl and offerControl.
LEMMA LoopCallType ==
  ASSUME NEW c \in Calls, NEW s \in Session
  PROVE  /\ [c EXCEPT !.at = "supersede", !.sid = {}] \in Calls
         /\ [c EXCEPT !.at = "audit_stale", !.sid = {s}] \in Calls
         /\ [c EXCEPT !.todo = @ \ {s}] \in Calls
  <1>1. [c EXCEPT !.at = "supersede", !.sid = {}] \in Calls
    BY DEF Calls
  <1>2. [c EXCEPT !.at = "audit_stale", !.sid = {s}] \in Calls
    BY DEF Calls
  <1>3. [c EXCEPT !.todo = @ \ {s}] \in Calls
    BY DEF Calls
  <1>4. QED
    BY <1>1, <1>2, <1>3

\* The UPDATE of endControl followed by its audit.
LEMMA EndUpdateType ==
  ASSUME TypeOK, NEW p \in Proc, NEW s \in Session, EndUpdate(p, s)
  PROVE  TypeOK'
  <1>1. /\ row' \in [Session -> Rows]
        /\ call' \in [Proc -> Calls]
    <2>1. CASE Put(s, Ended(row[s])) /\ ThenAudit(p, s, NoToken, {"ended"})
      <3>1. Ended(row[s]) \in Rows
        BY EndedType DEF TypeOK
      <3>2. [NoCall EXCEPT !.at = "audit", !.sid = {s}, !.tok = NoToken, !.log = {"ended"}] \in Calls
        BY AuditCallType
      <3>3. QED
        BY <2>1, <3>1, <3>2, PutType, GotoType DEF ThenAudit
    <2>2. CASE UNCHANGED row /\ Goto(p, NoCall)
      BY <2>2, NoCallType, GotoType DEF TypeOK
    <2>3. QED
      BY <2>1, <2>2 DEF EndUpdate
  <1>2. QED
    BY <1>1 DEF EndUpdate, TypeOK, history

LEMMA TypeInit == Init => TypeOK
  BY NoCallType DEF Init, TypeOK, NoRow, Rows

\* Each action keeps every variable in its set.
LEMMA TypeStep == TypeOK /\ [Next]_vars => TypeOK'
  <1> SUFFICES ASSUME TypeOK, [Next]_vars PROVE TypeOK'
    OBVIOUS
  <1>1. ASSUME NEW p \in Proc, NEW u \in User, RequestControl(p, u) \/ OfferControl(p, u)
        PROVE TypeOK'
    <2>1. PICK op \in {"request", "offer"} : SelectStale(p, u, op)
      BY <1>1 DEF RequestControl, OfferControl
    <2>2. [NoCall EXCEPT !.at = "supersede", !.op = op, !.by = u, !.todo = Active] \in Calls
      BY DEF NoCall, Calls, Active
    <2>3. call' \in [Proc -> Calls]
      BY <2>1, <2>2, GotoType DEF SelectStale
    <2>4. QED
      BY <2>1, <2>3 DEF SelectStale, TypeOK, history
  <1>2. ASSUME NEW p \in Proc, SupersedeStale(p) PROVE TypeOK'
    <2>1. PICK s \in Session :
            LET rest == [call[p] EXCEPT !.todo = @ \ {s}]
            IN \/ Put(s, Ended(row[s])) /\ Goto(p, [rest EXCEPT !.at = "audit_stale", !.sid = {s}])
               \/ UNCHANGED row /\ Goto(p, rest)
      BY <1>2 DEF SupersedeStale, TypeOK, Calls
    <2> DEFINE rest == [call[p] EXCEPT !.todo = @ \ {s}]
    <2>2. call[p] \in Calls
      BY DEF TypeOK
    <2>3. rest \in Calls
      BY <2>2, LoopCallType
    <2>4. rest \in Calls /\ [rest EXCEPT !.at = "audit_stale", !.sid = {s}] \in Calls
      BY <2>3, LoopCallType
    <2>5. Ended(row[s]) \in Rows
      BY EndedType DEF TypeOK
    <2> HIDE DEF rest
    <2>6. row' \in [Session -> Rows] /\ call' \in [Proc -> Calls]
      BY <2>1, <2>4, <2>5, PutType, GotoType DEF TypeOK, rest
    <2>7. QED
      BY <1>2, <2>6 DEF SupersedeStale, TypeOK, history
  <1>3. ASSUME NEW p \in Proc, AuditStale(p) PROVE TypeOK'
    <2>0. call[p] \in Calls
      BY DEF TypeOK
    <2>1. [call[p] EXCEPT !.at = "supersede", !.sid = {}] \in Calls
      BY <2>0 DEF Calls
    <2>2. call' \in [Proc -> Calls]
      BY <1>3, <2>1, GotoType DEF AuditStale
    <2>3. QED
      BY <1>3, <2>2 DEF AuditStale, TypeOK, history
  <1>4. ASSUME NEW p \in Proc, InsertRequested(p) PROVE TypeOK'
    <2>1. PICK s \in Session, h \in User :
            /\ Put(s, [NoRow EXCEPT !.status = "requested", !.host = h])
            /\ ThenAudit(p, s, NoToken, {"requested"})
      BY <1>4 DEF InsertRequested, Fresh
    <2>2. [NoRow EXCEPT !.status = "requested", !.host = h] \in Rows
      BY DEF NoRow, Rows
    <2>3. call' \in [Proc -> Calls]
      BY <2>1, AuditCallType, GotoType DEF ThenAudit
    <2>4. QED
      BY <1>4, <2>1, <2>2, <2>3, PutType DEF InsertRequested, TypeOK, history
  <1>5. ASSUME NEW p \in Proc, InsertOffered(p) PROVE TypeOK'
    <2>1. PICK s \in Session, t \in Token \ minted :
            /\ Put(s, [NoRow EXCEPT !.status = "agent_pending", !.tok = t, !.host = call[p].by])
            /\ minted' = minted \cup {t}
            /\ minter' = [minter EXCEPT ![s] = @ \cup {call[p].by}]
            /\ ThenAudit(p, s, t, {"requested", "allowed"})
      BY <1>5 DEF InsertOffered, Fresh
    <2>2. [NoRow EXCEPT !.status = "agent_pending", !.tok = t, !.host = call[p].by] \in Rows
      BY DEF NoRow, Rows, TypeOK, Calls
    <2>3. call' \in [Proc -> Calls]
      BY <2>1, AuditCallType, GotoType DEF ThenAudit
    <2>4. row' \in [Session -> Rows]
      BY <2>1, <2>2, PutType
    <2>5. call[p].by \in User \cup {NoUser}
      BY DEF TypeOK, Calls
    <2>6. minter' \in [Session -> SUBSET (User \cup {NoUser})] /\ minted' \subseteq Token
      BY <2>1, <2>5 DEF TypeOK
    <2>7. QED
      BY <1>5, <2>3, <2>4, <2>6 DEF InsertOffered, TypeOK
  <1>6. ASSUME NEW p \in Proc, NEW s \in Session, NEW u \in User,
               AllowControl(p, s, u) \/ DeclineControl(p, s, u)
        PROVE TypeOK'
    <2>1. [NoCall EXCEPT !.at = "allow_update", !.op = "allow", !.by = u, !.sid = {s}] \in Calls
      BY DEF NoCall, Calls
    <2>2. [NoCall EXCEPT !.at = "decline_update", !.op = "decline", !.by = u, !.sid = {s}] \in Calls
      BY DEF NoCall, Calls
    <2>3. call' \in [Proc -> Calls]
      BY <1>6, <2>1, <2>2, GotoType DEF AllowControl, DeclineControl
    <2>4. QED
      BY <1>6, <2>3 DEF AllowControl, DeclineControl, TypeOK, history
  <1>7. ASSUME NEW p \in Proc, AllowUpdate(p) PROVE TypeOK'
    <2>1. PICK s \in Session, t \in Token \ minted :
            /\ Put(s, [row[s] EXCEPT !.status = "agent_pending", !.tok = t, !.expired = FALSE])
            /\ minted' = minted \cup {t}
            /\ minter' = [minter EXCEPT ![s] = @ \cup {call[p].by}]
            /\ ThenAudit(p, s, t, {"allowed"})
      BY <1>7 DEF AllowUpdate, TypeOK, Calls
    <2>2. [row[s] EXCEPT !.status = "agent_pending", !.tok = t, !.expired = FALSE] \in Rows
      BY RowUpdateType DEF TypeOK
    <2>3. call' \in [Proc -> Calls]
      BY <2>1, AuditCallType, GotoType DEF ThenAudit
    <2>4. row' \in [Session -> Rows]
      BY <2>1, <2>2, PutType
    <2>5. call[p].by \in User \cup {NoUser}
      BY DEF TypeOK, Calls
    <2>6. minter' \in [Session -> SUBSET (User \cup {NoUser})] /\ minted' \subseteq Token
      BY <2>1, <2>5 DEF TypeOK
    <2>7. QED
      BY <1>7, <2>3, <2>4, <2>6 DEF AllowUpdate, TypeOK
  <1>8. ASSUME NEW p \in Proc, DeclineUpdate(p) \/ ExpireUpdate(p) PROVE TypeOK'
    BY <1>8, EndUpdateType DEF DeclineUpdate, ExpireUpdate, TypeOK, Calls
  <1>9. ASSUME NEW p \in Proc, NEW t \in Token, RegisterAgent(p, t) PROVE TypeOK'
    <2>1. PICK s \in Session, at \in {"expire_update", "register_update"} :
            Goto(p, [NoCall EXCEPT !.at = at, !.op = "register", !.sid = {s}, !.tok = t])
      BY <1>9 DEF RegisterAgent
    <2>2. [NoCall EXCEPT !.at = at, !.op = "register", !.sid = {s}, !.tok = t] \in Calls
      BY DEF NoCall, Calls
    <2>3. QED
      BY <1>9, <2>1, <2>2, GotoType DEF RegisterAgent, TypeOK, history
  <1>10. ASSUME NEW p \in Proc, RegisterUpdate(p) PROVE TypeOK'
    <2>1. PICK s \in Session :
            /\ Put(s, [row[s] EXCEPT !.status = "granted", !.tok = NoToken, !.expired = FALSE])
            /\ ThenAudit(p, s, NoToken, {"granted"})
      BY <1>10 DEF RegisterUpdate, TypeOK, Calls
    <2>2. [row[s] EXCEPT !.status = "granted", !.tok = NoToken, !.expired = FALSE] \in Rows
      BY RowUpdateType DEF TypeOK
    <2>3. call' \in [Proc -> Calls]
      BY <2>1, AuditCallType, GotoType DEF ThenAudit
    <2>4. uses' \in [Token -> Nat]
      <3> DEFINE t == call[p].tok
      <3>1. uses' = [uses EXCEPT ![t] = @ + 1]
        BY <1>10 DEF RegisterUpdate
      <3> HIDE DEF t
      <3>2. QED
        BY <3>1, \A n \in Nat : n + 1 \in Nat DEF TypeOK
    <2>5. QED
      BY <1>10, <2>1, <2>2, <2>3, <2>4, PutType DEF RegisterUpdate, TypeOK
  <1>11. ASSUME NEW p \in Proc, NEW s \in Session,
                PauseControl(p, s) \/ ResumeControl(p, s)
         PROVE TypeOK'
    <2>1. PICK status \in {"granted", "paused"}, event \in Events :
            /\ Put(s, [row[s] EXCEPT !.status = status])
            /\ ThenAudit(p, s, NoToken, {event})
      BY <1>11 DEF PauseControl, ResumeControl
    <2>2. [row[s] EXCEPT !.status = status] \in Rows
      BY DEF Rows, TypeOK
    <2>3. call' \in [Proc -> Calls]
      BY <2>1, AuditCallType, GotoType DEF ThenAudit
    <2>4. QED
      BY <1>11, <2>1, <2>2, <2>3, PutType DEF PauseControl, ResumeControl, TypeOK, history
  <1>12. ASSUME NEW p \in Proc, NEW s \in Session, EndControl(p, s) PROVE TypeOK'
    BY <1>12, EndUpdateType DEF EndControl
  <1>13. ASSUME NEW p \in Proc, AuditInsert(p) PROVE TypeOK'
    <2>1. audit' \in [Session -> SUBSET Events]
      BY <1>13 DEF AuditInsert, TypeOK, Calls
    <2>2. issued' \subseteq Token
      BY <1>13 DEF AuditInsert, TypeOK, Calls
    <2>3. QED
      BY <1>13, <2>1, <2>2, NoCallType, GotoType DEF AuditInsert, TypeOK
  <1>14. ASSUME NEW p \in Proc, StatementFails(p) PROVE TypeOK'
    <2>0. call[p] \in Calls /\ call[p].todo \subseteq Session
      BY DEF TypeOK, Calls
    <2>1. \A s \in call[p].todo : [call[p] EXCEPT !.todo = @ \ {s}] \in Calls
      BY <2>0, LoopCallType
    <2>2. [call[p] EXCEPT !.at = "supersede", !.sid = {}] \in Calls
      BY <2>0 DEF Calls
    <2>3. call' \in [Proc -> Calls]
      BY <1>14, <2>1, <2>2, NoCallType, GotoType DEF StatementFails
    <2>4. failures' \in Nat
      BY <1>14 DEF StatementFails, TypeOK
    <2>5. UNCHANGED <<row, audit, issued, minted, minter, uses>>
      BY <1>14 DEF StatementFails
    <2>6. QED
      BY <2>3, <2>4, <2>5 DEF TypeOK
  <1>15. ASSUME NEW s \in Session, TokenExpires(s) PROVE TypeOK'
    <2>0. row[s] \in Rows
      BY DEF TypeOK
    <2>1. [row[s] EXCEPT !.expired = TRUE] \in Rows
      BY <2>0 DEF Rows
    <2>2. QED
      BY <1>15, <2>1, PutType DEF TokenExpires, TypeOK, history
  <1>16. CASE UNCHANGED vars
    BY <1>16 DEF vars, history, TypeOK
  <1>17. QED
    BY <1>1, <1>2, <1>3, <1>4, <1>5, <1>6, <1>7, <1>8, <1>9, <1>10, <1>11, <1>12, <1>13,
       <1>14, <1>15, <1>16 DEF Next

THEOREM TypeCorrect == Spec => []TypeOK
  <1>1. QED
    BY TypeInit, TypeStep, PTL DEF Spec

------------------------------------------------------------------------------
(***************************************************************************)
(* The only way out of the transition table is a stale write.              *)
(***************************************************************************)
\* row' differs from row at most at s.
LEMMA PutEffect ==
  ASSUME TypeOK, NEW s \in Session, NEW r, Put(s, r)
  PROVE  \A x \in Session : row'[x] = IF x = s THEN r ELSE row[x]
  BY DEF TypeOK, Put

LEMMA EndUpdateMove ==
  ASSUME TypeOK, NEW p \in Proc, NEW s \in Session, EndUpdate(p, s)
  PROVE  \A x \in Session : row'[x].status = row[x].status
                             \/ LegalMove(row[x].status, row'[x].status)
  <1>1. CASE UNCHANGED row
    BY <1>1
  <1>2. CASE row[s].status \in ActiveStatuses /\ Put(s, Ended(row[s]))
    <2>1. row[s] \in Rows
      BY DEF TypeOK
    <2>2. Ended(row[s]).status = "ended"
      BY <2>1 DEF Ended, Rows
    <2>3. QED
      BY <1>2, <2>2, PutEffect DEF LegalMove
  <1>3. QED
    BY <1>1, <1>2 DEF EndUpdate

LEMMA StaleWriteStep ==
  TypeOK /\ [Next]_vars =>
    [\A s \in Session :
       \/ row'[s].status = row[s].status
       \/ row[s].status = "absent"
       \/ LegalMove(row[s].status, row'[s].status)
       \/ \E p \in Proc :
            /\ s \in call[p].sid
            /\ \/ call[p].at = "allow_update" /\ row[s].status # "requested"
               \/ call[p].at = "register_update" /\ row[s].status # "agent_pending"]_vars
  <1> DEFINE Explained(x) ==
       \/ row'[x].status = row[x].status
       \/ row[x].status = "absent"
       \/ LegalMove(row[x].status, row'[x].status)
       \/ \E p \in Proc :
            /\ x \in call[p].sid
            /\ \/ call[p].at = "allow_update" /\ row[x].status # "requested"
               \/ call[p].at = "register_update" /\ row[x].status # "agent_pending"
  <1> SUFFICES ASSUME TypeOK, Next PROVE \A x \in Session : Explained(x)
    OBVIOUS
  <1>1. CASE UNCHANGED row
    BY <1>1
  <1>2. ASSUME NEW p \in Proc, SupersedeStale(p) PROVE \A x \in Session : Explained(x)
    <2>1. CASE UNCHANGED row
      BY <2>1
    <2>2. ASSUME NEW s \in Session, row[s].status # "ended", Put(s, Ended(row[s]))
          PROVE  \A x \in Session : Explained(x)
      <3>1. row[s] \in Rows
        BY DEF TypeOK
      <3>2. Ended(row[s]).status = "ended" /\ row[s].status \in ActiveStatuses \cup {"absent"}
        BY <2>2, <3>1 DEF Ended, Rows
      <3>3. QED
        BY <2>2, <3>2, PutEffect DEF LegalMove
    <2>3. QED
      BY <1>2, <2>1, <2>2 DEF SupersedeStale, TypeOK, Calls
  <1>3. ASSUME NEW p \in Proc, InsertRequested(p) \/ InsertOffered(p)
        PROVE  \A x \in Session : Explained(x)
    <2>1. PICK s \in Fresh : \E r : Put(s, r)
      BY <1>3 DEF InsertRequested, InsertOffered
    <2>2. QED
      BY <2>1, PutEffect DEF Fresh
  <1>4. ASSUME NEW p \in Proc, AllowUpdate(p) PROVE \A x \in Session : Explained(x)
    <2>1. PICK s \in Session, t \in Token :
            /\ s \in call[p].sid
            /\ Put(s, [row[s] EXCEPT !.status = "agent_pending", !.tok = t, !.expired = FALSE])
      BY <1>4 DEF AllowUpdate, TypeOK, Calls
    <2>2. row[s] \in Rows
      BY DEF TypeOK
    <2>3. [row[s] EXCEPT !.status = "agent_pending", !.tok = t, !.expired = FALSE].status
            = "agent_pending"
      BY <2>2 DEF Rows
    <2>4. row[s].status = "requested" => LegalMove(row[s].status, "agent_pending")
      BY DEF LegalMove, Table
    <2>5. \A x \in Session : x # s => row'[x] = row[x]
      BY <2>1, PutEffect
    <2>6. row'[s].status = "agent_pending"
      BY <2>1, <2>3, PutEffect
    <2>7. call[p].at = "allow_update"
      BY <1>4 DEF AllowUpdate
    <2>8. Explained(s)
      BY <2>1, <2>4, <2>6, <2>7
    <2>9. QED
      BY <2>5, <2>8
  <1>5. ASSUME NEW p \in Proc, RegisterUpdate(p) PROVE \A x \in Session : Explained(x)
    <2>1. PICK s \in Session :
            /\ s \in call[p].sid
            /\ Put(s, [row[s] EXCEPT !.status = "granted", !.tok = NoToken, !.expired = FALSE])
      BY <1>5 DEF RegisterUpdate, TypeOK, Calls
    <2>2. row[s] \in Rows
      BY DEF TypeOK
    <2>3. [row[s] EXCEPT !.status = "granted", !.tok = NoToken, !.expired = FALSE].status = "granted"
      BY <2>2 DEF Rows
    <2>4. row[s].status = "agent_pending" => LegalMove(row[s].status, "granted")
      BY DEF LegalMove, Table
    <2>5. \A x \in Session : x # s => row'[x] = row[x]
      BY <2>1, PutEffect
    <2>6. row'[s].status = "granted"
      BY <2>1, <2>3, PutEffect
    <2>7. call[p].at = "register_update"
      BY <1>5 DEF RegisterUpdate
    <2>8. Explained(s)
      BY <2>1, <2>4, <2>6, <2>7
    <2>9. QED
      BY <2>5, <2>8
  <1>6. ASSUME NEW p \in Proc, NEW s \in Session, PauseControl(p, s) \/ ResumeControl(p, s)
        PROVE  \A x \in Session : Explained(x)
    <2>1. PICK status \in {"granted", "paused"} :
            /\ Put(s, [row[s] EXCEPT !.status = status])
            /\ <<row[s].status, status>> \in {<<"paused", "granted">>, <<"granted", "paused">>}
      BY <1>6 DEF PauseControl, ResumeControl
    <2>2. row[s] \in Rows
      BY DEF TypeOK
    <2>3. [row[s] EXCEPT !.status = status].status = status
      BY <2>2 DEF Rows
    <2>4. LegalMove(row[s].status, status)
      <3>1. CASE row[s].status = "paused" /\ status = "granted"
        BY <3>1 DEF LegalMove, Table
      <3>2. CASE row[s].status = "granted" /\ status = "paused"
        BY <3>2 DEF LegalMove, Table
      <3>3. QED
        BY <2>1, <3>1, <3>2
    <2>5. QED
      BY <2>1, <2>3, <2>4, PutEffect
  <1>7. ASSUME NEW p \in Proc, NEW s \in Session,
               EndControl(p, s) \/ (s \in call[p].sid /\ EndUpdate(p, s))
        PROVE  \A x \in Session : Explained(x)
    BY <1>7, EndUpdateMove DEF EndControl
  <1>8. ASSUME NEW p \in Proc, DeclineUpdate(p) \/ ExpireUpdate(p)
        PROVE  \A x \in Session : Explained(x)
    <2>1. PICK s \in Session : EndUpdate(p, s)
      BY <1>8 DEF DeclineUpdate, ExpireUpdate, TypeOK, Calls
    <2>2. QED
      BY <2>1, EndUpdateMove
  <1>9. ASSUME NEW s \in Session, TokenExpires(s) PROVE \A x \in Session : Explained(x)
    <2>1. row[s] \in Rows
      BY DEF TypeOK
    <2>2. [row[s] EXCEPT !.expired = TRUE].status = row[s].status
      BY <2>1 DEF Rows
    <2>3. Put(s, [row[s] EXCEPT !.expired = TRUE])
      BY <1>9 DEF TokenExpires
    <2>4. QED
      BY <2>2, <2>3, PutEffect
  <1> HIDE DEF Explained
  <1>10. QED
    BY <1>1, <1>2, <1>3, <1>4, <1>5, <1>6, <1>7, <1>8, <1>9
       DEF Next, RequestControl, OfferControl, SelectStale, AuditStale, AllowControl, DeclineControl,
           RegisterAgent, AuditInsert, StatementFails

\* A session leaves the transition table of state.ts only through allowControl
\* or registerAgent overwriting a status that changed after they read it.
THEOREM OnlyStaleWrites == Spec => OnlyStaleWritesAreIllegal
  <1>1. QED
    BY TypeCorrect, StaleWriteStep, PTL DEF Spec, OnlyStaleWritesAreIllegal

------------------------------------------------------------------------------
(***************************************************************************)
(* Tokens.  SpentTokenNeverStored is not inductive: a registerAgent past   *)
(* its read will spend its token later, so no other row may hold that      *)
(* token then; and a fresh token must differ from all those ever stored,   *)
(* spent or carried by a call.                                             *)
(***************************************************************************)
StoredOnce ==
  \A s1, s2 \in Session : row[s1].tok = row[s2].tok /\ row[s1].tok # NoToken => s1 = s2

KnownTokens ==
  /\ \A s \in Session : row[s].tok \in minted \cup {NoToken}
  /\ \A p \in Proc : call[p].tok \in minted \cup {NoToken}
  /\ \A t \in Token : uses[t] > 0 => t \in minted
  /\ issued \subseteq minted

\* Only the row a registration is about to write can hold its token.
Claimed(p) ==
  call[p].at = "register_update" =>
    /\ call[p].tok \in minted
    /\ \E s \in Session :
         /\ call[p].sid = {s}
         /\ \A s2 \in Session \ {s} : row[s2].tok # call[p].tok

TokenInv ==
  /\ TokenOnlyWhilePending
  /\ SpentTokenNeverStored
  /\ StoredOnce
  /\ KnownTokens
  /\ \A p \in Proc : Claimed(p)

LEMMA CallEffect ==
  ASSUME TypeOK, NEW p \in Proc, NEW c, Goto(p, c)
  PROVE  \A q \in Proc : call'[q] = IF q = p THEN c ELSE call[q]
  BY DEF TypeOK, Goto

\* A call that goes on to its audit carries the token it was given, and no
\* other call moves.
LEMMA ThenAuditEffect ==
  ASSUME TypeOK, NEW p \in Proc, NEW s \in Session, NEW t \in Token \cup {NoToken},
         NEW e, ThenAudit(p, s, t, e)
  PROVE  \A q \in Proc : call'[q] = call[q] \/ (call'[q].at = "audit" /\ call'[q].tok = t)
  <1> DEFINE c == [NoCall EXCEPT !.at = "audit", !.sid = {s}, !.tok = t, !.log = e]
  <1>1. c.at = "audit" /\ c.tok = t
    BY DEF NoCall
  <1>2. Goto(p, c)
    BY DEF ThenAudit
  <1> HIDE DEF c
  <1>3. QED
    BY <1>1, <1>2, CallEffect

\* A step that writes no row: the call may move on with a token it knows.
LEMMA TokenMove ==
  ASSUME TypeOK, TokenInv, NEW p \in Proc, NEW c, Goto(p, c),
         UNCHANGED <<row, minted, uses>>, issued' \subseteq minted,
         c.tok \in minted \cup {NoToken},
         c.at = "register_update" =>
           /\ c.tok \in minted
           /\ \E s \in Session : c.sid = {s} /\ row[s].tok = c.tok
  PROVE  TokenInv'
  <1>1. \A q \in Proc : call'[q] = IF q = p THEN c ELSE call[q]
    BY CallEffect
  <1>2. ASSUME NEW q \in Proc PROVE Claimed(q)'
    <2>1. CASE q # p
      BY <2>1, <1>1 DEF TokenInv, Claimed
    <2>2. CASE q = p
      <3>1. call'[q] = c
        BY <1>1, <2>2
      <3>2. SUFFICES ASSUME c.at = "register_update"
                     PROVE  /\ c.tok \in minted
                            /\ \E s \in Session :
                                 c.sid = {s} /\ \A s2 \in Session \ {s} : row[s2].tok # c.tok
        BY <3>1 DEF Claimed
      <3>3. PICK s \in Session : c.sid = {s} /\ row[s].tok = c.tok
        BY <3>2
      <3>4. c.tok \in minted /\ c.tok # NoToken
        BY <3>2, ControlAssumption DEF TypeOK
      <3>5. \A s2 \in Session \ {s} : row[s2].tok # c.tok
        BY <3>3, <3>4 DEF TokenInv, StoredOnce
      <3>6. QED
        BY <3>3, <3>4, <3>5
    <2>3. QED
      BY <2>1, <2>2
  <1>3. KnownTokens'
    BY <1>1 DEF TokenInv, KnownTokens
  <1>4. QED
    BY <1>2, <1>3 DEF TokenInv, TokenOnlyWhilePending, SpentTokenNeverStored, StoredOnce

\* A step that writes row s, keeping or clearing its token or storing one just
\* minted, and goes on to the audit (or is no call's step).
LEMMA TokenWrite ==
  ASSUME TypeOK, TokenInv, NEW s \in Session, NEW r, Put(s, r),
         r.tok # NoToken <=> r.status = "agent_pending",
         r.tok \in {row[s].tok, NoToken} \cup (minted' \ minted),
         minted \subseteq minted', issued' = issued, minted' \subseteq Token,
         \A q \in Proc : call'[q] = call[q] \/ (call'[q].at # "register_update"
                                                /\ call'[q].tok \in minted' \cup {NoToken}),
         \A t \in Token : uses'[t] > 0 =>
           \/ uses[t] > 0
           \/ t \in minted /\ r.tok # t /\ \A x \in Session \ {s} : row[x].tok # t
  PROVE  TokenInv'
  <1>1. \A x \in Session : row'[x] = IF x = s THEN r ELSE row[x]
    BY PutEffect
  <1>2. TokenOnlyWhilePending'
    BY <1>1 DEF TokenInv, TokenOnlyWhilePending
  <1>3. StoredOnce'
    BY <1>1 DEF TokenInv, StoredOnce, KnownTokens
  <1>4. KnownTokens'
    <2>1. \A x \in Session : row'[x].tok \in minted' \cup {NoToken}
      BY <1>1 DEF TokenInv, KnownTokens
    <2>2. \A q \in Proc : call'[q].tok \in minted' \cup {NoToken}
      BY DEF TokenInv, KnownTokens
    <2>3. \A t \in Token : uses'[t] > 0 => t \in minted'
      BY DEF TokenInv, KnownTokens
    <2>4. QED
      BY <2>1, <2>2, <2>3 DEF TokenInv, KnownTokens
  <1>5. SpentTokenNeverStored'
    <2>1. SUFFICES ASSUME NEW t \in Token, NEW x \in Session, uses'[t] > 0
                   PROVE  row'[x].tok # t
      BY DEF SpentTokenNeverStored
    <2>2. t \in minted /\ t # NoToken
      BY <2>1, ControlAssumption DEF TokenInv, KnownTokens
    <2>3. CASE uses[t] > 0
      BY <1>1, <2>2, <2>3 DEF TokenInv, SpentTokenNeverStored
    <2>4. CASE ~(uses[t] > 0)
      BY <1>1, <2>1, <2>4
    <2>5. QED
      BY <2>3, <2>4
  <1>6. ASSUME NEW q \in Proc PROVE Claimed(q)'
    <2>1. SUFFICES ASSUME call'[q].at = "register_update" PROVE Claimed(q)'
      BY DEF Claimed
    <2>2. call'[q] = call[q]
      BY <2>1
    <2>3. call[q].tok \in minted /\ call[q].tok # NoToken
      BY <2>1, <2>2, ControlAssumption DEF TokenInv, Claimed, TypeOK
    <2>4. PICK x \in Session :
            call[q].sid = {x} /\ \A s2 \in Session \ {x} : row[s2].tok # call[q].tok
      BY <2>1, <2>2 DEF TokenInv, Claimed
    <2>5. \A s2 \in Session \ {x} : row'[s2].tok # call[q].tok
      BY <1>1, <2>3, <2>4
    <2>6. QED
      BY <2>2, <2>3, <2>4, <2>5 DEF Claimed
  <1>7. QED
    BY <1>2, <1>3, <1>4, <1>5, <1>6 DEF TokenInv

LEMMA TokenInit == Init => TokenInv
  BY DEF Init, TokenInv, TokenOnlyWhilePending, SpentTokenNeverStored, StoredOnce, KnownTokens,
         Claimed, NoRow, NoCall

\* The UPDATE of endControl, from whichever call runs it.
LEMMA TokenEndUpdate ==
  ASSUME TypeOK, TokenInv, NEW p \in Proc, NEW s \in Session, EndUpdate(p, s)
  PROVE  TokenInv'
  <1>1. CASE UNCHANGED row /\ Goto(p, NoCall)
    <2>1. NoCall.tok = NoToken /\ NoCall.at = "idle"
      BY DEF NoCall
    <2>2. UNCHANGED <<minted, uses, issued>> /\ issued \subseteq minted
      BY DEF EndUpdate, history, TokenInv, KnownTokens
    <2>3. QED
      BY <1>1, <2>1, <2>2, TokenMove
  <1>2. CASE Put(s, Ended(row[s])) /\ ThenAudit(p, s, NoToken, {"ended"})
    <2>1. row[s] \in Rows
      BY DEF TypeOK
    <2>2. Ended(row[s]).tok = NoToken /\ Ended(row[s]).status = "ended"
      BY <2>1 DEF Ended, Rows
    <2>3. \A q \in Proc : call'[q] = call[q] \/ (call'[q].at = "audit" /\ call'[q].tok = NoToken)
      BY <1>2, ThenAuditEffect
    <2>4. UNCHANGED <<minted, uses, issued>> /\ minted \subseteq Token
      BY DEF EndUpdate, history, TypeOK
    <2>5. QED
      BY <1>2, <2>2, <2>3, <2>4, TokenWrite
  <1>3. QED
    BY <1>1, <1>2 DEF EndUpdate

LEMMA TokenStep == TypeOK /\ TokenInv /\ [Next]_vars => TokenInv'
  <1> SUFFICES ASSUME TypeOK, TokenInv, [Next]_vars PROVE TokenInv'
    OBVIOUS
  <1>0. issued \subseteq minted /\ minted \subseteq Token
        /\ \A p \in Proc : call[p] \in Calls /\ call[p].tok \in minted \cup {NoToken}
    BY DEF TokenInv, KnownTokens, TypeOK
  <1>1. ASSUME NEW p \in Proc, NEW u \in User, RequestControl(p, u) \/ OfferControl(p, u)
        PROVE TokenInv'
    <2>1. PICK op \in {"request", "offer"} : SelectStale(p, u, op)
      BY <1>1 DEF RequestControl, OfferControl
    <2> DEFINE c == [NoCall EXCEPT !.at = "supersede", !.op = op, !.by = u, !.todo = Active]
    <2>2. c.at = "supersede" /\ c.tok = NoToken
      BY DEF NoCall
    <2> HIDE DEF c
    <2>3. Goto(p, c) /\ UNCHANGED <<row, minted, uses, issued>>
      BY <2>1 DEF SelectStale, history, c
    <2>4. QED
      BY <1>0, <2>2, <2>3, TokenMove
  <1>2. ASSUME NEW p \in Proc, SupersedeStale(p) PROVE TokenInv'
    <2>1. PICK s \in Session :
            LET rest == [call[p] EXCEPT !.todo = @ \ {s}]
            IN \/ Put(s, Ended(row[s])) /\ Goto(p, [rest EXCEPT !.at = "audit_stale", !.sid = {s}])
               \/ UNCHANGED row /\ Goto(p, rest)
      BY <1>2, <1>0 DEF SupersedeStale, Calls
    <2> DEFINE rest == [call[p] EXCEPT !.todo = @ \ {s}]
    <2> DEFINE next == [rest EXCEPT !.at = "audit_stale", !.sid = {s}]
    <2>2. rest.at = "supersede" /\ rest.tok = call[p].tok
          /\ next.at = "audit_stale" /\ next.tok = call[p].tok
      BY <1>0, <1>2 DEF SupersedeStale, Calls
    <2>3. row[s] \in Rows
      BY DEF TypeOK
    <2>4. Ended(row[s]).tok = NoToken /\ Ended(row[s]).status = "ended"
      BY <2>3 DEF Ended, Rows
    <2>5. UNCHANGED <<minted, uses, issued>>
      BY <1>2 DEF SupersedeStale, history
    <2> HIDE DEF rest, next
    <2>6. CASE Put(s, Ended(row[s])) /\ Goto(p, next)
      <3>1. \A q \in Proc : call'[q] = call[q] \/ (call'[q].at = "audit_stale"
                                                   /\ call'[q].tok \in minted \cup {NoToken})
        BY <1>0, <2>2, <2>6, CallEffect
      <3>2. QED
        BY <1>0, <2>4, <2>5, <2>6, <3>1, TokenWrite
    <2>7. CASE UNCHANGED row /\ Goto(p, rest)
      BY <1>0, <2>2, <2>5, <2>7, TokenMove
    <2>8. QED
      BY <2>1, <2>6, <2>7 DEF rest, next
  <1>3. ASSUME NEW p \in Proc, AuditStale(p) PROVE TokenInv'
    <2> DEFINE c == [call[p] EXCEPT !.at = "supersede", !.sid = {}]
    <2>1. c.at = "supersede" /\ c.tok = call[p].tok
      BY <1>0 DEF Calls
    <2> HIDE DEF c
    <2>2. Goto(p, c) /\ UNCHANGED <<row, minted, uses, issued>>
      BY <1>3 DEF AuditStale, history, c
    <2>3. QED
      BY <1>0, <2>1, <2>2, TokenMove
  <1>4. ASSUME NEW p \in Proc, InsertRequested(p) PROVE TokenInv'
    <2>1. PICK s \in Session, h \in User :
            /\ Put(s, [NoRow EXCEPT !.status = "requested", !.host = h])
            /\ ThenAudit(p, s, NoToken, {"requested"})
      BY <1>4 DEF InsertRequested, Fresh
    <2> DEFINE r == [NoRow EXCEPT !.status = "requested", !.host = h]
    <2>2. r.tok = NoToken /\ r.status = "requested"
      BY DEF NoRow
    <2>3. \A q \in Proc : call'[q] = call[q] \/ (call'[q].at = "audit" /\ call'[q].tok = NoToken)
      BY <2>1, ThenAuditEffect
    <2>4. UNCHANGED <<minted, uses, issued>> /\ Put(s, r)
      BY <1>4, <2>1 DEF InsertRequested, history
    <2> HIDE DEF r
    <2>5. QED
      BY <1>0, <2>2, <2>3, <2>4, TokenWrite
  <1>5. ASSUME NEW p \in Proc, InsertOffered(p) PROVE TokenInv'
    <2>1. PICK s \in Session, t \in Token \ minted :
            /\ Put(s, [NoRow EXCEPT !.status = "agent_pending", !.tok = t, !.host = call[p].by])
            /\ minted' = minted \cup {t}
            /\ ThenAudit(p, s, t, {"requested", "allowed"})
      BY <1>5 DEF InsertOffered, Fresh
    <2> DEFINE r == [NoRow EXCEPT !.status = "agent_pending", !.tok = t, !.host = call[p].by]
    <2>2. r.tok = t /\ r.status = "agent_pending" /\ t # NoToken
      BY ControlAssumption DEF NoRow
    <2>3. \A q \in Proc : call'[q] = call[q] \/ (call'[q].at = "audit" /\ call'[q].tok = t)
      BY <2>1, ThenAuditEffect
    <2>4. UNCHANGED <<uses, issued>> /\ Put(s, r)
      BY <1>5, <2>1 DEF InsertOffered
    <2> HIDE DEF r
    <2>5. QED
      BY <1>0, <2>1, <2>2, <2>3, <2>4, TokenWrite
  <1>6. ASSUME NEW p \in Proc, NEW s \in Session, NEW u \in User,
               AllowControl(p, s, u) \/ DeclineControl(p, s, u)
        PROVE TokenInv'
    <2>1. PICK at \in {"allow_update", "decline_update"}, op \in {"allow", "decline"} :
            Goto(p, [NoCall EXCEPT !.at = at, !.op = op, !.by = u, !.sid = {s}])
      BY <1>6 DEF AllowControl, DeclineControl
    <2> DEFINE c == [NoCall EXCEPT !.at = at, !.op = op, !.by = u, !.sid = {s}]
    <2>2. c.at # "register_update" /\ c.tok = NoToken
      BY DEF NoCall
    <2> HIDE DEF c
    <2>3. Goto(p, c) /\ UNCHANGED <<row, minted, uses, issued>>
      BY <1>6, <2>1 DEF AllowControl, DeclineControl, history, c
    <2>4. QED
      BY <1>0, <2>2, <2>3, TokenMove
  <1>7. ASSUME NEW p \in Proc, AllowUpdate(p) PROVE TokenInv'
    <2>1. PICK s \in Session, t \in Token \ minted :
            /\ Put(s, [row[s] EXCEPT !.status = "agent_pending", !.tok = t, !.expired = FALSE])
            /\ minted' = minted \cup {t}
            /\ ThenAudit(p, s, t, {"allowed"})
      BY <1>0, <1>7 DEF AllowUpdate, Calls
    <2> DEFINE r == [row[s] EXCEPT !.status = "agent_pending", !.tok = t, !.expired = FALSE]
    <2>2. row[s] \in Rows
      BY DEF TypeOK
    <2>3. r.tok = t /\ r.status = "agent_pending" /\ t # NoToken
      BY <2>2, ControlAssumption DEF Rows
    <2>4. \A q \in Proc : call'[q] = call[q] \/ (call'[q].at = "audit" /\ call'[q].tok = t)
      BY <2>1, ThenAuditEffect
    <2>5. UNCHANGED <<uses, issued>> /\ Put(s, r)
      BY <1>7, <2>1 DEF AllowUpdate
    <2> HIDE DEF r
    <2>6. QED
      BY <1>0, <2>1, <2>3, <2>4, <2>5, TokenWrite
  <1>8. ASSUME NEW p \in Proc, DeclineUpdate(p) \/ ExpireUpdate(p) PROVE TokenInv'
    BY <1>0, <1>8, TokenEndUpdate DEF DeclineUpdate, ExpireUpdate, Calls
  <1>9. ASSUME NEW p \in Proc, NEW t \in Token, RegisterAgent(p, t) PROVE TokenInv'
    <2>1. PICK s \in Session, at \in {"expire_update", "register_update"} :
            /\ row[s].tok = t
            /\ Goto(p, [NoCall EXCEPT !.at = at, !.op = "register", !.sid = {s}, !.tok = t])
      BY <1>9 DEF RegisterAgent
    <2> DEFINE c == [NoCall EXCEPT !.at = at, !.op = "register", !.sid = {s}, !.tok = t]
    <2>2. c.tok = t /\ c.sid = {s}
      BY DEF NoCall
    <2> HIDE DEF c
    <2>3. t \in minted
      BY <1>0, <1>9 DEF RegisterAgent
    <2>4. Goto(p, c) /\ UNCHANGED <<row, minted, uses, issued>>
      BY <1>9, <2>1 DEF RegisterAgent, history, c
    <2>5. QED
      BY <1>0, <2>1, <2>2, <2>3, <2>4, TokenMove
  <1>10. ASSUME NEW p \in Proc, RegisterUpdate(p) PROVE TokenInv'
    <2>1. PICK s \in Session :
            /\ call[p].sid = {s}
            /\ \A s2 \in Session \ {s} : row[s2].tok # call[p].tok
      BY <1>10 DEF RegisterUpdate, TokenInv, Claimed
    <2>2. call[p].tok \in minted /\ call[p].tok # NoToken
      BY <1>10, ControlAssumption DEF RegisterUpdate, TokenInv, Claimed, TypeOK
    <2> DEFINE r == [row[s] EXCEPT !.status = "granted", !.tok = NoToken, !.expired = FALSE]
    <2>3. Put(s, r) /\ ThenAudit(p, s, NoToken, {"granted"})
      BY <1>10, <2>1 DEF RegisterUpdate
    <2>4. row[s] \in Rows
      BY DEF TypeOK
    <2>5. r.tok = NoToken /\ r.status = "granted"
      BY <2>4 DEF Rows
    <2>6. \A q \in Proc : call'[q] = call[q] \/ (call'[q].at = "audit" /\ call'[q].tok = NoToken)
      BY <2>3, ThenAuditEffect
    <2>7. UNCHANGED <<minted, issued>>
      BY <1>10 DEF RegisterUpdate
    <2>8. \A t \in Token : uses'[t] > 0 => uses[t] > 0 \/ t = call[p].tok
      BY <1>10 DEF RegisterUpdate, TypeOK
    <2> HIDE DEF r
    <2>9. QED
      BY <1>0, <2>1, <2>2, <2>3, <2>5, <2>6, <2>7, <2>8, TokenWrite
  <1>11. ASSUME NEW p \in Proc, NEW s \in Session,
                PauseControl(p, s) \/ ResumeControl(p, s)
         PROVE TokenInv'
    <2>1. PICK status \in {"granted", "paused"}, event \in Events :
            /\ row[s].status \in {"granted", "paused"}
            /\ Put(s, [row[s] EXCEPT !.status = status])
            /\ ThenAudit(p, s, NoToken, {event})
      BY <1>11 DEF PauseControl, ResumeControl
    <2> DEFINE r == [row[s] EXCEPT !.status = status]
    <2>2. row[s] \in Rows
      BY DEF TypeOK
    <2>3. r.tok = row[s].tok /\ r.status = status
      BY <2>2 DEF Rows
    <2>4. row[s].tok = NoToken
      BY <2>1 DEF TokenInv, TokenOnlyWhilePending
    <2>5. \A q \in Proc : call'[q] = call[q] \/ (call'[q].at = "audit" /\ call'[q].tok = NoToken)
      BY <2>1, ThenAuditEffect
    <2>6. UNCHANGED <<minted, uses, issued>> /\ Put(s, r)
      BY <1>11, <2>1 DEF PauseControl, ResumeControl, history
    <2> HIDE DEF r
    <2>7. QED
      BY <1>0, <2>1, <2>3, <2>4, <2>5, <2>6, TokenWrite
  <1>12. ASSUME NEW p \in Proc, NEW s \in Session, EndControl(p, s) PROVE TokenInv'
    BY <1>12, TokenEndUpdate DEF EndControl
  <1>13. ASSUME NEW p \in Proc, AuditInsert(p) PROVE TokenInv'
    <2>1. NoCall.tok = NoToken /\ NoCall.at = "idle"
      BY DEF NoCall
    <2>2. issued' \subseteq minted
      BY <1>0, <1>13 DEF AuditInsert
    <2>3. QED
      BY <1>0, <1>13, <2>1, <2>2, TokenMove DEF AuditInsert
  <1>14. ASSUME NEW p \in Proc, StatementFails(p) PROVE TokenInv'
    <2>1. UNCHANGED <<row, minted, uses, issued>>
      BY <1>14 DEF StatementFails, history
    <2>2. PICK c \in Calls : /\ Goto(p, c)
                             /\ c.tok \in {NoToken, call[p].tok}
                             /\ c.at \in {"idle", "supersede"}
      <3>1. CASE Goto(p, NoCall)
        BY <3>1, NoCallType DEF NoCall
      <3>2. CASE Goto(p, [call[p] EXCEPT !.at = "supersede", !.sid = {}])
        <4> DEFINE c == [call[p] EXCEPT !.at = "supersede", !.sid = {}]
        <4>1. c \in Calls /\ c.tok = call[p].tok /\ c.at = "supersede"
          BY <1>0 DEF Calls
        <4> HIDE DEF c
        <4>2. QED
          BY <3>2, <4>1 DEF c
      <3>3. ASSUME call[p].at = "supersede", NEW s \in call[p].todo,
                   Goto(p, [call[p] EXCEPT !.todo = @ \ {s}])
            PROVE  \E c \in Calls : /\ Goto(p, c)
                                    /\ c.tok \in {NoToken, call[p].tok}
                                    /\ c.at \in {"idle", "supersede"}
        <4> DEFINE c == [call[p] EXCEPT !.todo = @ \ {s}]
        <4>1. c \in Calls /\ c.tok = call[p].tok /\ c.at = "supersede"
          BY <1>0, <3>3 DEF Calls
        <4> HIDE DEF c
        <4>2. QED
          BY <3>3, <4>1 DEF c
      <3>4. QED
        BY <1>14, <3>1, <3>2, <3>3 DEF StatementFails
    <2>3. QED
      BY <1>0, <2>1, <2>2, TokenMove
  <1>15. ASSUME NEW s \in Session, TokenExpires(s) PROVE TokenInv'
    <2> DEFINE r == [row[s] EXCEPT !.expired = TRUE]
    <2>1. row[s] \in Rows
      BY DEF TypeOK
    <2>2. r.tok = row[s].tok /\ r.status = row[s].status
      BY <2>1 DEF Rows
    <2>3. Put(s, r) /\ UNCHANGED <<call, minted, uses, issued>>
      BY <1>15 DEF TokenExpires, history
    <2>4. row[s].tok # NoToken <=> row[s].status = "agent_pending"
      BY DEF TokenInv, TokenOnlyWhilePending
    <2> HIDE DEF r
    <2>5. QED
      BY <1>0, <2>2, <2>3, <2>4, TokenWrite
  <1>16. CASE UNCHANGED vars
    BY <1>16 DEF vars, history, TokenInv, TokenOnlyWhilePending, SpentTokenNeverStored, StoredOnce,
                 KnownTokens, Claimed
  <1>17. QED
    BY <1>1, <1>2, <1>3, <1>4, <1>5, <1>6, <1>7, <1>8, <1>9, <1>10, <1>11, <1>12, <1>13,
       <1>14, <1>15, <1>16 DEF Next

LEMMA TokenInvariant == Spec => []TokenInv
  <1>1. QED
    BY TypeCorrect, TokenInit, TokenStep, PTL DEF Spec

\* A token hash is stored exactly while the session waits for its agent.
THEOREM TokenOnlyWhilePendingHolds == Spec => []TokenOnlyWhilePending
  <1>1. TokenInv => TokenOnlyWhilePending
    BY DEF TokenInv
  <1>2. QED
    BY <1>1, TokenInvariant, PTL

\* A token some agent registered with is never in the table again.
THEOREM SpentTokenNeverStoredHolds == Spec => []SpentTokenNeverStored
  <1>1. TokenInv => SpentTokenNeverStored
    BY DEF TokenInv
  <1>2. QED
    BY <1>1, TokenInvariant, PTL

------------------------------------------------------------------------------
(***************************************************************************)
(* Consent.  ConsentBeforeControl is not inductive: the UPDATEs of         *)
(* allowControl and registerAgent name only the id, so what their calls    *)
(* read must still be true of the host, whatever became of the status.     *)
(***************************************************************************)
\* A row that does not exist yet has no host, so nobody consented to it.
Blank(s) == row[s].status = "absent" => row[s].host = NoUser /\ minter[s] = {}

\* allowControl past its read acts for the host of one existing row.
Consenting(p) ==
  call[p].at = "allow_update" =>
    \E s \in Session :
      call[p].sid = {s} /\ row[s].host = call[p].by /\ row[s].status # "absent"

\* registerAgent past its read holds one row whose host has consented.
Registering(p) ==
  call[p].at = "register_update" =>
    \E s \in Session :
      call[p].sid = {s} /\ row[s].host \in minter[s] /\ row[s].status # "absent"

ConsentInv ==
  /\ ConsentBeforeControl
  /\ \A s \in Session : Blank(s)
  /\ \A p \in Proc : Consenting(p) /\ Registering(p)

\* What ConsentBeforeControl and Blank say of one row with its minters.
RowOk(r, m) ==
  /\ m \subseteq {r.host}
  /\ r.status \in {"agent_pending", "granted", "paused"} => r.host \in m
  /\ r.status = "absent" => r.host = NoUser /\ m = {}

\* A step that rewrites row s alone, keeps its host if it has one, adds to its
\* minters and leaves no call at an UPDATE that was not there before, or one
\* that has just read the row it names.
LEMMA ConsentRowStep ==
  ASSUME TypeOK, ConsentInv, NEW s \in Session, NEW r, NEW m,
         \A x \in Session : row'[x] = IF x = s THEN r ELSE row[x],
         \A x \in Session : minter'[x] = IF x = s THEN m ELSE minter[x],
         RowOk(r, m), minter[s] \subseteq m,
         row[s].status # "absent" => r.host = row[s].host /\ r.status # "absent",
         \A q \in Proc : \/ call'[q] = call[q]
                         \/ call'[q].at \notin {"allow_update", "register_update"}
  PROVE  ConsentInv'
  <1>1. ConsentBeforeControl' /\ (\A x \in Session : Blank(x))'
    BY DEF ConsentInv, ConsentBeforeControl, Blank, RowOk
  <1>2. ASSUME NEW q \in Proc PROVE Consenting(q)' /\ Registering(q)'
    <2>1. CASE call'[q].at \notin {"allow_update", "register_update"}
      BY <2>1 DEF Consenting, Registering
    <2>2. CASE call'[q] = call[q]
      <3>1. Consenting(q)'
        <4>1. SUFFICES ASSUME call[q].at = "allow_update" PROVE Consenting(q)'
          BY <2>2 DEF Consenting
        <4>2. PICK x \in Session :
                call[q].sid = {x} /\ row[x].host = call[q].by /\ row[x].status # "absent"
          BY <4>1 DEF ConsentInv, Consenting
        <4>3. row'[x].host = call[q].by /\ row'[x].status # "absent"
          BY <4>2
        <4>4. QED
          BY <2>2, <4>2, <4>3 DEF Consenting
      <3>2. Registering(q)'
        <4>1. SUFFICES ASSUME call[q].at = "register_update" PROVE Registering(q)'
          BY <2>2 DEF Registering
        <4>2. PICK x \in Session :
                call[q].sid = {x} /\ row[x].host \in minter[x] /\ row[x].status # "absent"
          BY <4>1 DEF ConsentInv, Registering
        <4>3. row'[x].host \in minter'[x] /\ row'[x].status # "absent"
          BY <4>2
        <4>4. QED
          BY <2>2, <4>2, <4>3 DEF Registering
      <3>3. QED
        BY <3>1, <3>2
    <2>3. QED
      BY <2>1, <2>2
  <1>3. QED
    BY <1>1, <1>2 DEF ConsentInv

\* A step of call p that changes no row and no minter.
LEMMA ConsentCallStep ==
  ASSUME TypeOK, ConsentInv, NEW p \in Proc, NEW c, Goto(p, c), UNCHANGED <<row, minter>>,
         c.at = "allow_update" =>
           \E s \in Session : c.sid = {s} /\ row[s].host = c.by /\ row[s].status # "absent",
         c.at = "register_update" =>
           \E s \in Session : c.sid = {s} /\ row[s].host \in minter[s] /\ row[s].status # "absent"
  PROVE  ConsentInv'
  <1>1. \A q \in Proc : call'[q] = IF q = p THEN c ELSE call[q]
    BY CallEffect
  <1>2. ConsentBeforeControl' /\ (\A x \in Session : Blank(x))'
    BY DEF ConsentInv, ConsentBeforeControl, Blank
  <1>3. ASSUME NEW q \in Proc PROVE Consenting(q)' /\ Registering(q)'
    <2>1. CASE q # p
      BY <1>1, <2>1 DEF ConsentInv, Consenting, Registering
    <2>2. CASE q = p
      <3>1. call'[q] = c
        BY <1>1, <2>2
      <3>2. QED
        BY <3>1 DEF Consenting, Registering
    <2>3. QED
      BY <2>1, <2>2
  <1>4. QED
    BY <1>2, <1>3 DEF ConsentInv

\* Ending, pausing, resuming or expiring a session leaves its host and minters.
LEMMA ConsentStatusStep ==
  ASSUME TypeOK, ConsentInv, NEW s \in Session, NEW r, Put(s, r), UNCHANGED minter,
         r.host = row[s].host, r.status # "absent",
         r.status = "ended" \/ row[s].status \in {"agent_pending", "granted", "paused"},
         \A q \in Proc : \/ call'[q] = call[q]
                         \/ call'[q].at \notin {"allow_update", "register_update"}
  PROVE  ConsentInv'
  <1> DEFINE m == minter[s]
  <1>1. \A x \in Session : row'[x] = IF x = s THEN r ELSE row[x]
    BY PutEffect
  <1>2. \A x \in Session : minter'[x] = IF x = s THEN m ELSE minter[x]
    OBVIOUS
  <1>3. RowOk(r, m) /\ minter[s] \subseteq m
    BY DEF ConsentInv, ConsentBeforeControl, RowOk
  <1> HIDE DEF m
  <1>4. QED
    BY <1>1, <1>2, <1>3, ConsentRowStep

LEMMA ConsentEndUpdate ==
  ASSUME TypeOK, ConsentInv, NEW p \in Proc, NEW s \in Session, EndUpdate(p, s)
  PROVE  ConsentInv'
  <1>0. UNCHANGED minter
    BY DEF EndUpdate, history
  <1>1. CASE UNCHANGED row /\ Goto(p, NoCall)
    <2>1. NoCall.at = "idle"
      BY DEF NoCall
    <2>2. QED
      BY <1>0, <1>1, <2>1, ConsentCallStep
  <1>2. CASE Put(s, Ended(row[s])) /\ ThenAudit(p, s, NoToken, {"ended"})
    <2>1. row[s] \in Rows
      BY DEF TypeOK
    <2>2. Ended(row[s]).host = row[s].host /\ Ended(row[s]).status = "ended"
      BY <2>1 DEF Ended, Rows
    <2>3. \A q \in Proc : call'[q] = call[q] \/ call'[q].at = "audit"
      BY <1>2, ThenAuditEffect
    <2>4. QED
      BY <1>0, <1>2, <2>2, <2>3, ConsentStatusStep
  <1>3. QED
    BY <1>1, <1>2 DEF EndUpdate

LEMMA ConsentInit == Init => ConsentInv
  BY DEF Init, ConsentInv, ConsentBeforeControl, Blank, Consenting, Registering, NoRow, NoCall

LEMMA ConsentStep == TypeOK /\ ConsentInv /\ [Next]_vars => ConsentInv'
  <1> SUFFICES ASSUME TypeOK, ConsentInv, [Next]_vars PROVE ConsentInv'
    OBVIOUS
  <1>0. \A p \in Proc : call[p] \in Calls
    BY DEF TypeOK
  <1>1. ASSUME NEW p \in Proc, NEW u \in User, RequestControl(p, u) \/ OfferControl(p, u)
        PROVE ConsentInv'
    <2>1. PICK op \in {"request", "offer"} : SelectStale(p, u, op)
      BY <1>1 DEF RequestControl, OfferControl
    <2> DEFINE c == [NoCall EXCEPT !.at = "supersede", !.op = op, !.by = u, !.todo = Active]
    <2>2. c.at = "supersede"
      BY DEF NoCall
    <2> HIDE DEF c
    <2>3. Goto(p, c) /\ UNCHANGED <<row, minter>>
      BY <2>1 DEF SelectStale, history, c
    <2>4. QED
      BY <2>2, <2>3, ConsentCallStep
  <1>2. ASSUME NEW p \in Proc, SupersedeStale(p) PROVE ConsentInv'
    <2>1. PICK s \in Session :
            LET rest == [call[p] EXCEPT !.todo = @ \ {s}]
            IN \/ Put(s, Ended(row[s])) /\ Goto(p, [rest EXCEPT !.at = "audit_stale", !.sid = {s}])
               \/ UNCHANGED row /\ Goto(p, rest)
      BY <1>0, <1>2 DEF SupersedeStale, Calls
    <2> DEFINE rest == [call[p] EXCEPT !.todo = @ \ {s}]
    <2> DEFINE next == [rest EXCEPT !.at = "audit_stale", !.sid = {s}]
    <2>2. rest.at = "supersede" /\ next.at = "audit_stale"
      BY <1>0, <1>2 DEF SupersedeStale, Calls
    <2>3. row[s] \in Rows
      BY DEF TypeOK
    <2>4. Ended(row[s]).host = row[s].host /\ Ended(row[s]).status = "ended"
      BY <2>3 DEF Ended, Rows
    <2>5. UNCHANGED minter
      BY <1>2 DEF SupersedeStale, history
    <2> HIDE DEF rest, next
    <2>6. CASE Put(s, Ended(row[s])) /\ Goto(p, next)
      <3>1. \A q \in Proc : call'[q] = call[q] \/ call'[q].at = "audit_stale"
        BY <2>2, <2>6, CallEffect
      <3>2. QED
        BY <2>4, <2>5, <2>6, <3>1, ConsentStatusStep
    <2>7. CASE UNCHANGED row /\ Goto(p, rest)
      BY <2>2, <2>5, <2>7, ConsentCallStep
    <2>8. QED
      BY <2>1, <2>6, <2>7 DEF rest, next
  <1>3. ASSUME NEW p \in Proc, AuditStale(p) PROVE ConsentInv'
    <2> DEFINE c == [call[p] EXCEPT !.at = "supersede", !.sid = {}]
    <2>1. c.at = "supersede"
      BY <1>0 DEF Calls
    <2> HIDE DEF c
    <2>2. Goto(p, c) /\ UNCHANGED <<row, minter>>
      BY <1>3 DEF AuditStale, history, c
    <2>3. QED
      BY <2>1, <2>2, ConsentCallStep
  <1>4. ASSUME NEW p \in Proc, InsertRequested(p) PROVE ConsentInv'
    <2>1. PICK s \in Session, h \in User :
            /\ row[s].status = "absent"
            /\ Put(s, [NoRow EXCEPT !.status = "requested", !.host = h])
            /\ ThenAudit(p, s, NoToken, {"requested"})
      BY <1>4 DEF InsertRequested, Fresh
    <2> DEFINE r == [NoRow EXCEPT !.status = "requested", !.host = h]
    <2>2. r.status = "requested"
      BY DEF NoRow
    <2>3. minter[s] = {} /\ UNCHANGED minter /\ Put(s, r)
      BY <1>4, <2>1 DEF InsertRequested, history, ConsentInv, Blank
    <2>4. \A q \in Proc : call'[q] = call[q] \/ call'[q].at = "audit"
      BY <2>1, ThenAuditEffect
    <2> HIDE DEF r
    <2>5. \A x \in Session : row'[x] = IF x = s THEN r ELSE row[x]
      BY <2>3, PutEffect
    <2>6. \A x \in Session : minter'[x] = IF x = s THEN {} ELSE minter[x]
      BY <2>3
    <2>7. RowOk(r, {}) /\ minter[s] \subseteq {}
      BY <2>2, <2>3 DEF RowOk
    <2>8. QED
      BY <2>1, <2>4, <2>5, <2>6, <2>7, ConsentRowStep
  <1>5. ASSUME NEW p \in Proc, InsertOffered(p) PROVE ConsentInv'
    <2>1. PICK s \in Session, t \in Token :
            /\ row[s].status = "absent"
            /\ Put(s, [NoRow EXCEPT !.status = "agent_pending", !.tok = t, !.host = call[p].by])
            /\ minter' = [minter EXCEPT ![s] = @ \cup {call[p].by}]
            /\ ThenAudit(p, s, t, {"requested", "allowed"})
      BY <1>5 DEF InsertOffered, Fresh
    <2> DEFINE r == [NoRow EXCEPT !.status = "agent_pending", !.tok = t, !.host = call[p].by]
    <2> DEFINE m == {call[p].by}
    <2>2. r.status = "agent_pending" /\ r.host = call[p].by
      BY DEF NoRow
    <2>3. minter[s] = {} /\ Put(s, r)
      BY <2>1 DEF ConsentInv, Blank
    <2>4. \A q \in Proc : call'[q] = call[q] \/ call'[q].at = "audit"
      BY <2>1, ThenAuditEffect
    <2>5. \A x \in Session : minter'[x] = IF x = s THEN m ELSE minter[x]
      BY <2>1, <2>3 DEF TypeOK
    <2> HIDE DEF r
    <2>6. \A x \in Session : row'[x] = IF x = s THEN r ELSE row[x]
      BY <2>3, PutEffect
    <2>7. RowOk(r, m) /\ minter[s] \subseteq m
      BY <2>2, <2>3 DEF RowOk
    <2> HIDE DEF m
    <2>8. QED
      BY <2>1, <2>4, <2>5, <2>6, <2>7, ConsentRowStep
  <1>6. ASSUME NEW p \in Proc, NEW s \in Session, NEW u \in User,
               AllowControl(p, s, u) \/ DeclineControl(p, s, u)
        PROVE ConsentInv'
    <2>1. PICK at \in {"allow_update", "decline_update"}, op \in {"allow", "decline"} :
            Goto(p, [NoCall EXCEPT !.at = at, !.op = op, !.by = u, !.sid = {s}])
      BY <1>6 DEF AllowControl, DeclineControl
    <2> DEFINE c == [NoCall EXCEPT !.at = at, !.op = op, !.by = u, !.sid = {s}]
    <2>2. c.at # "register_update" /\ c.sid = {s} /\ c.by = u
      BY DEF NoCall
    <2> HIDE DEF c
    <2>3. Goto(p, c) /\ UNCHANGED <<row, minter>>
      BY <1>6, <2>1 DEF AllowControl, DeclineControl, history, c
    <2>4. row[s].host = c.by /\ row[s].status # "absent"
      BY <1>6, <2>2 DEF AllowControl, DeclineControl
    <2>5. QED
      BY <2>2, <2>3, <2>4, ConsentCallStep
  <1>7. ASSUME NEW p \in Proc, AllowUpdate(p) PROVE ConsentInv'
    <2>1. PICK s \in Session :
            call[p].sid = {s} /\ row[s].host = call[p].by /\ row[s].status # "absent"
      BY <1>7 DEF AllowUpdate, ConsentInv, Consenting
    <2>2. PICK t \in Token :
            /\ Put(s, [row[s] EXCEPT !.status = "agent_pending", !.tok = t, !.expired = FALSE])
            /\ minter' = [minter EXCEPT ![s] = @ \cup {call[p].by}]
            /\ ThenAudit(p, s, t, {"allowed"})
      BY <1>7, <2>1 DEF AllowUpdate
    <2> DEFINE r == [row[s] EXCEPT !.status = "agent_pending", !.tok = t, !.expired = FALSE]
    <2> DEFINE m == minter[s] \cup {call[p].by}
    <2>3. row[s] \in Rows
      BY DEF TypeOK
    <2>4. r.status = "agent_pending" /\ r.host = row[s].host
      BY <2>3 DEF Rows
    <2>5. \A q \in Proc : call'[q] = call[q] \/ call'[q].at = "audit"
      BY <2>2, ThenAuditEffect
    <2>6. \A x \in Session : minter'[x] = IF x = s THEN m ELSE minter[x]
      BY <2>2 DEF TypeOK
    <2>7. Put(s, r)
      BY <2>2
    <2> HIDE DEF r
    <2>8. \A x \in Session : row'[x] = IF x = s THEN r ELSE row[x]
      BY <2>7, PutEffect
    <2>9. RowOk(r, m) /\ minter[s] \subseteq m
      BY <2>1, <2>4 DEF RowOk, ConsentInv, ConsentBeforeControl
    <2> HIDE DEF m
    <2>10. QED
      BY <2>4, <2>5, <2>6, <2>8, <2>9, ConsentRowStep
  <1>8. ASSUME NEW p \in Proc, DeclineUpdate(p) \/ ExpireUpdate(p) PROVE ConsentInv'
    BY <1>0, <1>8, ConsentEndUpdate DEF DeclineUpdate, ExpireUpdate, Calls
  <1>9. ASSUME NEW p \in Proc, NEW t \in Token, RegisterAgent(p, t) PROVE ConsentInv'
    <2>1. PICK s \in Session, at \in {"expire_update", "register_update"} :
            /\ row[s].status = "agent_pending"
            /\ Goto(p, [NoCall EXCEPT !.at = at, !.op = "register", !.sid = {s}, !.tok = t])
      BY <1>9 DEF RegisterAgent
    <2> DEFINE c == [NoCall EXCEPT !.at = at, !.op = "register", !.sid = {s}, !.tok = t]
    <2>2. c.at # "allow_update" /\ c.sid = {s}
      BY DEF NoCall
    <2> HIDE DEF c
    <2>3. Goto(p, c) /\ UNCHANGED <<row, minter>>
      BY <1>9, <2>1 DEF RegisterAgent, history, c
    <2>4. row[s].host \in minter[s] /\ row[s].status # "absent"
      BY <2>1 DEF ConsentInv, ConsentBeforeControl
    <2>5. QED
      BY <2>2, <2>3, <2>4, ConsentCallStep
  <1>10. ASSUME NEW p \in Proc, RegisterUpdate(p) PROVE ConsentInv'
    <2>1. PICK s \in Session :
            call[p].sid = {s} /\ row[s].host \in minter[s] /\ row[s].status # "absent"
      BY <1>10 DEF RegisterUpdate, ConsentInv, Registering
    <2> DEFINE r == [row[s] EXCEPT !.status = "granted", !.tok = NoToken, !.expired = FALSE]
    <2> DEFINE m == minter[s]
    <2>2. Put(s, r) /\ ThenAudit(p, s, NoToken, {"granted"}) /\ UNCHANGED minter
      BY <1>10, <2>1 DEF RegisterUpdate
    <2>3. row[s] \in Rows
      BY DEF TypeOK
    <2>4. r.status = "granted" /\ r.host = row[s].host
      BY <2>3 DEF Rows
    <2>5. \A q \in Proc : call'[q] = call[q] \/ call'[q].at = "audit"
      BY <2>2, ThenAuditEffect
    <2>6. \A x \in Session : minter'[x] = IF x = s THEN m ELSE minter[x]
      BY <2>2
    <2> HIDE DEF r
    <2>7. \A x \in Session : row'[x] = IF x = s THEN r ELSE row[x]
      BY <2>2, PutEffect
    <2>8. RowOk(r, m) /\ minter[s] \subseteq m
      BY <2>1, <2>4 DEF RowOk, ConsentInv, ConsentBeforeControl
    <2> HIDE DEF m
    <2>9. QED
      BY <2>4, <2>5, <2>6, <2>7, <2>8, ConsentRowStep
  <1>11. ASSUME NEW p \in Proc, NEW s \in Session,
                PauseControl(p, s) \/ ResumeControl(p, s)
         PROVE ConsentInv'
    <2>1. PICK status \in {"granted", "paused"} :
            /\ row[s].status \in {"granted", "paused"}
            /\ Put(s, [row[s] EXCEPT !.status = status])
            /\ ThenAudit(p, s, NoToken, {"paused"})
      BY <1>11 DEF PauseControl, ResumeControl
    <2> DEFINE r == [row[s] EXCEPT !.status = status]
    <2>2. row[s] \in Rows
      BY DEF TypeOK
    <2>3. r.host = row[s].host /\ r.status = status
      BY <2>2 DEF Rows
    <2>4. \A q \in Proc : call'[q] = call[q] \/ call'[q].at = "audit"
      BY <2>1, ThenAuditEffect
    <2>5. UNCHANGED minter /\ Put(s, r)
      BY <1>11, <2>1 DEF PauseControl, ResumeControl, history
    <2> HIDE DEF r
    <2>6. QED
      BY <2>1, <2>3, <2>4, <2>5, ConsentStatusStep
  <1>12. ASSUME NEW p \in Proc, NEW s \in Session, EndControl(p, s) PROVE ConsentInv'
    BY <1>12, ConsentEndUpdate DEF EndControl
  <1>13. ASSUME NEW p \in Proc, AuditInsert(p) PROVE ConsentInv'
    <2>1. NoCall.at = "idle"
      BY DEF NoCall
    <2>2. QED
      BY <1>13, <2>1, ConsentCallStep DEF AuditInsert
  <1>14. ASSUME NEW p \in Proc, StatementFails(p) PROVE ConsentInv'
    <2>1. UNCHANGED <<row, minter>>
      BY <1>14 DEF StatementFails
    <2>2. CASE Goto(p, NoCall)
      <3>1. NoCall.at = "idle"
        BY DEF NoCall
      <3>2. QED
        BY <2>1, <2>2, <3>1, ConsentCallStep
    <2>3. CASE Goto(p, [call[p] EXCEPT !.at = "supersede", !.sid = {}])
      <3> DEFINE c == [call[p] EXCEPT !.at = "supersede", !.sid = {}]
      <3>1. c.at = "supersede" /\ Goto(p, c)
        BY <1>0, <2>3 DEF Calls
      <3> HIDE DEF c
      <3>2. QED
        BY <2>1, <3>1, ConsentCallStep
    <2>4. ASSUME call[p].at = "supersede", NEW s \in call[p].todo,
                 Goto(p, [call[p] EXCEPT !.todo = @ \ {s}])
          PROVE  ConsentInv'
      <3> DEFINE c == [call[p] EXCEPT !.todo = @ \ {s}]
      <3>1. c.at = "supersede" /\ Goto(p, c)
        BY <1>0, <2>4 DEF Calls
      <3> HIDE DEF c
      <3>2. QED
        BY <2>1, <3>1, ConsentCallStep
    <2>5. QED
      BY <1>14, <2>2, <2>3, <2>4 DEF StatementFails
  <1>15. ASSUME NEW s \in Session, TokenExpires(s) PROVE ConsentInv'
    <2> DEFINE r == [row[s] EXCEPT !.expired = TRUE]
    <2>1. row[s] \in Rows
      BY DEF TypeOK
    <2>2. r.host = row[s].host /\ r.status = row[s].status
      BY <2>1 DEF Rows
    <2>3. Put(s, r) /\ row[s].status = "agent_pending" /\ UNCHANGED <<call, minter>>
      BY <1>15 DEF TokenExpires, history
    <2> HIDE DEF r
    <2>4. QED
      BY <2>2, <2>3, ConsentStatusStep
  <1>16. CASE UNCHANGED vars
    BY <1>16 DEF vars, ConsentInv, ConsentBeforeControl, Blank, Consenting, Registering
  <1>17. QED
    BY <1>1, <1>2, <1>3, <1>4, <1>5, <1>6, <1>7, <1>8, <1>9, <1>10, <1>11, <1>12, <1>13,
       <1>14, <1>15, <1>16 DEF Next

\* Nobody but the host ever minted a token of a session, and a session waits for
\* an agent or is under control only with the host's consent.
THEOREM ConsentBeforeControlHolds == Spec => []ConsentBeforeControl
  <1>1. ConsentInv => ConsentBeforeControl
    BY DEF ConsentInv
  <1>2. QED
    BY <1>1, TypeCorrect, ConsentInit, ConsentStep, PTL DEF Spec

------------------------------------------------------------------------------
(***************************************************************************)
(* The audit trail.  A call that has updated a row still owes the events   *)
(* it is about to insert; the trail of a session is what is inserted and   *)
(* what is owed.  What the trail must hold depends on the status, and what *)
(* it once holds it keeps as long as no statement fails.                   *)
(***************************************************************************)
Owed(c, s, e) ==
  /\ s \in c.sid
  /\ \/ c.at = "audit" /\ e \in c.log
     \/ c.at = "audit_stale" /\ e = "ended"

Trail(s, e) == e \in audit[s] \/ \E p \in Proc : Owed(call[p], s, e)

\* The events a status calls for.
Wanted(status) ==
  {e \in Events :
     \/ e = "requested" /\ status # "absent"
     \/ e = "allowed" /\ status \in {"agent_pending", "granted", "paused"}
     \/ e = "granted" /\ status \in {"granted", "paused"}
     \/ e = "ended" /\ status = "ended"}

TrailTells == \A s \in Session : \A e \in Wanted(row[s].status) : Trail(s, e)

Exists(c) == \A s \in c.todo \cup c.sid : row[s].status # "absent"

\* A registration in flight found the row of a session that had been allowed.
WasAllowed(c) == c.at = "register_update" => \A s \in c.sid : Trail(s, "allowed")

AuditInv ==
  failures = 0 => /\ TrailTells
                  /\ \A p \in Proc : Exists(call[p]) /\ WasAllowed(call[p])

Silent(c) == c.at \notin {"audit", "audit_stale"}

\* The trail survives a step of call p that inserts what the call owed, or
\* leaves it owed; the new statuses want no event that is not on it.
LEMMA AuditMoves ==
  ASSUME TypeOK, AuditInv, failures = 0, NEW p \in Proc, NEW c, Goto(p, c),
         \A x \in Session : \A e \in Events :
           e \in audit[x] \/ Owed(call[p], x, e) => e \in audit'[x] \/ Owed(c, x, e),
         \A x \in Session : row[x].status # "absent" => row'[x].status # "absent",
         \A x \in Session : \A e \in Wanted(row'[x].status) :
           e \in Wanted(row[x].status) \/ Trail(x, e) \/ Owed(c, x, e),
         c.todo \cup c.sid \subseteq Session,
         \A x \in c.todo \cup c.sid : row'[x].status # "absent",
         WasAllowed(c)
  PROVE  AuditInv'
  <1>1. \A q \in Proc : call'[q] = IF q = p THEN c ELSE call[q]
    BY CallEffect
  <1> DEFINE TrailNext(x, e) == e \in audit'[x] \/ \E q \in Proc : Owed(call'[q], x, e)
  <1>2. ASSUME NEW x \in Session, NEW e \in Events, Trail(x, e) PROVE TrailNext(x, e)
    <2>1. CASE e \in audit[x] \/ Owed(call[p], x, e)
      BY <1>1, <2>1
    <2>2. CASE \E q \in Proc : q # p /\ Owed(call[q], x, e)
      BY <1>1, <2>2
    <2>3. QED
      BY <1>2, <2>1, <2>2 DEF Trail
  <1>3. ASSUME NEW x \in Session, NEW e \in Wanted(row'[x].status) PROVE TrailNext(x, e)
    <2>1. e \in Events
      BY DEF Wanted
    <2>2. CASE e \in Wanted(row[x].status) \/ Trail(x, e)
      BY <1>2, <2>1, <2>2 DEF AuditInv, TrailTells
    <2>3. CASE Owed(c, x, e)
      BY <1>1, <2>3
    <2>4. QED
      BY <1>3, <2>2, <2>3
  <1>4. ASSUME NEW q \in Proc
        PROVE  /\ \A x \in call'[q].todo \cup call'[q].sid : row'[x].status # "absent"
               /\ call'[q].at = "register_update" => \A x \in call'[q].sid : TrailNext(x, "allowed")
    <2>1. CASE q = p
      <3>1. call'[q] = c
        BY <1>1, <2>1
      <3>2. QED
        BY <1>2, <3>1 DEF WasAllowed
    <2>2. CASE q # p
      <3>1. call'[q] = call[q] /\ Exists(call[q]) /\ WasAllowed(call[q])
        BY <1>1, <2>2 DEF AuditInv
      <3>2. call[q].todo \cup call[q].sid \subseteq Session
        BY DEF TypeOK, Calls
      <3> HIDE DEF TrailNext
      <3>3. QED
        BY <1>2, <3>1, <3>2 DEF WasAllowed, Exists
    <2>3. QED
      BY <2>1, <2>2
  <1>5. QED
    BY <1>3, <1>4 DEF AuditInv, TrailTells, Exists, WasAllowed, Trail

\* Call p owed nothing, writes row s and goes on to audit what it did.
LEMMA AuditPut ==
  ASSUME TypeOK, AuditInv, failures = 0, NEW p \in Proc, Silent(call[p]),
         NEW c, Goto(p, c), UNCHANGED audit,
         NEW s \in Session, NEW r, Put(s, r), r.status # "absent",
         c.sid = {s}, c.at # "register_update", c.todo \subseteq Session,
         \A x \in c.todo : row[x].status # "absent",
         \A e \in Wanted(r.status) : e \in Wanted(row[s].status) \/ Trail(s, e) \/ Owed(c, s, e)
  PROVE  AuditInv'
  <1>1. \A x \in Session : row'[x] = IF x = s THEN r ELSE row[x]
    BY PutEffect
  <1>2. \A x \in Session : \A e \in Events :
          e \in audit[x] \/ Owed(call[p], x, e) => e \in audit'[x] \/ Owed(c, x, e)
    BY DEF Owed, Silent
  <1>3. \A x \in Session : row[x].status # "absent" => row'[x].status # "absent"
    BY <1>1
  <1>4. ASSUME NEW x \in Session, NEW e \in Wanted(row'[x].status)
        PROVE  e \in Wanted(row[x].status) \/ Trail(x, e) \/ Owed(c, x, e)
    <2>1. CASE x = s
      <3>1. row'[x].status = r.status
        BY <1>1, <2>1
      <3>2. QED
        BY <2>1, <3>1
    <2>2. CASE x # s
      BY <1>1, <2>2
    <2>3. QED
      BY <2>1, <2>2
  <1>5. c.todo \cup c.sid \subseteq Session /\ \A x \in c.todo \cup c.sid : row'[x].status # "absent"
    BY <1>1
  <1>6. WasAllowed(c)
    BY DEF WasAllowed
  <1>7. QED
    BY <1>2, <1>3, <1>4, <1>5, <1>6, AuditMoves

\* Call p owed nothing and moves on without writing.
LEMMA AuditPass ==
  ASSUME TypeOK, AuditInv, failures = 0, NEW p \in Proc, Silent(call[p]),
         NEW c, Goto(p, c), UNCHANGED <<row, audit>>,
         c.todo \cup c.sid \subseteq Session, Exists(c), WasAllowed(c)
  PROVE  AuditInv'
  <1>1. \A x \in Session : \A e \in Events :
          e \in audit[x] \/ Owed(call[p], x, e) => e \in audit'[x] \/ Owed(c, x, e)
    BY DEF Owed, Silent
  <1>2. \A x \in c.todo \cup c.sid : row'[x].status # "absent"
    BY DEF Exists
  <1>3. QED
    BY <1>1, <1>2, AuditMoves

\* Call p writes row s and then audits the events it names.
LEMMA AuditWrite ==
  ASSUME TypeOK, AuditInv, failures = 0, NEW p \in Proc, Silent(call[p]), UNCHANGED audit,
         NEW s \in Session, NEW r, Put(s, r), r.status # "absent",
         NEW t, NEW events, ThenAudit(p, s, t, events),
         \A e \in Wanted(r.status) : e \in Wanted(row[s].status) \/ Trail(s, e) \/ e \in events
  PROVE  AuditInv'
  <1>1. PICK c : c = [NoCall EXCEPT !.at = "audit", !.sid = {s}, !.tok = t, !.log = events]
    OBVIOUS
  <1>2. Goto(p, c)
    BY <1>1 DEF ThenAudit
  <1>3. /\ c.at = "audit" /\ c.sid = {s} /\ c.todo = {}
        /\ \A x \in events : Owed(c, s, x)
    BY <1>1 DEF NoCall, Owed
  <1>4. QED
    BY <1>2, <1>3, AuditPut

\* Leaving the service when nothing is owed.
LEMMA AuditLeave ==
  ASSUME TypeOK, AuditInv, failures = 0, NEW p \in Proc, Silent(call[p]),
         Goto(p, NoCall), UNCHANGED <<row, audit>>
  PROVE  AuditInv'
  <1>1. NoCall.at = "idle" /\ NoCall.todo = {} /\ NoCall.sid = {}
    BY DEF NoCall
  <1>2. QED
    BY <1>1, AuditPass DEF Exists, WasAllowed

\* The guarded UPDATE of endControl and its audit.
LEMMA AuditEndUpdate ==
  ASSUME TypeOK, AuditInv, failures = 0, NEW p \in Proc, Silent(call[p]),
         NEW s \in Session, EndUpdate(p, s)
  PROVE  AuditInv'
  <1>0. UNCHANGED audit
    BY DEF EndUpdate
  <1>1. CASE UNCHANGED row /\ Goto(p, NoCall)
    BY <1>0, <1>1, AuditLeave
  <1>2. CASE /\ row[s].status \in ActiveStatuses
             /\ Put(s, Ended(row[s])) /\ ThenAudit(p, s, NoToken, {"ended"})
    <2>1. row[s] \in Rows
      BY DEF TypeOK
    <2>2. Ended(row[s]).status = "ended"
      BY <2>1 DEF Ended, Rows
    <2>3. \A e \in Wanted("ended") : e \in Wanted(row[s].status) \/ e \in {"ended"}
      BY <1>2 DEF Wanted
    <2>4. QED
      BY <1>0, <1>2, <2>2, <2>3, AuditWrite
  <1>3. QED
    BY <1>1, <1>2 DEF EndUpdate

LEMMA AuditInit == Init => AuditInv
  <1>1. NoCall.at = "idle" /\ NoCall.todo = {} /\ NoCall.sid = {} /\ NoRow.status = "absent"
    BY DEF NoCall, NoRow
  <1>2. Wanted("absent") = {}
    BY DEF Wanted
  <1>3. QED
    BY <1>1, <1>2 DEF Init, AuditInv, TrailTells, Exists, WasAllowed

LEMMA AuditStep == TypeOK /\ AuditInv /\ [Next]_vars => AuditInv'
  <1> SUFFICES ASSUME TypeOK, AuditInv, [Next]_vars, failures' = 0 PROVE AuditInv'
    BY DEF AuditInv
  <1>0. \A p \in Proc : call[p] \in Calls /\ call[p].sid \subseteq Session /\ call[p].todo \subseteq Session
    BY DEF TypeOK, Calls
  <1>a. failures = 0 \/ \E p \in Proc : StatementFails(p)
    BY DEF Next, RequestControl, OfferControl, SelectStale, SupersedeStale, AuditStale,
           InsertRequested, InsertOffered, AllowControl, DeclineControl, AllowUpdate,
           DeclineUpdate, RegisterAgent, ExpireUpdate, RegisterUpdate, PauseControl,
           ResumeControl, EndControl, EndUpdate, AuditInsert, TokenExpires, history, vars
  <1>b. ASSUME NEW p \in Proc, StatementFails(p) PROVE FALSE
    BY <1>b DEF StatementFails, TypeOK
  <1>c. failures = 0
    BY <1>a, <1>b
  <1>d. \A p \in Proc : Exists(call[p]) /\ WasAllowed(call[p])
    BY <1>c DEF AuditInv
  <1>1. ASSUME NEW p \in Proc, NEW u \in User, RequestControl(p, u) \/ OfferControl(p, u)
        PROVE AuditInv'
    <2>1. PICK op \in {"request", "offer"} : SelectStale(p, u, op)
      BY <1>1 DEF RequestControl, OfferControl
    <2>2. PICK c : c = [NoCall EXCEPT !.at = "supersede", !.op = op, !.by = u, !.todo = Active]
      OBVIOUS
    <2>3. c.at = "supersede" /\ c.sid = {} /\ c.todo = Active
      BY <2>2 DEF NoCall
    <2>4. Goto(p, c) /\ UNCHANGED <<row, audit>> /\ Silent(call[p])
      BY <2>1, <2>2 DEF SelectStale, Silent
    <2>5. Exists(c) /\ WasAllowed(c) /\ c.todo \cup c.sid \subseteq Session
      BY <2>3 DEF Exists, WasAllowed, Active
    <2>6. QED
      BY <1>c, <2>4, <2>5, AuditPass
  <1>2. ASSUME NEW p \in Proc, SupersedeStale(p) PROVE AuditInv'
    <2>1. PICK s \in call[p].todo :
            LET rest == [call[p] EXCEPT !.todo = @ \ {s}]
            IN \/ Put(s, Ended(row[s])) /\ Goto(p, [rest EXCEPT !.at = "audit_stale", !.sid = {s}])
               \/ UNCHANGED row /\ Goto(p, rest)
      BY <1>2 DEF SupersedeStale
    <2> DEFINE rest == [call[p] EXCEPT !.todo = @ \ {s}]
    <2> DEFINE next == [rest EXCEPT !.at = "audit_stale", !.sid = {s}]
    <2>2. /\ rest.at = "supersede" /\ rest.sid = call[p].sid /\ rest.todo = call[p].todo \ {s}
          /\ next.at = "audit_stale" /\ next.sid = {s} /\ next.todo = call[p].todo \ {s}
      BY <1>0, <1>2 DEF SupersedeStale, Calls
    <2>3. UNCHANGED audit /\ Silent(call[p]) /\ s \in Session
      BY <1>0, <1>2 DEF SupersedeStale, Silent
    <2>4. row[s] \in Rows /\ row[s].status # "absent"
      BY <1>d, <2>3 DEF TypeOK, Exists
    <2>5. Ended(row[s]).status = "ended"
      BY <2>4 DEF Ended, Rows
    <2> HIDE DEF rest, next
    <2>6. CASE Put(s, Ended(row[s])) /\ Goto(p, next)
      <3>1. Owed(next, s, "ended")
        BY <2>2 DEF Owed
      <3>2. \A e \in Wanted("ended") : e \in Wanted(row[s].status) \/ Owed(next, s, e)
        BY <2>4, <3>1 DEF Wanted
      <3>3. next.todo \subseteq Session /\ \A x \in next.todo : row[x].status # "absent"
        BY <1>0, <1>d, <2>2 DEF Exists
      <3>4. next.at # "register_update" /\ Ended(row[s]).status # "absent"
        BY <2>2, <2>5
      <3>5. QED
        BY <1>c, <2>2, <2>3, <2>5, <2>6, <3>2, <3>3, <3>4, AuditPut
    <2>7. CASE UNCHANGED row /\ Goto(p, rest)
      <3>1. Exists(rest) /\ WasAllowed(rest) /\ rest.todo \cup rest.sid \subseteq Session
        BY <1>0, <1>d, <2>2 DEF Exists, WasAllowed
      <3>2. QED
        BY <1>c, <2>3, <2>7, <3>1, AuditPass
    <2>8. QED
      BY <2>1, <2>6, <2>7 DEF rest, next
  <1>3. ASSUME NEW p \in Proc, AuditStale(p) PROVE AuditInv'
    <2>1. PICK c : c = [call[p] EXCEPT !.at = "supersede", !.sid = {}]
      OBVIOUS
    <2>2. c.at = "supersede" /\ c.sid = {} /\ c.todo = call[p].todo
      BY <1>0, <2>1 DEF Calls
    <2>3. Goto(p, c) /\ UNCHANGED row
      BY <1>3, <2>1 DEF AuditStale
    <2>4. \A x \in Session : \A e \in Events :
            e \in audit[x] \/ Owed(call[p], x, e) => e \in audit'[x] \/ Owed(c, x, e)
      BY <1>3 DEF AuditStale, Owed
    <2>5. WasAllowed(c) /\ c.todo \cup c.sid \subseteq Session
          /\ \A x \in c.todo \cup c.sid : row'[x].status # "absent"
      BY <1>0, <1>d, <2>2, <2>3 DEF Exists, WasAllowed
    <2>6. QED
      BY <1>c, <2>3, <2>4, <2>5, AuditMoves
  <1>4. ASSUME NEW p \in Proc, InsertRequested(p) PROVE AuditInv'
    <2>1. PICK s \in Session, h \in User :
            /\ Put(s, [NoRow EXCEPT !.status = "requested", !.host = h])
            /\ ThenAudit(p, s, NoToken, {"requested"})
      BY <1>4 DEF InsertRequested, Fresh
    <2>2. PICK r : r = [NoRow EXCEPT !.status = "requested", !.host = h]
      OBVIOUS
    <2>3. r.status = "requested" /\ Put(s, r)
      BY <2>1, <2>2 DEF NoRow
    <2>4. Silent(call[p]) /\ UNCHANGED audit
      BY <1>4 DEF InsertRequested, Silent
    <2>5. \A e \in Wanted("requested") : e \in {"requested"}
      BY DEF Wanted
    <2>6. QED
      BY <1>c, <2>1, <2>3, <2>4, <2>5, AuditWrite
  <1>5. ASSUME NEW p \in Proc, InsertOffered(p) PROVE AuditInv'
    <2>1. PICK s \in Session, t \in Token :
            /\ Put(s, [NoRow EXCEPT !.status = "agent_pending", !.tok = t, !.host = call[p].by])
            /\ ThenAudit(p, s, t, {"requested", "allowed"})
      BY <1>5 DEF InsertOffered, Fresh
    <2>2. PICK r : r = [NoRow EXCEPT !.status = "agent_pending", !.tok = t, !.host = call[p].by]
      OBVIOUS
    <2>3. r.status = "agent_pending" /\ Put(s, r)
      BY <2>1, <2>2 DEF NoRow
    <2>4. Silent(call[p]) /\ UNCHANGED audit
      BY <1>5 DEF InsertOffered, Silent
    <2>5. \A e \in Wanted("agent_pending") : e \in {"requested", "allowed"}
      BY DEF Wanted
    <2>6. QED
      BY <1>c, <2>1, <2>3, <2>4, <2>5, AuditWrite
  <1>6. ASSUME NEW p \in Proc, NEW s \in Session, NEW u \in User,
               AllowControl(p, s, u) \/ DeclineControl(p, s, u)
        PROVE AuditInv'
    <2>1. PICK at \in {"allow_update", "decline_update"}, op \in {"allow", "decline"} :
            Goto(p, [NoCall EXCEPT !.at = at, !.op = op, !.by = u, !.sid = {s}])
      BY <1>6 DEF AllowControl, DeclineControl
    <2>2. PICK c : c = [NoCall EXCEPT !.at = at, !.op = op, !.by = u, !.sid = {s}]
      OBVIOUS
    <2>3. c.at # "register_update" /\ c.sid = {s} /\ c.todo = {} /\ Goto(p, c)
      BY <2>1, <2>2 DEF NoCall
    <2>4. UNCHANGED <<row, audit>> /\ Silent(call[p]) /\ row[s].status # "absent"
      BY <1>6 DEF AllowControl, DeclineControl, Silent
    <2>5. QED
      BY <1>c, <2>3, <2>4, AuditPass DEF Exists, WasAllowed
  <1>7. ASSUME NEW p \in Proc, AllowUpdate(p) PROVE AuditInv'
    <2>1. PICK s \in call[p].sid, t \in Token :
            /\ Put(s, [row[s] EXCEPT !.status = "agent_pending", !.tok = t, !.expired = FALSE])
            /\ ThenAudit(p, s, t, {"allowed"})
      BY <1>7 DEF AllowUpdate
    <2>2. PICK r : r = [row[s] EXCEPT !.status = "agent_pending", !.tok = t, !.expired = FALSE]
      OBVIOUS
    <2>3. s \in Session /\ row[s] \in Rows /\ row[s].status # "absent"
      BY <1>0, <1>d DEF TypeOK, Exists
    <2>4. r.status = "agent_pending" /\ Put(s, r)
      BY <2>1, <2>2, <2>3 DEF Rows
    <2>5. Silent(call[p]) /\ UNCHANGED audit
      BY <1>7 DEF AllowUpdate, Silent
    <2>6. \A e \in Wanted("agent_pending") : e \in Wanted(row[s].status) \/ e \in {"allowed"}
      BY <2>3 DEF Wanted
    <2>7. QED
      BY <1>c, <2>1, <2>3, <2>4, <2>5, <2>6, AuditWrite
  <1>8. ASSUME NEW p \in Proc, DeclineUpdate(p) \/ ExpireUpdate(p) PROVE AuditInv'
    <2>1. Silent(call[p]) /\ \E s \in Session : EndUpdate(p, s)
      BY <1>0, <1>8 DEF DeclineUpdate, ExpireUpdate, Silent
    <2>2. QED
      BY <1>c, <2>1, AuditEndUpdate
  <1>9. ASSUME NEW p \in Proc, NEW t \in Token, RegisterAgent(p, t) PROVE AuditInv'
    <2>1. PICK s \in Session, at \in {"expire_update", "register_update"} :
            /\ row[s].status = "agent_pending"
            /\ Goto(p, [NoCall EXCEPT !.at = at, !.op = "register", !.sid = {s}, !.tok = t])
      BY <1>9 DEF RegisterAgent
    <2>2. PICK c : c = [NoCall EXCEPT !.at = at, !.op = "register", !.sid = {s}, !.tok = t]
      OBVIOUS
    <2>3. c.sid = {s} /\ c.todo = {} /\ Goto(p, c)
      BY <2>1, <2>2 DEF NoCall
    <2>4. "allowed" \in Wanted(row[s].status)
      BY <2>1 DEF Wanted
    <2>5. Trail(s, "allowed")
      BY <1>c, <2>4 DEF AuditInv, TrailTells
    <2>6. Exists(c) /\ WasAllowed(c) /\ c.todo \cup c.sid \subseteq Session
      BY <2>1, <2>3, <2>5 DEF Exists, WasAllowed
    <2>7. UNCHANGED <<row, audit>> /\ Silent(call[p])
      BY <1>9 DEF RegisterAgent, Silent
    <2>8. QED
      BY <1>c, <2>3, <2>6, <2>7, AuditPass
  <1>10. ASSUME NEW p \in Proc, RegisterUpdate(p) PROVE AuditInv'
    <2>1. PICK s \in call[p].sid :
            /\ Put(s, [row[s] EXCEPT !.status = "granted", !.tok = NoToken, !.expired = FALSE])
            /\ ThenAudit(p, s, NoToken, {"granted"})
      BY <1>10 DEF RegisterUpdate
    <2>2. PICK r : r = [row[s] EXCEPT !.status = "granted", !.tok = NoToken, !.expired = FALSE]
      OBVIOUS
    <2>3. s \in Session /\ row[s] \in Rows /\ row[s].status # "absent"
      BY <1>0, <1>d DEF TypeOK, Exists
    <2>4. r.status = "granted" /\ Put(s, r)
      BY <2>1, <2>2, <2>3 DEF Rows
    <2>5. Silent(call[p]) /\ UNCHANGED audit
      BY <1>10 DEF RegisterUpdate, Silent
    <2>6. Trail(s, "allowed")
      BY <1>10, <1>d DEF RegisterUpdate, WasAllowed
    <2>7. \A e \in Wanted("granted") :
            e \in Wanted(row[s].status) \/ e = "allowed" \/ e \in {"granted"}
      BY <2>3 DEF Wanted
    <2>8. QED
      BY <1>c, <2>1, <2>3, <2>4, <2>5, <2>6, <2>7, AuditWrite
  <1>11. ASSUME NEW p \in Proc, NEW s \in Session,
                PauseControl(p, s) \/ ResumeControl(p, s)
         PROVE AuditInv'
    <2>1. PICK status \in {"granted", "paused"} :
            /\ row[s].status \in {"granted", "paused"}
            /\ Put(s, [row[s] EXCEPT !.status = status])
            /\ ThenAudit(p, s, NoToken, {"paused"})
      BY <1>11 DEF PauseControl, ResumeControl
    <2>2. PICK r : r = [row[s] EXCEPT !.status = status]
      OBVIOUS
    <2>3. r.status = status /\ Put(s, r)
      BY <2>1, <2>2 DEF TypeOK, Rows
    <2>4. Silent(call[p]) /\ UNCHANGED audit
      BY <1>11 DEF PauseControl, ResumeControl, Silent
    <2>5. \A e \in Wanted(status) : e \in Wanted(row[s].status)
      BY <2>1 DEF Wanted
    <2>6. QED
      BY <1>c, <2>1, <2>3, <2>4, <2>5, AuditWrite
  <1>12. ASSUME NEW p \in Proc, NEW s \in Session, EndControl(p, s) PROVE AuditInv'
    BY <1>12, <1>c, AuditEndUpdate DEF EndControl, Silent
  <1>13. ASSUME NEW p \in Proc, AuditInsert(p) PROVE AuditInv'
    <2>1. NoCall.at = "idle" /\ NoCall.todo = {} /\ NoCall.sid = {}
      BY DEF NoCall
    <2>2. Goto(p, NoCall) /\ UNCHANGED row
      BY <1>13 DEF AuditInsert
    <2>3. \A x \in Session : \A e \in Events :
            e \in audit[x] \/ Owed(call[p], x, e) => e \in audit'[x] \/ Owed(NoCall, x, e)
      BY <1>13 DEF AuditInsert, Owed
    <2>4. WasAllowed(NoCall)
      BY <2>1 DEF WasAllowed
    <2>5. QED
      BY <1>c, <2>1, <2>2, <2>3, <2>4, AuditMoves
  <1>15. ASSUME NEW s \in Session, TokenExpires(s) PROVE AuditInv'
    <2>1. PICK r : r = [row[s] EXCEPT !.expired = TRUE]
      OBVIOUS
    <2>2. row[s] \in Rows
      BY DEF TypeOK
    <2>3. r.status = row[s].status
      BY <2>1, <2>2 DEF Rows
    <2>4. Put(s, r) /\ UNCHANGED <<call, audit>>
      BY <1>15, <2>1 DEF TokenExpires
    <2>5. \A x \in Session : row'[x].status = row[x].status
      BY <2>3, <2>4, PutEffect
    <2>6. QED
      BY <1>0, <1>c, <2>4, <2>5 DEF AuditInv, TrailTells, Trail, Exists, WasAllowed
  <1>16. CASE UNCHANGED vars
    BY <1>16 DEF vars, history, AuditInv, TrailTells, Trail, Exists, WasAllowed
  <1>17. QED
    BY <1>1, <1>2, <1>3, <1>4, <1>5, <1>6, <1>7, <1>8, <1>9, <1>10, <1>11, <1>12, <1>13,
       <1>b, <1>15, <1>16 DEF Next

\* As long as no statement fails, a session no call is at work on has every event
\* its status calls for in the audit trail, however many calls overlapped on it:
\* the inserts that follow an update are never lost or skipped.
THEOREM AuditAccountsForStatusHolds == Spec => []AuditAccountsForStatus
  <1>1. TypeOK /\ AuditInv => AuditAccountsForStatus
    <2> SUFFICES ASSUME TypeOK, AuditInv, failures = 0, NEW s \in Session,
                        \A p \in Proc : s \notin call[p].sid
                 PROVE  /\ row[s].status \in {"granted", "paused"} =>
                             {"requested", "allowed", "granted"} \subseteq audit[s]
                        /\ row[s].status = "ended" => "ended" \in audit[s]
      BY DEF AuditAccountsForStatus
    <2>1. \A e \in Wanted(row[s].status) : e \in audit[s]
      BY DEF AuditInv, TrailTells, Trail, Owed
    <2>2. row[s].status \in {"granted", "paused"} =>
            "requested" \in Wanted(row[s].status) /\ "allowed" \in Wanted(row[s].status)
              /\ "granted" \in Wanted(row[s].status)
      BY DEF Wanted
    <2>3. row[s].status = "ended" => "ended" \in Wanted(row[s].status)
      BY DEF Wanted
    <2>4. QED
      BY <2>1, <2>2, <2>3
  <1>2. QED
    BY <1>1, TypeCorrect, AuditInit, AuditStep, TypeInit, TypeStep, PTL DEF Spec

------------------------------------------------------------------------------
(***************************************************************************)
(* Refinement.  Calls that do not overlap implement ControlLifecycle.  The *)
(* steps that write do not look at the status again, so what a call read   *)
(* when it started must still be true when it writes: the row an allow, a  *)
(* decline or a registration is about to update has the status it had, and *)
(* every active session is on the list of the loop that ends them.         *)
(***************************************************************************)
OneAtATime ==
  \A p, q \in Proc : call[p].at # "idle" /\ call[q].at # "idle" => p = q

Prepared(c) ==
  /\ c.at \in {"supersede", "audit_stale"} => Active \subseteq c.todo
  /\ c.at \in {"allow_update", "decline_update"} => \A s \in c.sid : row[s].status = "requested"
  /\ c.at \in {"expire_update", "register_update"} =>
       \A s \in c.sid : row[s].status = "agent_pending"

SerialInv == \A p \in Proc : Prepared(call[p])

StatusOf == [s \in Session |-> row[s].status]

\* The moves of the transition table, by the action that makes them.
LEMMA TableMoves ==
  /\ Lifecycle!NextStatus("requested", "allow") = "agent_pending"
  /\ Lifecycle!NextStatus("agent_pending", "register") = "granted"
  /\ Lifecycle!NextStatus("granted", "pause") = "paused"
  /\ Lifecycle!NextStatus("paused", "resume") = "granted"
  /\ \A from \in ActiveStatuses : Lifecycle!NextStatus(from, "end") = "ended"
  <1> DEFINE Row(from, action) == CHOOSE t \in Lifecycle!Table : t[1] = from /\ t[2] = action
  <1>1. ASSUME NEW r \in Lifecycle!Table PROVE Row(r[1], r[2]) = r
    <2>1. /\ Row(r[1], r[2]) \in Lifecycle!Table
          /\ Row(r[1], r[2])[1] = r[1] /\ Row(r[1], r[2])[2] = r[2]
      OBVIOUS
    <2> HIDE DEF Row
    <2>2. QED
      BY <2>1 DEF Lifecycle!Table
  <1>2. /\ <<"requested", "allow", "agent_pending">> \in Lifecycle!Table
        /\ <<"agent_pending", "register", "granted">> \in Lifecycle!Table
        /\ <<"granted", "pause", "paused">> \in Lifecycle!Table
        /\ <<"paused", "resume", "granted">> \in Lifecycle!Table
    BY DEF Lifecycle!Table
  <1>3. ASSUME NEW r \in Lifecycle!Table, r[2] # "end"
        PROVE  Lifecycle!NextStatus(r[1], r[2]) = r[3]
    BY <1>1, <1>3 DEF Lifecycle!NextStatus
  <1>4. \A from \in ActiveStatuses : Lifecycle!NextStatus(from, "end") = "ended"
    BY DEF Lifecycle!NextStatus, Lifecycle!ActiveStatuses
  <1>5. QED
    BY <1>2, <1>3, <1>4

\* A row whose status an action changes makes the abstract session do the same.
LEMMA ApplyMove ==
  ASSUME TypeOK, NEW s \in Session, NEW r, Put(s, r), NEW action \in Lifecycle!Actions,
         Lifecycle!NextStatus(row[s].status, action) = r.status, r.status # "illegal"
  PROVE  Lifecycle!Next
  <1>1. \A x \in Session : row'[x] = IF x = s THEN r ELSE row[x]
    BY PutEffect
  <1>2. StatusOf' = [StatusOf EXCEPT ![s] = r.status]
    BY <1>1 DEF StatusOf
  <1>3. StatusOf[s] = row[s].status
    BY DEF StatusOf
  <1>4. Lifecycle!Apply(s, action)
    BY <1>2, <1>3 DEF Lifecycle!Apply, StatusOf
  <1>5. QED
    BY <1>4 DEF Lifecycle!Next

LEMMA CreateMove ==
  ASSUME TypeOK, NEW s \in Fresh, NEW r, Put(s, r), r.status \in {"requested", "agent_pending"},
         Active = {}
  PROVE  Lifecycle!Next
  <1>1. s \in Session /\ row[s].status = "absent"
    BY DEF Fresh
  <1>2. \A x \in Session : row'[x] = IF x = s THEN r ELSE row[x]
    BY <1>1, PutEffect
  <1>3. StatusOf' = [StatusOf EXCEPT ![s] = r.status] /\ StatusOf[s] = "absent"
    BY <1>1, <1>2 DEF StatusOf
  <1>4. \A x \in Session : StatusOf[x] \notin ActiveStatuses
    BY DEF Active, StatusOf
  <1>5. Lifecycle!Create(s, r.status)
    BY <1>3, <1>4 DEF Lifecycle!Create, Lifecycle!NoneActive, Lifecycle!ActiveStatuses, StatusOf
  <1>6. QED
    BY <1>1, <1>5 DEF Lifecycle!Next

\* When calls do not overlap, only the call that moves has to stay prepared.
LEMMA SerialMove ==
  ASSUME TypeOK, OneAtATime, OneAtATime', NEW p \in Proc, NEW c, Goto(p, c),
         call[p].at # "idle" \/ c.at # "idle",
         c.at \in {"supersede", "audit_stale"} =>
           \A s \in Session : row'[s].status \in ActiveStatuses => s \in c.todo,
         c.at \in {"allow_update", "decline_update"} => \A s \in c.sid : row'[s].status = "requested",
         c.at \in {"expire_update", "register_update"} =>
           \A s \in c.sid : row'[s].status = "agent_pending"
  PROVE  SerialInv'
  <1>1. \A q \in Proc : call'[q] = IF q = p THEN c ELSE call[q]
    BY CallEffect
  <1>2. \A q \in Proc \ {p} : call'[q].at = "idle"
    BY <1>1 DEF OneAtATime
  <1>3. ASSUME NEW q \in Proc PROVE Prepared(call[q])'
    <2>1. CASE q = p
      <3>1. call'[q] = c
        BY <1>1, <2>1
      <3>2. QED
        BY <3>1 DEF Prepared, Active
    <2>2. CASE q # p
      BY <1>2, <2>2 DEF Prepared
    <2>3. QED
      BY <2>1, <2>2
  <1>4. QED
    BY <1>3 DEF SerialInv

\* A call that goes on to its audit, or leaves, has nothing left to prepare.
LEMMA SerialAudit ==
  ASSUME TypeOK, OneAtATime, OneAtATime', NEW p \in Proc, NEW s, NEW t, NEW e,
         ThenAudit(p, s, t, e)
  PROVE  SerialInv'
  <1>1. PICK c : c = [NoCall EXCEPT !.at = "audit", !.sid = {s}, !.tok = t, !.log = e]
    OBVIOUS
  <1>2. c.at = "audit" /\ Goto(p, c)
    BY <1>1 DEF NoCall, ThenAudit
  <1>3. QED
    BY <1>2, SerialMove

LEMMA SerialLeave ==
  ASSUME TypeOK, OneAtATime, OneAtATime', NEW p \in Proc, call[p].at # "idle", Goto(p, NoCall)
  PROVE  SerialInv'
  <1>1. NoCall.at = "idle"
    BY DEF NoCall
  <1>2. QED
    BY <1>1, SerialMove

LEMMA SerialEnd ==
  ASSUME TypeOK, OneAtATime, OneAtATime', NEW p \in Proc, NEW s \in Session,
         row[s].status \in ActiveStatuses, EndUpdate(p, s)
  PROVE  Lifecycle!Next /\ SerialInv'
  <1>1. Put(s, Ended(row[s])) /\ ThenAudit(p, s, NoToken, {"ended"})
    BY DEF EndUpdate
  <1>2. row[s] \in Rows
    BY DEF TypeOK
  <1>3. Ended(row[s]).status = "ended"
    BY <1>2 DEF Ended, Rows
  <1>4. Lifecycle!NextStatus(row[s].status, "end") = "ended" /\ "end" \in Lifecycle!Actions
    BY TableMoves DEF Lifecycle!Actions
  <1>5. Lifecycle!Next
    BY <1>1, <1>3, <1>4, ApplyMove
  <1>6. QED
    BY <1>1, <1>5, SerialAudit

LEMMA SerialInit == Init => SerialInv /\ Lifecycle!Init
  <1>1. NoCall.at = "idle" /\ NoRow.status = "absent"
    BY DEF NoCall, NoRow
  <1>2. QED
    BY <1>1 DEF Init, SerialInv, Prepared, Lifecycle!Init

\* The simulation, action by action: a read or an audit is a stuttering step, an
\* INSERT creates a session, an UPDATE applies the action of the table.
LEMMA SerialStep ==
  ASSUME TypeOK, AuditInv, SerialInv, OneAtATime, OneAtATime', failures' = 0, [Next]_vars
  PROVE  (StatusOf' = StatusOf \/ Lifecycle!Next) /\ SerialInv'
  <1>0. \A p \in Proc : call[p] \in Calls /\ call[p].sid \subseteq Session /\ call[p].todo \subseteq Session
    BY DEF TypeOK, Calls
  <1>s. UNCHANGED row => StatusOf' = StatusOf
    BY DEF StatusOf
  <1>r. \A s \in Session : row[s] \in Rows
    BY DEF TypeOK
  <1>1. ASSUME NEW p \in Proc, NEW u \in User, RequestControl(p, u) \/ OfferControl(p, u)
        PROVE UNCHANGED row /\ SerialInv'
    <2>1. PICK op \in {"request", "offer"} : SelectStale(p, u, op)
      BY <1>1 DEF RequestControl, OfferControl
    <2>2. PICK c : c = [NoCall EXCEPT !.at = "supersede", !.op = op, !.by = u, !.todo = Active]
      OBVIOUS
    <2>3. c.at = "supersede" /\ c.todo = Active
      BY <2>2 DEF NoCall
    <2>4. Goto(p, c) /\ UNCHANGED row
      BY <2>1, <2>2 DEF SelectStale
    <2>5. \A s \in Session : row'[s].status \in ActiveStatuses => s \in c.todo
      BY <2>3, <2>4 DEF Active
    <2>6. QED
      BY <2>3, <2>4, <2>5, SerialMove
  <1>2. ASSUME NEW p \in Proc, SupersedeStale(p)
        PROVE (UNCHANGED row \/ Lifecycle!Next) /\ SerialInv'
    <2>1. PICK s \in call[p].todo :
            LET rest == [call[p] EXCEPT !.todo = @ \ {s}]
            IN \/ row[s].status # "ended" /\ Put(s, Ended(row[s]))
                    /\ Goto(p, [rest EXCEPT !.at = "audit_stale", !.sid = {s}])
               \/ row[s].status = "ended" /\ UNCHANGED row /\ Goto(p, rest)
      BY <1>2 DEF SupersedeStale
    <2>2. PICK rest : rest = [call[p] EXCEPT !.todo = @ \ {s}]
      OBVIOUS
    <2>3. PICK next : next = [rest EXCEPT !.at = "audit_stale", !.sid = {s}]
      OBVIOUS
    <2>4. /\ rest.at = "supersede" /\ rest.todo = call[p].todo \ {s}
          /\ next.at = "audit_stale" /\ next.todo = call[p].todo \ {s}
      BY <1>0, <1>2, <2>2, <2>3 DEF SupersedeStale, Calls
    <2>5. call[p].at # "idle" /\ s \in Session
      BY <1>0, <1>2 DEF SupersedeStale
    <2>6. \A x \in Session : row[x].status \in ActiveStatuses => x \in call[p].todo
      BY <1>2 DEF SupersedeStale, SerialInv, Prepared, Active
    <2>7. CASE row[s].status # "ended" /\ Put(s, Ended(row[s])) /\ Goto(p, next)
      <3>1. row[s].status # "absent"
        BY <1>2, <1>0 DEF AuditInv, Exists, SupersedeStale, history
      <3>2. row[s].status \in ActiveStatuses
        BY <1>r, <2>5, <2>7, <3>1 DEF Rows
      <3>3. Ended(row[s]).status = "ended"
        BY <1>r, <2>5 DEF Ended, Rows
      <3>4. Lifecycle!NextStatus(row[s].status, "end") = "ended" /\ "end" \in Lifecycle!Actions
        BY <3>2, TableMoves DEF Lifecycle!Actions
      <3>5. Lifecycle!Next
        BY <2>5, <2>7, <3>3, <3>4, ApplyMove
      <3>6. \A x \in Session : row'[x] = IF x = s THEN Ended(row[s]) ELSE row[x]
        BY <2>5, <2>7, PutEffect
      <3>7. \A x \in Session : row'[x].status \in ActiveStatuses => x \in next.todo
        BY <2>4, <2>6, <3>3, <3>6
      <3>8. SerialInv'
        BY <2>4, <2>5, <2>7, <3>7, SerialMove
      <3>9. QED
        BY <3>5, <3>8
    <2>8. CASE row[s].status = "ended" /\ UNCHANGED row /\ Goto(p, rest)
      <3>1. \A x \in Session : row'[x].status \in ActiveStatuses => x \in rest.todo
        BY <2>4, <2>6, <2>8
      <3>2. QED
        BY <2>4, <2>5, <2>8, <3>1, SerialMove
    <2>9. QED
      BY <2>1, <2>2, <2>3, <2>7, <2>8
  <1>3. ASSUME NEW p \in Proc, AuditStale(p) PROVE UNCHANGED row /\ SerialInv'
    <2>1. PICK c : c = [call[p] EXCEPT !.at = "supersede", !.sid = {}]
      OBVIOUS
    <2>2. c.at = "supersede" /\ c.todo = call[p].todo
      BY <1>0, <2>1 DEF Calls
    <2>3. Goto(p, c) /\ UNCHANGED row /\ call[p].at = "audit_stale"
      BY <1>3, <2>1 DEF AuditStale
    <2>4. \A x \in Session : row'[x].status \in ActiveStatuses => x \in c.todo
      BY <2>2, <2>3 DEF SerialInv, Prepared, Active
    <2>5. QED
      BY <2>2, <2>3, <2>4, SerialMove
  <1>4. ASSUME NEW p \in Proc, InsertRequested(p) PROVE Lifecycle!Next /\ SerialInv'
    <2>1. PICK s \in Fresh, h \in User :
            /\ Put(s, [NoRow EXCEPT !.status = "requested", !.host = h])
            /\ ThenAudit(p, s, NoToken, {"requested"})
      BY <1>4 DEF InsertRequested
    <2>2. PICK r : r = [NoRow EXCEPT !.status = "requested", !.host = h]
      OBVIOUS
    <2>3. r.status = "requested" /\ Put(s, r)
      BY <2>1, <2>2 DEF NoRow
    <2>4. Active = {}
      BY <1>4 DEF InsertRequested, SerialInv, Prepared
    <2>5. Lifecycle!Next
      BY <2>3, <2>4, CreateMove
    <2>6. QED
      BY <2>1, <2>5, SerialAudit
  <1>5. ASSUME NEW p \in Proc, InsertOffered(p) PROVE Lifecycle!Next /\ SerialInv'
    <2>1. PICK s \in Fresh, t \in Token :
            /\ Put(s, [NoRow EXCEPT !.status = "agent_pending", !.tok = t, !.host = call[p].by])
            /\ ThenAudit(p, s, t, {"requested", "allowed"})
      BY <1>5 DEF InsertOffered
    <2>2. PICK r : r = [NoRow EXCEPT !.status = "agent_pending", !.tok = t, !.host = call[p].by]
      OBVIOUS
    <2>3. r.status = "agent_pending" /\ Put(s, r)
      BY <2>1, <2>2 DEF NoRow
    <2>4. Active = {}
      BY <1>5 DEF InsertOffered, SerialInv, Prepared
    <2>5. Lifecycle!Next
      BY <2>3, <2>4, CreateMove
    <2>6. QED
      BY <2>1, <2>5, SerialAudit
  <1>6. ASSUME NEW p \in Proc, NEW s \in Session, NEW u \in User,
               AllowControl(p, s, u) \/ DeclineControl(p, s, u)
        PROVE UNCHANGED row /\ SerialInv'
    <2>1. PICK at \in {"allow_update", "decline_update"}, op \in {"allow", "decline"} :
            Goto(p, [NoCall EXCEPT !.at = at, !.op = op, !.by = u, !.sid = {s}])
      BY <1>6 DEF AllowControl, DeclineControl
    <2>2. PICK c : c = [NoCall EXCEPT !.at = at, !.op = op, !.by = u, !.sid = {s}]
      OBVIOUS
    <2>3. c.at = at /\ c.sid = {s} /\ Goto(p, c)
      BY <2>1, <2>2 DEF NoCall
    <2>4. UNCHANGED row /\ row[s].status = "requested"
      BY <1>6 DEF AllowControl, DeclineControl
    <2>5. QED
      BY <2>3, <2>4, SerialMove
  <1>7. ASSUME NEW p \in Proc, AllowUpdate(p) PROVE Lifecycle!Next /\ SerialInv'
    <2>1. PICK s \in call[p].sid, t \in Token :
            /\ Put(s, [row[s] EXCEPT !.status = "agent_pending", !.tok = t, !.expired = FALSE])
            /\ ThenAudit(p, s, t, {"allowed"})
      BY <1>7 DEF AllowUpdate
    <2>2. PICK r : r = [row[s] EXCEPT !.status = "agent_pending", !.tok = t, !.expired = FALSE]
      OBVIOUS
    <2>3. s \in Session /\ row[s] \in Rows
      BY <1>0, <1>r
    <2>4. r.status = "agent_pending" /\ Put(s, r)
      BY <2>1, <2>2, <2>3 DEF Rows
    <2>5. row[s].status = "requested" /\ "allow" \in Lifecycle!Actions
      BY <1>7 DEF AllowUpdate, SerialInv, Prepared, Lifecycle!Actions
    <2>6. Lifecycle!Next
      BY <2>3, <2>4, <2>5, TableMoves, ApplyMove
    <2>7. QED
      BY <2>1, <2>6, SerialAudit
  <1>8. ASSUME NEW p \in Proc, DeclineUpdate(p) \/ ExpireUpdate(p)
        PROVE Lifecycle!Next /\ SerialInv'
    <2>1. PICK s \in call[p].sid : EndUpdate(p, s)
      BY <1>8 DEF DeclineUpdate, ExpireUpdate
    <2>2. row[s].status \in ActiveStatuses
      BY <1>8 DEF DeclineUpdate, ExpireUpdate, SerialInv, Prepared
    <2>3. QED
      BY <1>0, <2>1, <2>2, SerialEnd
  <1>9. ASSUME NEW p \in Proc, NEW t \in Token, RegisterAgent(p, t)
        PROVE UNCHANGED row /\ SerialInv'
    <2>1. PICK s \in Session, at \in {"expire_update", "register_update"} :
            /\ row[s].status = "agent_pending"
            /\ Goto(p, [NoCall EXCEPT !.at = at, !.op = "register", !.sid = {s}, !.tok = t])
      BY <1>9 DEF RegisterAgent
    <2>2. PICK c : c = [NoCall EXCEPT !.at = at, !.op = "register", !.sid = {s}, !.tok = t]
      OBVIOUS
    <2>3. c.at = at /\ c.sid = {s} /\ Goto(p, c)
      BY <2>1, <2>2 DEF NoCall
    <2>4. UNCHANGED row
      BY <1>9 DEF RegisterAgent
    <2>5. QED
      BY <2>1, <2>3, <2>4, SerialMove
  <1>10. ASSUME NEW p \in Proc, RegisterUpdate(p) PROVE Lifecycle!Next /\ SerialInv'
    <2>1. PICK s \in call[p].sid :
            /\ Put(s, [row[s] EXCEPT !.status = "granted", !.tok = NoToken, !.expired = FALSE])
            /\ ThenAudit(p, s, NoToken, {"granted"})
      BY <1>10 DEF RegisterUpdate
    <2>2. PICK r : r = [row[s] EXCEPT !.status = "granted", !.tok = NoToken, !.expired = FALSE]
      OBVIOUS
    <2>3. s \in Session /\ row[s] \in Rows
      BY <1>0, <1>r
    <2>4. r.status = "granted" /\ Put(s, r)
      BY <2>1, <2>2, <2>3 DEF Rows
    <2>5. row[s].status = "agent_pending" /\ "register" \in Lifecycle!Actions
      BY <1>10 DEF RegisterUpdate, SerialInv, Prepared, Lifecycle!Actions
    <2>6. Lifecycle!Next
      BY <2>3, <2>4, <2>5, TableMoves, ApplyMove
    <2>7. QED
      BY <2>1, <2>6, SerialAudit
  <1>11. ASSUME NEW p \in Proc, NEW s \in Session,
                PauseControl(p, s) \/ ResumeControl(p, s)
         PROVE Lifecycle!Next /\ SerialInv'
    <2>1. PICK status \in {"granted", "paused"}, action \in {"pause", "resume"} :
            /\ Lifecycle!NextStatus(row[s].status, action) = status
            /\ Put(s, [row[s] EXCEPT !.status = status])
            /\ ThenAudit(p, s, NoToken, {"paused"})
      BY <1>11, TableMoves DEF PauseControl, ResumeControl
    <2>2. PICK r : r = [row[s] EXCEPT !.status = status]
      OBVIOUS
    <2>3. r.status = status /\ Put(s, r)
      BY <1>r, <2>1, <2>2 DEF Rows
    <2>4. action \in Lifecycle!Actions
      BY DEF Lifecycle!Actions
    <2>5. Lifecycle!Next
      BY <2>1, <2>3, <2>4, ApplyMove
    <2>6. QED
      BY <2>1, <2>5, SerialAudit
  <1>12. ASSUME NEW p \in Proc, NEW s \in Session, EndControl(p, s)
         PROVE Lifecycle!Next /\ SerialInv'
    BY <1>12, SerialEnd DEF EndControl
  <1>13. ASSUME NEW p \in Proc, AuditInsert(p) PROVE UNCHANGED row /\ SerialInv'
    BY <1>13, SerialLeave DEF AuditInsert
  <1>14. ASSUME NEW p \in Proc, StatementFails(p) PROVE FALSE
    BY <1>14 DEF StatementFails, TypeOK
  <1>15. ASSUME NEW s \in Session, TokenExpires(s) PROVE StatusOf' = StatusOf /\ SerialInv'
    <2>1. PICK r : r = [row[s] EXCEPT !.expired = TRUE]
      OBVIOUS
    <2>2. r.status = row[s].status
      BY <1>r, <2>1 DEF Rows
    <2>3. Put(s, r) /\ UNCHANGED call
      BY <1>15, <2>1 DEF TokenExpires
    <2>4. \A x \in Session : row'[x].status = row[x].status
      BY <2>2, <2>3, PutEffect
    <2>5. StatusOf' = StatusOf
      BY <2>4 DEF StatusOf
    <2>6. SerialInv'
      BY <1>0, <2>3, <2>4 DEF SerialInv, Prepared, Active
    <2>7. QED
      BY <2>5, <2>6
  <1>16. CASE UNCHANGED vars
    <2>1. UNCHANGED <<row, call>>
      BY <1>16 DEF vars
    <2>2. QED
      BY <1>s, <2>1 DEF SerialInv, Prepared, Active
  <1>17. QED
    BY <1>s, <1>1, <1>2, <1>3, <1>4, <1>5, <1>6, <1>7, <1>8, <1>9, <1>10, <1>11, <1>12, <1>13,
       <1>14, <1>15, <1>16 DEF Next

\* A behaviour in which calls do not overlap and no statement fails implements
\* the lifecycle of ControlLifecycle, whatever the number of callers: sessions
\* walk the transition table and one is created only when none is active.
THEOREM SerialCallsImplementLifecycle ==
  Spec /\ []OneAtATime /\ [](failures = 0) => ImplementsLifecycle
  <1> DEFINE Abstract == [Lifecycle!Next]_([s \in Session |-> row[s].status])
  <1>1. TypeOK /\ AuditInv /\ SerialInv /\ OneAtATime /\ OneAtATime' /\ (failures = 0)'
          /\ [Next]_vars => SerialInv' /\ Abstract
    BY SerialStep DEF StatusOf
  <1>2. Init => SerialInv /\ Lifecycle!Init
    BY SerialInit
  <1>3. QED
    BY <1>1, <1>2, TypeInit, TypeStep, AuditInit, AuditStep, PTL
    DEF Spec, ImplementsLifecycle, Lifecycle!Spec

\* In particular when there is one caller and statements do not throw.
THEOREM OneCallerImplementsLifecycle ==
  ASSUME \A p, q \in Proc : p = q, MaxFailures = 0
  PROVE  Spec => ImplementsLifecycle
  <1>1. OneAtATime
    BY DEF OneAtATime
  <1>2. Init => failures = 0
    BY DEF Init
  <1>3. TypeOK /\ failures = 0 /\ [Next]_vars => (failures = 0)'
    <2> SUFFICES ASSUME TypeOK, failures = 0, [Next]_vars PROVE failures' = 0
      OBVIOUS
    <2>1. UNCHANGED failures \/ \E p \in Proc : StatementFails(p)
      BY DEF Next, RequestControl, OfferControl, SelectStale, SupersedeStale, AuditStale,
             InsertRequested, InsertOffered, AllowControl, DeclineControl, AllowUpdate,
             DeclineUpdate, RegisterAgent, ExpireUpdate, RegisterUpdate, PauseControl,
             ResumeControl, EndControl, EndUpdate, AuditInsert, TokenExpires, history, vars
    <2>2. QED
      BY <2>1 DEF StatementFails
  <1>4. QED
    BY <1>1, <1>2, <1>3, TypeInit, TypeStep, SerialCallsImplementLifecycle, PTL DEF Spec

\* Of "ended is terminal for every action" (state.test.ts) nothing is wrong but
\* that calls overlap or break off: as long as a call starts only when none is
\* under way and no statement fails, no session comes back to life.
THEOREM SerialCallsKeepEnded ==
  Spec /\ []OneAtATime /\ [](failures = 0) => EndedIsTerminal
  <1> DEFINE Abstract == [Lifecycle!Next]_([s \in Session |-> row[s].status])
             Stays == \A s \in Session : row[s].status = "ended" => row'[s].status = "ended"
  <1>1. TypeOK /\ AuditInv /\ SerialInv /\ OneAtATime /\ OneAtATime' /\ (failures = 0)'
          /\ [Next]_vars => SerialInv' /\ Abstract
    BY SerialStep DEF StatusOf
  <1>2. Abstract => Stays
    <2> SUFFICES ASSUME Abstract, NEW s \in Session, row[s].status = "ended" PROVE row'[s].status = "ended"
      OBVIOUS
    <2> DEFINE st == [x \in Session |-> row[x].status]
    <2>1. CASE UNCHANGED st
      <3>1. st'[s] = st[s]
        BY <2>1
      <3> QED  BY <3>1
    <2>2. CASE Lifecycle!Next
      <3>1. PICK t \in Session :
              \/ \E status \in {"requested", "agent_pending"} : Lifecycle!Create(t, status)
              \/ \E action \in Lifecycle!Actions : Lifecycle!Apply(t, action)
        BY <2>2 DEF Lifecycle!Next
      <3>2. CASE t = s
        <4>1. st[s] = "ended"
          OBVIOUS
        <4>2. \A action \in Lifecycle!Actions : Lifecycle!NextStatus("ended", action) = "illegal"
          BY DEF Lifecycle!NextStatus, Lifecycle!ActiveStatuses, Lifecycle!Table
        <4> QED  BY <3>1, <3>2, <4>1, <4>2 DEF Lifecycle!Create, Lifecycle!Apply
      <3>3. CASE t # s
        <4>1. st'[s] = st[s]
          BY <3>1, <3>3 DEF Lifecycle!Create, Lifecycle!Apply
        <4> QED  BY <4>1
      <3> QED  BY <3>2, <3>3
    <2> QED  BY <2>1, <2>2
  <1> HIDE DEF Abstract, Stays
  <1>3. Spec /\ []OneAtATime /\ [](failures = 0) => [][Stays]_vars
    BY <1>1, <1>2, SerialInit, TypeInit, TypeStep, AuditInit, AuditStep, PTL DEF Spec
  <1> QED  BY <1>3 DEF EndedIsTerminal, Stays

==============================================================================
