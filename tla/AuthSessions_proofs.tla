------------------------- MODULE AuthSessions_proofs -------------------------
(***************************************************************************)
(* For any rows, families and calls in flight: however many refreshes of a *)
(* device overlap, it is left with at most one live session; a sign-out    *)
(* that nothing overlapped leaves none; and refreshes one after the other  *)
(* leave exactly one.                                                      *)
(***************************************************************************)
EXTENDS AuthSessions, TLAPS

\* Where a call stands says which of its locals are set and what they are.
CallOK(c) ==
  /\ c.at = "idle" => c = NoCall
  /\ c.at = "insert_session" => c.op \in Issuing /\ c.f \in Family /\ c.new = NoRow
  /\ c.at = "insert_refresh" => c.op \in Issuing /\ c.f \in Family /\ c.new \in Row /\ fam[c.new] = NoFamily
  /\ c.at \in {"mark_replaced", "read_others", "revoke_others"} =>
       c.op \in {"rotate", "grace"} /\ c.f \in Family /\ c.new \in Row /\ fam[c.new] = c.f
  /\ c.at \in {"read_family", "revoke_tokens", "revoke_sessions", "reset_tokens"} => c.op \in Revoking /\ c.new = NoRow

\* A new row is in the hands of the one call that inserted it.
NewIsOwn ==
  /\ \A p \in Proc : call[p].new # NoRow => sess[call[p].new] # "none"
  /\ \A p, q \in Proc : p # q /\ call[p].new # NoRow => call[p].new # call[q].new

LinkedIsInserted ==
  /\ \A r \in Row : fam[r] # NoFamily => sess[r] # "none"
  /\ \A r \in given : fam[r] # NoFamily

FormInv == TypeOK /\ (\A p \in Proc : CallOK(call[p])) /\ NewIsOwn /\ LinkedIsInserted

\* A sign-in has its family to itself until it is over.
LoginIsFirst ==
  \A p \in Proc : call[p].op = "login" => OfFamily(call[p].f) = {} /\ \A q \in Proc \ {p} : call[q].f # call[p].f

\* Call p has linked r and will yet revoke s, or read it and then revoke it.
Collapses(p, r, s) ==
  /\ call[p].new = r
  /\ call[p].at \in {"mark_replaced", "read_others"} \/ (call[p].at = "revoke_others" /\ s \in call[p].ids)

\* Of two live sessions of a device one is about to be revoked by the other's call.
OneWillGo ==
  \A r, s \in Row :
    (r # s /\ fam[r] # NoFamily /\ fam[r] = fam[s] /\ sess[r] = "live" /\ sess[s] = "live")
      => \E p \in Proc : Collapses(p, r, s) \/ Collapses(p, s, r)

SessionInv == FormInv /\ LoginIsFirst /\ OneWillGo

LEMMA Initial == Init => SessionInv
<1> SUFFICES ASSUME Init PROVE SessionInv
  OBVIOUS
<1>1. TypeOK
  BY DEF Init, TypeOK, NoCall, Calls, Labels
<1>2. FormInv
  BY <1>1, AuthAssumption DEF Init, FormInv, CallOK, NoCall, NewIsOwn, LinkedIsInserted
<1>3. LoginIsFirst /\ OneWillGo
  BY DEF Init, LoginIsFirst, OneWillGo, NoCall
<1> QED  BY <1>2, <1>3 DEF SessionInv

\* Call p alone moves, links no row and brings no session to life.
Quiet(p) ==
  /\ fam' = fam
  /\ call' = [call EXCEPT ![p] = call'[p]]
  /\ \A r \in Row : sess'[r] = sess[r] \/ (sess[r] = "live" /\ sess'[r] = "revoked")
  /\ call'[p].new \in {call[p].new, NoRow}
  /\ call'[p].op = "login" => call[p].op = "login" /\ call'[p].f = call[p].f
  /\ call'[p].f \in {call[p].f, NoFamily} \/ OfFamily(call'[p].f) # {}

LEMMA QuietForm ==
  ASSUME FormInv, NEW p \in Proc, Quiet(p), TypeOK', CallOK(call[p])', \A r \in given' : fam[r] # NoFamily
  PROVE  FormInv'
<1> USE DEF Quiet, FormInv, TypeOK
<1>1. \A q \in Proc \ {p} : call'[q] = call[q]
  OBVIOUS
<1>2. ASSUME NEW q \in Proc PROVE CallOK(call[q])'
  <2>1. CASE q = p
    BY <2>1
  <2>2. CASE q # p
    <3>1. call'[q] = call[q] /\ CallOK(call[q])
      BY <1>1, <2>2
    <3> HIDE DEF FormInv, TypeOK
    <3> QED  BY <3>1 DEF CallOK
  <2> QED  BY <2>1, <2>2
<1>3. \A q \in Proc : call'[q].new \in {call[q].new, NoRow}
  BY <1>1
<1>4. \A q \in Proc : call[q].new \in Row \cup {NoRow}
  BY DEF Calls
<1>5. NewIsOwn'
  <2>1. ASSUME NEW q \in Proc, call'[q].new # NoRow PROVE sess'[call'[q].new] # "none"
    BY <1>3, <1>4, <2>1 DEF NewIsOwn
  <2>2. NewIsOwn
    OBVIOUS
  <2>3. ASSUME NEW q \in Proc, NEW o \in Proc, q # o, call'[q].new # NoRow PROVE call'[q].new # call'[o].new
    <3> HIDE DEF FormInv, TypeOK, Quiet
    <3>1. call'[q].new = call[q].new /\ call'[o].new \in {call[o].new, NoRow}
      BY <1>3, <2>3
    <3>2. call[q].new # call[o].new
      BY <2>2, <2>3, <3>1 DEF NewIsOwn
    <3> QED  BY <2>3, <3>1, <3>2
  <2> HIDE DEF FormInv, TypeOK, Quiet
  <2> QED  BY <2>1, <2>3 DEF NewIsOwn
<1>6. LinkedIsInserted'
  BY DEF LinkedIsInserted
<1> QED  BY <1>2, <1>5, <1>6

LEMMA LoginHasFamily ==
  ASSUME FormInv, NEW q \in Proc, call[q].op = "login"
  PROVE  call[q].f \in Family
<1>1. call[q] \in Calls /\ CallOK(call[q])
  BY DEF FormInv, TypeOK
<1>2. call[q].at \in Labels
  BY <1>1 DEF Calls
<1>3. call[q].at # "idle"
  BY <1>1 DEF CallOK, NoCall
<1>4. call[q].at \in {"insert_session", "insert_refresh"}
  BY <1>1, <1>2, <1>3 DEF CallOK, Labels, Revoking
<1> QED  BY <1>1, <1>4 DEF CallOK

LEMMA QuietLogin ==
  ASSUME FormInv, LoginIsFirst, NEW p \in Proc, Quiet(p)
  PROVE  LoginIsFirst'
<1> SUFFICES ASSUME NEW q \in Proc, call'[q].op = "login"
             PROVE  (OfFamily(call[q].f) = {})' /\ \A o \in Proc \ {q} : call'[o].f # call'[q].f
  BY DEF LoginIsFirst
<1> USE DEF Quiet, FormInv, TypeOK
<1>1. \A o \in Proc \ {p} : call'[o] = call[o]
  OBVIOUS
<1>2. call[q].op = "login" /\ call'[q].f = call[q].f
  BY <1>1
<1>3. call[q].f \in Family
  BY <1>2, LoginHasFamily
<1>4. OfFamily(call[q].f) = {} /\ \A o \in Proc \ {q} : call[o].f # call[q].f
  BY <1>2 DEF LoginIsFirst
<1>5. (OfFamily(call[q].f) = {})'
  BY <1>2, <1>4 DEF OfFamily
<1>6. ASSUME NEW o \in Proc \ {q} PROVE call'[o].f # call'[q].f
  <2>1. CASE o # p
    BY <1>1, <1>2, <1>4, <2>1
  <2>2. CASE o = p
    <3>1. call[p].f # call[q].f /\ NoFamily # call[q].f
      BY <1>3, <1>4, <2>2, AuthAssumption
    <3>2. CASE call'[p].f = call[q].f
      BY <1>4, <3>1, <3>2
    <3> QED  BY <1>2, <2>2, <3>2
  <2> QED  BY <2>1, <2>2
<1> QED  BY <1>5, <1>6

\* p keeps its hold on every pair that stays live.
LEMMA QuietPair ==
  ASSUME FormInv, OneWillGo, NEW p \in Proc, Quiet(p),
         \A r, s \in Row : Collapses(p, r, s) /\ fam[s] = fam[r] /\ r # s /\ sess'[s] = "live" => Collapses(p, r, s)'
  PROVE  OneWillGo'
<1> SUFFICES ASSUME NEW r \in Row, NEW s \in Row,
                    r # s, fam'[r] # NoFamily, fam'[r] = fam'[s], sess'[r] = "live", sess'[s] = "live"
             PROVE  \E q \in Proc : Collapses(q, r, s)' \/ Collapses(q, s, r)'
  BY DEF OneWillGo
<1> USE DEF Quiet, FormInv, TypeOK
<1>1. PICK q \in Proc : Collapses(q, r, s) \/ Collapses(q, s, r)
  BY DEF OneWillGo
<1>2. CASE q = p
  BY <1>1, <1>2
<1>3. CASE q # p
  <2>1. call'[q] = call[q]
    BY <1>3
  <2> QED  BY <1>1, <2>1 DEF Collapses
<1> QED  BY <1>2, <1>3

\* The two together, for an action of p that leaves the calls' order alone.
LEMMA QuietStep ==
  ASSUME SessionInv, NEW p \in Proc, Quiet(p), TypeOK', CallOK(call[p])', \A r \in given' : fam[r] # NoFamily,
         \A r, s \in Row : Collapses(p, r, s) /\ fam[s] = fam[r] /\ r # s /\ sess'[s] = "live" => Collapses(p, r, s)'
  PROVE  SessionInv'
BY QuietForm, QuietLogin, QuietPair DEF SessionInv

LEMMA StepRefresh ==
  ASSUME SessionInv, NEW p \in Proc, NEW r \in Row, Refresh(p, r)
  PROVE  SessionInv'
<1>a. TypeOK /\ CallOK(call[p]) /\ call[p] \in Calls
  BY DEF SessionInv, FormInv, TypeOK
<1>b. r \in given /\ fam[r] \in Family /\ r \in OfFamily(fam[r])
  BY <1>a DEF Refresh, SessionInv, FormInv, TypeOK, LinkedIsInserted, OfFamily
<1>1. call'[p].at = "insert_session" /\ call'[p].op \in {"rotate", "grace"} /\ call'[p].f = fam[r] /\ call'[p].new = NoRow
  BY <1>a DEF Refresh, Goto, TypeOK, NoCall, Calls
<1>2. call'[p] \in Calls /\ call' = [call EXCEPT ![p] = call'[p]]
  BY <1>a, <1>b, AuthAssumption DEF Refresh, Goto, TypeOK, NoCall, Calls, Labels, Issuing, Revoking
<1>3. TypeOK'
  BY <1>a, <1>2, <1>b DEF Refresh, TypeOK, CallOK, Calls
<1>4. Quiet(p)
  BY <1>a, <1>1, <1>2, <1>b DEF Refresh, Quiet, TypeOK, CallOK, NoCall
<1>5. CallOK(call[p])'
  BY <1>a, <1>1, <1>b DEF Refresh, CallOK, Issuing, Revoking, NoCall
<1>6. \A s \in given' : fam[s] # NoFamily
  BY <1>a, AuthAssumption DEF Refresh, SessionInv, FormInv, LinkedIsInserted, CallOK
<1>7. \A s, t \in Row : Collapses(p, s, t) /\ fam[t] = fam[s] /\ s # t /\ sess'[t] = "live" => Collapses(p, s, t)'
  <2>1. call[p] = NoCall
    BY DEF Refresh
  <2>2. call[p].at = "idle"
    BY <2>1 DEF NoCall
  <2> QED  BY <2>2 DEF Collapses
<1> QED  BY <1>2, <1>3, <1>4, <1>5, <1>6, <1>7, QuietStep

LEMMA StepRefreshReused ==
  ASSUME SessionInv, NEW p \in Proc, NEW r \in Row, RefreshReused(p, r)
  PROVE  SessionInv'
<1>a. TypeOK /\ CallOK(call[p]) /\ call[p] \in Calls
  BY DEF SessionInv, FormInv, TypeOK
<1>b. r \in given /\ fam[r] \in Family /\ r \in OfFamily(fam[r])
  BY <1>a DEF RefreshReused, SessionInv, FormInv, TypeOK, LinkedIsInserted, OfFamily
<1>1. call'[p].at = "read_family" /\ call'[p].op = "reuse" /\ call'[p].f = fam[r] /\ call'[p].new = NoRow
  BY <1>a DEF RefreshReused, Goto, TypeOK, NoCall, Calls
<1>2. call'[p] \in Calls /\ call' = [call EXCEPT ![p] = call'[p]]
  BY <1>a, <1>b, AuthAssumption DEF RefreshReused, Goto, TypeOK, NoCall, Calls, Labels, Issuing, Revoking
<1>3. TypeOK'
  BY <1>a, <1>2, <1>b DEF RefreshReused, TypeOK, CallOK, Calls
<1>4. Quiet(p)
  BY <1>a, <1>1, <1>2, <1>b DEF RefreshReused, Quiet, TypeOK, CallOK, NoCall
<1>5. CallOK(call[p])'
  BY <1>a, <1>1, <1>b DEF RefreshReused, CallOK, Issuing, Revoking, NoCall
<1>6. \A s \in given' : fam[s] # NoFamily
  BY <1>a, AuthAssumption DEF RefreshReused, SessionInv, FormInv, LinkedIsInserted, CallOK
<1>7. \A s, t \in Row : Collapses(p, s, t) /\ fam[t] = fam[s] /\ s # t /\ sess'[t] = "live" => Collapses(p, s, t)'
  <2>1. call[p] = NoCall
    BY DEF RefreshReused
  <2>2. call[p].at = "idle"
    BY <2>1 DEF NoCall
  <2> QED  BY <2>2 DEF Collapses
<1> QED  BY <1>2, <1>3, <1>4, <1>5, <1>6, <1>7, QuietStep

LEMMA StepSignOut ==
  ASSUME SessionInv, NEW p \in Proc, NEW r \in Row, SignOut(p, r)
  PROVE  SessionInv'
<1>a. TypeOK /\ CallOK(call[p]) /\ call[p] \in Calls
  BY DEF SessionInv, FormInv, TypeOK
<1>b. r \in given /\ fam[r] \in Family /\ r \in OfFamily(fam[r])
  BY <1>a DEF SignOut, SessionInv, FormInv, TypeOK, LinkedIsInserted, OfFamily
<1>1. call'[p].at = "read_family" /\ call'[p].op = "signout" /\ call'[p].f = fam[r] /\ call'[p].new = NoRow
  BY <1>a DEF SignOut, Goto, TypeOK, NoCall, Calls
<1>2. call'[p] \in Calls /\ call' = [call EXCEPT ![p] = call'[p]]
  BY <1>a, <1>b, AuthAssumption DEF SignOut, Goto, TypeOK, NoCall, Calls, Labels, Issuing, Revoking
<1>3. TypeOK'
  BY <1>a, <1>2, <1>b DEF SignOut, TypeOK, CallOK, Calls
<1>4. Quiet(p)
  BY <1>a, <1>1, <1>2, <1>b DEF SignOut, Quiet, TypeOK, CallOK, NoCall
<1>5. CallOK(call[p])'
  BY <1>a, <1>1, <1>b DEF SignOut, CallOK, Issuing, Revoking, NoCall
<1>6. \A s \in given' : fam[s] # NoFamily
  BY <1>a, AuthAssumption DEF SignOut, SessionInv, FormInv, LinkedIsInserted, CallOK
<1>7. \A s, t \in Row : Collapses(p, s, t) /\ fam[t] = fam[s] /\ s # t /\ sess'[t] = "live" => Collapses(p, s, t)'
  <2>1. call[p] = NoCall
    BY DEF SignOut
  <2>2. call[p].at = "idle"
    BY <2>1 DEF NoCall
  <2> QED  BY <2>2 DEF Collapses
<1> QED  BY <1>2, <1>3, <1>4, <1>5, <1>6, <1>7, QuietStep

LEMMA StepMarkReplaced ==
  ASSUME SessionInv, NEW p \in Proc, MarkReplaced(p)
  PROVE  SessionInv'
<1>a. TypeOK /\ CallOK(call[p]) /\ call[p] \in Calls
  BY DEF SessionInv, FormInv, TypeOK
<1>1. call'[p].at = "read_others" /\ call'[p].op = call[p].op /\ call'[p].f = call[p].f /\ call'[p].new = call[p].new
  BY <1>a DEF MarkReplaced, Goto, TypeOK, NoCall, Calls
<1>2. call'[p] \in Calls /\ call' = [call EXCEPT ![p] = call'[p]]
  BY <1>a, AuthAssumption DEF MarkReplaced, Goto, TypeOK, NoCall, Calls, Labels, Issuing, Revoking
<1>3. TypeOK'
  BY <1>a, <1>2 DEF MarkReplaced, TypeOK, CallOK, Calls
<1>4. Quiet(p)
  BY <1>a, <1>1, <1>2 DEF MarkReplaced, Quiet, TypeOK, CallOK
<1>5. CallOK(call[p])'
  BY <1>a, <1>1 DEF MarkReplaced, CallOK, Issuing, Revoking, NoCall
<1>6. \A s \in given' : fam[s] # NoFamily
  BY <1>a, AuthAssumption DEF MarkReplaced, SessionInv, FormInv, LinkedIsInserted, CallOK
<1>7. \A s, t \in Row : Collapses(p, s, t) /\ fam[t] = fam[s] /\ s # t /\ sess'[t] = "live" => Collapses(p, s, t)'
  BY <1>a, <1>1 DEF MarkReplaced, Collapses, CallOK, TypeOK, NoCall, OfFamily
<1> QED  BY <1>2, <1>3, <1>4, <1>5, <1>6, <1>7, QuietStep

LEMMA StepReadOthers ==
  ASSUME SessionInv, NEW p \in Proc, ReadOthers(p)
  PROVE  SessionInv'
<1>a. TypeOK /\ CallOK(call[p]) /\ call[p] \in Calls
  BY DEF SessionInv, FormInv, TypeOK
<1>1. call'[p].at = "revoke_others" /\ call'[p].op = call[p].op /\ call'[p].f = call[p].f /\ call'[p].new = call[p].new /\ call'[p].ids = OfFamily(call[p].f) \ {call[p].new}
  BY <1>a DEF ReadOthers, Goto, TypeOK, NoCall, Calls
<1>2. call'[p] \in Calls /\ call' = [call EXCEPT ![p] = call'[p]]
  BY <1>a, AuthAssumption DEF ReadOthers, OfFamily, Goto, TypeOK, NoCall, Calls, Labels, Issuing, Revoking
<1>3. TypeOK'
  BY <1>a, <1>2 DEF ReadOthers, OfFamily, TypeOK, CallOK, Calls
<1>4. Quiet(p)
  BY <1>a, <1>1, <1>2 DEF ReadOthers, Quiet, TypeOK, CallOK
<1>5. CallOK(call[p])'
  BY <1>a, <1>1 DEF ReadOthers, CallOK, Issuing, Revoking, NoCall
<1>6. \A s \in given' : fam[s] # NoFamily
  BY <1>a, AuthAssumption DEF ReadOthers, SessionInv, FormInv, LinkedIsInserted, CallOK
<1>7. \A s, t \in Row : Collapses(p, s, t) /\ fam[t] = fam[s] /\ s # t /\ sess'[t] = "live" => Collapses(p, s, t)'
  BY <1>a, <1>1 DEF ReadOthers, Collapses, CallOK, TypeOK, NoCall, OfFamily
<1> QED  BY <1>2, <1>3, <1>4, <1>5, <1>6, <1>7, QuietStep

LEMMA StepReadFamily ==
  ASSUME SessionInv, NEW p \in Proc, ReadFamily(p)
  PROVE  SessionInv'
<1>a. TypeOK /\ CallOK(call[p]) /\ call[p] \in Calls
  BY DEF SessionInv, FormInv, TypeOK
<1>1. call'[p].at = "revoke_tokens" /\ call'[p].op = call[p].op /\ call'[p].f = call[p].f /\ call'[p].new = call[p].new
  BY <1>a DEF ReadFamily, Goto, TypeOK, NoCall, Calls
<1>2. call'[p] \in Calls /\ call' = [call EXCEPT ![p] = call'[p]]
  BY <1>a, AuthAssumption DEF ReadFamily, OfFamily, Goto, TypeOK, NoCall, Calls, Labels, Issuing, Revoking
<1>3. TypeOK'
  BY <1>a, <1>2 DEF ReadFamily, OfFamily, TypeOK, CallOK, Calls
<1>4. Quiet(p)
  BY <1>a, <1>1, <1>2 DEF ReadFamily, Quiet, TypeOK, CallOK
<1>5. CallOK(call[p])'
  BY <1>a, <1>1 DEF ReadFamily, CallOK, Issuing, Revoking, NoCall
<1>6. \A s \in given' : fam[s] # NoFamily
  BY <1>a, AuthAssumption DEF ReadFamily, SessionInv, FormInv, LinkedIsInserted, CallOK
<1>7. \A s, t \in Row : Collapses(p, s, t) /\ fam[t] = fam[s] /\ s # t /\ sess'[t] = "live" => Collapses(p, s, t)'
  BY <1>a, <1>1 DEF ReadFamily, Collapses, CallOK, TypeOK, NoCall, OfFamily
<1> QED  BY <1>2, <1>3, <1>4, <1>5, <1>6, <1>7, QuietStep

LEMMA StepRevokeTokens ==
  ASSUME SessionInv, NEW p \in Proc, RevokeTokens(p)
  PROVE  SessionInv'
<1>a. TypeOK /\ CallOK(call[p]) /\ call[p] \in Calls
  BY DEF SessionInv, FormInv, TypeOK
<1>1. call'[p].at = "revoke_sessions" /\ call'[p].op = call[p].op /\ call'[p].f = call[p].f /\ call'[p].new = call[p].new
  BY <1>a DEF RevokeTokens, Goto, TypeOK, NoCall, Calls
<1>2. call'[p] \in Calls /\ call' = [call EXCEPT ![p] = call'[p]]
  BY <1>a, AuthAssumption DEF RevokeTokens, OfFamily, Goto, TypeOK, NoCall, Calls, Labels, Issuing, Revoking
<1>3. TypeOK'
  BY <1>a, <1>2 DEF RevokeTokens, OfFamily, TypeOK, CallOK, Calls
<1>4. Quiet(p)
  BY <1>a, <1>1, <1>2 DEF RevokeTokens, Quiet, TypeOK, CallOK
<1>5. CallOK(call[p])'
  BY <1>a, <1>1 DEF RevokeTokens, CallOK, Issuing, Revoking, NoCall
<1>6. \A s \in given' : fam[s] # NoFamily
  BY <1>a, AuthAssumption DEF RevokeTokens, SessionInv, FormInv, LinkedIsInserted, CallOK
<1>7. \A s, t \in Row : Collapses(p, s, t) /\ fam[t] = fam[s] /\ s # t /\ sess'[t] = "live" => Collapses(p, s, t)'
  BY <1>a, <1>1 DEF RevokeTokens, Collapses, CallOK, TypeOK, NoCall, OfFamily
<1> QED  BY <1>2, <1>3, <1>4, <1>5, <1>6, <1>7, QuietStep

LEMMA StepRevokeOthers ==
  ASSUME SessionInv, NEW p \in Proc, RevokeOthers(p)
  PROVE  SessionInv'
<1>a. TypeOK /\ CallOK(call[p]) /\ call[p] \in Calls
  BY DEF SessionInv, FormInv, TypeOK
<1>1. call'[p].at = "idle" /\ call'[p].op = "none" /\ call'[p].f = NoFamily /\ call'[p].new = NoRow /\ call'[p] = NoCall
  BY <1>a DEF RevokeOthers, Goto, TypeOK, NoCall, Calls
<1>2. call'[p] \in Calls /\ call' = [call EXCEPT ![p] = call'[p]]
  BY <1>a, AuthAssumption DEF RevokeOthers, Goto, TypeOK, NoCall, Calls, Labels, Issuing, Revoking
<1>3. TypeOK'
  BY <1>a, <1>2 DEF RevokeOthers, Revoked, TypeOK, CallOK, Calls
<1>4. Quiet(p)
  BY <1>a, <1>1, <1>2 DEF RevokeOthers, Revoked, Quiet, TypeOK, CallOK
<1>5. CallOK(call[p])'
  BY <1>a, <1>1 DEF RevokeOthers, CallOK, Issuing, Revoking, NoCall
<1>6. \A s \in given' : fam[s] # NoFamily
  BY <1>a, AuthAssumption DEF RevokeOthers, SessionInv, FormInv, LinkedIsInserted, CallOK
<1>7. \A s, t \in Row : Collapses(p, s, t) /\ fam[t] = fam[s] /\ s # t /\ sess'[t] = "live" => Collapses(p, s, t)'
  BY <1>a, <1>1 DEF RevokeOthers, Revoked, Collapses, CallOK, TypeOK, NoCall, OfFamily
<1> QED  BY <1>2, <1>3, <1>4, <1>5, <1>6, <1>7, QuietStep

LEMMA StepRevokeSessions ==
  ASSUME SessionInv, NEW p \in Proc, RevokeSessions(p)
  PROVE  SessionInv'
<1>a. TypeOK /\ CallOK(call[p]) /\ call[p] \in Calls
  BY DEF SessionInv, FormInv, TypeOK
<1>1. call'[p].at = "idle" /\ call'[p].op = "none" /\ call'[p].f = NoFamily /\ call'[p].new = NoRow /\ call'[p] = NoCall
  BY <1>a DEF RevokeSessions, Goto, TypeOK, NoCall, Calls
<1>2. call'[p] \in Calls /\ call' = [call EXCEPT ![p] = call'[p]]
  BY <1>a, AuthAssumption DEF RevokeSessions, Goto, TypeOK, NoCall, Calls, Labels, Issuing, Revoking
<1>3. TypeOK'
  BY <1>a, <1>2 DEF RevokeSessions, Revoked, TypeOK, CallOK, Calls
<1>4. Quiet(p)
  BY <1>a, <1>1, <1>2 DEF RevokeSessions, Revoked, Quiet, TypeOK, CallOK
<1>5. CallOK(call[p])'
  BY <1>a, <1>1 DEF RevokeSessions, CallOK, Issuing, Revoking, NoCall
<1>6. \A s \in given' : fam[s] # NoFamily
  BY <1>a, AuthAssumption DEF RevokeSessions, SessionInv, FormInv, LinkedIsInserted, CallOK
<1>7. \A s, t \in Row : Collapses(p, s, t) /\ fam[t] = fam[s] /\ s # t /\ sess'[t] = "live" => Collapses(p, s, t)'
  BY <1>a, <1>1 DEF RevokeSessions, Revoked, Collapses, CallOK, TypeOK, NoCall, OfFamily
<1> QED  BY <1>2, <1>3, <1>4, <1>5, <1>6, <1>7, QuietStep

LEMMA StepResetSessions ==
  ASSUME SessionInv, NEW p \in Proc, ResetSessions(p)
  PROVE  SessionInv'
<1>a. TypeOK /\ CallOK(call[p]) /\ call[p] \in Calls
  BY DEF SessionInv, FormInv, TypeOK
<1>1. call'[p].at = "reset_tokens" /\ call'[p].op = "reset" /\ call'[p].f = NoFamily /\ call'[p].new = NoRow
  BY <1>a DEF ResetSessions, Goto, TypeOK, NoCall, Calls
<1>2. call'[p] \in Calls /\ call' = [call EXCEPT ![p] = call'[p]]
  BY <1>a, AuthAssumption DEF ResetSessions, Goto, TypeOK, NoCall, Calls, Labels, Issuing, Revoking
<1>3. TypeOK'
  BY <1>a, <1>2 DEF ResetSessions, Revoked, TypeOK, CallOK, Calls
<1>4. Quiet(p)
  BY <1>a, <1>1, <1>2 DEF ResetSessions, Revoked, Quiet, TypeOK, CallOK, NoCall
<1>5. CallOK(call[p])'
  BY <1>a, <1>1 DEF ResetSessions, CallOK, Issuing, Revoking, NoCall
<1>6. \A s \in given' : fam[s] # NoFamily
  BY <1>a, AuthAssumption DEF ResetSessions, SessionInv, FormInv, LinkedIsInserted, CallOK
<1>7. \A s, t \in Row : Collapses(p, s, t) /\ fam[t] = fam[s] /\ s # t /\ sess'[t] = "live" => Collapses(p, s, t)'
  <2>1. call[p] = NoCall
    BY DEF ResetSessions
  <2>2. call[p].at = "idle"
    BY <2>1 DEF NoCall
  <2> QED  BY <2>2 DEF Collapses
<1> QED  BY <1>2, <1>3, <1>4, <1>5, <1>6, <1>7, QuietStep

LEMMA StepResetTokens ==
  ASSUME SessionInv, NEW p \in Proc, ResetTokens(p)
  PROVE  SessionInv'
<1>a. TypeOK /\ CallOK(call[p]) /\ call[p] \in Calls
  BY DEF SessionInv, FormInv, TypeOK
<1>1. call'[p].at = "idle" /\ call'[p].op = "none" /\ call'[p].f = NoFamily /\ call'[p].new = NoRow /\ call'[p] = NoCall
  BY <1>a DEF ResetTokens, Goto, TypeOK, NoCall, Calls
<1>2. call'[p] \in Calls /\ call' = [call EXCEPT ![p] = call'[p]]
  BY <1>a, AuthAssumption DEF ResetTokens, Goto, TypeOK, NoCall, Calls, Labels, Issuing, Revoking
<1>3. TypeOK'
  BY <1>a, <1>2 DEF ResetTokens, TypeOK, CallOK, Calls
<1>4. Quiet(p)
  BY <1>a, <1>1, <1>2 DEF ResetTokens, Quiet, TypeOK, CallOK
<1>5. CallOK(call[p])'
  BY <1>a, <1>1 DEF ResetTokens, CallOK, Issuing, Revoking, NoCall
<1>6. \A s \in given' : fam[s] # NoFamily
  BY <1>a, AuthAssumption DEF ResetTokens, SessionInv, FormInv, LinkedIsInserted, CallOK
<1>7. \A s, t \in Row : Collapses(p, s, t) /\ fam[t] = fam[s] /\ s # t /\ sess'[t] = "live" => Collapses(p, s, t)'
  BY <1>a, <1>1 DEF ResetTokens, Collapses, CallOK, TypeOK, NoCall, OfFamily
<1> QED  BY <1>2, <1>3, <1>4, <1>5, <1>6, <1>7, QuietStep


\* A sign-in takes a family nobody else is working on.
LEMMA StepLogin ==
  ASSUME SessionInv, NEW p \in Proc, NEW f \in Family, Login(p, f)
  PROVE  SessionInv'
<1>a. TypeOK /\ call[p] = NoCall /\ \A q \in Proc : call[q] \in Calls /\ CallOK(call[q])
  BY DEF SessionInv, FormInv, TypeOK, Login
<1>1. call'[p].at = "insert_session" /\ call'[p].op = "login" /\ call'[p].f = f /\ call'[p].new = NoRow
  BY <1>a DEF Login, Goto, TypeOK, NoCall, Calls
<1>2. call'[p] \in Calls /\ \A q \in Proc \ {p} : call'[q] = call[q]
  BY <1>a, AuthAssumption DEF Login, Goto, TypeOK, NoCall, Calls, Labels, Issuing
<1>3. FormInv'
  <2>1. TypeOK'
    BY <1>a, <1>2 DEF Login, Goto, TypeOK
  <2>2. \A q \in Proc : CallOK(call[q])'
    BY <1>a, <1>1, <1>2 DEF Login, CallOK, Issuing
  <2>3. NewIsOwn' /\ LinkedIsInserted'
    BY <1>1, <1>2 DEF Login, SessionInv, FormInv, NewIsOwn, LinkedIsInserted
  <2> QED  BY <2>1, <2>2, <2>3 DEF FormInv
<1>4. LoginIsFirst'
  BY <1>1, <1>2 DEF Login, OfFamily, SessionInv, LoginIsFirst
<1>5. OneWillGo'
  BY <1>a, <1>2 DEF Login, SessionInv, OneWillGo, Collapses, NoCall
<1> QED  BY <1>3, <1>4, <1>5 DEF SessionInv

\* A new session has no family yet, and no call had its row before.
LEMMA StepInsertSession ==
  ASSUME SessionInv, NEW p \in Proc, InsertSession(p)
  PROVE  SessionInv'
<1>a. TypeOK /\ NewIsOwn /\ LinkedIsInserted /\ \A q \in Proc : call[q] \in Calls /\ CallOK(call[q])
  BY DEF SessionInv, FormInv, TypeOK
<1>b. PICK n \in Row : /\ sess[n] = "none" /\ sess' = [sess EXCEPT ![n] = "live"]
                       /\ Goto(p, [call[p] EXCEPT !.at = "insert_refresh", !.new = n])
  BY DEF InsertSession
<1>1. /\ call'[p].at = "insert_refresh" /\ call'[p].new = n
      /\ call'[p].op = call[p].op /\ call'[p].f = call[p].f /\ call[p].at = "insert_session"
  <2>1. call'[p] = [call[p] EXCEPT !.at = "insert_refresh", !.new = n]
    BY <1>a, <1>b DEF Goto, TypeOK
  <2>2. call[p].at = "insert_session"
    BY DEF InsertSession
  <2> QED  BY <1>a, <2>1, <2>2 DEF Calls
<1>2. call'[p] \in Calls /\ \A q \in Proc \ {p} : call'[q] = call[q]
  BY <1>a, <1>b DEF Goto, TypeOK, Calls, Labels
<1>3. fam[n] = NoFamily /\ \A q \in Proc : call[q].new # n
  BY <1>a, <1>b, AuthAssumption DEF NewIsOwn, LinkedIsInserted
<1>4. FormInv'
  <2>1. TypeOK'
    BY <1>a, <1>b, <1>2 DEF InsertSession, Goto, TypeOK
  <2>2. ASSUME NEW q \in Proc PROVE CallOK(call[q])'
    <3>1. CASE q = p
      BY <1>a, <1>1, <1>3, <3>1 DEF InsertSession, CallOK
    <3>2. CASE q # p
      BY <1>a, <1>2, <3>2 DEF InsertSession, CallOK
    <3> QED  BY <3>1, <3>2
  <2>3. NewIsOwn'
    <3>1. ASSUME NEW q \in Proc, call'[q].new # NoRow PROVE sess'[call'[q].new] # "none"
      <4>1. CASE q = p
        BY <1>a, <1>b, <1>1, <4>1 DEF TypeOK
      <4>2. CASE q # p
        <5>1. call'[q] = call[q] /\ call[q].new \in Row
          BY <1>a, <1>2, <3>1, <4>2 DEF Calls
        <5>2. sess[call[q].new] # "none"
          BY <1>a, <3>1, <5>1 DEF NewIsOwn
        <5> QED  BY <1>a, <1>b, <5>1, <5>2 DEF TypeOK
      <4> QED  BY <4>1, <4>2
    <3>2. ASSUME NEW q \in Proc, NEW o \in Proc, q # o, call'[q].new # NoRow PROVE call'[q].new # call'[o].new
      BY <1>a, <1>1, <1>2, <1>3, <3>2 DEF NewIsOwn
    <3> QED  BY <3>1, <3>2 DEF NewIsOwn
  <2>4. LinkedIsInserted'
    BY <1>a, <1>b DEF InsertSession, TypeOK, LinkedIsInserted
  <2> QED  BY <2>1, <2>2, <2>3, <2>4 DEF FormInv
<1>5. LoginIsFirst'
  BY <1>1, <1>2 DEF InsertSession, OfFamily, SessionInv, LoginIsFirst
<1>6. OneWillGo'
  <2> SUFFICES ASSUME NEW r \in Row, NEW s \in Row,
                      r # s, fam[r] # NoFamily, fam[r] = fam[s], sess'[r] = "live", sess'[s] = "live"
               PROVE  \E q \in Proc : Collapses(q, r, s)' \/ Collapses(q, s, r)'
    BY DEF InsertSession, OneWillGo
  <2>1. sess[r] = "live" /\ sess[s] = "live"
    BY <1>a, <1>b, <1>3 DEF TypeOK
  <2>2. PICK q \in Proc : Collapses(q, r, s) \/ Collapses(q, s, r)
    BY <2>1 DEF SessionInv, OneWillGo
  <2>3. q # p
    BY <1>1, <2>2 DEF Collapses
  <2> QED  BY <1>2, <2>2, <2>3 DEF Collapses
<1> QED  BY <1>4, <1>5, <1>6 DEF SessionInv

\* A row is linked by the call that will then revoke the family's other rows,
\* or is the first of its family.
LEMMA StepInsertRefresh ==
  ASSUME SessionInv, NEW p \in Proc, InsertRefresh(p)
  PROVE  SessionInv'
<1> DEFINE n == call[p].new
           f == call[p].f
<1>a. TypeOK /\ NewIsOwn /\ LinkedIsInserted /\ \A q \in Proc : call[q] \in Calls /\ CallOK(call[q])
  BY DEF SessionInv, FormInv, TypeOK
<1>b. call[p].at = "insert_refresh" /\ n \in Row /\ f \in Family /\ fam[n] = NoFamily
  BY <1>a DEF InsertRefresh, CallOK
<1>c. n # NoRow /\ f # NoFamily
  BY <1>b, AuthAssumption
<1>d. fam' = [fam EXCEPT ![n] = f] /\ sess' = sess
  BY DEF InsertRefresh
<1>1. \A q \in Proc \ {p} : call'[q] = call[q] /\ call[q].new # n
  BY <1>a, <1>c DEF InsertRefresh, Goto, TypeOK, NewIsOwn
<1>2. \/ call[p].op = "login" /\ call'[p] = NoCall /\ given' = given \cup {n}
      \/ /\ call[p].op \in {"rotate", "grace"} /\ given' = given
         /\ call'[p].at \in {"mark_replaced", "read_others"}
         /\ call'[p].op = call[p].op /\ call'[p].f = f /\ call'[p].new = n
  <2>1. CASE call[p].op = "login"
    BY <1>a, <2>1 DEF InsertRefresh, Goto, TypeOK
  <2>2. CASE call[p].op # "login"
    <3>1. /\ call[p].op \in {"rotate", "grace"} /\ given' = given
          /\ \/ call'[p] = [call[p] EXCEPT !.at = "mark_replaced"]
             \/ call'[p] = [call[p] EXCEPT !.at = "read_others"]
      BY <1>a, <2>2 DEF InsertRefresh, Goto, TypeOK
    <3> QED  BY <1>a, <3>1 DEF Calls
  <2> QED  BY <2>1, <2>2
<1>3. call'[p] \in Calls
  <2>1. CASE call[p].op = "login"
    BY <1>2, <2>1 DEF NoCall, Calls, Labels
  <2>2. CASE call[p].op # "login"
    <3>1. call'[p] = [call[p] EXCEPT !.at = "mark_replaced"] \/ call'[p] = [call[p] EXCEPT !.at = "read_others"]
      BY <1>a, <2>2 DEF InsertRefresh, Goto, TypeOK
    <3> QED  BY <1>a, <3>1 DEF Calls, Labels
  <2> QED  BY <2>1, <2>2
<1>4. FormInv'
  <2>1. TypeOK'
    <3>1. call' \in [Proc -> Calls]
      BY <1>a, <1>3 DEF InsertRefresh, Goto, TypeOK
    <3>2. fam' \in [Row -> Family \cup {NoFamily}] /\ given' \subseteq Row
      BY <1>a, <1>b, <1>d, <1>2 DEF TypeOK
    <3> QED  BY <1>a, <3>1, <3>2 DEF InsertRefresh, TypeOK
  <2>2. ASSUME NEW q \in Proc PROVE CallOK(call[q])'
    <3>1. CASE q = p /\ call[p].op = "login"
      BY <1>2, <3>1 DEF CallOK, NoCall
    <3>2. CASE q = p /\ call[p].op # "login"
      BY <1>a, <1>b, <1>d, <1>2, <3>2 DEF TypeOK, CallOK
    <3>3. CASE q # p
      <4>1. call'[q] = call[q] /\ call[q].new # n /\ CallOK(call[q])
        BY <1>a, <1>1, <3>3
      <4>2. \A r \in Row \ {n} : fam'[r] = fam[r]
        BY <1>a, <1>d DEF TypeOK
      <4> QED  BY <4>1, <4>2 DEF CallOK
    <3> QED  BY <3>1, <3>2, <3>3
  <2>3. \A q \in Proc : call'[q].new \in {call[q].new, NoRow}
    BY <1>1, <1>2 DEF NoCall
  <2>4. NewIsOwn'
    BY <1>a, <1>d, <2>3 DEF NewIsOwn
  <2>5. LinkedIsInserted'
    BY <1>a, <1>b, <1>c, <1>d, <1>2 DEF TypeOK, NewIsOwn, LinkedIsInserted
  <2> QED  BY <2>1, <2>2, <2>4, <2>5 DEF FormInv
<1>5. LoginIsFirst'
  <2> SUFFICES ASSUME NEW q \in Proc, call'[q].op = "login"
               PROVE  (OfFamily(call[q].f) = {})' /\ \A o \in Proc \ {q} : call'[o].f # call'[q].f
    BY DEF LoginIsFirst
  <2>1. q # p /\ call[q].op = "login" /\ call'[q] = call[q]
    BY <1>1, <1>2 DEF NoCall
  <2>2. OfFamily(call[q].f) = {} /\ \A o \in Proc \ {q} : call[o].f # call[q].f
    BY <2>1 DEF SessionInv, LoginIsFirst
  <2>3. call[q].f # f /\ call[q].f # NoFamily
    BY <2>1, <2>2, LoginHasFamily, AuthAssumption DEF SessionInv
  <2>4. (OfFamily(call[q].f) = {})'
    BY <1>a, <1>d, <2>1, <2>2, <2>3 DEF OfFamily, TypeOK
  <2>5. call'[p].f # call'[q].f
    BY <1>2, <2>1, <2>3 DEF NoCall
  <2> QED  BY <1>1, <2>1, <2>2, <2>4, <2>5
<1>6. OneWillGo'
  <2> SUFFICES ASSUME NEW r \in Row, NEW s \in Row,
                      r # s, fam'[r] # NoFamily, fam'[r] = fam'[s], sess'[r] = "live", sess'[s] = "live"
               PROVE  \E q \in Proc : Collapses(q, r, s)' \/ Collapses(q, s, r)'
    BY DEF OneWillGo
  <2>1. CASE n \in {r, s}
    <3>1. PICK t \in {r, s} : t # n
      OBVIOUS
    <3>2. fam[t] = f
      BY <1>a, <1>d, <2>1, <3>1 DEF TypeOK
    <3>3. call[p].op # "login"
      BY <3>2 DEF SessionInv, LoginIsFirst, OfFamily
    <3> QED  BY <1>2, <2>1, <3>3 DEF Collapses
  <2>2. CASE n \notin {r, s}
    <3>1. fam[r] # NoFamily /\ fam[r] = fam[s] /\ sess[r] = "live" /\ sess[s] = "live"
      BY <1>a, <1>d, <2>2 DEF TypeOK
    <3>2. PICK q \in Proc : Collapses(q, r, s) \/ Collapses(q, s, r)
      BY <3>1 DEF SessionInv, OneWillGo
    <3>3. q # p
      BY <1>b, <3>2 DEF Collapses
    <3> QED  BY <1>1, <3>2, <3>3 DEF Collapses
  <2> QED  BY <2>1, <2>2
<1> QED  BY <1>4, <1>5, <1>6 DEF SessionInv

LEMMA RestStep ==
  ASSUME SessionInv, TypeOK', UNCHANGED <<sess, fam, given, call>>
  PROVE  SessionInv'
<1>1. FormInv'
  BY DEF SessionInv, FormInv, CallOK, NewIsOwn, LinkedIsInserted
<1>2. LoginIsFirst' /\ OneWillGo'
  BY DEF SessionInv, LoginIsFirst, OfFamily, OneWillGo, Collapses
<1> QED  BY <1>1, <1>2 DEF SessionInv

LEMMA Step == SessionInv /\ [Next]_vars => SessionInv'
<1> SUFFICES ASSUME SessionInv, [Next]_vars PROVE SessionInv'
  OBVIOUS
<1>1. ASSUME NEW p \in Proc, NEW f \in Family, Login(p, f) PROVE SessionInv'
  BY <1>1, StepLogin
<1>2. ASSUME NEW p \in Proc, NEW r \in Row, Refresh(p, r) \/ RefreshReused(p, r) \/ SignOut(p, r) PROVE SessionInv'
  BY <1>2, StepRefresh, StepRefreshReused, StepSignOut
<1>3. ASSUME NEW p \in Proc, InsertSession(p) \/ InsertRefresh(p) PROVE SessionInv'
  BY <1>3, StepInsertSession, StepInsertRefresh
<1>4. ASSUME NEW p \in Proc, MarkReplaced(p) \/ ReadOthers(p) \/ RevokeOthers(p) PROVE SessionInv'
  BY <1>4, StepMarkReplaced, StepReadOthers, StepRevokeOthers
<1>5. ASSUME NEW p \in Proc, ReadFamily(p) \/ RevokeTokens(p) \/ RevokeSessions(p) PROVE SessionInv'
  BY <1>5, StepReadFamily, StepRevokeTokens, StepRevokeSessions
<1>6. ASSUME NEW p \in Proc, ResetSessions(p) \/ ResetTokens(p) PROVE SessionInv'
  BY <1>6, StepResetSessions, StepResetTokens
<1>7. ASSUME NEW r \in Row, GraceEnds(r) PROVE SessionInv'
  <2>1. TypeOK' /\ UNCHANGED <<sess, fam, given, call>>
    BY <1>7 DEF GraceEnds, SessionInv, FormInv, TypeOK
  <2> QED  BY <2>1, RestStep
<1>8. CASE UNCHANGED vars
  <2>1. TypeOK' /\ UNCHANGED <<sess, fam, given, call>>
    BY <1>8 DEF vars, SessionInv, FormInv, TypeOK
  <2> QED  BY <2>1, RestStep
<1> QED  BY <1>1, <1>2, <1>3, <1>4, <1>5, <1>6, <1>7, <1>8 DEF Next

\* On a family no call is working on, nothing is left that would be revoked yet.
LEMMA SettledHasOne == SessionInv => AtMostOneLiveSession
<1> SUFFICES ASSUME SessionInv, NEW f \in Family, Settled(f), NEW r \in LiveOf(f), NEW s \in LiveOf(f), r # s
             PROVE  FALSE
  BY DEF AtMostOneLiveSession
<1>1. /\ r \in Row /\ s \in Row /\ fam[r] = f /\ fam[s] = f /\ f # NoFamily
      /\ sess[r] = "live" /\ sess[s] = "live"
  BY AuthAssumption DEF LiveOf, OfFamily
<1>2. PICK p \in Proc : Collapses(p, r, s) \/ Collapses(p, s, r)
  BY <1>1 DEF SessionInv, OneWillGo
<1>3. call[p].op \in {"rotate", "grace"} /\ call[p].f = f
  BY <1>1, <1>2 DEF SessionInv, FormInv, CallOK, Collapses
<1> QED  BY <1>3 DEF Settled, Touches

\* However many refreshes of a device overlap, and for any number of rows,
\* families and calls in flight, the device is left with at most one live session.
THEOREM AtMostOneLiveSessionHolds == Spec => []AtMostOneLiveSession
<1>1. SessionInv /\ [Next]_vars => SessionInv'
  BY Step
<1> QED  BY Initial, <1>1, SettledHasOne, PTL DEF Spec

------------------------------------------------------------------------------
(***************************************************************************)
(* Sign-out.  A family no issuing and revoking call overlapped on belongs  *)
(* to one side at a time, so what a revoking call read is all there is.    *)
(***************************************************************************)
OneSideAtATime(f) ==
  \A p, q \in Proc : call[p].op \in Issuing /\ call[p].f = f /\ call[q].op \in Revoking => ~Touches(q, f)

\* Once a token of the family is revoked all are, nobody issues any more, and
\* the sessions are revoked or about to be.
RevokedTogether(f) ==
  OfFamily(f) \cap dead # {} =>
    /\ OfFamily(f) \subseteq dead
    /\ \A p \in Proc : call[p].op \in Issuing => call[p].f # f
    /\ LiveOf(f) = {} \/ \E p \in Proc : call[p].at = "revoke_sessions" /\ call[p].f = f

ReadThemAll(f) ==
  /\ \A p \in Proc : call[p].at \in {"revoke_tokens", "revoke_sessions"} /\ call[p].f = f => LiveOf(f) \subseteq call[p].ids
  /\ \A p \in Proc : call[p].op = "reset" => LiveOf(f) = {}

Unraced(f) == OneSideAtATime(f) /\ RevokedTogether(f) /\ ReadThemAll(f)

DeadIsLinked == \A r \in dead : fam[r] # NoFamily

\* A revoking call has a family, or is a reset.
RevokesAFamily ==
  \A p \in Proc : /\ call[p].at \in {"read_family", "revoke_tokens"} => call[p].f # NoFamily
                  /\ call[p].at = "reset_tokens" => call[p].op = "reset"

RevokeInv ==
  SessionInv /\ DeadIsLinked /\ RevokesAFamily /\ LiveSessionsHaveAFamily /\ \A f \in Family \ raced : Unraced(f)

LEMMA InitialRevoke == Init => RevokeInv
<1> SUFFICES ASSUME Init PROVE RevokeInv
  OBVIOUS
<1>1. \A p \in Proc : call[p].at = "idle" /\ call[p].op = "none" /\ call[p].f = NoFamily
  BY DEF Init, NoCall
<1>2. ASSUME NEW f \in Family PROVE Unraced(f)
  BY <1>1 DEF Init, Unraced, OneSideAtATime, RevokedTogether, ReadThemAll, Issuing
<1>3. DeadIsLinked /\ RevokesAFamily /\ LiveSessionsHaveAFamily
  BY <1>1 DEF Init, DeadIsLinked, RevokesAFamily, LiveSessionsHaveAFamily
<1> QED  BY <1>2, <1>3, Initial DEF RevokeInv

LEMMA Shape ==
  ASSUME SessionInv
  PROVE  /\ sess \in [Row -> {"none", "live", "revoked"}]
         /\ fam \in [Row -> Family \cup {NoFamily}]
         /\ given \subseteq Row /\ dead \subseteq Row
         /\ call \in [Proc -> Calls]
BY DEF SessionInv, FormInv, TypeOK

\* What the other invariants say of a call: which side it is on.
LEMMA Sides ==
  ASSUME SessionInv, NEW p \in Proc
  PROVE  /\ call[p] \in Calls
         /\ call[p].at = "idle" => call[p].op = "none" /\ call[p].new = NoRow
         /\ call[p].at \in {"insert_session", "insert_refresh", "mark_replaced", "read_others", "revoke_others"}
              => call[p].op \in Issuing
         /\ call[p].at \in {"read_family", "revoke_tokens", "revoke_sessions", "reset_tokens"}
              => call[p].op \in Revoking /\ call[p].new = NoRow
<1>1. call[p] \in Calls /\ CallOK(call[p])
  BY DEF SessionInv, FormInv, TypeOK
<1>2. call[p].at = "idle" => call[p].op = "none" /\ call[p].new = NoRow
  <2>1. NoCall.op = "none" /\ NoCall.new = NoRow
    BY DEF NoCall
  <2> QED  BY <1>1, <2>1 DEF CallOK
<1> QED  BY <1>1, <1>2 DEF CallOK, Issuing

\* The calls of the others and the links stay; a row loses its caller only
\* after it has been linked.
LEMMA KeepsCallers ==
  ASSUME LiveSessionsHaveAFamily, NEW p \in Proc, fam' = fam,
         \A q \in Proc \ {p} : call'[q] = call[q],
         \A r \in Row : sess'[r] = "live" => sess[r] = "live",
         call[p].new \in Row => call'[p].new = call[p].new \/ fam[call[p].new] # NoFamily
  PROVE  LiveSessionsHaveAFamily'
BY DEF LiveSessionsHaveAFamily

\* Call p stays on its side of its family, or ends; it revokes sessions of a
\* family only when it has read all of them.
LEMMA KeepsSides ==
  ASSUME NEW f \in Family, Unraced(f), NEW p \in Proc, fam' = fam, dead' = dead,
         \A q \in Proc \ {p} : call'[q] = call[q],
         LiveOf(f)' \subseteq LiveOf(f),
         (call'[p].op = call[p].op /\ call'[p].f = call[p].f) \/ call'[p] = NoCall,
         call'[p].at \in {"revoke_tokens", "revoke_sessions"} /\ call'[p].f = f => LiveOf(f) \subseteq call'[p].ids,
         call[p].at = "revoke_sessions" /\ call[p].f = f => LiveOf(f)' = {}
  PROVE  Unraced(f)'
<1>1. \A q \in Proc : call'[q].op \in Issuing \cup Revoking => call'[q].op = call[q].op /\ call'[q].f = call[q].f
  BY DEF NoCall, Issuing, Revoking
<1>2. OneSideAtATime(f)'
  BY <1>1 DEF Unraced, OneSideAtATime, Touches
<1>3. RevokedTogether(f)'
  <2> SUFFICES ASSUME OfFamily(f) \cap dead # {}
               PROVE  /\ OfFamily(f) \subseteq dead
                      /\ \A q \in Proc : call'[q].op \in Issuing => call'[q].f # f
                      /\ LiveOf(f)' = {} \/ \E q \in Proc : call'[q].at = "revoke_sessions" /\ call'[q].f = f
    BY DEF RevokedTogether, OfFamily
  <2> QED  BY <1>1 DEF Unraced, RevokedTogether
<1>4. ReadThemAll(f)'
  <2>1. ASSUME NEW q \in Proc, call'[q].at \in {"revoke_tokens", "revoke_sessions"}, call'[q].f = f
        PROVE  LiveOf(f)' \subseteq call'[q].ids
    BY <2>1 DEF Unraced, ReadThemAll
  <2>2. ASSUME NEW q \in Proc, call'[q].op = "reset" PROVE LiveOf(f)' = {}
    BY <1>1, <2>2 DEF Revoking, Unraced, ReadThemAll
  <2> QED  BY <2>1, <2>2 DEF ReadThemAll
<1> QED  BY <1>2, <1>3, <1>4 DEF Unraced

LEMMA RevokeMarkReplaced ==
  ASSUME RevokeInv, NEW p \in Proc, MarkReplaced(p)
  PROVE  RevokeInv'
<1>a. SessionInv
  BY DEF RevokeInv
<1>1. call'[p].at = "read_others" /\ call'[p].op = call[p].op /\ call'[p].f = call[p].f /\ call'[p].new = call[p].new
  BY <1>a, Shape DEF MarkReplaced, Goto, Calls
<1>2. /\ \A q \in Proc \ {p} : call'[q] = call[q]
      /\ fam' = fam /\ dead' = dead /\ raced' = raced
      /\ \A r \in Row : sess'[r] = "live" => sess[r] = "live"
  BY <1>a, Shape DEF MarkReplaced, Goto
<1>3. DeadIsLinked' /\ RevokesAFamily'
  BY <1>1, <1>2 DEF RevokeInv, DeadIsLinked, RevokesAFamily
<1>4. LiveSessionsHaveAFamily'
  BY <1>1, <1>2, KeepsCallers DEF RevokeInv
<1>5. ASSUME NEW f \in Family \ raced' PROVE Unraced(f)'
  <2>1. Unraced(f)
    BY <1>2, <1>5 DEF RevokeInv
  <2>2. LiveOf(f)' \subseteq LiveOf(f) /\ LiveOf(f) \subseteq OfFamily(f)
    BY <1>2 DEF LiveOf, OfFamily
  <2>3. call[p].at # "revoke_sessions"
    BY DEF MarkReplaced
  <2> QED  BY <1>1, <1>2, <2>1, <2>2, <2>3, KeepsSides
<1> QED  BY <1>3, <1>4, <1>5, StepMarkReplaced DEF RevokeInv

LEMMA RevokeReadOthers ==
  ASSUME RevokeInv, NEW p \in Proc, ReadOthers(p)
  PROVE  RevokeInv'
<1>a. SessionInv
  BY DEF RevokeInv
<1>1. call'[p].at = "revoke_others" /\ call'[p].op = call[p].op /\ call'[p].f = call[p].f /\ call'[p].new = call[p].new
  BY <1>a, Shape DEF ReadOthers, Goto, Calls
<1>2. /\ \A q \in Proc \ {p} : call'[q] = call[q]
      /\ fam' = fam /\ dead' = dead /\ raced' = raced
      /\ \A r \in Row : sess'[r] = "live" => sess[r] = "live"
  BY <1>a, Shape DEF ReadOthers, Goto
<1>3. DeadIsLinked' /\ RevokesAFamily'
  BY <1>1, <1>2 DEF RevokeInv, DeadIsLinked, RevokesAFamily
<1>4. LiveSessionsHaveAFamily'
  BY <1>1, <1>2, KeepsCallers DEF RevokeInv
<1>5. ASSUME NEW f \in Family \ raced' PROVE Unraced(f)'
  <2>1. Unraced(f)
    BY <1>2, <1>5 DEF RevokeInv
  <2>2. LiveOf(f)' \subseteq LiveOf(f) /\ LiveOf(f) \subseteq OfFamily(f)
    BY <1>2 DEF LiveOf, OfFamily
  <2>3. call[p].at # "revoke_sessions"
    BY DEF ReadOthers
  <2> QED  BY <1>1, <1>2, <2>1, <2>2, <2>3, KeepsSides
<1> QED  BY <1>3, <1>4, <1>5, StepReadOthers DEF RevokeInv

LEMMA RevokeReadFamily ==
  ASSUME RevokeInv, NEW p \in Proc, ReadFamily(p)
  PROVE  RevokeInv'
<1>a. SessionInv
  BY DEF RevokeInv
<1>1. /\ call'[p].at = "revoke_tokens" /\ call'[p].op = call[p].op /\ call'[p].f = call[p].f
      /\ call'[p].new = call[p].new /\ call'[p].ids = OfFamily(call[p].f)
  BY <1>a, Shape DEF ReadFamily, Goto, Calls
<1>2. /\ \A q \in Proc \ {p} : call'[q] = call[q]
      /\ fam' = fam /\ dead' = dead /\ raced' = raced
      /\ \A r \in Row : sess'[r] = "live" => sess[r] = "live"
  BY <1>a, Shape DEF ReadFamily, Goto
<1>3. DeadIsLinked' /\ RevokesAFamily'
  BY <1>1, <1>2 DEF ReadFamily, RevokeInv, DeadIsLinked, RevokesAFamily
<1>4. LiveSessionsHaveAFamily'
  BY <1>1, <1>2, KeepsCallers DEF RevokeInv
<1>5. ASSUME NEW f \in Family \ raced' PROVE Unraced(f)'
  <2>1. Unraced(f)
    BY <1>2, <1>5 DEF RevokeInv
  <2>2. LiveOf(f)' \subseteq LiveOf(f) /\ LiveOf(f) \subseteq OfFamily(f)
    BY <1>2 DEF LiveOf, OfFamily
  <2>3. call[p].at # "revoke_sessions"
    BY DEF ReadFamily
  <2> QED  BY <1>1, <1>2, <2>1, <2>2, <2>3, KeepsSides
<1> QED  BY <1>3, <1>4, <1>5, StepReadFamily DEF RevokeInv

LEMMA RevokeRevokeOthers ==
  ASSUME RevokeInv, NEW p \in Proc, RevokeOthers(p)
  PROVE  RevokeInv'
<1>a. SessionInv
  BY DEF RevokeInv
<1>1. call'[p] = NoCall
  BY <1>a, Shape DEF RevokeOthers, Goto, Calls
<1>2. /\ \A q \in Proc \ {p} : call'[q] = call[q]
      /\ fam' = fam /\ dead' = dead /\ raced' = raced
      /\ \A r \in Row : sess'[r] = "live" => sess[r] = "live"
  BY <1>a, Shape DEF RevokeOthers, Goto, Revoked
<1>3. DeadIsLinked' /\ RevokesAFamily'
  BY <1>1, <1>2 DEF NoCall, RevokeInv, DeadIsLinked, RevokesAFamily
<1>4. LiveSessionsHaveAFamily'
  <2>1. fam[call[p].new] # NoFamily
    BY <1>a, AuthAssumption DEF RevokeOthers, SessionInv, FormInv, CallOK
  <2> QED  BY <1>2, <2>1, KeepsCallers DEF RevokeInv
<1>5. ASSUME NEW f \in Family \ raced' PROVE Unraced(f)'
  <2>1. Unraced(f)
    BY <1>2, <1>5 DEF RevokeInv
  <2>2. LiveOf(f)' \subseteq LiveOf(f) /\ LiveOf(f) \subseteq OfFamily(f)
    BY <1>2 DEF LiveOf, OfFamily
  <2>3. call'[p].at = "idle" /\ call[p].at # "revoke_sessions"
    BY <1>1 DEF NoCall, RevokeOthers
  <2> QED  BY <1>1, <1>2, <2>1, <2>2, <2>3, KeepsSides
<1> QED  BY <1>3, <1>4, <1>5, StepRevokeOthers DEF RevokeInv

LEMMA RevokeRevokeSessions ==
  ASSUME RevokeInv, NEW p \in Proc, RevokeSessions(p)
  PROVE  RevokeInv'
<1>a. SessionInv
  BY DEF RevokeInv
<1>1. call'[p] = NoCall
  BY <1>a, Shape DEF RevokeSessions, Goto, Calls
<1>2. /\ \A q \in Proc \ {p} : call'[q] = call[q]
      /\ fam' = fam /\ dead' = dead /\ raced' = raced
      /\ \A r \in Row : sess'[r] = "live" => sess[r] = "live"
  BY <1>a, Shape DEF RevokeSessions, Goto, Revoked
<1>3. DeadIsLinked' /\ RevokesAFamily'
  BY <1>1, <1>2 DEF NoCall, RevokeInv, DeadIsLinked, RevokesAFamily
<1>4. LiveSessionsHaveAFamily'
  <2>1. call[p].new \notin Row
    BY <1>a, Sides, AuthAssumption DEF RevokeSessions
  <2> QED  BY <1>2, <2>1, KeepsCallers DEF RevokeInv
<1>5. ASSUME NEW f \in Family \ raced' PROVE Unraced(f)'
  <2>1. Unraced(f)
    BY <1>2, <1>5 DEF RevokeInv
  <2>2. LiveOf(f)' \subseteq LiveOf(f) /\ LiveOf(f) \subseteq OfFamily(f)
    BY <1>2 DEF LiveOf, OfFamily
  <2>3. call[p].f = f => LiveOf(f)' = {}
    <3> SUFFICES ASSUME call[p].f = f, NEW r \in LiveOf(f)' PROVE FALSE
      OBVIOUS
    <3>1. r \in LiveOf(f) /\ r \in Row /\ sess'[r] = "live"
      BY <2>2 DEF LiveOf, OfFamily
    <3>2. r \in call[p].ids
      BY <2>1, <3>1 DEF RevokeSessions, Unraced, ReadThemAll
    <3> QED  BY <3>1, <3>2 DEF RevokeSessions, Revoked
  <2>4. call'[p].at = "idle"
    BY <1>1 DEF NoCall
  <2> QED  BY <1>1, <1>2, <2>1, <2>2, <2>3, <2>4, KeepsSides
<1> QED  BY <1>3, <1>4, <1>5, StepRevokeSessions DEF RevokeInv

LEMMA RevokeInsertSession ==
  ASSUME RevokeInv, NEW p \in Proc, InsertSession(p)
  PROVE  RevokeInv'
<1>a. SessionInv
  BY DEF RevokeInv
<1>b. PICK n \in Row : /\ sess[n] = "none" /\ sess' = [sess EXCEPT ![n] = "live"]
                       /\ Goto(p, [call[p] EXCEPT !.at = "insert_refresh", !.new = n])
  BY DEF InsertSession
<1>1. call'[p].at = "insert_refresh" /\ call'[p].op = call[p].op /\ call'[p].f = call[p].f /\ call'[p].new = n
  BY <1>a, <1>b, Shape DEF Goto, Calls
<1>2. /\ \A q \in Proc \ {p} : call'[q] = call[q]
      /\ fam' = fam /\ dead' = dead /\ raced' = raced
      /\ \A r \in Row \ {n} : sess'[r] = sess[r]
  BY <1>a, <1>b, Shape DEF InsertSession, Goto
<1>3. DeadIsLinked' /\ RevokesAFamily'
  BY <1>1, <1>2 DEF RevokeInv, DeadIsLinked, RevokesAFamily
<1>4. LiveSessionsHaveAFamily'
  <2>1. call[p].new \notin Row
    BY <1>a, AuthAssumption DEF InsertSession, SessionInv, FormInv, CallOK
  <2> QED  BY <1>1, <1>2, <2>1 DEF RevokeInv, LiveSessionsHaveAFamily
<1>5. ASSUME NEW f \in Family \ raced' PROVE Unraced(f)'
  <2>1. Unraced(f)
    BY <1>2, <1>5 DEF RevokeInv
  <2>2. fam[n] # f
    BY <1>a, <1>b, AuthAssumption DEF SessionInv, FormInv, LinkedIsInserted
  <2>3. LiveOf(f)' = LiveOf(f)
    BY <1>2, <2>2 DEF LiveOf, OfFamily
  <2>4. call[p].at # "revoke_sessions"
    BY DEF InsertSession
  <2> QED  BY <1>1, <1>2, <2>1, <2>3, <2>4, KeepsSides
<1> QED  BY <1>3, <1>4, <1>5, StepInsertSession DEF RevokeInv

\* A row joins a family no revoking call is on, so none of its tokens is revoked.
LEMMA RevokeInsertRefresh ==
  ASSUME RevokeInv, NEW p \in Proc, InsertRefresh(p)
  PROVE  RevokeInv'
<1> DEFINE n == call[p].new
           g == call[p].f
<1>a. SessionInv
  BY DEF RevokeInv
<1>b. call[p].at = "insert_refresh" /\ n \in Row /\ g \in Family /\ fam[n] = NoFamily /\ call[p].op \in Issuing
  BY <1>a DEF InsertRefresh, SessionInv, FormInv, CallOK
<1>c. g # NoFamily
  BY <1>b, AuthAssumption
<1>1. \/ call'[p] = NoCall
      \/ call'[p].at \in {"mark_replaced", "read_others"} /\ call'[p].op = call[p].op /\ call'[p].f = g /\ call'[p].new = n
  <2>1. \/ call'[p] = NoCall
        \/ call'[p] = [call[p] EXCEPT !.at = "mark_replaced"]
        \/ call'[p] = [call[p] EXCEPT !.at = "read_others"]
    BY <1>a, Shape DEF InsertRefresh, Goto
  <2> QED  BY <1>a, <2>1, Shape DEF Calls
<1>2. /\ \A q \in Proc \ {p} : call'[q] = call[q]
      /\ fam'[n] = g /\ \A r \in Row \ {n} : fam'[r] = fam[r]
      /\ sess' = sess /\ dead' = dead /\ raced' = raced
  BY <1>a, <1>b, Shape DEF InsertRefresh, Goto
<1>3. DeadIsLinked' /\ RevokesAFamily'
  BY <1>a, <1>1, <1>2, <1>c, Shape DEF NoCall, RevokeInv, DeadIsLinked, RevokesAFamily
<1>4. LiveSessionsHaveAFamily'
  BY <1>b, <1>c, <1>1, <1>2 DEF RevokeInv, LiveSessionsHaveAFamily
<1>5. ASSUME NEW f \in Family \ raced' PROVE Unraced(f)'
  <2>1. Unraced(f)
    BY <1>2, <1>5 DEF RevokeInv
  <2>2. call[p].at # "revoke_sessions"
    BY <1>b
  <2>3. CASE f # g
    <3>1. OfFamily(f)' = OfFamily(f) /\ LiveOf(f)' = LiveOf(f)
      BY <1>b, <1>2, <2>3, AuthAssumption DEF OfFamily, LiveOf
    <3>2. \A q \in Proc : (call'[q].op = call[q].op /\ call'[q].f = call[q].f) \/ call'[q] = NoCall
      BY <1>1, <1>2
    <3>3. OneSideAtATime(f)'
      BY <2>1, <3>2 DEF NoCall, Issuing, Revoking, Unraced, OneSideAtATime, Touches
    <3>4. RevokedTogether(f)'
      BY <1>2, <2>1, <2>2, <3>1, <3>2 DEF NoCall, Issuing, Unraced, RevokedTogether
    <3>5. ReadThemAll(f)'
      BY <1>1, <1>2, <2>1, <3>1 DEF NoCall, Unraced, ReadThemAll
    <3> QED  BY <3>3, <3>4, <3>5 DEF Unraced
  <2>4. CASE f = g
    <3>1. \A q \in Proc : call[q].op \in Revoking => ~Touches(q, f)
      BY <1>b, <2>1, <2>4 DEF Unraced, OneSideAtATime
    <3>2. \A q \in Proc : call'[q].op \in Revoking => call'[q] = call[q]
      BY <1>b, <1>1, <1>2 DEF NoCall, Issuing, Revoking
    <3>3. OneSideAtATime(f)'
      BY <3>1, <3>2 DEF OneSideAtATime, Touches
    <3>4. OfFamily(f) \cap dead = {}
      BY <1>b, <2>1, <2>4 DEF Unraced, RevokedTogether
    <3>5. RevokedTogether(f)'
      <4>1. n \notin dead
        BY <1>b DEF RevokeInv, DeadIsLinked
      <4>2. OfFamily(f)' \subseteq OfFamily(f) \cup {n}
        BY <1>2 DEF OfFamily
      <4> QED  BY <1>2, <3>4, <4>1, <4>2 DEF RevokedTogether
    <3>6. ReadThemAll(f)'
      <4>1. ASSUME NEW q \in Proc, call'[q].at \in {"revoke_tokens", "revoke_sessions"}, call'[q].f = f PROVE FALSE
        <5>1. call'[q].op \in Revoking
          BY <4>1, StepInsertRefresh, <1>a DEF SessionInv, FormInv, CallOK
        <5> QED  BY <3>1, <3>2, <4>1, <5>1 DEF Touches
      <4>2. ASSUME NEW q \in Proc, call'[q].op = "reset" PROVE FALSE
        BY <3>1, <3>2, <4>2 DEF Revoking, Touches
      <4> QED  BY <4>1, <4>2 DEF ReadThemAll
    <3> QED  BY <3>3, <3>5, <3>6 DEF Unraced
  <2> QED  BY <2>3, <2>4
<1> QED  BY <1>a, <1>3, <1>4, <1>5, StepInsertRefresh DEF RevokeInv

\* A call that starts on a family finds none of the other side there.
LEMMA StartsAlone ==
  ASSUME NEW f \in Family, Unraced(f), NEW p \in Proc, call[p] = NoCall,
         UNCHANGED <<sess, fam, dead>>, \A q \in Proc \ {p} : call'[q] = call[q],
         call'[p].at \in {"insert_session", "read_family"}, call'[p].op # "reset",
         call'[p].f = f /\ call'[p].op \in Issuing => ~Races(f, Revoking) /\ OfFamily(f) \cap dead = {},
         call'[p].f = f /\ call'[p].op \in Revoking => ~Races(f, Issuing)
  PROVE  Unraced(f)'
<1>1. call[p].at = "idle" /\ call[p].op = "none"
  BY DEF NoCall
<1>2. OneSideAtATime(f)'
  BY DEF Unraced, OneSideAtATime, Touches, Races, Issuing, Revoking
<1>3. OfFamily(f)' = OfFamily(f) /\ LiveOf(f)' = LiveOf(f)
  BY DEF OfFamily, LiveOf
<1>4. RevokedTogether(f)'
  BY <1>1, <1>3 DEF Unraced, RevokedTogether
<1>5. ReadThemAll(f)'
  BY <1>3 DEF Unraced, ReadThemAll
<1> QED  BY <1>2, <1>4, <1>5 DEF Unraced

LEMMA RevokeLogin ==
  ASSUME RevokeInv, NEW p \in Proc, NEW g \in Family, Login(p, g)
  PROVE  RevokeInv'
<1>a. SessionInv /\ call[p] = NoCall
  BY DEF RevokeInv, Login
<1>1. call'[p].at = "insert_session" /\ call'[p].op \in {"login"} /\ call'[p].f = g
  BY <1>a, Shape DEF Login, Goto, NoCall
<1>2. UNCHANGED <<sess, fam, dead>> /\ \A q \in Proc \ {p} : call'[q] = call[q]
  BY <1>a, Shape DEF Login, Goto
<1>3. \A f \in Family \ raced' : f \notin raced /\ (f = g => ~Races(f, Revoking))
  BY DEF Login
<1>4. DeadIsLinked' /\ RevokesAFamily'
  BY <1>1, <1>2 DEF RevokeInv, DeadIsLinked, RevokesAFamily
<1>5. LiveSessionsHaveAFamily'
  <2>1. call[p].new \notin Row
    BY <1>a, AuthAssumption DEF NoCall
  <2> QED  BY <1>2, <2>1, KeepsCallers DEF RevokeInv
<1>6. ASSUME NEW f \in Family \ raced' PROVE Unraced(f)'
  <2>1. Unraced(f)
    BY <1>3, <1>6 DEF RevokeInv
  <2>2. f = g => OfFamily(f) \cap dead = {}
    BY DEF Login
  <2> QED  BY <1>a, <1>1, <1>2, <1>3, <1>6, <2>1, <2>2, StartsAlone DEF Revoking
<1> QED  BY <1>a, <1>4, <1>5, <1>6, StepLogin DEF RevokeInv

LEMMA RevokeRefresh ==
  ASSUME RevokeInv, NEW p \in Proc, NEW r \in Row, Refresh(p, r)
  PROVE  RevokeInv'
<1>a. SessionInv /\ call[p] = NoCall
  BY DEF RevokeInv, Refresh
<1>1. call'[p].at = "insert_session" /\ call'[p].op \in {"rotate", "grace"} /\ call'[p].f = fam[r]
  BY <1>a, Shape DEF Refresh, Goto, NoCall
<1>2. UNCHANGED <<sess, fam, dead>> /\ \A q \in Proc \ {p} : call'[q] = call[q]
  BY <1>a, Shape DEF Refresh, Goto
<1>3. \A f \in Family \ raced' : f \notin raced /\ (f = fam[r] => ~Races(f, Revoking))
  BY DEF Refresh
<1>4. DeadIsLinked' /\ RevokesAFamily'
  BY <1>1, <1>2 DEF RevokeInv, DeadIsLinked, RevokesAFamily
<1>5. LiveSessionsHaveAFamily'
  <2>1. call[p].new \notin Row
    BY <1>a, AuthAssumption DEF NoCall
  <2> QED  BY <1>2, <2>1, KeepsCallers DEF RevokeInv
<1>6. ASSUME NEW f \in Family \ raced' PROVE Unraced(f)'
  <2>1. Unraced(f)
    BY <1>3, <1>6 DEF RevokeInv
  <2>2. f = fam[r] => OfFamily(f) \cap dead = {}
    BY <2>1 DEF Refresh, Unraced, RevokedTogether, OfFamily
  <2> QED  BY <1>a, <1>1, <1>2, <1>3, <1>6, <2>1, <2>2, StartsAlone DEF Revoking
<1> QED  BY <1>a, <1>4, <1>5, <1>6, StepRefresh DEF RevokeInv

LEMMA RevokeRefreshReused ==
  ASSUME RevokeInv, NEW p \in Proc, NEW r \in Row, RefreshReused(p, r)
  PROVE  RevokeInv'
<1>a. SessionInv /\ call[p] = NoCall
  BY DEF RevokeInv, RefreshReused
<1>1. call'[p].at = "read_family" /\ call'[p].op \in {"reuse"} /\ call'[p].f = fam[r]
  BY <1>a, Shape DEF RefreshReused, Goto, NoCall
<1>2. UNCHANGED <<sess, fam, dead>> /\ \A q \in Proc \ {p} : call'[q] = call[q]
  BY <1>a, Shape DEF RefreshReused, Goto
<1>3. \A f \in Family \ raced' : f \notin raced /\ (f = fam[r] => ~Races(f, Issuing))
  BY DEF RefreshReused
<1>4. DeadIsLinked' /\ RevokesAFamily'
  <2>1. fam[r] # NoFamily
    BY <1>a DEF RefreshReused, SessionInv, FormInv, LinkedIsInserted
  <2> QED  BY <1>1, <1>2, <2>1 DEF RevokeInv, DeadIsLinked, RevokesAFamily
<1>5. LiveSessionsHaveAFamily'
  <2>1. call[p].new \notin Row
    BY <1>a, AuthAssumption DEF NoCall
  <2> QED  BY <1>2, <2>1, KeepsCallers DEF RevokeInv
<1>6. ASSUME NEW f \in Family \ raced' PROVE Unraced(f)'
  <2>1. Unraced(f)
    BY <1>3, <1>6 DEF RevokeInv
  <2> QED  BY <1>a, <1>1, <1>2, <1>3, <1>6, <2>1, StartsAlone DEF Issuing
<1> QED  BY <1>a, <1>4, <1>5, <1>6, StepRefreshReused DEF RevokeInv

LEMMA RevokeSignOut ==
  ASSUME RevokeInv, NEW p \in Proc, NEW r \in Row, SignOut(p, r)
  PROVE  RevokeInv'
<1>a. SessionInv /\ call[p] = NoCall
  BY DEF RevokeInv, SignOut
<1>1. call'[p].at = "read_family" /\ call'[p].op \in {"signout"} /\ call'[p].f = fam[r]
  BY <1>a, Shape DEF SignOut, Goto, NoCall
<1>2. UNCHANGED <<sess, fam, dead>> /\ \A q \in Proc \ {p} : call'[q] = call[q]
  BY <1>a, Shape DEF SignOut, Goto
<1>3. \A f \in Family \ raced' : f \notin raced /\ (f = fam[r] => ~Races(f, Issuing))
  BY DEF SignOut
<1>4. DeadIsLinked' /\ RevokesAFamily'
  <2>1. fam[r] # NoFamily
    BY <1>a DEF SignOut, SessionInv, FormInv, LinkedIsInserted
  <2> QED  BY <1>1, <1>2, <2>1 DEF RevokeInv, DeadIsLinked, RevokesAFamily
<1>5. LiveSessionsHaveAFamily'
  <2>1. call[p].new \notin Row
    BY <1>a, AuthAssumption DEF NoCall
  <2> QED  BY <1>2, <2>1, KeepsCallers DEF RevokeInv
<1>6. ASSUME NEW f \in Family \ raced' PROVE Unraced(f)'
  <2>1. Unraced(f)
    BY <1>3, <1>6 DEF RevokeInv
  <2> QED  BY <1>a, <1>1, <1>2, <1>3, <1>6, <2>1, StartsAlone DEF Issuing
<1> QED  BY <1>a, <1>4, <1>5, <1>6, StepSignOut DEF RevokeInv

\* No call that issues is on the family: its revoked tokens stay all of them.
LEMMA RevokeRevokeTokens ==
  ASSUME RevokeInv, NEW p \in Proc, RevokeTokens(p)
  PROVE  RevokeInv'
<1> DEFINE g == call[p].f
<1>a. SessionInv /\ call[p].at = "revoke_tokens" /\ call[p].op \in Revoking
  BY Sides DEF RevokeInv, RevokeTokens
<1>1. /\ call'[p].at = "revoke_sessions" /\ call'[p].op = call[p].op /\ call'[p].f = g
      /\ call'[p].new = call[p].new /\ call'[p].ids = call[p].ids
  BY <1>a, Shape DEF RevokeTokens, Goto, Calls
<1>2. /\ \A q \in Proc \ {p} : call'[q] = call[q]
      /\ dead' = dead \cup OfFamily(g) /\ UNCHANGED <<sess, fam, raced>>
  BY <1>a, Shape DEF RevokeTokens, Goto
<1>3. DeadIsLinked' /\ RevokesAFamily'
  <2>1. g # NoFamily
    BY <1>a DEF RevokeInv, RevokesAFamily
  <2> QED  BY <1>1, <1>2, <2>1 DEF RevokeInv, DeadIsLinked, OfFamily, RevokesAFamily
<1>4. LiveSessionsHaveAFamily'
  BY <1>1, <1>2, KeepsCallers DEF RevokeInv
<1>5. ASSUME NEW f \in Family \ raced' PROVE Unraced(f)'
  <2>1. Unraced(f) /\ OfFamily(f)' = OfFamily(f) /\ LiveOf(f)' = LiveOf(f)
    BY <1>2, <1>5 DEF RevokeInv, OfFamily, LiveOf
  <2>2. \A q \in Proc : call'[q].op = call[q].op /\ call'[q].f = call[q].f /\ call'[q].ids = call[q].ids
    BY <1>1, <1>2
  <2>3. OneSideAtATime(f)'
    BY <2>1, <2>2 DEF Unraced, OneSideAtATime, Touches
  <2>4. ReadThemAll(f)'
    BY <1>a, <1>1, <1>2, <2>1, <2>2 DEF Unraced, ReadThemAll
  <2>5. RevokedTogether(f)'
    <3>1. CASE f = g
      <4>1. \A q \in Proc : call[q].op \in Issuing => call[q].f # f
        BY <1>a, <2>1, <3>1 DEF Unraced, OneSideAtATime, Touches
      <4> QED  BY <1>1, <1>2, <2>1, <2>2, <3>1, <4>1 DEF RevokedTogether
    <3>2. CASE f # g
      <4>1. OfFamily(f) \cap dead' = OfFamily(f) \cap dead
        BY <1>2, <3>2 DEF OfFamily
      <4>2. \A q \in Proc : call[q].at = "revoke_sessions" => call'[q].at = "revoke_sessions"
        BY <1>1, <1>2
      <4> QED  BY <1>2, <2>1, <2>2, <4>1, <4>2 DEF Unraced, RevokedTogether
    <3> QED  BY <3>1, <3>2
  <2> QED  BY <2>3, <2>4, <2>5 DEF Unraced
<1> QED  BY <1>a, <1>3, <1>4, <1>5, StepRevokeTokens DEF RevokeInv

LEMMA RevokeResetSessions ==
  ASSUME RevokeInv, NEW p \in Proc, ResetSessions(p)
  PROVE  RevokeInv'
<1>a. SessionInv /\ call[p] = NoCall
  BY DEF RevokeInv, ResetSessions
<1>1. call'[p].at = "reset_tokens" /\ call'[p].op = "reset" /\ call'[p].f = NoFamily
  BY <1>a, Shape DEF ResetSessions, Goto, NoCall
<1>2. /\ \A q \in Proc \ {p} : call'[q] = call[q]
      /\ UNCHANGED <<fam, dead>> /\ \A r \in Row : sess'[r] # "live"
  BY <1>a, Shape DEF ResetSessions, Revoked, Goto
<1>3. DeadIsLinked' /\ RevokesAFamily' /\ LiveSessionsHaveAFamily'
  BY <1>1, <1>2 DEF RevokeInv, DeadIsLinked, RevokesAFamily, LiveSessionsHaveAFamily
<1>4. ASSUME NEW f \in Family \ raced' PROVE Unraced(f)'
  <2>1. Unraced(f) /\ ~Races(f, Issuing)
    BY <1>4 DEF ResetSessions, RevokeInv
  <2>2. LiveOf(f)' = {} /\ OfFamily(f)' = OfFamily(f)
    BY <1>2 DEF LiveOf, OfFamily
  <2>3. \A q \in Proc : call[q].op \in Issuing => call[q].f # f
    BY <2>1 DEF Races, Touches
  <2>4. \A q \in Proc : call'[q].op \in Issuing => call'[q].f # f
    BY <1>1, <1>2, <2>3 DEF Issuing
  <2> QED  BY <1>2, <2>1, <2>2, <2>4 DEF Unraced, OneSideAtATime, RevokedTogether, ReadThemAll
<1> QED  BY <1>a, <1>3, <1>4, StepResetSessions DEF RevokeInv

LEMMA RevokeResetTokens ==
  ASSUME RevokeInv, NEW p \in Proc, ResetTokens(p)
  PROVE  RevokeInv'
<1>a. SessionInv /\ call[p].op = "reset" /\ call[p].at = "reset_tokens"
  BY DEF RevokeInv, RevokesAFamily, ResetTokens
<1>1. call'[p] = NoCall
  BY <1>a, Shape DEF ResetTokens, Goto
<1>2. /\ \A q \in Proc \ {p} : call'[q] = call[q]
      /\ dead' = dead \cup {r \in Row : fam[r] # NoFamily} /\ UNCHANGED <<sess, fam, raced>>
  BY <1>a, Shape DEF ResetTokens, Goto
<1>3. DeadIsLinked' /\ RevokesAFamily'
  BY <1>1, <1>2 DEF NoCall, RevokeInv, DeadIsLinked, RevokesAFamily
<1>4. LiveSessionsHaveAFamily'
  <2>1. call[p].new \notin Row
    BY <1>a, Sides, AuthAssumption
  <2> QED  BY <1>2, <2>1, KeepsCallers DEF RevokeInv
<1>5. ASSUME NEW f \in Family \ raced' PROVE Unraced(f)'
  <2>1. Unraced(f) /\ OfFamily(f)' = OfFamily(f) /\ LiveOf(f)' = LiveOf(f)
    BY <1>2, <1>5 DEF RevokeInv, OfFamily, LiveOf
  <2>2. \A q \in Proc : call[q].op \in Issuing => call[q].f # f
    BY <1>a, <2>1 DEF Revoking, Unraced, OneSideAtATime, Touches
  <2>3. \A q \in Proc : call'[q].op \in Issuing => call'[q].f # f
    BY <1>1, <1>2, <2>2 DEF NoCall, Issuing
  <2>4. LiveOf(f) = {}
    BY <1>a, <2>1 DEF Unraced, ReadThemAll
  <2>5. OfFamily(f) \subseteq dead'
    BY <1>2, <1>5, AuthAssumption DEF OfFamily
  <2> QED  BY <2>1, <2>3, <2>4, <2>5 DEF Unraced, OneSideAtATime, RevokedTogether, ReadThemAll
<1> QED  BY <1>a, <1>3, <1>4, <1>5, StepResetTokens DEF RevokeInv

LEMMA RevokeRest ==
  ASSUME RevokeInv, SessionInv', UNCHANGED <<sess, fam, dead, call, raced>>
  PROVE  RevokeInv'
<1>1. DeadIsLinked' /\ RevokesAFamily' /\ LiveSessionsHaveAFamily'
  BY DEF RevokeInv, DeadIsLinked, RevokesAFamily, LiveSessionsHaveAFamily
<1>2. ASSUME NEW f \in Family \ raced PROVE Unraced(f)'
  <2>1. Unraced(f)
    BY DEF RevokeInv
  <2> QED  BY <2>1 DEF Unraced, OneSideAtATime, Touches, RevokedTogether, ReadThemAll, LiveOf, OfFamily
<1> QED  BY <1>1, <1>2 DEF RevokeInv

LEMMA RevokeStep == RevokeInv /\ [Next]_vars => RevokeInv'
<1> SUFFICES ASSUME RevokeInv, [Next]_vars PROVE RevokeInv'
  OBVIOUS
<1>1. ASSUME NEW p \in Proc, NEW f \in Family, Login(p, f) PROVE RevokeInv'
  BY <1>1, RevokeLogin
<1>2. ASSUME NEW p \in Proc, NEW r \in Row, Refresh(p, r) \/ RefreshReused(p, r) \/ SignOut(p, r) PROVE RevokeInv'
  BY <1>2, RevokeRefresh, RevokeRefreshReused, RevokeSignOut
<1>3. ASSUME NEW p \in Proc, InsertSession(p) \/ InsertRefresh(p) PROVE RevokeInv'
  BY <1>3, RevokeInsertSession, RevokeInsertRefresh
<1>4. ASSUME NEW p \in Proc, MarkReplaced(p) \/ ReadOthers(p) \/ RevokeOthers(p) PROVE RevokeInv'
  BY <1>4, RevokeMarkReplaced, RevokeReadOthers, RevokeRevokeOthers
<1>5. ASSUME NEW p \in Proc, ReadFamily(p) \/ RevokeTokens(p) \/ RevokeSessions(p) PROVE RevokeInv'
  BY <1>5, RevokeReadFamily, RevokeRevokeTokens, RevokeRevokeSessions
<1>6. ASSUME NEW p \in Proc, ResetSessions(p) \/ ResetTokens(p) PROVE RevokeInv'
  BY <1>6, RevokeResetSessions, RevokeResetTokens
<1>7. ASSUME (\E r \in Row : GraceEnds(r)) \/ UNCHANGED vars PROVE RevokeInv'
  <2>1. SessionInv'
    BY <1>7, Step DEF RevokeInv, Next
  <2>2. UNCHANGED <<sess, fam, dead, call, raced>>
    BY <1>7 DEF GraceEnds, vars
  <2> QED  BY <2>1, <2>2, RevokeRest
<1> QED  BY <1>1, <1>2, <1>3, <1>4, <1>5, <1>6, <1>7 DEF Next

LEMMA SettledIsRevoked == RevokeInv => NothingEscapesSignOut
<1> SUFFICES ASSUME RevokeInv PROVE SignOutIsComplete
  BY DEF RevokeInv, NothingEscapesSignOut
<1> SUFFICES ASSUME NEW f \in Family \ raced, Settled(f), OfFamily(f) \cap dead # {}
             PROVE  LiveOf(f) = {} /\ OfFamily(f) \subseteq dead
  BY DEF SignOutIsComplete
<1>1. /\ OfFamily(f) \subseteq dead
      /\ LiveOf(f) = {} \/ \E p \in Proc : call[p].at = "revoke_sessions" /\ call[p].f = f
  BY DEF RevokeInv, Unraced, RevokedTogether
<1>2. ASSUME NEW p \in Proc, call[p].at = "revoke_sessions", call[p].f = f PROVE FALSE
  BY <1>2, Sides DEF RevokeInv, Settled, Touches, Revoking
<1> QED  BY <1>1, <1>2

\* For any number of rows, families and calls in flight: every session that is
\* issued can be signed out, and a sign-out, a detected reuse or a reset that
\* nothing overlapped leaves no live session and no usable token.
THEOREM NothingEscapesSignOutHolds == Spec => []NothingEscapesSignOut
<1>1. RevokeInv /\ [Next]_vars => RevokeInv'
  BY RevokeStep
<1> QED  BY InitialRevoke, <1>1, SettledIsRevoked, PTL DEF Spec

------------------------------------------------------------------------------
(***************************************************************************)
(* Refreshes of a family one after the other: each leaves its own session. *)
(***************************************************************************)
RefreshesApart ==
  \A p, q \in Proc : call[p].op \in Issuing /\ call[q].op \in Issuing /\ call[p].f = call[q].f => p = q

Undisturbed(f) ==
  /\ f \notin raced /\ OfFamily(f) \cap dead = {}
  /\ \A q \in Proc : call[q].op \in Revoking => ~Touches(q, f)

Holding == {"insert_refresh", "mark_replaced", "read_others", "revoke_others"}

KeepsItsSession(f) ==
  /\ OfFamily(f) # {} => LiveOf(f) # {}
  /\ \A p \in Proc : call[p].f = f /\ call[p].at \in Holding => sess[call[p].new] = "live"

\* What a call is about to revoke is of its family, and never its own session.
HasRead(c) ==
  /\ c.at = "revoke_others" => c.ids \subseteq OfFamily(c.f) \ {c.new}
  /\ c.at \in {"read_family", "revoke_tokens", "revoke_sessions"} => c.op # "reset" /\ c.f \in Family /\ OfFamily(c.f) # {}
  /\ c.at \in {"revoke_tokens", "revoke_sessions"} => c.ids \subseteq OfFamily(c.f)
  /\ c.at = "revoke_sessions" => OfFamily(c.f) \cap dead # {}

ReadInv == RevokeInv /\ \A p \in Proc : HasRead(call[p])

KeepInv == ReadInv /\ \A f \in Family : Undisturbed(f) => KeepsItsSession(f)

\* What is linked stays linked to its family, what is revoked stays revoked.
Grows == (\A r \in Row : fam[r] # NoFamily => fam'[r] = fam[r]) /\ dead \subseteq dead' /\ raced \subseteq raced'

Moves(p) == \A q \in Proc \ {p} : call'[q] = call[q]

LEMMA InitialKeep == Init => KeepInv
<1> SUFFICES ASSUME Init PROVE KeepInv
  OBVIOUS
<1>1. \A p \in Proc : call[p].at = "idle"
  BY DEF Init, NoCall
<1>2. \A f \in Family : OfFamily(f) = {}
  BY AuthAssumption DEF Init, OfFamily
<1> QED  BY <1>1, <1>2, InitialRevoke DEF KeepInv, ReadInv, HasRead, KeepsItsSession, Holding

LEMMA FamiliesGrow == RevokeInv /\ [Next]_vars => Grows
<1> SUFFICES ASSUME RevokeInv, [Next]_vars PROVE Grows
  OBVIOUS
<1>1. ASSUME NEW p \in Proc, InsertRefresh(p) PROVE Grows
  <2>1. fam[call[p].new] = NoFamily
    BY <1>1 DEF InsertRefresh, RevokeInv, SessionInv, FormInv, CallOK
  <2> QED  BY <1>1, <2>1, Shape DEF InsertRefresh, RevokeInv, Grows
<1> QED  BY <1>1 DEF Next, vars, Grows, Login, Refresh, RefreshReused, SignOut, InsertSession, MarkReplaced,
           ReadOthers, RevokeOthers, ReadFamily, RevokeTokens, RevokeSessions, ResetSessions, ResetTokens, GraceEnds

LEMMA OthersHaveRead ==
  ASSUME ReadInv, Grows, NEW q \in Proc, call'[q] = call[q]
  PROVE  HasRead(call[q])'
<1>1. HasRead(call[q])
  BY DEF ReadInv
<1>2. call[q].at = "revoke_others" => call[q].f \in Family
  BY DEF ReadInv, RevokeInv, SessionInv, FormInv, CallOK
<1>3. call[q].f \in Family => OfFamily(call[q].f) \subseteq {r \in Row : fam'[r] = call[q].f}
  BY AuthAssumption DEF Grows, OfFamily
<1>4. (OfFamily(call[q].f))' = {r \in Row : fam'[r] = call[q].f}
  BY DEF OfFamily
<1> QED  BY <1>1, <1>2, <1>3, <1>4 DEF HasRead, Grows

\* The call that moves has read what it is about to revoke.
LEMMA StepHasRead ==
  ASSUME ReadInv, [Next]_vars, NEW p \in Proc, Moves(p),
         HasRead(call[p])'
  PROVE  ReadInv'
<1>1. Grows /\ RevokeInv'
  BY FamiliesGrow, RevokeStep DEF ReadInv
<1> QED  BY <1>1, OthersHaveRead DEF ReadInv, Moves

\* A family stays undisturbed backwards over a step that ends no revoking call.
LEMMA UndisturbedBefore ==
  ASSUME Grows, NEW p \in Proc, Moves(p), NEW f \in Family, Undisturbed(f)',
         call[p].op \in Revoking => call'[p].op = call[p].op /\ call'[p].f = call[p].f
  PROVE  Undisturbed(f)
<1>1. OfFamily(f) \subseteq OfFamily(f)'
  BY AuthAssumption DEF Grows, OfFamily
<1>2. \A q \in Proc : call[q].op \in Revoking => call'[q].op = call[q].op /\ call'[q].f = call[q].f
  BY DEF Moves
<1> QED  BY <1>1, <1>2 DEF Undisturbed, Grows, Touches

\* No live session of the family is lost and no session is taken over.
LEMMA NothingLost ==
  ASSUME NEW f \in Family, KeepsItsSession(f), fam' = fam, NEW p \in Proc, Moves(p),
         \A r \in LiveOf(f) : sess'[r] = "live",
         \A q \in Proc : call[q].f = f /\ call[q].at \in Holding => sess'[call[q].new] = "live",
         call'[p].at \in Holding => call[p].at \in Holding /\ call'[p].f = call[p].f /\ call'[p].new = call[p].new
  PROVE  KeepsItsSession(f)'
<1>1. OfFamily(f)' = OfFamily(f) /\ LiveOf(f) \subseteq LiveOf(f)'
  BY DEF OfFamily, LiveOf
<1>2. ASSUME NEW q \in Proc, call'[q].f = f, call'[q].at \in Holding PROVE sess'[call'[q].new] = "live"
  BY <1>2 DEF Moves
<1> QED  BY <1>1, <1>2 DEF KeepsItsSession

\* A step that touches no session and ends no revoking call.
LEMMA SessionsKept ==
  ASSUME KeepInv, ReadInv', Grows, sess' = sess, fam' = fam, NEW p \in Proc, Moves(p),
         call[p].op \in Revoking => call'[p].op = call[p].op /\ call'[p].f = call[p].f,
         call'[p].at \in Holding => call[p].at \in Holding /\ call'[p].f = call[p].f /\ call'[p].new = call[p].new
  PROVE  KeepInv'
<1> SUFFICES ASSUME NEW f \in Family, Undisturbed(f)' PROVE KeepsItsSession(f)'
  BY DEF KeepInv
<1>1. KeepsItsSession(f)
  BY UndisturbedBefore DEF KeepInv
<1>2. \A r \in LiveOf(f) : sess'[r] = "live"
  BY DEF LiveOf
<1>3. \A q \in Proc : call[q].f = f /\ call[q].at \in Holding => sess'[call[q].new] = "live"
  BY <1>1 DEF KeepsItsSession
<1> QED  BY <1>1, <1>2, <1>3, NothingLost

LEMMA KeepStart ==
  ASSUME KeepInv, [Next]_vars, NEW p \in Proc,
         \/ \E f \in Family : Login(p, f)
         \/ \E r \in Row : Refresh(p, r) \/ RefreshReused(p, r) \/ SignOut(p, r)
  PROVE  KeepInv'
<1>1. ReadInv /\ RevokeInv /\ SessionInv /\ call[p] = NoCall
  BY DEF KeepInv, ReadInv, RevokeInv, Login, Refresh, RefreshReused, SignOut
<1>2. call[p].op = "none"
  BY <1>1 DEF NoCall
<1>3. sess' = sess /\ fam' = fam /\ Moves(p)
  BY <1>1, Shape DEF Login, Refresh, RefreshReused, SignOut, Goto, Moves
<1>4. \/ call'[p].at = "insert_session"
      \/ call'[p].at = "read_family" /\ call'[p].op # "reset" /\ \E r \in given : call'[p].f = fam[r]
  <2>1. ASSUME NEW f \in Family, Login(p, f) PROVE call'[p].at = "insert_session"
    BY <1>1, <2>1, Shape DEF Login, Goto, NoCall
  <2>2. ASSUME NEW r \in Row, Refresh(p, r) PROVE call'[p].at = "insert_session"
    BY <1>1, <2>2, Shape DEF Refresh, Goto, NoCall
  <2>3. ASSUME NEW r \in Row, RefreshReused(p, r)
        PROVE  r \in given /\ call'[p].at = "read_family" /\ call'[p].op # "reset" /\ call'[p].f = fam[r]
    BY <1>1, <2>3, Shape DEF RefreshReused, Goto, NoCall
  <2>4. ASSUME NEW r \in Row, SignOut(p, r)
        PROVE  r \in given /\ call'[p].at = "read_family" /\ call'[p].op # "reset" /\ call'[p].f = fam[r]
    BY <1>1, <2>4, Shape DEF SignOut, Goto, NoCall
  <2> QED  BY <2>1, <2>2, <2>3, <2>4
<1>5. HasRead(call[p])'
  <2>1. ASSUME NEW r \in given PROVE fam[r] \in Family /\ r \in OfFamily(fam[r])
    BY <1>1, Shape DEF SessionInv, FormInv, LinkedIsInserted, OfFamily
  <2>2. \A g \in Family : (OfFamily(g))' = OfFamily(g)
    BY <1>3 DEF OfFamily
  <2>3. call'[p].at = "read_family" => call'[p].f \in Family /\ {r \in Row : fam'[r] = call'[p].f} # {}
    BY <1>3, <1>4, <2>1, <2>2 DEF OfFamily
  <2> QED  BY <1>4, <2>3 DEF HasRead, OfFamily
<1>6. Grows /\ ReadInv'
  BY <1>1, <1>3, <1>5, FamiliesGrow, StepHasRead
<1> QED  BY <1>2, <1>3, <1>4, <1>6, SessionsKept DEF Revoking, Holding

LEMMA KeepMove ==
  ASSUME KeepInv, [Next]_vars, NEW p \in Proc,
         MarkReplaced(p) \/ ReadOthers(p) \/ ReadFamily(p) \/ RevokeTokens(p)
  PROVE  KeepInv'
<1>1. ReadInv /\ RevokeInv /\ SessionInv /\ HasRead(call[p]) /\ call[p] \in Calls
  BY Sides DEF KeepInv, ReadInv, RevokeInv
<1>2. sess' = sess /\ fam' = fam /\ Moves(p)
  BY <1>1, Shape DEF MarkReplaced, ReadOthers, ReadFamily, RevokeTokens, Goto, Moves
<1>3. /\ call'[p].op = call[p].op /\ call'[p].f = call[p].f /\ call'[p].new = call[p].new
      /\ \/ call[p].at = "mark_replaced" /\ call'[p].at = "read_others"
         \/ call[p].at = "read_others" /\ call'[p].at = "revoke_others"
            /\ call'[p].ids = OfFamily(call[p].f) \ {call[p].new}
         \/ call[p].at = "read_family" /\ call'[p].at = "revoke_tokens"
            /\ call'[p].ids = OfFamily(call[p].f)
         \/ call[p].at = "revoke_tokens" /\ call'[p].at = "revoke_sessions"
            /\ call'[p].ids = call[p].ids /\ dead' = dead \cup OfFamily(call[p].f)
  <2>1. CASE MarkReplaced(p)
    BY <1>1, <2>1, Shape DEF MarkReplaced, Goto, Calls
  <2>2. CASE ReadOthers(p)
    BY <1>1, <2>2, Shape DEF ReadOthers, Goto, Calls
  <2>3. CASE ReadFamily(p)
    BY <1>1, <2>3, Shape DEF ReadFamily, Goto, Calls
  <2>4. CASE RevokeTokens(p)
    BY <1>1, <2>4, Shape DEF RevokeTokens, Goto, Calls
  <2> QED  BY <2>1, <2>2, <2>3, <2>4
<1>5. HasRead(call[p])'
  <2>1. OfFamily(call[p].f) = {r \in Row : fam'[r] = call'[p].f} /\ (OfFamily(call[p].f))' = {r \in Row : fam'[r] = call'[p].f}
    BY <1>2, <1>3 DEF OfFamily
  <2> QED  BY <1>1, <1>3, <2>1 DEF HasRead
<1>6. Grows /\ ReadInv'
  BY <1>1, <1>2, <1>5, FamiliesGrow, StepHasRead
<1> QED  BY <1>2, <1>3, <1>6, SessionsKept DEF Holding

LEMMA KeepInsertSession ==
  ASSUME KeepInv, [Next]_vars, NEW p \in Proc, InsertSession(p)
  PROVE  KeepInv'
<1>1. ReadInv /\ RevokeInv /\ SessionInv /\ call[p] \in Calls /\ call[p].op \in Issuing
  BY Sides DEF KeepInv, ReadInv, RevokeInv, InsertSession
<1>2. fam' = fam /\ Moves(p)
  BY <1>1, Shape DEF InsertSession, Goto, Moves
<1>3. PICK n \in Row : sess' = [sess EXCEPT ![n] = "live"] /\ Goto(p, [call[p] EXCEPT !.at = "insert_refresh", !.new = n])
  BY DEF InsertSession
<1>4. call'[p].at = "insert_refresh" /\ call'[p].new = n
  BY <1>1, <1>3, Shape DEF Goto, Calls
<1>5. sess'[n] = "live" /\ \A r \in Row : sess[r] = "live" => sess'[r] = "live"
  BY <1>1, <1>3, Shape
<1>6. Grows /\ ReadInv'
  BY <1>1, <1>2, <1>4, FamiliesGrow, StepHasRead DEF HasRead
<1> SUFFICES ASSUME NEW f \in Family, Undisturbed(f)' PROVE KeepsItsSession(f)'
  BY <1>6 DEF KeepInv
<1>7. KeepsItsSession(f)
  BY <1>1, <1>2, <1>6, UndisturbedBefore DEF KeepInv, Issuing, Revoking
<1>8. OfFamily(f)' = OfFamily(f) /\ LiveOf(f) \subseteq LiveOf(f)'
  BY <1>2, <1>5 DEF OfFamily, LiveOf
<1>9. ASSUME NEW q \in Proc \ {p}, call'[q].f = f, call'[q].at \in Holding PROVE sess'[call'[q].new] = "live"
  <2>1. call'[q] = call[q] /\ sess[call[q].new] = "live"
    BY <1>2, <1>7, <1>9 DEF Moves, KeepsItsSession
  <2>2. call[q].new \in Row
    BY <1>9, <2>1 DEF RevokeInv, SessionInv, FormInv, CallOK, Holding, KeepInv, ReadInv
  <2> QED  BY <1>5, <2>1, <2>2
<1> QED  BY <1>4, <1>5, <1>7, <1>8, <1>9 DEF KeepsItsSession

LEMMA KeepInsertRefresh ==
  ASSUME KeepInv, [Next]_vars, NEW p \in Proc, InsertRefresh(p)
  PROVE  KeepInv'
<1> DEFINE n == call[p].new
           g == call[p].f
<1>1. ReadInv /\ RevokeInv /\ SessionInv /\ call[p] \in Calls /\ call[p].op \in Issuing /\ call[p].at = "insert_refresh"
  BY Sides DEF KeepInv, ReadInv, RevokeInv, InsertRefresh
<1>2. n \in Row /\ fam[n] = NoFamily /\ g \in Family
  BY <1>1 DEF SessionInv, FormInv, CallOK
<1>3. sess' = sess /\ Moves(p) /\ fam' = [fam EXCEPT ![n] = g]
  BY <1>1, Shape DEF InsertRefresh, Goto, Moves
<1>4. call'[p] = NoCall \/ (call'[p].at \in {"mark_replaced", "read_others"} /\ call'[p].f = g /\ call'[p].new = n)
  BY <1>1, Shape DEF InsertRefresh, Goto, Calls
<1>5. HasRead(call[p])'
  <2>1. NoCall.at = "idle"
    BY DEF NoCall
  <2> QED  BY <1>4, <2>1 DEF HasRead
<1>6. Grows /\ ReadInv'
  BY <1>1, <1>3, <1>5, FamiliesGrow, StepHasRead
<1> SUFFICES ASSUME NEW f \in Family, Undisturbed(f)' PROVE KeepsItsSession(f)'
  BY <1>6 DEF KeepInv
<1>7. KeepsItsSession(f)
  BY <1>1, <1>3, <1>6, UndisturbedBefore DEF KeepInv, Issuing, Revoking
<1>8. fam'[n] = g /\ \A r \in Row \ {n} : fam'[r] = fam[r]
  BY <1>1, <1>2, <1>3, Shape
<1>9. ASSUME OfFamily(f)' # {} PROVE LiveOf(f)' # {}
  <2>1. CASE f = g
    <3>1. sess[n] = "live"
      BY <1>1, <1>7, <2>1 DEF KeepsItsSession, Holding
    <3> QED  BY <1>2, <1>3, <1>8, <2>1, <3>1 DEF LiveOf, OfFamily
  <2>2. CASE f # g
    <3>1. OfFamily(f)' = OfFamily(f) /\ LiveOf(f)' = LiveOf(f)
      BY <1>2, <1>3, <1>8, <2>2, AuthAssumption DEF OfFamily, LiveOf
    <3> QED  BY <1>7, <1>9, <3>1 DEF KeepsItsSession
  <2> QED  BY <2>1, <2>2
<1>10. ASSUME NEW q \in Proc, call'[q].f = f, call'[q].at \in Holding PROVE sess'[call'[q].new] = "live"
  <2>1. NoCall.at \notin Holding
    BY DEF NoCall, Holding
  <2>2. call[q].f = f /\ call[q].at \in Holding /\ call'[q].new = call[q].new
    BY <1>1, <1>3, <1>4, <1>10, <2>1 DEF Moves, Holding
  <2> QED  BY <1>3, <1>7, <2>2 DEF KeepsItsSession
<1> QED  BY <1>9, <1>10 DEF KeepsItsSession

\* The only refresh of its family: its own session is what remains.
LEMMA KeepRevokeOthers ==
  ASSUME KeepInv, RefreshesApart, [Next]_vars, NEW p \in Proc, RevokeOthers(p)
  PROVE  KeepInv'
<1> DEFINE n == call[p].new
           g == call[p].f
<1>1. /\ ReadInv /\ RevokeInv /\ SessionInv /\ call[p] \in Calls /\ call[p].op \in Issuing
      /\ call[p].at = "revoke_others" /\ HasRead(call[p])
  BY Sides DEF KeepInv, ReadInv, RevokeInv, RevokeOthers
<1>2. n \in Row /\ fam[n] = g /\ g \in Family
  BY <1>1 DEF SessionInv, FormInv, CallOK
<1>3. Moves(p) /\ fam' = fam /\ sess' = Revoked(call[p].ids) /\ call'[p] = NoCall
  BY <1>1, Shape DEF RevokeOthers, Goto, Moves
<1>4. NoCall.at = "idle" /\ NoCall.at \notin Holding
  BY DEF NoCall, Holding
<1>5. HasRead(call[p])'
  BY <1>3, <1>4 DEF HasRead
<1>6. Grows /\ ReadInv'
  BY <1>1, <1>3, <1>5, FamiliesGrow, StepHasRead
<1> SUFFICES ASSUME NEW f \in Family, Undisturbed(f)' PROVE KeepsItsSession(f)'
  BY <1>6 DEF KeepInv
<1>7. KeepsItsSession(f)
  BY <1>1, <1>3, <1>6, UndisturbedBefore DEF KeepInv, Issuing, Revoking
<1>8. call[p].ids \subseteq OfFamily(g) \ {n}
  BY <1>1 DEF HasRead
<1>9. CASE f = g
  <2>1. sess'[n] = "live"
    BY <1>1, <1>2, <1>3, <1>7, <1>8, <1>9 DEF Revoked, KeepsItsSession, Holding
  <2>2. LiveOf(f)' # {}
    BY <1>2, <1>3, <1>9, <2>1 DEF LiveOf, OfFamily
  <2>3. ASSUME NEW q \in Proc, call'[q].f = f, call'[q].at \in Holding PROVE FALSE
    <3>1. q # p /\ call[q].f = g /\ call[q].at \in Holding
      BY <1>3, <1>4, <1>9, <2>3 DEF Moves
    <3>2. call[q].op \in Issuing
      BY <1>1, <3>1, Sides DEF Holding
    <3> QED  BY <1>1, <3>1, <3>2 DEF RefreshesApart
  <2> QED  BY <2>2, <2>3 DEF KeepsItsSession
<1>10. CASE f # g
  <2>1. \A r \in Row \ call[p].ids : sess'[r] = sess[r]
    BY <1>3 DEF Revoked
  <2>2. \A r \in LiveOf(f) : sess'[r] = "live"
    BY <1>8, <1>10, <2>1 DEF LiveOf, OfFamily
  <2>3. ASSUME NEW q \in Proc, call[q].f = f, call[q].at \in Holding PROVE sess'[call[q].new] = "live"
    <3>1. call[q].new \in Row /\ fam[call[q].new] \in {NoFamily, f}
      BY <1>1, <2>3 DEF SessionInv, FormInv, CallOK, Holding
    <3>2. call[q].new \notin call[p].ids
      BY <1>2, <1>8, <1>10, <3>1, AuthAssumption DEF OfFamily
    <3> QED  BY <1>7, <2>1, <2>3, <3>1, <3>2 DEF KeepsItsSession
  <2> QED  BY <1>3, <1>4, <1>7, <2>2, <2>3, NothingLost
<1> QED  BY <1>9, <1>10

LEMMA KeepRevokeSessions ==
  ASSUME KeepInv, [Next]_vars, NEW p \in Proc, RevokeSessions(p)
  PROVE  KeepInv'
<1> DEFINE g == call[p].f
<1>1. /\ ReadInv /\ RevokeInv /\ SessionInv /\ call[p] \in Calls /\ call[p].op \in Revoking
      /\ call[p].at = "revoke_sessions" /\ HasRead(call[p])
  BY Sides DEF KeepInv, ReadInv, RevokeInv, RevokeSessions
<1>2. g \in Family /\ call[p].ids \subseteq OfFamily(g) /\ OfFamily(g) \cap dead # {}
  BY <1>1 DEF HasRead
<1>3. Moves(p) /\ fam' = fam /\ dead' = dead /\ sess' = Revoked(call[p].ids) /\ call'[p] = NoCall
  BY <1>1, Shape DEF RevokeSessions, Goto, Moves
<1>4. NoCall.at = "idle" /\ NoCall.at \notin Holding
  BY DEF NoCall, Holding
<1>5. HasRead(call[p])'
  BY <1>3, <1>4 DEF HasRead
<1>6. Grows /\ ReadInv'
  BY <1>1, <1>3, <1>5, FamiliesGrow, StepHasRead
<1> SUFFICES ASSUME NEW f \in Family, Undisturbed(f)' PROVE KeepsItsSession(f)'
  BY <1>6 DEF KeepInv
<1>7. OfFamily(f) = OfFamily(f)' /\ f # g
  BY <1>2, <1>3 DEF OfFamily, Undisturbed
<1>8. KeepsItsSession(f)
  <2>1. ~Touches(p, f)
    BY <1>1, <1>7 DEF HasRead, Touches
  <2>2. Undisturbed(f)
    BY <1>3, <1>6, <1>7, <2>1 DEF Undisturbed, Moves, Grows, Touches
  <2> QED  BY <2>2 DEF KeepInv
<1>9. \A r \in Row \ call[p].ids : sess'[r] = sess[r]
  BY <1>3 DEF Revoked
<1>10. \A r \in LiveOf(f) : sess'[r] = "live"
  BY <1>2, <1>7, <1>9 DEF LiveOf, OfFamily
<1>11. ASSUME NEW q \in Proc, call[q].f = f, call[q].at \in Holding PROVE sess'[call[q].new] = "live"
  <2>1. call[q].new \in Row /\ fam[call[q].new] \in {NoFamily, f}
    BY <1>1, <1>11 DEF SessionInv, FormInv, CallOK, Holding
  <2>2. call[q].new \notin call[p].ids
    BY <1>2, <1>7, <2>1, AuthAssumption DEF OfFamily
  <2> QED  BY <1>8, <1>9, <1>11, <2>1, <2>2 DEF KeepsItsSession
<1> QED  BY <1>3, <1>4, <1>8, <1>10, <1>11, NothingLost

LEMMA KeepReset ==
  ASSUME KeepInv, [Next]_vars, NEW p \in Proc, ResetSessions(p) \/ ResetTokens(p)
  PROVE  KeepInv'
<1>1. ReadInv /\ RevokeInv /\ SessionInv
  BY DEF KeepInv, ReadInv, RevokeInv
<1>2. Moves(p) /\ fam' = fam
  BY <1>1, Shape DEF ResetSessions, ResetTokens, Goto, Moves
<1>3. CASE ResetSessions(p)
  <2>1. call'[p].at = "reset_tokens" /\ call'[p].op = "reset"
    BY <1>1, <1>3, Shape DEF ResetSessions, Goto, NoCall
  <2>2. ReadInv'
    BY <1>1, <1>2, <2>1, StepHasRead DEF HasRead
  <2>3. \A f \in Family : ~Undisturbed(f)'
    BY <2>1 DEF Undisturbed, Touches, Revoking
  <2> QED  BY <2>2, <2>3 DEF KeepInv
<1>4. CASE ResetTokens(p)
  <2>1. call[p].op = "reset"
    BY <1>1, <1>4 DEF ResetTokens, RevokeInv, RevokesAFamily
  <2>2. call'[p].at = "idle" /\ call'[p].at \notin Holding
    BY <1>1, <1>4, Shape DEF ResetTokens, Goto, NoCall, Holding
  <2>3. Grows /\ ReadInv'
    BY <1>1, <1>2, <2>2, FamiliesGrow, StepHasRead DEF HasRead
  <2> SUFFICES ASSUME NEW f \in Family, Undisturbed(f)' PROVE KeepsItsSession(f)'
    BY <2>3 DEF KeepInv
  <2>4. OfFamily(f)' = {}
    BY <1>2, <1>4, AuthAssumption DEF ResetTokens, Undisturbed, OfFamily
  <2>5. \A q \in Proc : call[q].op \in Issuing => call[q].f # f
    BY <1>1, <2>1, <2>3 DEF RevokeInv, Undisturbed, Unraced, OneSideAtATime, Touches, Revoking, Grows
  <2>6. \A q \in Proc : call[q].at \in Holding => call[q].f # f
    BY <1>1, <2>5, Sides DEF Holding
  <2>7. \A q \in Proc : call'[q].at \in Holding => call'[q].f # f
    BY <1>2, <2>2, <2>6 DEF Moves
  <2> QED  BY <2>4, <2>7 DEF KeepsItsSession
<1> QED  BY <1>3, <1>4

LEMMA KeepRest ==
  ASSUME KeepInv, [Next]_vars, UNCHANGED <<sess, fam, dead, call, raced>>
  PROVE  KeepInv'
<1>1. ReadInv /\ RevokeInv'
  BY RevokeStep DEF KeepInv, ReadInv
<1>2. ReadInv'
  BY <1>1 DEF ReadInv, HasRead, OfFamily
<1>3. ASSUME NEW f \in Family, Undisturbed(f)' PROVE KeepsItsSession(f)'
  <2>1. Undisturbed(f)
    BY <1>3 DEF Undisturbed, OfFamily, Touches
  <2>2. KeepsItsSession(f)
    BY <2>1 DEF KeepInv
  <2> QED  BY <2>2 DEF KeepsItsSession, LiveOf, OfFamily
<1> QED  BY <1>2, <1>3 DEF KeepInv

LEMMA KeepStep == KeepInv /\ RefreshesApart /\ [Next]_vars => KeepInv'
<1> SUFFICES ASSUME KeepInv, RefreshesApart, [Next]_vars PROVE KeepInv'
  OBVIOUS
<1>1. ASSUME NEW p \in Proc,
             (\E f \in Family : Login(p, f)) \/ \E r \in Row : Refresh(p, r) \/ RefreshReused(p, r) \/ SignOut(p, r)
      PROVE  KeepInv'
  BY <1>1, KeepStart
<1>2. ASSUME NEW p \in Proc, InsertSession(p) \/ InsertRefresh(p) PROVE KeepInv'
  BY <1>2, KeepInsertSession, KeepInsertRefresh
<1>3. ASSUME NEW p \in Proc, MarkReplaced(p) \/ ReadOthers(p) \/ ReadFamily(p) \/ RevokeTokens(p) PROVE KeepInv'
  BY <1>3, KeepMove
<1>4. ASSUME NEW p \in Proc, RevokeOthers(p) \/ RevokeSessions(p) PROVE KeepInv'
  BY <1>4, KeepRevokeOthers, KeepRevokeSessions
<1>5. ASSUME NEW p \in Proc, ResetSessions(p) \/ ResetTokens(p) PROVE KeepInv'
  BY <1>5, KeepReset
<1>6. ASSUME (\E r \in Row : GraceEnds(r)) \/ UNCHANGED vars PROVE KeepInv'
  <2>1. UNCHANGED <<sess, fam, dead, call, raced>>
    BY <1>6 DEF GraceEnds, vars
  <2> QED  BY <2>1, KeepRest
<1> QED  BY <1>1, <1>2, <1>3, <1>4, <1>5, <1>6 DEF Next

LEMMA SettledKeepsOne == KeepInv => ExactlyOneLiveSession
<1> SUFFICES ASSUME KeepInv, NEW f \in Family, Settled(f), OfFamily(f) # {}, OfFamily(f) \cap dead = {}, f \notin raced
             PROVE  \E r \in LiveOf(f) : LiveOf(f) = {r}
  BY DEF ExactlyOneLiveSession
<1>1. Undisturbed(f)
  BY DEF Undisturbed, Settled, Revoking
<1>2. PICK r \in LiveOf(f) : TRUE
  BY <1>1 DEF KeepInv, KeepsItsSession
<1>3. \A s \in LiveOf(f) : s = r
  BY SettledHasOne DEF KeepInv, ReadInv, RevokeInv, AtMostOneLiveSession
<1> QED  BY <1>3

\* Of "keeps exactly one live session per device after rotation" (service.ts)
\* nothing is wrong but that refreshes of one device overlap: where they come
\* one after the other, whatever other calls do meanwhile, the device keeps
\* exactly one live session until somebody signs it out.
THEOREM RefreshesApartKeepOneSession == Spec /\ []RefreshesApart => []ExactlyOneLiveSession
<1>1. KeepInv /\ RefreshesApart /\ [Next]_vars => KeepInv'
  BY KeepStep
<1> QED  BY InitialKeep, <1>1, SettledKeepsOne, PTL DEF Spec

==============================================================================
