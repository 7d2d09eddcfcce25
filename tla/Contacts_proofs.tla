---------------------------- MODULE Contacts_proofs ----------------------------
(***************************************************************************)
(* Two components that connect people.  ContactPair, for any number of     *)
(* overlapping calls, rows, conversations and invitations: nobody is       *)
(* connected without both being behind it, a response is never             *)
(* overwritten, and whoever has been told that they are connected is.      *)
(* DmCalls, for any users, pages and calls: nobody waits alone.            *)
(***************************************************************************)
EXTENDS ContactPair, DmCalls, WellFoundedInduction, FiniteSetTheorems, SequenceTheorems, TLAPS

(***************************************************************************)
(* Contacts.                                                               *)
(***************************************************************************)
Statuses == {"none", "pending", "accepted", "declined", "deleted"}

RecordForm(r) ==
  /\ r = [status |-> r.status, from |-> r.from, conv |-> r.conv, agreed |-> r.agreed]
  /\ r.status \in Statuses /\ r.from \in User /\ r.agreed \in SUBSET User

CallForm(k) ==
  /\ k = [at |-> k.at, op |-> k.op, u |-> k.u, c |-> k.c, v |-> k.v, i |-> k.i]
  /\ k.u \in User

\* The sender stands behind a row that waits, both behind one that was accepted.
Backed(r) ==
  /\ r.status = "pending" => r.from \in r.agreed
  /\ r.status = "accepted" => r.agreed = User

\* A call about to accept a row that still waits is not by its sender, unless it
\* redeems an invitation, to which both have agreed.
MayWrite(k, rows) ==
  /\ k.at = "update" =>
       /\ k.c \in Row /\ rows[k.c].status # "none"
       /\ k.op \in {"request", "accept", "decline", "redeem"}
       /\ k.op \in {"request", "accept"} /\ rows[k.c].status = "pending" => rows[k.c].from # k.u
  /\ k.at \in {"insert_accepted", "reread"} => k.op = "redeem"

ContactInv ==
  /\ row = [c \in Row |-> row[c]] /\ \A c \in Row : RecordForm(row[c]) /\ Backed(row[c])
  /\ call = [p \in Proc |-> call[p]] /\ \A p \in Proc : CallForm(call[p]) /\ MayWrite(call[p], row)

\* What a step may do to a row: insert it, settle it while it waits, or purge it.
RowMoves(r, s) ==
  \/ s = r
  \/ /\ RecordForm(s) /\ Backed(s) /\ s.status # "none"
     /\ \/ r.status = "none"
        \/ r.status = "pending" /\ s.status # "pending"
        \/ r.status = "declined" /\ s.status = "deleted"

LEMMA OtherDiffers ==
  ASSUME NEW u \in User
  PROVE  Other(u) \in User /\ Other(u) # u
<1>1. \E w \in User : w # u
  BY ContactAssumption DEF User
<1> QED  BY <1>1 DEF Other

LEMMA NoCallForm == CallForm(NoCall) /\ \A rows : MayWrite(NoCall, rows)
  BY DEF NoCall, CallForm, MayWrite, User

LEMMA NoRecordForm == RecordForm(NoRecord) /\ Backed(NoRecord) /\ NoRecord.status = "none"
  BY DEF NoRecord, RecordForm, Backed, Statuses, User

\* A call that goes on keeps what it has, but for where it is and what it read.
Going(e, k, a, x) == CallForm(e) /\ e.at = a /\ e.op = k.op /\ e.u = k.u /\ e.c = x

LEMMA CallFields ==
  ASSUME NEW k, CallForm(k), NEW a, NEW x, NEW w
  PROVE  /\ Going([k EXCEPT !.at = a], k, a, k.c)
         /\ Going([k EXCEPT !.at = a, !.v = w], k, a, k.c)
         /\ Going([k EXCEPT !.at = a, !.c = x], k, a, x)
         /\ Going([k EXCEPT !.at = a, !.c = x, !.v = w], k, a, x)
<1> DEFINE l == [k EXCEPT !.at = a]
           m == [l EXCEPT !.c = x]
           n == [l EXCEPT !.v = w]
           o == [m EXCEPT !.v = w]
<1>0. k.u \in User
  BY DEF CallForm
<1>1. l = [at |-> a, op |-> k.op, u |-> k.u, c |-> k.c, v |-> k.v, i |-> k.i]
  BY DEF CallForm
<1> HIDE DEF l
<1>3. n = [at |-> a, op |-> k.op, u |-> k.u, c |-> k.c, v |-> w, i |-> k.i]
  BY <1>1
<1>4. m = [at |-> a, op |-> k.op, u |-> k.u, c |-> x, v |-> k.v, i |-> k.i]
  BY <1>1
<1> HIDE DEF m, n
<1>5. o = [at |-> a, op |-> k.op, u |-> k.u, c |-> x, v |-> w, i |-> k.i]
  BY <1>4
<1> HIDE DEF o
<1>6. Going(l, k, a, k.c) /\ Going(n, k, a, k.c) /\ Going(m, k, a, x) /\ Going(o, k, a, x)
  BY <1>0, <1>1, <1>3, <1>4, <1>5 DEF CallForm, Going
<1> QED  BY <1>6 DEF l, m, n, o

\* Wherever else a call goes, it does not write a row.
LEMMA CallAt ==
  ASSUME NEW k, CallForm(k), NEW a, a \notin {"update", "insert_accepted", "reread"}, NEW w
  PROVE  /\ CallForm([k EXCEPT !.at = a]) /\ \A rows : MayWrite([k EXCEPT !.at = a], rows)
         /\ CallForm([k EXCEPT !.at = a, !.v = w]) /\ \A rows : MayWrite([k EXCEPT !.at = a, !.v = w], rows)
<1>1. ASSUME NEW e, NEW x, Going(e, k, a, x) PROVE CallForm(e) /\ \A rows : MayWrite(e, rows)
  BY <1>1 DEF MayWrite, Going
<1>2. Going([k EXCEPT !.at = a], k, a, k.c) /\ Going([k EXCEPT !.at = a, !.v = w], k, a, k.c)
  BY CallFields
<1> QED  BY <1>1, <1>2, Zenon

\* What a call starts with.
Begun(k, a, o, u, x) == CallForm(k) /\ k.at = a /\ k.op = o /\ k.u = u /\ k.c = x

LEMMA NewCall ==
  ASSUME NEW a, NEW o, NEW u \in User, NEW x, NEW w, NEW j
  PROVE  /\ Begun([NoCall EXCEPT !.at = a, !.op = o, !.u = u], a, o, u, NoRow)
         /\ Begun([NoCall EXCEPT !.at = a, !.op = o, !.u = u, !.i = j], a, o, u, NoRow)
         /\ Begun([NoCall EXCEPT !.at = a, !.op = o, !.i = j], a, o, Inviter, NoRow)
         /\ Begun([NoCall EXCEPT !.at = a, !.op = o, !.u = u, !.c = x, !.v = w], a, o, u, x)
<1> DEFINE l == [NoCall EXCEPT !.at = a]
           m == [l EXCEPT !.op = o]
           n == [m EXCEPT !.u = u]
           q == [n EXCEPT !.c = x]
<1>1. l = [at |-> a, op |-> "none", u |-> Inviter, c |-> NoRow, v |-> NoConv, i |-> NoInvite]
  BY DEF NoCall
<1> HIDE DEF l
<1>2. m = [at |-> a, op |-> o, u |-> Inviter, c |-> NoRow, v |-> NoConv, i |-> NoInvite]
  BY <1>1
<1> HIDE DEF m
<1>3. n = [at |-> a, op |-> o, u |-> u, c |-> NoRow, v |-> NoConv, i |-> NoInvite]
  BY <1>2
<1>4. [m EXCEPT !.i = j] = [at |-> a, op |-> o, u |-> Inviter, c |-> NoRow, v |-> NoConv, i |-> j]
  BY <1>2
<1> HIDE DEF n
<1>5. [n EXCEPT !.i = j] = [at |-> a, op |-> o, u |-> u, c |-> NoRow, v |-> NoConv, i |-> j]
  BY <1>3
<1>6. q = [at |-> a, op |-> o, u |-> u, c |-> x, v |-> NoConv, i |-> NoInvite]
  BY <1>3
<1> HIDE DEF q
<1>7. [q EXCEPT !.v = w] = [at |-> a, op |-> o, u |-> u, c |-> x, v |-> w, i |-> NoInvite]
  BY <1>6
<1>8. Inviter \in User
  BY DEF User
<1> HIDE DEF NoCall
<1>9. Begun(n, a, o, u, NoRow)
  BY <1>3 DEF CallForm, Begun
<1>10. Begun([n EXCEPT !.i = j], a, o, u, NoRow)
  BY <1>5 DEF CallForm, Begun
<1>11. Begun([m EXCEPT !.i = j], a, o, Inviter, NoRow)
  BY <1>4, <1>8 DEF CallForm, Begun
<1>12. Begun([q EXCEPT !.v = w], a, o, u, x)
  BY <1>7 DEF CallForm, Begun
<1> QED  BY <1>9, <1>10, <1>11, <1>12 DEF l, m, n, q

LEMMA ContactInitial == Init => ContactInv
<1> SUFFICES ASSUME Init PROVE ContactInv
  OBVIOUS
<1>1. row = [c \in Row |-> NoRecord] /\ call = [p \in Proc |-> NoCall]
  BY DEF Init
<1>2. \A c \in Row : row[c] = NoRecord
  BY <1>1
<1>3. \A p \in Proc : call[p] = NoCall
  BY <1>1
<1>4. row = [c \in Row |-> row[c]] /\ call = [p \in Proc |-> call[p]]
  BY <1>1
<1> QED  BY <1>2, <1>3, <1>4, NoCallForm, NoRecordForm DEF ContactInv

\* Call p goes on to k, and every row makes a move or none.
LEMMA ContactMoves ==
  ASSUME ContactInv, row' = [c \in Row |-> row'[c]], \A c \in Row : RowMoves(row[c], row'[c]),
         NEW p \in Proc, NEW k, Goto(p, k), CallForm(k), MayWrite(k, row')
  PROVE  ContactInv'
<1>1. \A c \in Row : RecordForm(row'[c]) /\ Backed(row'[c])
  BY DEF ContactInv, RowMoves
<1>2. call' = [q \in Proc |-> IF q = p THEN k ELSE call[q]]
  BY DEF ContactInv, Goto
<1>3. ASSUME NEW q \in Proc, q # p PROVE MayWrite(call[q], row')
  <2>1. MayWrite(call[q], row)
    BY DEF ContactInv
  <2>2. \A c \in Row : /\ row[c].status # "none" => row'[c].status # "none"
                       /\ row[c].status # "none" /\ row'[c].status = "pending" => row'[c] = row[c]
    BY DEF RowMoves
  <2> QED  BY <2>1, <2>2 DEF MayWrite
<1>4. \A q \in Proc : CallForm(call'[q]) /\ MayWrite(call'[q], row')
  BY <1>2, <1>3 DEF ContactInv
<1> QED  BY <1>1, <1>2, <1>4 DEF ContactInv

\* The same for a step that leaves the rows alone.
LEMMA ContactGoes ==
  ASSUME ContactInv, row' = row, NEW p \in Proc, NEW k, Goto(p, k), CallForm(k), MayWrite(k, row)
  PROVE  ContactInv' /\ \A c \in Row : RowMoves(row[c], row'[c])
<1>1. \A c \in Row : RowMoves(row[c], row'[c])
  BY DEF RowMoves
<1>2. row' = [c \in Row |-> row'[c]]
  BY DEF ContactInv
<1> QED  BY <1>1, <1>2, ContactMoves

\* An INSERT takes a place no row ever had.
LEMMA InsertMoves ==
  ASSUME ContactInv, NEW r, Inserted(r), RecordForm(r), Backed(r), r.status # "none"
  PROVE  row' = [c \in Row |-> row'[c]] /\ \A c \in Row : RowMoves(row[c], row'[c])
<1>1. PICK c \in Row : row[c].status = "none" /\ row' = [row EXCEPT ![c] = r]
  BY DEF Inserted
<1>2. row' = [d \in Row |-> IF d = c THEN r ELSE row[d]]
  BY <1>1 DEF ContactInv
<1> QED  BY <1>1, <1>2 DEF RowMoves

\* upsertAcceptedContact leads a redeeming call to an active row, or on.
LEMMA UpsertGoes ==
  ASSUME ContactInv, NEW p \in Proc, call[p].op = "redeem", NEW none \in {"insert_accepted", "post_connected"}
  PROVE  CallForm(Upsert(p, none)) /\ MayWrite(Upsert(p, none), row)
<1>1. CallForm(call[p])
  BY DEF ContactInv
<1>2. CASE ActiveRows = {}
  BY <1>1, <1>2 DEF Upsert, CallForm, MayWrite
<1>3. CASE ActiveRows # {}
  <2> DEFINE c == CHOOSE c \in ActiveRows : TRUE
  <2>1. c \in Row /\ row[c].status \in {"pending", "accepted"}
    BY <1>3 DEF ActiveRows
  <2> HIDE DEF c
  <2>2. \/ Upsert(p, none) = [call[p] EXCEPT !.at = "post_connected"]
        \/ Upsert(p, none) = [call[p] EXCEPT !.at = "update", !.c = c]
    BY <1>3 DEF Upsert, c
  <2> QED  BY <1>1, <2>1, <2>2 DEF CallForm, MayWrite
<1> QED  BY <1>2, <1>3

------------------------------------------------------------------------------
\* A request reads the active row, then the conversation, and inserts.
LEMMA RequestStep ==
  ASSUME ContactInv, NEW p \in Proc, NEW u \in User, Request(p, u)
  PROVE  ContactInv' /\ \A c \in Row : RowMoves(row[c], row'[c])
<1> DEFINE k == [NoCall EXCEPT !.at = "read_active", !.op = "request", !.u = u]
<1>1. Begun(k, "read_active", "request", u, NoRow)
  BY NewCall, Zenon
<1>7. Goto(p, k)
  BY DEF Request
<1> HIDE DEF k
<1>6. CallForm(k) /\ MayWrite(k, row')
  BY <1>1 DEF MayWrite, Begun
<1>2. PICK old \in SUBSET {c \in Row : row[c].status = "declined"} :
        row' = [c \in Row |-> IF c \in old THEN [NoRecord EXCEPT !.status = "deleted"] ELSE row[c]]
  BY DEF Request
<1>3. RecordForm([NoRecord EXCEPT !.status = "deleted"]) /\ Backed([NoRecord EXCEPT !.status = "deleted"])
      /\ [NoRecord EXCEPT !.status = "deleted"].status = "deleted"
  BY DEF NoRecord, RecordForm, Backed, Statuses, User
<1>4. \A c \in Row : RowMoves(row[c], row'[c])
  BY <1>2, <1>3 DEF RowMoves
<1>5. row' = [c \in Row |-> row'[c]]
  BY <1>2
<1> QED  BY <1>1, <1>4, <1>5, <1>6, <1>7, ContactMoves

LEMMA ReadingStep ==
  ASSUME ContactInv, NEW p \in Proc, ReadActive(p) \/ ReadConv(p) \/ CreateConv(p) \/ PostWants(p)
  PROVE  ContactInv' /\ \A c \in Row : RowMoves(row[c], row'[c])
<1>0. CallForm(call[p])
  BY DEF ContactInv
<1>1. CASE ReadActive(p)
  <2>1. CASE Goto(p, [call[p] EXCEPT !.at = "read_conv"])
    BY <1>0, <1>1, <2>1, CallAt, ContactGoes DEF ReadActive
  <2>2. CASE Goto(p, NoCall)
    BY <1>1, <2>2, NoCallForm, ContactGoes DEF ReadActive
  <2>3. ASSUME NEW c \in ActiveRows, row[c].status = "pending", row[c].from # call[p].u,
               Goto(p, [call[p] EXCEPT !.at = "update", !.c = c, !.v = row[c].conv])
        PROVE  ContactInv' /\ \A d \in Row : RowMoves(row[d], row'[d])
    <3> DEFINE k == [call[p] EXCEPT !.at = "update", !.c = c, !.v = row[c].conv]
    <3>1. call[p].op = "request" /\ row' = row /\ c \in Row
      BY <1>1 DEF ReadActive, ActiveRows
    <3>2. CallForm(k) /\ MayWrite(k, row)
      <4>1. Going(k, call[p], "update", c)
        BY <1>0, CallFields, Zenon
      <4> HIDE DEF k
      <4> QED  BY <2>3, <3>1, <4>1 DEF MayWrite, Going
    <3> QED  BY <2>3, <3>1, <3>2, ContactGoes
  <2> QED  BY <1>1, <2>1, <2>2, <2>3 DEF ReadActive
<1>2. CASE ReadConv(p)
  <2>0. row' = row
    BY <1>2 DEF ReadConv
  <2>1. CASE Goto(p, [call[p] EXCEPT !.at = "create_conv"])
    BY <1>0, <2>0, <2>1, CallAt, ContactGoes
  <2>2. ASSUME NEW v, Goto(p, [call[p] EXCEPT !.at = "insert", !.v = v])
        PROVE  ContactInv' /\ \A c \in Row : RowMoves(row[c], row'[c])
    BY <1>0, <2>0, <2>2, CallAt, ContactGoes
  <2> QED  BY <1>2, <2>1, <2>2 DEF ReadConv
<1>3. CASE CreateConv(p)
  <2>1. PICK v : Goto(p, [call[p] EXCEPT !.at = "insert", !.v = v])
    BY <1>3 DEF CreateConv
  <2>2. row' = row
    BY <1>3 DEF CreateConv
  <2> QED  BY <1>0, <2>1, <2>2, CallAt, ContactGoes
<1>4. CASE PostWants(p)
  BY <1>4, NoCallForm, ContactGoes DEF PostWants
<1> QED  BY <1>1, <1>2, <1>3, <1>4

LEMMA InsertRequestStep ==
  ASSUME ContactInv, NEW p \in Proc, InsertRequest(p)
  PROVE  ContactInv' /\ \A c \in Row : RowMoves(row[c], row'[c])
<1>0. CallForm(call[p])
  BY DEF ContactInv
<1> DEFINE r == [status |-> "pending", from |-> call[p].u, conv |-> call[p].v, agreed |-> {call[p].u}]
<1>1. CASE Inserted(r) /\ Goto(p, [call[p] EXCEPT !.at = "post_wants"])
  <2>1. RecordForm(r) /\ Backed(r) /\ r.status # "none"
    BY <1>0 DEF RecordForm, Backed, Statuses, CallForm
  <2>2. CallForm([call[p] EXCEPT !.at = "post_wants"]) /\ MayWrite([call[p] EXCEPT !.at = "post_wants"], row')
    BY <1>0 DEF CallForm, MayWrite
  <2> HIDE DEF r
  <2>3. row' = [c \in Row |-> row'[c]] /\ \A c \in Row : RowMoves(row[c], row'[c])
    BY <1>1, <2>1, InsertMoves
  <2> QED  BY <1>1, <2>2, <2>3, ContactMoves
<1>2. CASE Goto(p, NoCall) /\ row' = row
  BY <1>2, NoCallForm, ContactGoes
<1> QED  BY <1>1, <1>2 DEF InsertRequest

------------------------------------------------------------------------------
\* The addressee answers, or the sender takes the request back.
LEMMA RespondStep ==
  ASSUME ContactInv, NEW p \in Proc, NEW c \in Row, NEW op \in {"accept", "decline"}, Respond(p, c, op)
  PROVE  ContactInv' /\ \A d \in Row : RowMoves(row[d], row'[d])
<1> DEFINE k == [NoCall EXCEPT !.at = "update", !.op = op, !.u = Other(row[c].from), !.c = c, !.v = row[c].conv]
<1>1. row[c].from \in User /\ row[c].status = "pending" /\ row' = row /\ Goto(p, k)
  BY DEF Respond, ContactInv, RecordForm
<1>2. Other(row[c].from) \in User /\ Other(row[c].from) # row[c].from
  BY <1>1, OtherDiffers
<1>3. Begun(k, "update", op, Other(row[c].from), c)
  BY <1>2, NewCall, Zenon
<1> HIDE DEF k
<1>4. CallForm(k) /\ MayWrite(k, row)
  BY <1>1, <1>2, <1>3 DEF MayWrite, Begun
<1> QED  BY <1>1, <1>4, ContactGoes

LEMMA WithdrawStep ==
  ASSUME ContactInv, NEW p \in Proc, NEW c \in Row, Withdraw(p, c)
  PROVE  ContactInv' /\ \A d \in Row : RowMoves(row[d], row'[d])
<1> DEFINE k == [NoCall EXCEPT !.at = "delete_lines", !.op = "withdraw", !.u = row[c].from, !.c = c, !.v = row[c].conv]
<1>1. row[c].from \in User /\ row' = row /\ Goto(p, k)
  BY DEF Withdraw, ContactInv, RecordForm
<1>2. Begun(k, "delete_lines", "withdraw", row[c].from, c)
  BY <1>1, NewCall, Zenon
<1> HIDE DEF k
<1>3. CallForm(k) /\ MayWrite(k, row)
  BY <1>2 DEF MayWrite, Begun
<1> QED  BY <1>1, <1>3, ContactGoes

LEMMA UpdateStep ==
  ASSUME ContactInv, NEW p \in Proc, Update(p)
  PROVE  ContactInv' /\ \A d \in Row : RowMoves(row[d], row'[d])
<1> DEFINE c == call[p].c
           s == IF call[p].op = "decline" THEN "declined" ELSE "accepted"
           g == IF call[p].op = "decline" THEN row[c].agreed ELSE Agreed(p)
           r == [status |-> s, from |-> row[c].from, conv |-> row[c].conv, agreed |-> g]
<1>1. CallForm(call[p]) /\ MayWrite(call[p], row) /\ call[p].at = "update"
  BY DEF ContactInv, Update
<1>2. c \in Row /\ RecordForm(row[c]) /\ Backed(row[c])
  BY <1>1 DEF MayWrite, ContactInv
<1>3. row[c].status # "pending" => row' = row
  BY DEF Update
<1>4. row[c].status = "pending" => row' = [d \in Row |-> IF d = c THEN r ELSE row[d]]
  <2> SUFFICES ASSUME row[c].status = "pending" PROVE row' = [d \in Row |-> IF d = c THEN r ELSE row[d]]
    OBVIOUS
  <2>1. row' = [row EXCEPT ![c] = [row[c] EXCEPT !.status = s, !.agreed = g]]
    BY DEF Update
  <2>2. row[c] = [status |-> row[c].status, from |-> row[c].from, conv |-> row[c].conv, agreed |-> row[c].agreed]
    BY <1>2 DEF RecordForm
  <2>3. [row[c] EXCEPT !.status = s, !.agreed = g] = r
    <3> DEFINE m == [row[c] EXCEPT !.status = s]
    <3> HIDE DEF s, g
    <3>1. m = [status |-> s, from |-> row[c].from, conv |-> row[c].conv, agreed |-> row[c].agreed]
      BY <2>2
    <3> HIDE DEF m
    <3>2. [m EXCEPT !.agreed = g] = r
      BY <3>1
    <3> QED  BY <3>2 DEF m
  <2> QED  BY <1>2, <2>1, <2>3 DEF ContactInv
<1>5. row[c].status = "pending" => RecordForm(r) /\ Backed(r) /\ r.status \notin {"none", "pending"}
  <2> SUFFICES ASSUME row[c].status = "pending" PROVE RecordForm(r) /\ Backed(r) /\ r.status \notin {"none", "pending"}
    OBVIOUS
  <2>1. row[c].from \in row[c].agreed /\ row[c].agreed \subseteq User /\ row[c].from \in User /\ call[p].u \in User
    BY <1>1, <1>2 DEF Backed, RecordForm, CallForm
  <2>2. CASE call[p].op = "decline"
    BY <2>1, <2>2 DEF RecordForm, Backed, Statuses
  <2>3. CASE call[p].op = "redeem"
    <3>1. s = "accepted" /\ g = User
      BY <2>3 DEF Agreed
    <3> QED  BY <2>1, <3>1 DEF RecordForm, Backed, Statuses
  <2>4. CASE call[p].op \in {"request", "accept"}
    <3>1. row[c].from # call[p].u
      BY <1>1, <2>4 DEF MayWrite
    <3>2. s = "accepted" /\ g = row[c].agreed \cup {call[p].u}
      BY <2>4 DEF Agreed
    <3>3. g = User
      BY <2>1, <3>1, <3>2 DEF User
    <3> QED  BY <2>1, <3>2, <3>3 DEF RecordForm, Backed, Statuses
  <2> QED  BY <1>1, <2>2, <2>3, <2>4 DEF MayWrite
<1> HIDE DEF r
<1>6. row' = [d \in Row |-> row'[d]] /\ \A d \in Row : RowMoves(row[d], row'[d])
  BY <1>2, <1>3, <1>4, <1>5 DEF RowMoves, ContactInv
<1>7. CASE call[p].op = "decline"
  BY <1>6, <1>7, NoCallForm, ContactMoves DEF Update
<1>8. CASE call[p].op # "decline"
  <2>1. Goto(p, [call[p] EXCEPT !.at = "post_connected"])
    BY <1>8 DEF Update
  <2> QED  BY <1>1, <1>6, <2>1, CallAt, ContactMoves
<1> QED  BY <1>7, <1>8

LEMMA PostingStep ==
  ASSUME ContactInv, NEW p \in Proc, PostConnected(p) \/ DeleteLines(p) \/ InsertInvite(p)
  PROVE  ContactInv' /\ \A d \in Row : RowMoves(row[d], row'[d])
<1>1. CASE PostConnected(p) \/ InsertInvite(p)
  BY <1>1, NoCallForm, ContactGoes DEF PostConnected, InsertInvite
<1>2. CASE DeleteLines(p)
  <2>1. row' = row /\ Goto(p, [call[p] EXCEPT !.at = "delete_row"]) /\ CallForm(call[p])
    BY <1>2 DEF DeleteLines, ContactInv
  <2> QED  BY <2>1, CallAt, ContactGoes
<1> QED  BY <1>1, <1>2

LEMMA DeleteRowStep ==
  ASSUME ContactInv, NEW p \in Proc, DeleteRow(p)
  PROVE  ContactInv' /\ \A d \in Row : RowMoves(row[d], row'[d])
<1> DEFINE r == [NoRecord EXCEPT !.status = "deleted"]
           c == call[p].c
<1>1. RecordForm(r) /\ Backed(r) /\ r.status = "deleted"
  BY DEF NoRecord, RecordForm, Backed, Statuses, User
<1>2. row' = IF row[c].status # "pending" THEN row ELSE [row EXCEPT ![c] = r]
  BY DEF DeleteRow
<1> HIDE DEF r, c
<1>3. row' = [d \in Row |-> IF d = c /\ row[c].status = "pending" THEN r ELSE row[d]]
  BY <1>2 DEF ContactInv
<1>4. row' = [d \in Row |-> row'[d]] /\ \A d \in Row : RowMoves(row[d], row'[d])
  BY <1>1, <1>3 DEF RowMoves
<1>5. Goto(p, NoCall)
  BY DEF DeleteRow
<1> QED  BY <1>4, <1>5, NoCallForm, ContactMoves

------------------------------------------------------------------------------
\* Invitations: made, and redeemed by way of the active row or a new one.
LEMMA BeginningStep ==
  ASSUME ContactInv, NEW p \in Proc, NEW i \in Invite, InviteContact(p, i) \/ Redeem(p, i)
  PROVE  ContactInv' /\ \A d \in Row : RowMoves(row[d], row'[d])
<1>1. Invitee \in User
  BY DEF User
<1>2. ASSUME NEW a \in {"insert_invite", "claim"}, NEW o, NEW u, NEW k, Begun(k, a, o, u, NoRow)
      PROVE  CallForm(k) /\ MayWrite(k, row)
  BY <1>2 DEF Begun, MayWrite
<1>3. CASE InviteContact(p, i)
  <2> DEFINE k == [NoCall EXCEPT !.at = "insert_invite", !.op = "invite", !.i = i]
  <2>1. Goto(p, k) /\ row' = row
    BY <1>3 DEF InviteContact
  <2>2. Begun(k, "insert_invite", "invite", Inviter, NoRow)
    BY <1>1, NewCall, Zenon
  <2> HIDE DEF k
  <2> QED  BY <1>2, <2>1, <2>2, ContactGoes
<1>4. CASE Redeem(p, i)
  <2> DEFINE k == [NoCall EXCEPT !.at = "claim", !.op = "redeem", !.u = Invitee, !.i = i]
  <2>1. Goto(p, k) /\ row' = row
    BY <1>4 DEF Redeem
  <2>2. Begun(k, "claim", "redeem", Invitee, NoRow)
    BY <1>1, NewCall, Zenon
  <2> HIDE DEF k
  <2> QED  BY <1>2, <2>1, <2>2, ContactGoes
<1> QED  BY <1>3, <1>4

LEMMA ClaimStep ==
  ASSUME ContactInv, NEW p \in Proc, Claim(p) \/ ReadUpsert(p) \/ RereadUpsert(p)
  PROVE  ContactInv' /\ \A d \in Row : RowMoves(row[d], row'[d])
<1>1. CallForm(call[p]) /\ MayWrite(call[p], row) /\ row' = row
  BY DEF ContactInv, Claim, ReadUpsert, RereadUpsert
<1>2. CASE Goto(p, NoCall)
  BY <1>1, <1>2, NoCallForm, ContactGoes
<1>3. CASE Goto(p, [call[p] EXCEPT !.at = "read_conv"])
  BY <1>1, <1>3, CallAt, ContactGoes
<1>4. CASE ReadUpsert(p)
  <2>1. call[p].op = "redeem" /\ Goto(p, Upsert(p, "insert_accepted"))
    BY <1>4 DEF ReadUpsert
  <2> QED  BY <1>1, <2>1, UpsertGoes, ContactGoes
<1>5. CASE RereadUpsert(p)
  <2>1. call[p].op = "redeem" /\ Goto(p, Upsert(p, "post_connected"))
    BY <1>1, <1>5 DEF RereadUpsert, MayWrite
  <2> QED  BY <1>1, <2>1, UpsertGoes, ContactGoes
<1> QED  BY <1>2, <1>3, <1>4, <1>5 DEF Claim

LEMMA InsertAcceptedStep ==
  ASSUME ContactInv, NEW p \in Proc, InsertAccepted(p)
  PROVE  ContactInv' /\ \A d \in Row : RowMoves(row[d], row'[d])
<1> DEFINE r == [status |-> "accepted", from |-> Inviter, conv |-> call[p].v, agreed |-> User]
<1>0. CallForm(call[p]) /\ MayWrite(call[p], row) /\ call[p].at = "insert_accepted"
  BY DEF ContactInv, InsertAccepted
<1>1. CASE Inserted(r) /\ Goto(p, [call[p] EXCEPT !.at = "post_connected"])
  <2>1. RecordForm(r) /\ Backed(r) /\ r.status # "none"
    BY DEF RecordForm, Backed, Statuses, User
  <2> HIDE DEF r
  <2>2. row' = [c \in Row |-> row'[c]] /\ \A c \in Row : RowMoves(row[c], row'[c])
    BY <1>1, <2>1, InsertMoves
  <2> QED  BY <1>0, <1>1, <2>2, CallAt, ContactMoves
<1>2. CASE row' = row /\ Goto(p, [call[p] EXCEPT !.at = "reread"])
  <2> DEFINE k == [call[p] EXCEPT !.at = "reread"]
  <2>1. Going(k, call[p], "reread", call[p].c)
    BY <1>0, CallFields, Zenon
  <2> HIDE DEF k
  <2>2. CallForm(k) /\ MayWrite(k, row)
    BY <1>0, <2>1 DEF Going, MayWrite
  <2>3. Goto(p, k)
    BY <1>2 DEF k
  <2> QED  BY <1>2, <2>2, <2>3, ContactGoes
<1> QED  BY <1>1, <1>2 DEF InsertAccepted

------------------------------------------------------------------------------
LEMMA ContactUnchanged ==
  ASSUME ContactInv, row' = row, call' = call
  PROVE  ContactInv' /\ \A d \in Row : RowMoves(row[d], row'[d])
  BY DEF ContactInv, RowMoves

LEMMA ContactStep == ContactInv /\ [Next]_vars => ContactInv' /\ \A d \in Row : RowMoves(row[d], row'[d])
<1> SUFFICES ASSUME ContactInv, [Next]_vars
             PROVE  ContactInv' /\ \A d \in Row : RowMoves(row[d], row'[d])
  OBVIOUS
<1>1. CASE SignUp \/ (\E i \in Invite : CancelInvite(i)) \/ UNCHANGED vars
  BY <1>1, ContactUnchanged DEF SignUp, CancelInvite, vars
<1>2. ASSUME NEW p \in Proc, NEW u \in User, Request(p, u)
      PROVE  ContactInv' /\ \A d \in Row : RowMoves(row[d], row'[d])
  BY <1>2, RequestStep
<1>3. ASSUME NEW p \in Proc, NEW c \in Row, (\E op \in {"accept", "decline"} : Respond(p, c, op)) \/ Withdraw(p, c)
      PROVE  ContactInv' /\ \A d \in Row : RowMoves(row[d], row'[d])
  BY <1>3, RespondStep, WithdrawStep
<1>4. ASSUME NEW p \in Proc, NEW i \in Invite, InviteContact(p, i) \/ Redeem(p, i)
      PROVE  ContactInv' /\ \A d \in Row : RowMoves(row[d], row'[d])
  BY <1>4, BeginningStep
<1>5. ASSUME NEW p \in Proc, ReadActive(p) \/ ReadConv(p) \/ CreateConv(p) \/ PostWants(p)
      PROVE  ContactInv' /\ \A d \in Row : RowMoves(row[d], row'[d])
  BY <1>5, ReadingStep
<1>6. ASSUME NEW p \in Proc, InsertRequest(p) \/ InsertAccepted(p)
      PROVE  ContactInv' /\ \A d \in Row : RowMoves(row[d], row'[d])
  BY <1>6, InsertRequestStep, InsertAcceptedStep
<1>7. ASSUME NEW p \in Proc, Update(p) \/ DeleteRow(p)
      PROVE  ContactInv' /\ \A d \in Row : RowMoves(row[d], row'[d])
  BY <1>7, UpdateStep, DeleteRowStep
<1>8. ASSUME NEW p \in Proc, PostConnected(p) \/ DeleteLines(p) \/ InsertInvite(p)
      PROVE  ContactInv' /\ \A d \in Row : RowMoves(row[d], row'[d])
  BY <1>8, PostingStep
<1>9. ASSUME NEW p \in Proc, Claim(p) \/ ReadUpsert(p) \/ RereadUpsert(p)
      PROVE  ContactInv' /\ \A d \in Row : RowMoves(row[d], row'[d])
  BY <1>9, ClaimStep
<1> QED  BY <1>1, <1>2, <1>3, <1>4, <1>5, <1>6, <1>7, <1>8, <1>9, Zenon DEF Next

LEMMA ContactInvariant == Spec => []ContactInv
<1>1. ContactInv /\ [Next]_vars => ContactInv'
  BY ContactStep
<1> QED  BY <1>1, ContactInitial, PTL DEF Spec

\* In every interleaving of requests, answers, withdrawals and redemptions, a
\* connected pair has both of them behind it: what each asked, accepted or
\* redeemed.
THEOREM ConnectionNeedsBothHolds == Spec => []ConnectionNeedsBoth
<1>1. ContactInv => ConnectionNeedsBoth
  BY DEF ContactInv, Backed, ConnectionNeedsBoth
<1> QED  BY <1>1, ContactInvariant, PTL

\* A row is answered once: no late accept, decline, withdrawal or redemption
\* changes it after that, though each read it while it waited.
THEOREM RespondedIsFinalHolds == Spec => RespondedIsFinal
<1> DEFINE Final == \A c \in Row :
                      /\ row[c].status = "accepted" => row'[c] = row[c]
                      /\ row[c].status = "declined" => row'[c] = row[c] \/ row'[c].status = "deleted"
<1>1. ContactInv /\ [Next]_vars => [Final]_vars
  BY ContactStep DEF RowMoves
<1> QED  BY <1>1, ContactInvariant, PTL DEF Spec, RespondedIsFinal

------------------------------------------------------------------------------
(***************************************************************************)
(* Types                                                                   *)
(***************************************************************************)
\* A nonempty set of numbers up to n has a greatest one.
LEMMA HasMax ==
  ASSUME NEW n \in Nat, NEW S \in SUBSET (1..n), S # {}
  PROVE  Max(S) \in S
<1> DEFINE R == OpToRel(<, Nat)
           T == {m \in Nat : n - m \in S}
<1>1. R = {ss \in Nat \X Nat : ss[1] < ss[2]}
  BY DEF OpToRel
<1>2. IsWellFoundedOn(R, Nat)
  BY NatLessThanWellFounded
<1> HIDE DEF R
<1>3. \A x \in S : n - x \in T
  OBVIOUS
<1>4. PICK t \in T : \A y \in T : ~ (<<y, t>> \in R)
  <2>1. T \subseteq Nat /\ T # {}
    BY <1>3
  <2> HIDE DEF T
  <2> QED  BY <1>2, <2>1, WFMin
<1>5. \A y \in T : ~ (y < t)
  BY <1>1, <1>4
<1>6. n - t \in S /\ \A y \in S : n - t >= y
  BY <1>3, <1>5
<1> QED  BY <1>6 DEF Max

Connected == \E c \in Row : row[c].status = "accepted"

\* Calls at these steps hold a conversation that was created for the pair.
Posting == {"insert", "insert_accepted", "reread", "update", "post_wants", "post_connected", "delete_lines"}
Holds(k, ids) == k.at \in Posting => k.v \in ids

\* And these a row.
Placed(k) == k.at \in {"update", "delete_lines", "delete_row"} => k.c \in Row

RowFits(r, ids) ==
  /\ r.conv = NoConv \/ r.conv \in ids
  /\ r.status \in {"pending", "accepted", "declined"} => r.conv \in ids

\* The types of what is neither a row nor a call.
RestTyped ==
  /\ inv \in [Invite -> {"none", "open", "consumed", "cancelled"}]
  /\ joined \in BOOLEAN
  /\ lines \in [Conv -> SUBSET {"wants", "connected"}]
  /\ created \subseteq Conv
  /\ raced \in BOOLEAN

ContactTypeInv ==
  /\ TypeOK
  /\ \A c \in Row : RowFits(row[c], created)
  /\ \A p \in Proc : Holds(call[p], created) /\ Placed(call[p])

\* e is k but for where it stands, its row and its conversation.
At(e, k, a, x, w) ==
  e \in Calls /\ e.at = a /\ e.op = k.op /\ e.u = k.u /\ e.c = x /\ e.v = w /\ e.i = k.i

LEMMA CallChange ==
  ASSUME NEW k \in Calls, NEW a \in Labels, NEW x \in Row \cup {NoRow}, NEW w \in Conv \cup {NoConv}
  PROVE  /\ At([k EXCEPT !.at = a], k, a, k.c, k.v)
         /\ At([k EXCEPT !.at = a, !.v = w], k, a, k.c, w)
         /\ At([k EXCEPT !.at = a, !.c = x], k, a, x, k.v)
         /\ At([k EXCEPT !.at = a, !.c = x, !.v = w], k, a, x, w)
<1> DEFINE l == [k EXCEPT !.at = a]
           m == [l EXCEPT !.c = x]
           n == [l EXCEPT !.v = w]
           o == [m EXCEPT !.v = w]
<1>1. At(l, k, a, k.c, k.v)
  BY DEF At, Calls
<1> HIDE DEF l
<1>2. At(n, k, a, k.c, w) /\ At(m, k, a, x, k.v)
  BY <1>1 DEF At, Calls
<1> HIDE DEF m, n
<1>3. At(o, k, a, x, w)
  BY <1>2 DEF At, Calls
<1> QED  BY <1>1, <1>2, <1>3 DEF l, m, n, o

\* What a call starts with.
Starts(e, a, o, x, w) == e \in Calls /\ e.at = a /\ e.op = o /\ e.c = x /\ e.v = w

LEMMA CallStart ==
  ASSUME NEW a \in Labels, NEW o \in {"none", "invite"} \cup Connecting \cup Retracting, NEW u \in User,
         NEW x \in Row \cup {NoRow}, NEW w \in Conv \cup {NoConv}, NEW j \in Invite \cup {NoInvite}
  PROVE  /\ Starts([NoCall EXCEPT !.at = a, !.op = o, !.u = u], a, o, NoRow, NoConv)
         /\ Starts([NoCall EXCEPT !.at = a, !.op = o, !.u = u, !.i = j], a, o, NoRow, NoConv)
         /\ Starts([NoCall EXCEPT !.at = a, !.op = o, !.i = j], a, o, NoRow, NoConv)
         /\ Starts([NoCall EXCEPT !.at = a, !.op = o, !.u = u, !.c = x, !.v = w], a, o, x, w)
<1> DEFINE l == [NoCall EXCEPT !.at = a]
           m == [l EXCEPT !.op = o]
           n == [m EXCEPT !.u = u]
           q == [n EXCEPT !.c = x]
<1>1. Starts(l, a, "none", NoRow, NoConv)
  BY DEF NoCall, Starts, Calls, Labels, User
<1> HIDE DEF l
<1>2. Starts(m, a, o, NoRow, NoConv)
  BY <1>1 DEF Starts, Calls
<1> HIDE DEF m
<1>3. Starts(n, a, o, NoRow, NoConv) /\ Starts([m EXCEPT !.i = j], a, o, NoRow, NoConv)
  BY <1>2 DEF Starts, Calls
<1> HIDE DEF n
<1>4. Starts([n EXCEPT !.i = j], a, o, NoRow, NoConv) /\ Starts(q, a, o, x, NoConv)
  BY <1>3 DEF Starts, Calls
<1> HIDE DEF q
<1>5. Starts([q EXCEPT !.v = w], a, o, x, w)
  BY <1>4 DEF Starts, Calls
<1> QED  BY <1>3, <1>4, <1>5 DEF l, m, n, q

LEMMA NoCallStarts == Starts(NoCall, "idle", "none", NoRow, NoConv)
  BY DEF NoCall, Starts, Calls, Labels, User

\* Call p is now at k, the others are where they were.
CallGoes(p, k) ==
  /\ call' \in [Proc -> Calls]
  /\ \A q \in Proc : call'[q] = IF q = p THEN k ELSE call[q]

LEMMA CallTo ==
  ASSUME ContactTypeInv, NEW p \in Proc, NEW k \in Calls, Goto(p, k)
  PROVE  CallGoes(p, k)
  BY DEF ContactTypeInv, TypeOK, CallGoes, Goto

LEMMA TypeInitially == Init => ContactTypeInv
<1> SUFFICES ASSUME Init PROVE ContactTypeInv
  OBVIOUS
<1>1. NoRecord \in Records /\ NoRecord.status = "none" /\ NoRecord.conv = NoConv
  BY DEF NoRecord, Records, User
<1>2. row \in [Row -> Records] /\ \A c \in Row : row[c].status = "none" /\ row[c].conv = NoConv
  BY <1>1 DEF Init
<1>3. call \in [Proc -> Calls] /\ \A p \in Proc : call[p].at = "idle"
  BY NoCallStarts DEF Init, Starts
<1>4. inv \in [Invite -> {"none", "open", "consumed", "cancelled"}] /\ joined \in BOOLEAN
      /\ lines \in [Conv -> SUBSET {"wants", "connected"}] /\ created \subseteq Conv /\ raced \in BOOLEAN
  BY DEF Init
<1> QED  BY <1>2, <1>3, <1>4 DEF ContactTypeInv, TypeOK, RowFits, Holds, Placed, Posting

\* Call p goes to k, and what it writes is of its kind.
LEMMA TypeFrame ==
  ASSUME ContactTypeInv, NEW p \in Proc, NEW k \in Calls, Goto(p, k),
         Holds(k, created'), Placed(k),
         created \subseteq created', RestTyped',
         row' \in [Row -> Records], \A c \in Row : RowFits(row'[c], created')
  PROVE  ContactTypeInv'
<1>1. CallGoes(p, k)
  BY CallTo
<1>2. \A q \in Proc : /\ Holds(call'[q], created')
                      /\ Placed(call'[q])
  BY <1>1 DEF ContactTypeInv, CallGoes, Holds
<1> QED  BY <1>1, <1>2 DEF ContactTypeInv, TypeOK, RestTyped, CallGoes, Holds, Posting, Placed

\* The same for a step that writes no row.
LEMMA TypeGoes ==
  ASSUME ContactTypeInv, NEW p \in Proc, NEW k \in Calls, Goto(p, k),
         Holds(k, created'), Placed(k),
         created \subseteq created', RestTyped', row' = row
  PROVE  ContactTypeInv'
<1>1. row' \in [Row -> Records] /\ \A c \in Row : RowFits(row'[c], created')
  BY DEF ContactTypeInv, TypeOK, RowFits
<1> QED  BY <1>1, TypeFrame

LEMMA RestKept ==
  ASSUME ContactTypeInv, UNCHANGED <<inv, joined, lines, created>>, raced' = raced \/ \E o : Overlaps(o)
  PROVE  RestTyped' /\ created \subseteq created'
<1>1. raced' \in BOOLEAN
  BY DEF ContactTypeInv, TypeOK, Overlaps
<1> QED  BY <1>1 DEF ContactTypeInv, TypeOK, RestTyped

LEMMA DeletedFits ==
  ASSUME NEW r, r = [NoRecord EXCEPT !.status = "deleted"], NEW ids
  PROVE  r \in Records /\ RowFits(r, ids) /\ r.status = "deleted"
  BY DEF NoRecord, Records, RowFits, User

LEMMA TypeBegin ==
  ASSUME ContactTypeInv, NEW p \in Proc, NEW k, NEW a \in Labels \ (Posting \cup {"delete_row"}), NEW o,
         NEW w, Starts(k, a, o, NoRow, w), Goto(p, k),
         UNCHANGED <<row, inv, joined, lines, created>>, raced' = raced \/ \E op : Overlaps(op)
  PROVE  ContactTypeInv'
<1>1. RestTyped' /\ created \subseteq created'
  BY RestKept
<1>2. k \in Calls /\ Holds(k, created') /\ Placed(k)
  BY DEF Starts, Holds, Placed, Posting
<1> QED  BY <1>1, <1>2, TypeGoes

LEMMA RequestType ==
  ASSUME ContactTypeInv, NEW p \in Proc, NEW u \in User, Request(p, u)
  PROVE  ContactTypeInv'
<1> DEFINE k == [NoCall EXCEPT !.at = "read_active", !.op = "request", !.u = u]
<1>1. Starts(k, "read_active", "request", NoRow, NoConv)
  <2>1. "read_active" \in Labels /\ "request" \in {"none", "invite"} \cup Connecting \cup Retracting
    BY DEF Labels, Connecting
  <2> QED  BY <2>1, CallStart, Zenon
<1>2. Goto(p, k) /\ \E o : Overlaps(o)
  BY DEF Request
<1> HIDE DEF k
<1>3. k \in Calls /\ Holds(k, created') /\ Placed(k)
  BY <1>1 DEF Starts, Holds, Placed, Posting
<1>4. RestTyped' /\ created' = created
  BY <1>2, RestKept DEF Request
<1>5. PICK r : r = [NoRecord EXCEPT !.status = "deleted"]
  OBVIOUS
<1>6. r \in Records /\ RowFits(r, created')
  BY <1>5, DeletedFits
<1>7. PICK old \in SUBSET {c \in Row : row[c].status = "declined"} :
        row' = [c \in Row |-> IF c \in old THEN r ELSE row[c]]
  BY <1>5 DEF Request
<1>8. row' \in [Row -> Records] /\ \A c \in Row : RowFits(row'[c], created')
  BY <1>4, <1>6, <1>7 DEF ContactTypeInv, TypeOK
<1> QED  BY <1>2, <1>3, <1>4, <1>8, TypeFrame

LEMMA HereTyped ==
  ASSUME ContactTypeInv, NEW p \in Proc
  PROVE  /\ call[p] \in Calls /\ call[p].c \in Row \cup {NoRow} /\ call[p].v \in Conv \cup {NoConv}
         /\ call[p].u \in User /\ Holds(call[p], created) /\ Placed(call[p]) /\ created \subseteq Conv
         /\ \A c \in Row : row[c] \in Records /\ RowFits(row[c], created) /\ row[c].conv \in Conv \cup {NoConv}
  BY DEF ContactTypeInv, TypeOK, Calls, Records

\* A call goes on, with the conversation it held, one just created, or that of a row.
LEMMA TypeOn ==
  ASSUME ContactTypeInv, NEW p \in Proc, NEW k, NEW a \in Labels \ {"delete_lines", "delete_row"},
         NEW x \in Row \cup {NoRow}, NEW w \in Conv \cup {NoConv},
         At(k, call[p], a, x, w), Goto(p, k), a \in Posting => w \in created', a = "update" => x \in Row,
         created \subseteq created', RestTyped', row' = row
  PROVE  ContactTypeInv'
<1>1. k \in Calls /\ Holds(k, created') /\ Placed(k)
  BY DEF At, Holds, Placed
<1> QED  BY <1>1, TypeGoes

LEMMA TypeEnds ==
  ASSUME ContactTypeInv, NEW p \in Proc, Goto(p, NoCall), created \subseteq created', RestTyped', row' = row
  PROVE  ContactTypeInv'
<1>1. NoCall \in Calls /\ Holds(NoCall, created') /\ Placed(NoCall)
  BY NoCallStarts DEF Starts, Holds, Placed, Posting
<1> QED  BY <1>1, TypeGoes

LEMMA ReadActiveType ==
  ASSUME ContactTypeInv, NEW p \in Proc, ReadActive(p)
  PROVE  ContactTypeInv'
<1>1. row' = row /\ RestTyped' /\ created' = created
  BY RestKept DEF ReadActive
<1>2. CASE Goto(p, [call[p] EXCEPT !.at = "read_conv"])
  <2>1. At([call[p] EXCEPT !.at = "read_conv"], call[p], "read_conv", call[p].c, call[p].v)
    BY HereTyped, CallChange DEF Labels
  <2>2. "read_conv" \in Labels \ {"delete_lines", "delete_row"} /\ "read_conv" \notin Posting
    BY DEF Labels, Posting
  <2> QED  BY <1>1, <1>2, <2>1, <2>2, HereTyped, TypeOn
<1>3. CASE Goto(p, NoCall)
  BY <1>1, <1>3, TypeEnds
<1>4. ASSUME NEW c \in ActiveRows, row[c].status = "pending",
             Goto(p, [call[p] EXCEPT !.at = "update", !.c = c, !.v = row[c].conv])
      PROVE  ContactTypeInv'
  <2>1. c \in Row /\ row[c].conv \in created /\ row[c].conv \in Conv \cup {NoConv}
    BY <1>4, HereTyped DEF ActiveRows, RowFits
  <2>2. "update" \in Labels \ {"delete_lines", "delete_row"}
    BY DEF Labels
  <2>3. At([call[p] EXCEPT !.at = "update", !.c = c, !.v = row[c].conv], call[p], "update", c, row[c].conv)
    BY <2>1, <2>2, HereTyped, CallChange
  <2> QED  BY <1>1, <1>4, <2>1, <2>2, <2>3, TypeOn
<1> QED  BY <1>2, <1>3, <1>4 DEF ReadActive

LEMMA ReadConvGoes ==
  ASSUME ContactTypeInv, NEW p \in Proc, ReadConv(p)
  PROVE  \E k \in Calls, w \in Conv \cup {NoConv} :
           /\ Goto(p, k)
           /\ \/ At(k, call[p], "create_conv", call[p].c, w)
              \/ At(k, call[p], "insert", call[p].c, w) /\ w \in created
<1> DEFINE withConv == {c \in Row : row[c].conv # NoConv}
<1>1. CASE withConv = {}
  <2>1. Goto(p, [call[p] EXCEPT !.at = "create_conv"])
    BY <1>1 DEF ReadConv
  <2>2. At([call[p] EXCEPT !.at = "create_conv"], call[p], "create_conv", call[p].c, call[p].v)
    BY HereTyped, CallChange DEF Labels
  <2> QED  BY <2>1, <2>2, HereTyped DEF At
<1>2. CASE withConv # {}
  <2>0. MaxRows \in Nat /\ withConv \in SUBSET (1..MaxRows)
    BY ContactAssumption DEF Row
  <2>1. Max(withConv) \in withConv
    BY <1>2, <2>0, HasMax
  <2>2. PICK w \in Conv \cup {NoConv} : w = row[Max(withConv)].conv /\ w \in created
    BY <2>1, HereTyped DEF RowFits
  <2>3. Goto(p, [call[p] EXCEPT !.at = "insert", !.v = w])
    BY <1>2, <2>2 DEF ReadConv
  <2>4. At([call[p] EXCEPT !.at = "insert", !.v = w], call[p], "insert", call[p].c, w)
    BY HereTyped, CallChange DEF Labels
  <2> QED  BY <2>2, <2>3, <2>4 DEF At
<1> QED  BY <1>1, <1>2

LEMMA ReadConvType ==
  ASSUME ContactTypeInv, NEW p \in Proc, ReadConv(p)
  PROVE  ContactTypeInv'
<1>1. row' = row /\ RestTyped' /\ created' = created
  BY RestKept DEF ReadConv
<1>2. PICK k \in Calls, w \in Conv \cup {NoConv} :
           /\ Goto(p, k)
           /\ \/ At(k, call[p], "create_conv", call[p].c, w)
              \/ At(k, call[p], "insert", call[p].c, w) /\ w \in created
  BY ReadConvGoes
<1>3. Holds(k, created') /\ Placed(k)
  BY <1>1, <1>2 DEF At, Holds, Placed, Posting
<1> QED  BY <1>1, <1>2, <1>3, TypeGoes

LEMMA CreateConvType ==
  ASSUME ContactTypeInv, NEW p \in Proc, CreateConv(p)
  PROVE  ContactTypeInv'
<1>1. PICK v \in Conv : created' = created \cup {v} /\ Goto(p, [call[p] EXCEPT !.at = "insert", !.v = v])
  BY DEF CreateConv
<1>2. At([call[p] EXCEPT !.at = "insert", !.v = v], call[p], "insert", call[p].c, v)
  BY HereTyped, CallChange DEF Labels
<1>3. row' = row /\ created \subseteq created' /\ RestTyped'
  BY <1>1 DEF CreateConv, ContactTypeInv, TypeOK, RestTyped
<1>4. "insert" \in Labels \ {"delete_lines", "delete_row"}
  BY DEF Labels
<1> QED  BY <1>1, <1>2, <1>3, <1>4, HereTyped, TypeOn

LEMMA InsertedType ==
  ASSUME ContactTypeInv, NEW r \in Records, RowFits(r, created), Inserted(r), created' = created
  PROVE  row' \in [Row -> Records] /\ \A c \in Row : RowFits(row'[c], created')
<1>1. PICK c \in Row : row' = [row EXCEPT ![c] = r]
  BY DEF Inserted
<1> QED  BY <1>1 DEF ContactTypeInv, TypeOK

LEMMA InsertRequestType ==
  ASSUME ContactTypeInv, NEW p \in Proc, InsertRequest(p)
  PROVE  ContactTypeInv'
<1>0. RestTyped' /\ created' = created /\ call[p].at = "insert"
  BY RestKept DEF InsertRequest
<1>1. CASE Goto(p, NoCall) /\ row' = row
  BY <1>0, <1>1, TypeEnds
<1>2. ASSUME NEW r, r = [status |-> "pending", from |-> call[p].u, conv |-> call[p].v, agreed |-> {call[p].u}],
             Inserted(r), Goto(p, [call[p] EXCEPT !.at = "post_wants"])
      PROVE  ContactTypeInv'
  <2>1. call[p].v \in created
    BY <1>0, HereTyped DEF Holds, Placed, Posting
  <2>2. r \in Records /\ RowFits(r, created)
    BY <1>2, <2>1, HereTyped DEF Records, RowFits
  <2>3. row' \in [Row -> Records] /\ \A c \in Row : RowFits(row'[c], created')
    BY <1>0, <1>2, <2>2, InsertedType
  <2>4. PICK k : k = [call[p] EXCEPT !.at = "post_wants"]
    OBVIOUS
  <2>5. At(k, call[p], "post_wants", call[p].c, call[p].v)
    BY <2>4, HereTyped, CallChange DEF Labels
  <2>6. k \in Calls /\ Holds(k, created') /\ Placed(k)
    BY <1>0, <2>1, <2>5 DEF At, Holds, Placed
  <2> QED  BY <1>0, <1>2, <2>3, <2>4, <2>6, TypeFrame
<1> QED  BY <1>1, <1>2 DEF InsertRequest

LEMMA InsertAcceptedType ==
  ASSUME ContactTypeInv, NEW p \in Proc, InsertAccepted(p)
  PROVE  ContactTypeInv'
<1>0. RestTyped' /\ created' = created /\ call[p].at = "insert_accepted"
  BY RestKept DEF InsertAccepted
<1>1. call[p].v \in created
  BY <1>0, HereTyped DEF Holds, Placed, Posting
<1>2. CASE Goto(p, [call[p] EXCEPT !.at = "reread"]) /\ row' = row
  <2>1. At([call[p] EXCEPT !.at = "reread"], call[p], "reread", call[p].c, call[p].v)
    BY HereTyped, CallChange DEF Labels
  <2>2. "reread" \in Labels \ {"delete_lines", "delete_row"}
    BY DEF Labels
  <2> QED  BY <1>0, <1>1, <1>2, <2>1, <2>2, HereTyped, TypeOn
<1>3. ASSUME NEW r, r = [status |-> "accepted", from |-> Inviter, conv |-> call[p].v, agreed |-> User],
             Inserted(r), Goto(p, [call[p] EXCEPT !.at = "post_connected"])
      PROVE  ContactTypeInv'
  <2>2. r \in Records /\ RowFits(r, created)
    BY <1>1, <1>3, HereTyped DEF Records, RowFits, User
  <2>3. row' \in [Row -> Records] /\ \A c \in Row : RowFits(row'[c], created')
    BY <1>0, <1>3, <2>2, InsertedType
  <2>4. PICK k : k = [call[p] EXCEPT !.at = "post_connected"]
    OBVIOUS
  <2>5. At(k, call[p], "post_connected", call[p].c, call[p].v)
    BY <2>4, HereTyped, CallChange DEF Labels
  <2>6. k \in Calls /\ Holds(k, created') /\ Placed(k)
    BY <1>0, <1>1, <2>5 DEF At, Holds, Placed
  <2> QED  BY <1>0, <1>3, <2>3, <2>4, <2>6, TypeFrame
<1> QED  BY <1>2, <1>3 DEF InsertAccepted

LEMMA PostType ==
  ASSUME ContactTypeInv, NEW p \in Proc, PostWants(p) \/ PostConnected(p)
  PROVE  ContactTypeInv'
<1>1. PICK n \in {"wants", "connected"} : lines' = [lines EXCEPT ![call[p].v] = @ \cup {n}]
  BY DEF PostWants, PostConnected
<1>2. lines' \in [Conv -> SUBSET {"wants", "connected"}]
  BY <1>1 DEF ContactTypeInv, TypeOK
<1>3. RestTyped' /\ row' = row /\ created' = created /\ Goto(p, NoCall)
  BY <1>2 DEF ContactTypeInv, TypeOK, RestTyped, PostWants, PostConnected
<1> QED  BY <1>3, TypeEnds

LEMMA RespondType ==
  ASSUME ContactTypeInv, NEW p \in Proc, NEW c \in Row, NEW op \in {"accept", "decline"}, Respond(p, c, op)
  PROVE  ContactTypeInv'
<1> DEFINE k == [NoCall EXCEPT !.at = "update", !.op = op, !.u = Other(row[c].from), !.c = c, !.v = row[c].conv]
<1>1. Goto(p, k) /\ row[c].status = "pending"
  BY DEF Respond
<1>2. row[c].from \in User /\ row[c].conv \in created /\ row[c].conv \in Conv \cup {NoConv}
  BY <1>1, HereTyped DEF RowFits, Records
<1>3. Starts(k, "update", op, c, row[c].conv)
  <2>1. "update" \in Labels /\ op \in {"none", "invite"} \cup Connecting \cup Retracting
    BY DEF Labels, Connecting, Retracting
  <2>2. Other(row[c].from) \in User
    BY <1>2, OtherDiffers
  <2>3. c \in Row \cup {NoRow}
    OBVIOUS
  <2> QED  BY <1>2, <2>1, <2>2, <2>3, CallStart, Zenon
<1> HIDE DEF k
<1>4. RestTyped' /\ created' = created /\ row' = row
  BY RestKept DEF Respond
<1>5. k \in Calls /\ Holds(k, created') /\ Placed(k)
  BY <1>2, <1>3, <1>4 DEF Starts, Holds, Placed
<1> QED  BY <1>1, <1>4, <1>5, TypeGoes

LEMMA WithdrawType ==
  ASSUME ContactTypeInv, NEW p \in Proc, NEW c \in Row, Withdraw(p, c)
  PROVE  ContactTypeInv'
<1> DEFINE k == [NoCall EXCEPT !.at = "delete_lines", !.op = "withdraw", !.u = row[c].from, !.c = c, !.v = row[c].conv]
<1>1. Goto(p, k) /\ row[c].status = "pending"
  BY DEF Withdraw
<1>2. row[c].from \in User /\ row[c].conv \in created /\ row[c].conv \in Conv \cup {NoConv}
  BY <1>1, HereTyped DEF RowFits, Records
<1>3. Starts(k, "delete_lines", "withdraw", c, row[c].conv)
  <2>1. "delete_lines" \in Labels /\ "withdraw" \in {"none", "invite"} \cup Connecting \cup Retracting
    BY DEF Labels, Connecting, Retracting
  <2>2. c \in Row \cup {NoRow}
    OBVIOUS
  <2> QED  BY <1>2, <2>1, <2>2, CallStart, Zenon
<1> HIDE DEF k
<1>4. RestTyped' /\ created' = created /\ row' = row
  BY RestKept DEF Withdraw
<1>5. k \in Calls /\ Holds(k, created') /\ Placed(k)
  BY <1>2, <1>3, <1>4 DEF Starts, Holds, Placed
<1> QED  BY <1>1, <1>4, <1>5, TypeGoes

\* What an UPDATE writes: the row it goes to, if that still waits, settled.
LEMMA UpdateWrites ==
  ASSUME ContactTypeInv, NEW p \in Proc, Update(p)
  PROVE  /\ call[p].c \in Row /\ row' \in [Row -> Records]
         /\ \A d \in Row : row'[d].conv = row[d].conv
         /\ \A d \in Row : d # call[p].c \/ row[d].status # "pending" => row'[d] = row[d]
         /\ row[call[p].c].status = "pending" =>
              row'[call[p].c].status = IF call[p].op = "decline" THEN "declined" ELSE "accepted"
<1>1. PICK c \in Row : c = call[p].c
  BY DEF Update, ContactTypeInv, TypeOK
<1>2. row \in [Row -> Records] /\ call[p].u \in User
  BY HereTyped DEF ContactTypeInv, TypeOK
<1>3. PICK s \in {"declined", "accepted"} : s = IF call[p].op = "decline" THEN "declined" ELSE "accepted"
  OBVIOUS
<1>4. PICK g \in SUBSET User : g = IF call[p].op = "decline" THEN row[c].agreed ELSE Agreed(p)
  BY <1>1, <1>2 DEF Agreed, Records
<1> DEFINE m == [row[c] EXCEPT !.status = s]
           n == [m EXCEPT !.agreed = g]
<1>5. row' = IF row[c].status # "pending" THEN row ELSE [row EXCEPT ![c] = n]
  BY <1>1, <1>3, <1>4 DEF Update
<1>6. m \in Records /\ m.status = s /\ m.conv = row[c].conv
  BY <1>2 DEF Records
<1> HIDE DEF m
<1>7. n \in Records /\ n.status = s /\ n.conv = row[c].conv
  BY <1>6 DEF Records
<1> HIDE DEF n
<1>8. CASE row[c].status = "pending"
  BY <1>1, <1>2, <1>3, <1>5, <1>7, <1>8
<1>9. CASE row[c].status # "pending"
  BY <1>1, <1>2, <1>5, <1>9
<1> QED  BY <1>8, <1>9

LEMMA UpdateType ==
  ASSUME ContactTypeInv, NEW p \in Proc, Update(p)
  PROVE  ContactTypeInv'
<1>0. RestTyped' /\ created' = created /\ call[p].at = "update"
  BY RestKept DEF Update
<1>1. call[p].v \in created
  BY <1>0, HereTyped DEF Holds, Placed, Posting
<1>2. row' \in [Row -> Records] /\ \A d \in Row : RowFits(row'[d], created')
  BY <1>0, UpdateWrites, HereTyped DEF RowFits
<1>3. PICK k \in Calls : Goto(p, k) /\ k.at \in {"idle", "post_connected"} /\ (k.at = "post_connected" => k.v \in created)
  <2>1. CASE Goto(p, NoCall)
    BY <2>1, NoCallStarts DEF Starts
  <2>2. CASE Goto(p, [call[p] EXCEPT !.at = "post_connected"])
    <3>1. At([call[p] EXCEPT !.at = "post_connected"], call[p], "post_connected", call[p].c, call[p].v)
      BY HereTyped, CallChange DEF Labels
    <3> QED  BY <1>1, <2>2, <3>1 DEF At
  <2> QED  BY <2>1, <2>2 DEF Update
<1>4. Holds(k, created') /\ Placed(k)
  BY <1>0, <1>3 DEF Holds, Placed, Posting
<1> QED  BY <1>0, <1>2, <1>3, <1>4, TypeFrame

LEMMA DeleteType ==
  ASSUME ContactTypeInv, NEW p \in Proc, DeleteLines(p) \/ DeleteRow(p)
  PROVE  ContactTypeInv'
<1>1. CASE DeleteLines(p)
  <2>0. PICK k : k = [call[p] EXCEPT !.at = "delete_row"] /\ Goto(p, k)
    BY <1>1 DEF DeleteLines
  <2>1. At(k, call[p], "delete_row", call[p].c, call[p].v)
    BY <2>0, HereTyped, CallChange DEF Labels
  <2>2. lines' \in [Conv -> SUBSET {"wants", "connected"}]
    BY <1>1 DEF DeleteLines, ContactTypeInv, TypeOK
  <2>3. RestTyped' /\ row' = row /\ created' = created
    BY <1>1, <2>2 DEF DeleteLines, ContactTypeInv, TypeOK, RestTyped
  <2>4. k \in Calls /\ Holds(k, created') /\ Placed(k)
    BY <1>1, <2>1 DEF At, Holds, Placed, Posting, DeleteLines, ContactTypeInv
  <2> QED  BY <2>0, <2>3, <2>4, TypeGoes
<1>2. CASE DeleteRow(p)
  <2>0. RestTyped' /\ created' = created /\ Goto(p, NoCall)
    BY <1>2, RestKept DEF DeleteRow
  <2>1. PICK r : r = [NoRecord EXCEPT !.status = "deleted"]
    OBVIOUS
  <2>2. r \in Records /\ RowFits(r, created')
    BY <2>1, DeletedFits
  <2>3. row' = row \/ row' = [row EXCEPT ![call[p].c] = r]
    BY <1>2, <2>1 DEF DeleteRow
  <2>4. row' \in [Row -> Records] /\ \A d \in Row : RowFits(row'[d], created')
    BY <2>0, <2>2, <2>3 DEF ContactTypeInv, TypeOK
  <2>5. NoCall \in Calls /\ Holds(NoCall, created') /\ Placed(NoCall)
    BY NoCallStarts DEF Starts, Holds, Placed, Posting
  <2> QED  BY <2>0, <2>4, <2>5, TypeFrame
<1> QED  BY <1>1, <1>2

LEMMA InviteType ==
  ASSUME ContactTypeInv, NEW p \in Proc, NEW i \in Invite, InviteContact(p, i) \/ Redeem(p, i)
  PROVE  ContactTypeInv'
<1>0. /\ {"insert_invite", "claim"} \subseteq Labels \ (Posting \cup {"delete_row"})
      /\ {"invite", "redeem"} \subseteq {"none", "invite"} \cup Connecting \cup Retracting
      /\ Invitee \in User /\ i \in Invite \cup {NoInvite}
  BY DEF Labels, Posting, Connecting, User
<1>1. CASE InviteContact(p, i)
  <2> DEFINE k == [NoCall EXCEPT !.at = "insert_invite", !.op = "invite", !.i = i]
  <2>1. Starts(k, "insert_invite", "invite", NoRow, NoConv)
    BY <1>0, CallStart, Zenon
  <2>2. Goto(p, k) /\ UNCHANGED <<row, inv, joined, lines, created>> /\ raced' = raced
    BY <1>1 DEF InviteContact
  <2> HIDE DEF k
  <2> QED  BY <1>0, <2>1, <2>2, TypeBegin
<1>2. CASE Redeem(p, i)
  <2> DEFINE k == [NoCall EXCEPT !.at = "claim", !.op = "redeem", !.u = Invitee, !.i = i]
  <2>1. Starts(k, "claim", "redeem", NoRow, NoConv)
    BY <1>0, CallStart, Zenon
  <2>2. Goto(p, k) /\ UNCHANGED <<row, inv, joined, lines, created>> /\ Overlaps("redeem")
    BY <1>2 DEF Redeem
  <2> HIDE DEF k
  <2> QED  BY <1>0, <2>1, <2>2, TypeBegin
<1> QED  BY <1>1, <1>2

LEMMA InvTyped ==
  ASSUME ContactTypeInv, NEW x, NEW s \in {"open", "consumed", "cancelled"}, inv' = [inv EXCEPT ![x] = s],
         UNCHANGED <<joined, lines, created, raced>>
  PROVE  RestTyped'
  BY DEF ContactTypeInv, TypeOK, RestTyped

LEMMA InvitesType ==
  ASSUME ContactTypeInv, NEW p \in Proc, InsertInvite(p) \/ Claim(p)
  PROVE  ContactTypeInv'
<1>1. CASE InsertInvite(p)
  <2>1. RestTyped' /\ row' = row /\ created' = created /\ Goto(p, NoCall)
    BY <1>1, InvTyped DEF InsertInvite
  <2> QED  BY <2>1, TypeEnds
<1>2. CASE Claim(p)
  <2>1. RestTyped' /\ row' = row /\ created' = created
    BY <1>2, InvTyped, RestKept DEF Claim
  <2>2. CASE Goto(p, NoCall)
    BY <2>1, <2>2, TypeEnds
  <2>3. CASE Goto(p, [call[p] EXCEPT !.at = "read_conv"])
    <3>1. At([call[p] EXCEPT !.at = "read_conv"], call[p], "read_conv", call[p].c, call[p].v)
      BY HereTyped, CallChange DEF Labels
    <3>2. "read_conv" \in Labels \ {"delete_lines", "delete_row"} /\ "read_conv" \notin Posting
      BY DEF Labels, Posting
    <3> QED  BY <2>1, <2>3, <3>1, <3>2, HereTyped, TypeOn
  <2> QED  BY <1>2, <2>2, <2>3 DEF Claim
<1> QED  BY <1>1, <1>2

\* Where upsertAcceptedContact leads.
LEMMA UpsertLeads ==
  ASSUME ContactTypeInv, NEW p \in Proc, NEW none \in {"insert_accepted", "post_connected"}
  PROVE  \/ ActiveRows = {} /\ At(Upsert(p, none), call[p], none, call[p].c, call[p].v)
         \/ Connected /\ At(Upsert(p, none), call[p], "post_connected", call[p].c, call[p].v)
         \/ \E c \in Row : row[c].status = "pending" /\ At(Upsert(p, none), call[p], "update", c, call[p].v)
<1>0. none \in Labels /\ {"post_connected", "update"} \subseteq Labels
  BY DEF Labels
<1>1. CASE ActiveRows = {}
  BY <1>0, <1>1, HereTyped, CallChange DEF Upsert
<1>2. CASE ActiveRows # {}
  <2> DEFINE c == CHOOSE c \in ActiveRows : TRUE
  <2>1. c \in Row /\ row[c].status \in {"pending", "accepted"}
    BY <1>2 DEF ActiveRows
  <2>2. Upsert(p, none) = IF row[c].status = "accepted" THEN [call[p] EXCEPT !.at = "post_connected"]
                          ELSE [call[p] EXCEPT !.at = "update", !.c = c]
    BY <1>2 DEF Upsert
  <2> HIDE DEF c
  <2>3. CASE row[c].status = "accepted"
    <3>1. At([call[p] EXCEPT !.at = "post_connected"], call[p], "post_connected", call[p].c, call[p].v)
      BY <1>0, HereTyped, CallChange
    <3> QED  BY <2>1, <2>2, <2>3, <3>1 DEF Connected
  <2>4. CASE row[c].status = "pending"
    <3>1. At([call[p] EXCEPT !.at = "update", !.c = c], call[p], "update", c, call[p].v)
      BY <1>0, <2>1, HereTyped, CallChange
    <3> QED  BY <2>1, <2>2, <2>4, <3>1
  <2> QED  BY <2>1, <2>3, <2>4
<1> QED  BY <1>1, <1>2

LEMMA UpsertType ==
  ASSUME ContactTypeInv, NEW p \in Proc, ReadUpsert(p) \/ RereadUpsert(p)
  PROVE  ContactTypeInv'
<1>0. PICK none \in {"insert_accepted", "post_connected"} : Goto(p, Upsert(p, none))
  BY DEF ReadUpsert, RereadUpsert
<1>1. row' = row /\ RestTyped' /\ created' = created
  BY RestKept DEF ReadUpsert, RereadUpsert
<1>2. call[p].v \in created
  BY HereTyped DEF Holds, Posting, ReadUpsert, RereadUpsert
<1>3. PICK k : k = Upsert(p, none)
  OBVIOUS
<1>4. k \in Calls /\ k.v = call[p].v /\ Placed(k)
  BY <1>3, UpsertLeads DEF At, Placed
<1> QED  BY <1>0, <1>1, <1>2, <1>3, <1>4, TypeGoes DEF Holds

LEMMA TypeStep == ContactTypeInv /\ [Next]_vars => ContactTypeInv'
<1> SUFFICES ASSUME ContactTypeInv, [Next]_vars PROVE ContactTypeInv'
  OBVIOUS
<1>1. CASE UNCHANGED vars
  BY <1>1 DEF ContactTypeInv, TypeOK, RowFits, Holds, Placed, vars
<1>2. CASE SignUp
  BY <1>2 DEF ContactTypeInv, TypeOK, RowFits, Holds, Placed, SignUp
<1>3. ASSUME NEW i \in Invite, CancelInvite(i) PROVE ContactTypeInv'
  BY <1>3 DEF ContactTypeInv, TypeOK, RowFits, Holds, Placed, CancelInvite
<1>4. ASSUME NEW p \in Proc, \/ \E u \in User : Request(p, u)
                             \/ \E c \in Row : (\E op \in {"accept", "decline"} : Respond(p, c, op)) \/ Withdraw(p, c)
                             \/ \E i \in Invite : InviteContact(p, i) \/ Redeem(p, i)
      PROVE  ContactTypeInv'
  BY <1>4, RequestType, RespondType, WithdrawType, InviteType
<1>5. ASSUME NEW p \in Proc, \/ ReadActive(p) \/ ReadConv(p) \/ CreateConv(p) \/ InsertRequest(p) \/ PostWants(p)
                             \/ Update(p) \/ PostConnected(p) \/ DeleteLines(p) \/ DeleteRow(p)
      PROVE  ContactTypeInv'
  BY <1>5, ReadActiveType, ReadConvType, CreateConvType, InsertRequestType, PostType, UpdateType, DeleteType
<1>6. ASSUME NEW p \in Proc, InsertInvite(p) \/ Claim(p) \/ ReadUpsert(p) \/ InsertAccepted(p) \/ RereadUpsert(p)
      PROVE  ContactTypeInv'
  BY <1>6, InvitesType, UpsertType, InsertAcceptedType
<1> QED  BY <1>1, <1>2, <1>3, <1>4, <1>5, <1>6, Zenon DEF Next

LEMMA TypeInvariant == Spec => []ContactTypeInv
<1>1. ContactTypeInv /\ [Next]_vars => ContactTypeInv'
  BY TypeStep
<1> QED  BY <1>1, TypeInitially, PTL DEF Spec

\* Every variable holds a value of its kind, and a call about to write a row or
\* a notice has one to write: it never posts in a conversation that was not made.
THEOREM ContactTypeCorrect == Spec => []TypeOK
<1>1. ContactTypeInv => TypeOK
  BY DEF ContactTypeInv
<1> QED  BY <1>1, TypeInvariant, PTL

------------------------------------------------------------------------------
(***************************************************************************)
(* What two people are told                                                *)
(***************************************************************************)
\* What a call is there for is told by the step it has reached.
Steers(k) ==
  /\ k.at \in {"claim", "insert_accepted", "reread"} => k.op = "redeem"
  /\ k.at \in {"delete_lines", "delete_row"} => k.op = "withdraw"
  /\ k.at = "update" => k.op \in {"request", "accept", "decline", "redeem"}

\* A call that has claimed an invitation, and has yet to connect the pair.
Redeeming(k) ==
  k.op = "redeem" /\ k.at \in {"read_conv", "create_conv", "insert", "insert_accepted", "reread", "update"}

\* What a call about to connect the pair, or to say so, can count on.
Promised(k) ==
  /\ k.at = "update" /\ k.op # "decline" => row[k.c].status \in {"pending", "accepted"}
  /\ k.at = "reread" => ActiveRows # {}
  /\ k.at = "post_connected" => Connected

ApartFrom(k, l) ==
  ~(k.op \in Connecting /\ l.op \in Retracting) /\ ~(k.op \in Retracting /\ l.op \in Connecting)

\* As long as no retracting call has overlapped a connecting one: whoever has
\* been told is connected, or a redeeming call is on the way to connect them.
ToldInv ==
  /\ \A p \in Proc : Steers(call[p])
  /\ ~raced =>
       /\ \A p, q \in Proc : ApartFrom(call[p], call[q])
       /\ \A p \in Proc : Promised(call[p])
       /\ (\E v \in Conv : "connected" \in lines[v]) => Connected
       /\ (\E i \in Invite : inv[i] = "consumed") => Connected \/ \E p \in Proc : Redeeming(call[p])

\* No request that waits is taken back or declined.
ActiveStays ==
  \A d \in Row : row[d].status \in {"pending", "accepted"} => row'[d].status \in {"pending", "accepted"}

LEMMA ConnectedStays ==
  ASSUME \A d \in Row : RowMoves(row[d], row'[d]), Connected
  PROVE  Connected'
  BY DEF RowMoves, Connected

LEMMA ToldFrame ==
  ASSUME ContactTypeInv, ToldInv, \A d \in Row : RowMoves(row[d], row'[d]),
         NEW p \in Proc, NEW k \in Calls, Goto(p, k), Steers(k),
         ~raced' => ~raced /\ \A q \in Proc \ {p} : ApartFrom(k, call[q]),
         ~raced' => ActiveStays \/ \A q \in Proc \ {p} : call[q].op \notin Connecting,
         ~raced' => Promised(k)',
         ~raced' => \A v \in Conv : "connected" \in lines'[v] => "connected" \in lines[v] \/ Connected',
         \A i \in Invite : inv'[i] = "consumed" => inv[i] = "consumed" \/ Redeeming(k),
         ~raced' /\ Redeeming(call[p]) => Redeeming(k) \/ Connected'
  PROVE  ToldInv'
<1>0. call' \in [Proc -> Calls] /\ \A q \in Proc : call'[q] = IF q = p THEN k ELSE call[q]
  BY CallTo DEF CallGoes
<1>1. \A q \in Proc : Steers(call'[q])
  BY <1>0 DEF ToldInv
<1>2. ASSUME ~raced' PROVE \A q, r \in Proc : ApartFrom(call'[q], call'[r])
  <2>1. ApartFrom(k, k)
    BY DEF ApartFrom, Connecting, Retracting
  <2>2. \A q \in Proc \ {p} : ApartFrom(call[q], k)
    BY <1>2 DEF ApartFrom
  <2> QED  BY <1>0, <1>2, <2>1, <2>2 DEF ToldInv
<1>3. ASSUME ~raced', NEW q \in Proc \ {p} PROVE Promised(call[q])'
  <2>0. Promised(call[q]) /\ Steers(call[q]) /\ call'[q] = call[q] /\ Placed(call[q])
    BY <1>0, <1>3 DEF ToldInv, ContactTypeInv
  <2>1. call[q].at = "post_connected" => Connected'
    BY <2>0, ConnectedStays DEF Promised
  <2>2. CASE ActiveStays
    <3>1. ActiveRows # {} => ActiveRows' # {}
      BY <2>2 DEF ActiveStays, ActiveRows
    <3> QED  BY <2>0, <2>1, <2>2, <3>1 DEF Promised, ActiveStays, Placed
  <2>3. CASE call[q].op \notin Connecting
    BY <2>0, <2>1, <2>3 DEF Promised, Steers, Connecting
  <2> QED  BY <1>3, <2>2, <2>3
<1>4. ASSUME ~raced' PROVE \A q \in Proc : Promised(call[q])'
  BY <1>0, <1>3, <1>4 DEF Promised
<1>5. ASSUME ~raced' PROVE (\E v \in Conv : "connected" \in lines'[v]) => Connected'
  BY <1>5, ConnectedStays DEF ToldInv
<1>6. ASSUME ~raced', NEW i \in Invite, inv'[i] = "consumed"
      PROVE  Connected' \/ \E q \in Proc : Redeeming(call'[q])
  <2>1. CASE Redeeming(k)
    BY <1>0, <2>1
  <2>2. CASE inv[i] = "consumed"
    <3>1. Connected \/ \E q \in Proc : Redeeming(call[q])
      BY <1>6, <2>2 DEF ToldInv
    <3>2. ASSUME NEW q \in Proc, Redeeming(call[q]) PROVE Connected' \/ \E r \in Proc : Redeeming(call'[r])
      BY <1>0, <1>6, <3>2
    <3> QED  BY <3>1, <3>2, ConnectedStays
  <2> QED  BY <1>6, <2>1, <2>2
<1> QED  BY <1>1, <1>2, <1>4, <1>5, <1>6 DEF ToldInv

\* A call under way goes on, or ends.
LEMMA ToldOn ==
  ASSUME ContactTypeInv, ToldInv, \A d \in Row : RowMoves(row[d], row'[d]),
         NEW p \in Proc, NEW k \in Calls, Goto(p, k), Steers(k), raced' = raced,
         k.op = call[p].op \/ k.op = "none",
         ~raced => ActiveStays \/ call[p].op \in Retracting,
         ~raced => Promised(k)',
         ~raced => \A v \in Conv : "connected" \in lines'[v] => "connected" \in lines[v] \/ Connected',
         \A i \in Invite : inv'[i] = "consumed" => inv[i] = "consumed" \/ Redeeming(k),
         ~raced /\ Redeeming(call[p]) => Redeeming(k) \/ Connected'
  PROVE  ToldInv'
<1>1. ~raced => \A q \in Proc : ApartFrom(call[p], call[q])
  BY DEF ToldInv
<1>2. ~raced => \A q \in Proc \ {p} : ApartFrom(k, call[q])
  BY <1>1 DEF ApartFrom, Connecting, Retracting
<1>3. ~raced => ActiveStays \/ \A q \in Proc \ {p} : call[q].op \notin Connecting
  BY <1>1 DEF ApartFrom
<1> QED  BY <1>2, <1>3, ToldFrame

\* The same for a step that writes neither a row, nor a notice, nor an invitation.
LEMMA ToldReads ==
  ASSUME ContactTypeInv, ToldInv, UNCHANGED <<row, lines, inv, raced>>,
         NEW p \in Proc, NEW k \in Calls, Goto(p, k), Steers(k), k.op = call[p].op \/ k.op = "none",
         ~raced => Promised(k), ~raced /\ Redeeming(call[p]) => Redeeming(k) \/ Connected
  PROVE  ToldInv'
<1>1. ActiveStays /\ \A d \in Row : RowMoves(row[d], row'[d])
  BY DEF ActiveStays, RowMoves
<1>2. (Promised(k) => Promised(k)') /\ (Connected => Connected')
  BY DEF Promised, ActiveRows, Connected
<1> QED  BY <1>1, <1>2, ToldOn

\* A call begins.
LEMMA ToldBegins ==
  ASSUME ContactTypeInv, ToldInv, UNCHANGED <<lines, inv>>, \A d \in Row : RowMoves(row[d], row'[d]), ActiveStays,
         NEW p \in Proc, call[p] = NoCall, NEW k \in Calls, Goto(p, k), Steers(k),
         ~raced' => ~raced /\ \A q \in Proc \ {p} : ApartFrom(k, call[q]), Promised(k)'
  PROVE  ToldInv'
<1>1. ~Redeeming(call[p])
  BY DEF NoCall, Redeeming
<1> QED  BY <1>1, ToldFrame

LEMMA NoCallSteers ==
  NoCall \in Calls /\ NoCall.op = "none" /\ Steers(NoCall) /\ ~Redeeming(NoCall) /\ Promised(NoCall) /\ Promised(NoCall)'
  BY NoCallStarts DEF Starts, Steers, Redeeming, Promised

LEMMA ToldInitially == Init => ToldInv
<1> SUFFICES ASSUME Init PROVE ToldInv
  OBVIOUS
<1>1. \A p \in Proc : call[p].at = "idle" /\ call[p].op = "none"
  BY DEF Init, NoCall
<1>2. (\A v \in Conv : lines[v] = {}) /\ (\A i \in Invite : inv[i] = "none")
  BY DEF Init
<1> QED  BY <1>1, <1>2 DEF ToldInv, Steers, ApartFrom, Promised, Connecting, Retracting

LEMMA RequestTold ==
  ASSUME ContactTypeInv, ToldInv, \A d \in Row : RowMoves(row[d], row'[d]),
         NEW p \in Proc, NEW u \in User, Request(p, u)
  PROVE  ToldInv'
<1>1. PICK k : k = [NoCall EXCEPT !.at = "read_active", !.op = "request", !.u = u]
  OBVIOUS
<1>2. Starts(k, "read_active", "request", NoRow, NoConv)
  <2>1. "read_active" \in Labels /\ "request" \in {"none", "invite"} \cup Connecting \cup Retracting
    BY DEF Labels, Connecting
  <2> QED  BY <1>1, <2>1, CallStart, Zenon
<1>3. k \in Calls /\ k.op = "request" /\ Steers(k) /\ Promised(k)'
  BY <1>2 DEF Starts, Steers, Promised
<1>4. Goto(p, k) /\ call[p] = NoCall /\ UNCHANGED <<lines, inv>>
  BY <1>1, <1>3 DEF Request
<1>5. ActiveStays
  BY DEF Request, ActiveStays
<1>6. ~raced' => ~raced /\ \A q \in Proc \ {p} : ApartFrom(k, call[q])
  BY <1>3 DEF Request, Overlaps, ApartFrom
<1> QED  BY <1>3, <1>4, <1>5, <1>6, ToldBegins

LEMMA RespondTold ==
  ASSUME ContactTypeInv, ToldInv, NEW p \in Proc, NEW c \in Row, NEW op \in {"accept", "decline"}, Respond(p, c, op)
  PROVE  ToldInv'
<1>1. PICK k : k = [NoCall EXCEPT !.at = "update", !.op = op, !.u = Other(row[c].from), !.c = c, !.v = row[c].conv]
  OBVIOUS
<1>2. Starts(k, "update", op, c, row[c].conv)
  <2>1. "update" \in Labels /\ op \in {"none", "invite"} \cup Connecting \cup Retracting
    BY DEF Labels, Connecting, Retracting
  <2>2. Other(row[c].from) \in User
    BY HereTyped, OtherDiffers DEF Records
  <2>3. c \in Row \cup {NoRow}
    OBVIOUS
  <2>4. row[c].conv \in Conv \cup {NoConv}
    BY HereTyped
  <2> QED  BY <1>1, <2>1, <2>2, <2>3, <2>4, CallStart, Zenon
<1>3. row' = row /\ row[c].status = "pending" /\ Goto(p, k) /\ call[p] = NoCall
      /\ UNCHANGED <<lines, inv>>
  BY <1>1 DEF Respond
<1>4. k \in Calls /\ k.op = op /\ Steers(k) /\ Promised(k)'
  BY <1>2, <1>3 DEF Starts, Steers, Promised
<1>5. ActiveStays /\ \A d \in Row : RowMoves(row[d], row'[d])
  BY <1>3 DEF ActiveStays, RowMoves
<1>6. ~raced' => ~raced /\ \A q \in Proc \ {p} : ApartFrom(k, call[q])
  BY <1>4 DEF Respond, Overlaps, ApartFrom
<1> QED  BY <1>3, <1>4, <1>5, <1>6, ToldBegins

LEMMA WithdrawTold ==
  ASSUME ContactTypeInv, ToldInv, NEW p \in Proc, NEW c \in Row, Withdraw(p, c)
  PROVE  ToldInv'
<1>1. PICK k : k = [NoCall EXCEPT !.at = "delete_lines", !.op = "withdraw", !.u = row[c].from, !.c = c, !.v = row[c].conv]
  OBVIOUS
<1>2. Starts(k, "delete_lines", "withdraw", c, row[c].conv)
  <2>1. "delete_lines" \in Labels /\ "withdraw" \in {"none", "invite"} \cup Connecting \cup Retracting
    BY DEF Labels, Connecting, Retracting
  <2>2. c \in Row \cup {NoRow} /\ row[c].from \in User /\ row[c].conv \in Conv \cup {NoConv}
    BY HereTyped DEF Records
  <2> QED  BY <1>1, <2>1, <2>2, CallStart, Zenon
<1>3. row' = row /\ Goto(p, k) /\ call[p] = NoCall /\ UNCHANGED <<lines, inv>>
  BY <1>1 DEF Withdraw
<1>4. k \in Calls /\ k.op = "withdraw" /\ Steers(k) /\ Promised(k)'
  BY <1>2 DEF Starts, Steers, Promised
<1>5. ActiveStays /\ \A d \in Row : RowMoves(row[d], row'[d])
  BY <1>3 DEF ActiveStays, RowMoves
<1>6. ~raced' => ~raced /\ \A q \in Proc \ {p} : ApartFrom(k, call[q])
  BY <1>4 DEF Withdraw, Overlaps, ApartFrom
<1> QED  BY <1>3, <1>4, <1>5, <1>6, ToldBegins

LEMMA InviteTold ==
  ASSUME ContactTypeInv, ToldInv, NEW p \in Proc, NEW i \in Invite, InviteContact(p, i) \/ Redeem(p, i)
  PROVE  ToldInv'
<1>0. /\ {"insert_invite", "claim"} \subseteq Labels
      /\ {"invite", "redeem"} \subseteq {"none", "invite"} \cup Connecting \cup Retracting
      /\ Invitee \in User /\ i \in Invite \cup {NoInvite}
  BY DEF Labels, Connecting, User
<1>1. row' = row /\ call[p] = NoCall /\ UNCHANGED <<lines, inv>>
  BY DEF InviteContact, Redeem
<1>2. ActiveStays /\ \A d \in Row : RowMoves(row[d], row'[d])
  BY <1>1 DEF ActiveStays, RowMoves
<1>3. CASE InviteContact(p, i)
  <2>1. PICK k : k = [NoCall EXCEPT !.at = "insert_invite", !.op = "invite", !.i = i]
    OBVIOUS
  <2>2. Starts(k, "insert_invite", "invite", NoRow, NoConv)
    BY <1>0, <2>1, CallStart, Zenon
  <2>3. Goto(p, k) /\ raced' = raced
    BY <1>3, <2>1 DEF InviteContact
  <2>4. k \in Calls /\ k.op = "invite" /\ Steers(k) /\ Promised(k)'
    BY <2>2 DEF Starts, Steers, Promised
  <2>5. ~raced' => ~raced /\ \A q \in Proc \ {p} : ApartFrom(k, call[q])
    BY <2>3, <2>4 DEF ApartFrom, Connecting, Retracting
  <2> QED  BY <1>1, <1>2, <2>3, <2>4, <2>5, ToldBegins
<1>4. CASE Redeem(p, i)
  <2>1. PICK k : k = [NoCall EXCEPT !.at = "claim", !.op = "redeem", !.u = Invitee, !.i = i]
    OBVIOUS
  <2>2. Starts(k, "claim", "redeem", NoRow, NoConv)
    BY <1>0, <2>1, CallStart, Zenon
  <2>3. Goto(p, k)
    BY <1>4, <2>1 DEF Redeem
  <2>4. k \in Calls /\ k.op = "redeem" /\ Steers(k) /\ Promised(k)'
    BY <2>2 DEF Starts, Steers, Promised
  <2>5. ~raced' => ~raced /\ \A q \in Proc \ {p} : ApartFrom(k, call[q])
    BY <1>4, <2>4 DEF Redeem, Overlaps, ApartFrom
  <2> QED  BY <1>1, <1>2, <2>3, <2>4, <2>5, ToldBegins
<1> QED  BY <1>3, <1>4

LEMMA ReadActiveTold ==
  ASSUME ContactTypeInv, ToldInv, NEW p \in Proc, ReadActive(p)
  PROVE  ToldInv'
<1>0. call[p].op = "request" /\ ~Redeeming(call[p]) /\ UNCHANGED <<row, lines, inv, raced>>
  BY DEF ReadActive, Redeeming
<1>1. CASE Goto(p, NoCall)
  BY <1>0, <1>1, NoCallSteers, ToldReads
<1>2. ASSUME NEW k, k = [call[p] EXCEPT !.at = "read_conv"], Goto(p, k) PROVE ToldInv'
  <2>1. At(k, call[p], "read_conv", call[p].c, call[p].v)
    BY <1>2, HereTyped, CallChange DEF Labels
  <2>2. k \in Calls /\ Steers(k) /\ k.op = call[p].op /\ Promised(k)
    BY <2>1 DEF At, Steers, Promised
  <2> QED  BY <1>0, <1>2, <2>2, ToldReads
<1>3. ASSUME NEW c \in ActiveRows, row[c].status = "pending",
             NEW k, k = [call[p] EXCEPT !.at = "update", !.c = c, !.v = row[c].conv], Goto(p, k)
      PROVE  ToldInv'
  <2>1. c \in Row /\ row[c].conv \in Conv \cup {NoConv}
    BY <1>3, HereTyped DEF ActiveRows
  <2>2. At(k, call[p], "update", c, row[c].conv)
    BY <1>3, <2>1, HereTyped, CallChange DEF Labels
  <2>3. k \in Calls /\ Steers(k) /\ k.op = call[p].op /\ Promised(k)
    BY <1>0, <1>3, <2>2 DEF At, Steers, Promised
  <2> QED  BY <1>0, <1>3, <2>3, ToldReads
<1> QED  BY <1>1, <1>2, <1>3 DEF ReadActive

LEMMA ReadConvTold ==
  ASSUME ContactTypeInv, ToldInv, NEW p \in Proc, ReadConv(p) \/ CreateConv(p)
  PROVE  ToldInv'
<1>0. UNCHANGED <<row, lines, inv, raced>>
  BY DEF ReadConv, CreateConv
<1>1. PICK k \in Calls : Goto(p, k) /\ k.at \in {"create_conv", "insert"} /\ k.op = call[p].op
  <2>1. CASE ReadConv(p)
    BY <2>1, ReadConvGoes DEF At
  <2>2. CASE CreateConv(p)
    <3>1. PICK v \in Conv : Goto(p, [call[p] EXCEPT !.at = "insert", !.v = v])
      BY <2>2 DEF CreateConv
    <3>2. At([call[p] EXCEPT !.at = "insert", !.v = v], call[p], "insert", call[p].c, v)
      BY HereTyped, CallChange DEF Labels
    <3> QED  BY <3>1, <3>2 DEF At
  <2> QED  BY <2>1, <2>2
<1>2. Steers(k) /\ Promised(k) /\ (Redeeming(call[p]) => Redeeming(k))
  BY <1>1 DEF Steers, Promised, Redeeming
<1> QED  BY <1>0, <1>1, <1>2, ToldReads

LEMMA InsertedConnects ==
  ASSUME NEW r, Inserted(r), r.status \in {"pending", "accepted"}, row \in [Row -> Records]
  PROVE  ActiveStays /\ (r.status = "accepted" => Connected')
<1>1. PICK c \in Row : row[c].status = "none" /\ row' = [row EXCEPT ![c] = r]
  BY DEF Inserted
<1> QED  BY <1>1 DEF ActiveStays, Connected

LEMMA InsertRequestTold ==
  ASSUME ContactTypeInv, ToldInv, \A d \in Row : RowMoves(row[d], row'[d]), NEW p \in Proc, InsertRequest(p)
  PROVE  ToldInv'
<1>0. call[p].op = "request" /\ ~Redeeming(call[p]) /\ UNCHANGED <<lines, inv, raced>>
  BY DEF InsertRequest, Redeeming
<1>1. CASE Goto(p, NoCall) /\ row' = row
  BY <1>0, <1>1, NoCallSteers, ToldReads
<1>2. ASSUME NEW r, r = [status |-> "pending", from |-> call[p].u, conv |-> call[p].v, agreed |-> {call[p].u}],
             Inserted(r), Goto(p, [call[p] EXCEPT !.at = "post_wants"])
      PROVE  ToldInv'
  <2>1. PICK k : k = [call[p] EXCEPT !.at = "post_wants"]
    OBVIOUS
  <2>2. At(k, call[p], "post_wants", call[p].c, call[p].v)
    BY <2>1, HereTyped, CallChange DEF Labels
  <2>3. k \in Calls /\ Steers(k) /\ k.op = call[p].op /\ Promised(k)'
    BY <2>2 DEF At, Steers, Promised
  <2>4. ActiveStays
    BY <1>2, InsertedConnects DEF ContactTypeInv, TypeOK
  <2> QED  BY <1>0, <1>2, <2>1, <2>3, <2>4, ToldOn
<1> QED  BY <1>1, <1>2 DEF InsertRequest

LEMMA InsertAcceptedTold ==
  ASSUME ContactTypeInv, ToldInv, \A d \in Row : RowMoves(row[d], row'[d]), NEW p \in Proc, InsertAccepted(p)
  PROVE  ToldInv'
<1>0. call[p].op = "redeem" /\ UNCHANGED <<lines, inv, raced>>
  BY DEF InsertAccepted, ToldInv, Steers
<1>1. ASSUME NEW k, k = [call[p] EXCEPT !.at = "reread"], Goto(p, k), row' = row, ActiveRows # {}
      PROVE  ToldInv'
  <2>1. At(k, call[p], "reread", call[p].c, call[p].v)
    BY <1>1, HereTyped, CallChange DEF Labels
  <2>2. k \in Calls /\ Steers(k) /\ k.op = call[p].op /\ Promised(k) /\ Redeeming(k)
    BY <1>0, <1>1, <2>1 DEF At, Steers, Promised, Redeeming
  <2> QED  BY <1>0, <1>1, <2>2, ToldReads
<1>2. ASSUME NEW r, r = [status |-> "accepted", from |-> Inviter, conv |-> call[p].v, agreed |-> User],
             Inserted(r), Goto(p, [call[p] EXCEPT !.at = "post_connected"])
      PROVE  ToldInv'
  <2>1. PICK k : k = [call[p] EXCEPT !.at = "post_connected"]
    OBVIOUS
  <2>2. At(k, call[p], "post_connected", call[p].c, call[p].v)
    BY <2>1, HereTyped, CallChange DEF Labels
  <2>3. ActiveStays /\ Connected'
    BY <1>2, InsertedConnects DEF ContactTypeInv, TypeOK
  <2>4. k \in Calls /\ Steers(k) /\ k.op = call[p].op /\ Promised(k)'
    BY <2>2, <2>3 DEF At, Steers, Promised
  <2> QED  BY <1>0, <1>2, <2>1, <2>3, <2>4, ToldOn
<1> QED  BY <1>1, <1>2 DEF InsertAccepted

\* An accepting UPDATE finds its row waiting or accepted, unless a retracting
\* call has overlapped: it leaves the pair connected.
LEMMA UpdateTold ==
  ASSUME ContactTypeInv, ToldInv, \A d \in Row : RowMoves(row[d], row'[d]), NEW p \in Proc, Update(p)
  PROVE  ToldInv'
<1>0. UNCHANGED <<lines, inv, raced>> /\ call[p].at = "update" /\ Steers(call[p]) /\ (~raced => Promised(call[p]))
  BY DEF Update, ToldInv
<1>1. CASE call[p].op = "decline"
  <2>1. Goto(p, NoCall) /\ call[p].op \in Retracting /\ ~Redeeming(call[p])
    BY <1>1 DEF Update, Retracting, Redeeming
  <2> QED  BY <1>0, <2>1, NoCallSteers, ToldOn
<1>2. CASE call[p].op # "decline"
  <2>1. PICK k : k = [call[p] EXCEPT !.at = "post_connected"] /\ Goto(p, k)
    BY <1>2 DEF Update
  <2>2. At(k, call[p], "post_connected", call[p].c, call[p].v)
    BY <2>1, HereTyped, CallChange DEF Labels
  <2>3. ActiveStays
    BY <1>2, UpdateWrites DEF ActiveStays
  <2>4. ~raced => Connected'
    BY <1>0, <1>2, UpdateWrites DEF Promised, Connected
  <2>5. k \in Calls /\ Steers(k) /\ k.op = call[p].op /\ (~raced => Promised(k)')
    BY <2>2, <2>4 DEF At, Steers, Promised
  <2> QED  BY <1>0, <2>1, <2>3, <2>4, <2>5, ToldOn
<1> QED  BY <1>1, <1>2

LEMMA PostTold ==
  ASSUME ContactTypeInv, ToldInv, NEW p \in Proc, PostWants(p) \/ PostConnected(p)
  PROVE  ToldInv'
<1>0. Goto(p, NoCall) /\ row' = row /\ inv' = inv /\ raced' = raced /\ ~Redeeming(call[p])
  BY DEF PostWants, PostConnected, Redeeming
<1>1. ActiveStays /\ \A d \in Row : RowMoves(row[d], row'[d])
  BY <1>0 DEF ActiveStays, RowMoves
<1>2. ~raced => \A v \in Conv : "connected" \in lines'[v] => "connected" \in lines[v] \/ Connected'
  <2>1. CASE PostWants(p)
    BY <2>1 DEF PostWants, ContactTypeInv, TypeOK
  <2>2. CASE PostConnected(p)
    BY <1>0, <2>2 DEF PostConnected, ToldInv, Promised, Connected
  <2> QED  BY <2>1, <2>2
<1> QED  BY <1>0, <1>1, <1>2, NoCallSteers, ToldOn

LEMMA DeleteTold ==
  ASSUME ContactTypeInv, ToldInv, \A d \in Row : RowMoves(row[d], row'[d]), NEW p \in Proc, DeleteLines(p) \/ DeleteRow(p)
  PROVE  ToldInv'
<1>0. call[p].op = "withdraw" /\ inv' = inv /\ raced' = raced /\ ~Redeeming(call[p]) /\ call[p].op \in Retracting
  BY DEF DeleteLines, DeleteRow, ToldInv, Steers, Redeeming, Retracting
<1>1. CASE DeleteLines(p)
  <2>0. PICK k : k = [call[p] EXCEPT !.at = "delete_row"] /\ Goto(p, k)
    BY <1>1 DEF DeleteLines
  <2>1. At(k, call[p], "delete_row", call[p].c, call[p].v)
    BY <2>0, HereTyped, CallChange DEF Labels
  <2>2. k \in Calls /\ Steers(k) /\ k.op = call[p].op /\ Promised(k)'
    BY <1>0, <2>1 DEF At, Steers, Promised
  <2>3. \A v \in Conv : "connected" \in lines'[v] => "connected" \in lines[v]
    BY <1>1 DEF DeleteLines, ContactTypeInv, TypeOK
  <2> QED  BY <1>0, <2>0, <2>2, <2>3, ToldOn
<1>2. CASE DeleteRow(p)
  <2>1. Goto(p, NoCall) /\ lines' = lines
    BY <1>2 DEF DeleteRow
  <2> QED  BY <1>0, <2>1, NoCallSteers, ToldOn
<1> QED  BY <1>1, <1>2

LEMMA InvitesTold ==
  ASSUME ContactTypeInv, ToldInv, NEW p \in Proc, InsertInvite(p) \/ Claim(p)
  PROVE  ToldInv'
<1>0. row' = row /\ lines' = lines /\ raced' = raced /\ ~Redeeming(call[p])
  BY DEF InsertInvite, Claim, Redeeming
<1>1. ActiveStays /\ \A d \in Row : RowMoves(row[d], row'[d])
  BY <1>0 DEF ActiveStays, RowMoves
<1>2. CASE Goto(p, NoCall) /\ (inv' = inv \/ InsertInvite(p))
  <2>1. \A i \in Invite : inv'[i] = "consumed" => inv[i] = "consumed"
    BY <1>2 DEF InsertInvite, ContactTypeInv, TypeOK
  <2> QED  BY <1>0, <1>1, <1>2, <2>1, NoCallSteers, ToldOn
<1>3. ASSUME Claim(p), NEW k, k = [call[p] EXCEPT !.at = "read_conv"], Goto(p, k) PROVE ToldInv'
  <2>1. At(k, call[p], "read_conv", call[p].c, call[p].v)
    BY <1>3, HereTyped, CallChange DEF Labels
  <2>2. call[p].op = "redeem"
    BY <1>3 DEF Claim, ToldInv, Steers
  <2>3. k \in Calls /\ Steers(k) /\ k.op = call[p].op /\ Promised(k)' /\ Redeeming(k)
    BY <2>1, <2>2 DEF At, Steers, Promised, Redeeming
  <2> QED  BY <1>0, <1>1, <1>3, <2>3, ToldOn
<1> QED  BY <1>2, <1>3 DEF InsertInvite, Claim

\* A redeeming call that finds no active row has lost one to a retracting call.
LEMMA UpsertTold ==
  ASSUME ContactTypeInv, ToldInv, NEW p \in Proc, ReadUpsert(p) \/ RereadUpsert(p)
  PROVE  ToldInv'
<1>0. UNCHANGED <<row, lines, inv, raced>> /\ call[p].op = "redeem" /\ (~raced => Promised(call[p]))
  BY DEF ReadUpsert, RereadUpsert, ToldInv, Steers
<1>1. PICK none \in {"insert_accepted", "post_connected"} :
        Goto(p, Upsert(p, none)) /\ (~raced /\ none = "post_connected" => ActiveRows # {})
  BY <1>0 DEF ReadUpsert, RereadUpsert, Promised
<1>2. PICK k : k = Upsert(p, none)
  OBVIOUS
<1>3. /\ k \in Calls /\ k.op = "redeem"
      /\ \/ ActiveRows = {} /\ k.at = none
         \/ Connected /\ k.at = "post_connected"
         \/ k.at = "update" /\ row[k.c].status = "pending"
  BY <1>0, <1>2, UpsertLeads DEF At
<1>4. Steers(k) /\ (~raced => Promised(k)) /\ (~raced => Redeeming(k) \/ Connected)
  BY <1>1, <1>3 DEF Steers, Promised, Redeeming
<1> QED  BY <1>0, <1>1, <1>2, <1>3, <1>4, ToldReads

LEMMA ToldUnchanged ==
  ASSUME ToldInv, UNCHANGED <<row, lines, call, raced>>, \A i \in Invite : inv'[i] = "consumed" => inv[i] = "consumed"
  PROVE  ToldInv'
<1>1. (Connected => Connected') /\ \A p \in Proc : Promised(call[p]) => Promised(call[p])'
  BY DEF Connected, Promised, ActiveRows
<1> QED  BY <1>1 DEF ToldInv, Connected

LEMMA ToldStep == ContactInv /\ ContactTypeInv /\ ToldInv /\ [Next]_vars => ToldInv'
<1> SUFFICES ASSUME ContactInv, ContactTypeInv, ToldInv, [Next]_vars PROVE ToldInv'
  OBVIOUS
<1>0. \A d \in Row : RowMoves(row[d], row'[d])
  BY ContactStep
<1>1. CASE SignUp \/ UNCHANGED vars
  BY <1>1, ToldUnchanged DEF SignUp, vars
<1>2. ASSUME NEW i \in Invite, CancelInvite(i) PROVE ToldInv'
  BY <1>2, ToldUnchanged DEF CancelInvite, ContactTypeInv, TypeOK
<1>3. ASSUME NEW p \in Proc, \/ \E u \in User : Request(p, u)
                             \/ \E c \in Row : (\E op \in {"accept", "decline"} : Respond(p, c, op)) \/ Withdraw(p, c)
                             \/ \E i \in Invite : InviteContact(p, i) \/ Redeem(p, i)
      PROVE  ToldInv'
  BY <1>0, <1>3, RequestTold, RespondTold, WithdrawTold, InviteTold
<1>4. ASSUME NEW p \in Proc, \/ ReadActive(p) \/ ReadConv(p) \/ CreateConv(p) \/ InsertRequest(p) \/ PostWants(p)
                             \/ Update(p) \/ PostConnected(p) \/ DeleteLines(p) \/ DeleteRow(p)
      PROVE  ToldInv'
  BY <1>0, <1>4, ReadActiveTold, ReadConvTold, InsertRequestTold, PostTold, UpdateTold, DeleteTold
<1>5. ASSUME NEW p \in Proc, InsertInvite(p) \/ Claim(p) \/ ReadUpsert(p) \/ InsertAccepted(p) \/ RereadUpsert(p)
      PROVE  ToldInv'
  BY <1>0, <1>5, InvitesTold, UpsertTold, InsertAcceptedTold
<1> QED  BY <1>1, <1>2, <1>3, <1>4, <1>5, Zenon DEF Next

\* Whatever told two people that they are connected, a redeemed invitation or
\* the notice in their thread, they are, once every call has returned: however
\* many requests, answers and redemptions overlapped, unless a decline or a
\* withdrawal overlapped one of them.
THEOREM ToldIsConnectedHolds == Spec => []ToldIsConnected
<1>1. Init => ToldInv
  BY ToldInitially
<1>2. ContactInv /\ ContactTypeInv /\ ToldInv /\ [Next]_vars => ToldInv'
  BY ToldStep
<1>3. ToldInv => ToldIsConnected
  <2> SUFFICES ASSUME ToldInv PROVE ToldIsConnected
    OBVIOUS
  <2>1. Settled => \A p \in Proc : ~Redeeming(call[p])
    BY NoCallSteers DEF Settled
  <2> QED  BY <2>1 DEF ToldInv, ToldIsConnected, ClaimedInviteConnects, ConnectedNoticeIsTrue, Connected
<1> QED  BY <1>1, <1>2, <1>3, ContactInvariant, TypeInvariant, PTL DEF Spec

------------------------------------------------------------------------------
(***************************************************************************)
(* The statements implement Acquaintance, whatever calls overlap.          *)
(***************************************************************************)
ActiveOf(rows) == {c \in Row : rows[c].status \in {"pending", "accepted"}}
BehindOf(rows) == UNION {rows[c].agreed : c \in ActiveOf(rows)}
ConnectedOf(rows) == \E c \in Row : rows[c].status = "accepted"
Invited == \E i \in Invite : inv[i] = "consumed"

\* One person stands behind a row that waits, its sender; both behind an accepted one.
Agreeing(r) ==
  /\ r.status = "pending" => r.agreed = {r.from}
  /\ r.status = "accepted" => r.agreed = User

\* At most one row is active at a time.
OneActive(rows) ==
  /\ \A c, d \in ActiveOf(rows) : c = d
  /\ \A c \in Row : Agreeing(rows[c])

Inviting(k) == k.at = "insert_invite"
Named(k) == k.at \in {"insert_invite", "claim"} => k.i \in Invite

PactInv ==
  /\ OneActive(row)
  /\ \A p \in Proc : Redeeming(call[p]) => Invited
  /\ \A p \in Proc : Named(call[p])
  /\ \A p \in Proc : Inviting(call[p]) => inv[call[p].i] = "none"
  /\ \A p, q \in Proc : Inviting(call[p]) /\ Inviting(call[q]) /\ call[p].i = call[q].i => p = q

LEMMA Standing ==
  ASSUME NEW rows, OneActive(rows), NEW c \in Row
  PROVE  /\ rows[c].status = "pending" => BehindOf(rows) = {rows[c].from} /\ ~ConnectedOf(rows)
         /\ rows[c].status = "accepted" => BehindOf(rows) = User /\ ConnectedOf(rows)
<1>1. ASSUME c \in ActiveOf(rows) PROVE BehindOf(rows) = rows[c].agreed
  BY <1>1 DEF BehindOf, OneActive
<1>2. CASE rows[c].status = "pending"
  <2>1. c \in ActiveOf(rows) /\ rows[c].agreed = {rows[c].from}
    BY <1>2 DEF OneActive, Agreeing, ActiveOf
  <2>2. \A d \in Row : rows[d].status = "accepted" => d = c
    BY <2>1 DEF OneActive, ActiveOf
  <2> QED  BY <1>1, <1>2, <2>1, <2>2 DEF ConnectedOf
<1>3. CASE rows[c].status = "accepted"
  BY <1>1, <1>3 DEF OneActive, Agreeing, ActiveOf, ConnectedOf
<1> QED  BY <1>2, <1>3

LEMMA NothingStands ==
  ASSUME NEW rows, ActiveOf(rows) = {}
  PROVE  BehindOf(rows) = {} /\ ~ConnectedOf(rows)
  BY DEF BehindOf, ConnectedOf, ActiveOf

\* Only the row c changes, and no other one is active.
LEMMA OneRowChanges ==
  ASSUME NEW rows, NEW next, OneActive(rows), NEW c \in Row, ActiveOf(rows) \subseteq {c},
         \A d \in Row \ {c} : next[d] = rows[d], Agreeing(next[c])
  PROVE  OneActive(next) /\ ActiveOf(next) \subseteq {c}
  BY DEF OneActive, ActiveOf, Agreeing

LEMMA PairAsks ==
  ASSUME NEW u \in User, BehindOf(row) = {}, ~ConnectedOf(row), BehindOf(row') = {u}, ~ConnectedOf(row'), inv' = inv
  PROVE  Pair!Next
<1>1. Pair!Ask(u)
  BY DEF Pair!Ask, BehindOf, ConnectedOf, ActiveOf, ActiveRows
<1> QED  BY <1>1 DEF Pair!Next

LEMMA PairAgrees ==
  ASSUME NEW u \in User, BehindOf(row) = {u}, ~ConnectedOf(row), BehindOf(row') = User, ConnectedOf(row'), inv' = inv
  PROVE  Pair!Next
<1>1. Other(u) \in User /\ Other(u) # u
  BY OtherDiffers
<1>2. {u} = User \ {Other(u)}
  BY <1>1 DEF User
<1>3. Pair!Agree(Other(u))
  BY <1>2 DEF Pair!Agree, BehindOf, ConnectedOf, ActiveOf, ActiveRows
<1> QED  BY <1>1, <1>3 DEF Pair!Next

LEMMA PairDrops ==
  ASSUME ~ConnectedOf(row), BehindOf(row') = {}, ~ConnectedOf(row'), inv' = inv
  PROVE  Pair!Next
<1>1. Pair!Drop
  BY DEF Pair!Drop, BehindOf, ConnectedOf, ActiveOf, ActiveRows
<1> QED  BY <1>1 DEF Pair!Next

LEMMA PairMeets ==
  ASSUME Invited, ~ConnectedOf(row), BehindOf(row') = User, ConnectedOf(row'), inv' = inv
  PROVE  Pair!Next
<1>1. Pair!Meet
  BY DEF Pair!Meet, BehindOf, ConnectedOf, ActiveOf, ActiveRows, Invited
<1> QED  BY <1>1 DEF Pair!Next

\* What the two of them see stays as it is.
PairRests == BehindOf(row') = BehindOf(row) /\ (ConnectedOf(row') <=> ConnectedOf(row)) /\ (Invited' <=> Invited)

PairStep == Pair!Next \/ PairRests

LEMMA PairRedeems ==
  ASSUME row' = row, Invited => Invited'
  PROVE  PairStep
<1>1. CASE Invited'
  <2>1. Pair!Redeem
    BY <1>1 DEF Pair!Redeem, Invited, ActiveRows
  <2> QED  BY <2>1 DEF Pair!Next, PairStep
<1>2. CASE ~Invited'
  BY <1>2 DEF PairStep, PairRests
<1> QED  BY <1>1, <1>2

------------------------------------------------------------------------------
LEMMA PactFrame ==
  ASSUME ContactTypeInv, PactInv, OneActive(row'), Invited => Invited',
         NEW p \in Proc, NEW k \in Calls, Goto(p, k), Redeeming(k) => Redeeming(call[p]) \/ Invited',
         Named(k), Inviting(k) => /\ inv'[k.i] = "none"
                        /\ \A q \in Proc \ {p} : Inviting(call[q]) => call[q].i # k.i,
         \A q \in Proc \ {p} : Inviting(call[q]) => inv'[call[q].i] = "none"
  PROVE  PactInv'
<1>1. call' \in [Proc -> Calls] /\ \A q \in Proc : call'[q] = IF q = p THEN k ELSE call[q]
  BY CallTo DEF CallGoes
<1>2. \A q \in Proc : Redeeming(call'[q]) => Invited'
  BY <1>1 DEF PactInv
<1>3. \A q \in Proc : Named(call'[q]) /\ (Inviting(call'[q]) => inv'[call'[q].i] = "none")
  BY <1>1 DEF PactInv
<1>4. \A q, r \in Proc : Inviting(call'[q]) /\ Inviting(call'[r]) /\ call'[q].i = call'[r].i => q = r
  BY <1>1 DEF PactInv
<1> QED  BY <1>2, <1>3, <1>4 DEF PactInv, Inviting, Named

\* Call p goes on without an invitation, and redeems one only if it did before.
Follows(p) ==
  \E k \in Calls : Goto(p, k) /\ ~Inviting(k) /\ Named(k) /\ (Redeeming(k) => Redeeming(call[p]))

LEMMA PactFollows ==
  ASSUME ContactTypeInv, PactInv, OneActive(row'), inv' = inv, NEW p \in Proc, Follows(p)
  PROVE  PactInv'
<1>1. PICK k \in Calls : Goto(p, k) /\ ~Inviting(k) /\ Named(k) /\ (Redeeming(k) => Redeeming(call[p]))
  BY DEF Follows
<1>2. Invited => Invited'
  BY DEF Invited
<1>3. \A q \in Proc \ {p} : Inviting(call[q]) => inv'[call[q].i] = "none"
  BY DEF PactInv
<1> QED  BY <1>1, <1>2, <1>3, PactFrame

LEMMA FollowsOn ==
  ASSUME ContactTypeInv, NEW p \in Proc, NEW k, NEW a \in Labels \ {"insert_invite", "claim"}, NEW x, NEW w,
         At(k, call[p], a, x, w), Goto(p, k),
         a \in {"read_conv", "create_conv", "insert", "insert_accepted", "reread", "update"} => Redeeming(call[p]) \/ call[p].op # "redeem"
  PROVE  Follows(p)
<1>1. k \in Calls /\ ~Inviting(k) /\ Named(k) /\ (Redeeming(k) => Redeeming(call[p]))
  BY DEF At, Inviting, Named, Redeeming
<1> QED  BY <1>1 DEF Follows

LEMMA FollowsEnd ==
  ASSUME NEW p \in Proc, Goto(p, NoCall)
  PROVE  Follows(p)
<1>1. NoCall \in Calls /\ ~Inviting(NoCall) /\ Named(NoCall) /\ ~Redeeming(NoCall)
  BY NoCallStarts DEF Starts, Inviting, Named, Redeeming
<1> QED  BY <1>1 DEF Follows

LEMMA FollowsStart ==
  ASSUME NEW p \in Proc, NEW k, NEW a \in Labels \ {"insert_invite"}, NEW o, NEW x, NEW w,
         Starts(k, a, o, x, w), o # "redeem" \/ a = "claim", a = "claim" => k.i \in Invite, Goto(p, k)
  PROVE  Follows(p)
<1>1. k \in Calls /\ ~Inviting(k) /\ Named(k) /\ ~Redeeming(k)
  BY DEF Starts, Inviting, Named, Redeeming
<1> QED  BY <1>1 DEF Follows

LEMMA RequestFollows ==
  ASSUME ContactTypeInv, NEW p \in Proc, NEW u \in User, Request(p, u)
  PROVE  Follows(p)
<1>1. PICK k : k = [NoCall EXCEPT !.at = "read_active", !.op = "request", !.u = u]
  OBVIOUS
<1>2. "read_active" \in Labels \ {"insert_invite"} /\ "request" \in {"none", "invite"} \cup Connecting \cup Retracting
  BY DEF Labels, Connecting
<1>3. Starts(k, "read_active", "request", NoRow, NoConv)
  BY <1>1, <1>2, CallStart, Zenon
<1>4. Goto(p, k)
  BY <1>1 DEF Request
<1> QED  BY <1>2, <1>3, <1>4, FollowsStart

LEMMA AnswerFollows ==
  ASSUME ContactTypeInv, NEW p \in Proc, NEW c \in Row,
         (\E op \in {"accept", "decline"} : Respond(p, c, op)) \/ Withdraw(p, c)
  PROVE  Follows(p)
<1>0. {"update", "delete_lines"} \subseteq Labels \ {"insert_invite"}
      /\ {"accept", "decline", "withdraw"} \subseteq {"none", "invite"} \cup Connecting \cup Retracting
  BY DEF Labels, Connecting, Retracting
<1>1. c \in Row \cup {NoRow} /\ row[c].from \in User /\ Other(row[c].from) \in User /\ row[c].conv \in Conv \cup {NoConv}
  BY HereTyped, OtherDiffers DEF Records
<1>2. ASSUME NEW op \in {"accept", "decline"}, Respond(p, c, op) PROVE Follows(p)
  <2>1. PICK k : k = [NoCall EXCEPT !.at = "update", !.op = op, !.u = Other(row[c].from), !.c = c, !.v = row[c].conv]
    OBVIOUS
  <2>2. op \in {"none", "invite"} \cup Connecting \cup Retracting
    BY <1>0
  <2>3. Starts(k, "update", op, c, row[c].conv)
    BY <1>0, <1>1, <2>1, <2>2, CallStart, Zenon
  <2>4. Goto(p, k)
    BY <1>2, <2>1 DEF Respond
  <2> QED  BY <1>0, <2>3, <2>4, FollowsStart
<1>3. CASE Withdraw(p, c)
  <2>1. PICK k : k = [NoCall EXCEPT !.at = "delete_lines", !.op = "withdraw", !.u = row[c].from, !.c = c, !.v = row[c].conv]
    OBVIOUS
  <2>2. "delete_lines" \in Labels /\ "withdraw" \in {"none", "invite"} \cup Connecting \cup Retracting
    BY <1>0
  <2>3. Starts(k, "delete_lines", "withdraw", c, row[c].conv)
    BY <1>1, <2>1, <2>2, CallStart, Zenon
  <2>4. Goto(p, k)
    BY <1>3, <2>1 DEF Withdraw
  <2> QED  BY <1>0, <2>3, <2>4, FollowsStart
<1> QED  BY <1>2, <1>3

LEMMA ReadFollows ==
  ASSUME ContactTypeInv, NEW p \in Proc, ReadActive(p) \/ ReadConv(p) \/ CreateConv(p) \/ PostWants(p)
  PROVE  Follows(p)
<1>0. {"read_conv", "create_conv", "insert", "update"} \subseteq Labels \ {"insert_invite", "claim"}
  BY DEF Labels
<1>1. CASE ReadActive(p)
  <2>1. CASE Goto(p, [call[p] EXCEPT !.at = "read_conv"])
    <3>1. At([call[p] EXCEPT !.at = "read_conv"], call[p], "read_conv", call[p].c, call[p].v)
      BY HereTyped, CallChange DEF Labels
    <3> QED  BY <1>0, <1>1, <2>1, <3>1, FollowsOn DEF ReadActive
  <2>2. CASE Goto(p, NoCall)
    BY <2>2, FollowsEnd
  <2>3. ASSUME NEW c \in ActiveRows, Goto(p, [call[p] EXCEPT !.at = "update", !.c = c, !.v = row[c].conv])
        PROVE  Follows(p)
    <3>1. c \in Row \cup {NoRow} /\ row[c].conv \in Conv \cup {NoConv}
      BY HereTyped DEF ActiveRows
    <3>2. At([call[p] EXCEPT !.at = "update", !.c = c, !.v = row[c].conv], call[p], "update", c, row[c].conv)
      BY <1>0, <3>1, HereTyped, CallChange
    <3> QED  BY <1>0, <1>1, <2>3, <3>2, FollowsOn DEF ReadActive
  <2> QED  BY <1>1, <2>1, <2>2, <2>3 DEF ReadActive
<1>2. CASE ReadConv(p)
  <2>1. PICK k \in Calls, w \in Conv \cup {NoConv} :
           Goto(p, k) /\ (At(k, call[p], "create_conv", call[p].c, w) \/ At(k, call[p], "insert", call[p].c, w))
    BY <1>2, ReadConvGoes
  <2>2. call[p].at = "read_conv"
    BY <1>2 DEF ReadConv
  <2> QED  BY <1>0, <2>1, <2>2, FollowsOn DEF Redeeming
<1>3. CASE CreateConv(p)
  <2>1. PICK v \in Conv : Goto(p, [call[p] EXCEPT !.at = "insert", !.v = v])
    BY <1>3 DEF CreateConv
  <2>2. At([call[p] EXCEPT !.at = "insert", !.v = v], call[p], "insert", call[p].c, v)
    BY HereTyped, CallChange DEF Labels
  <2>3. call[p].at = "create_conv"
    BY <1>3 DEF CreateConv
  <2> QED  BY <1>0, <2>1, <2>2, <2>3, FollowsOn DEF Redeeming
<1>4. CASE PostWants(p)
  BY <1>4, FollowsEnd DEF PostWants
<1> QED  BY <1>1, <1>2, <1>3, <1>4

LEMMA WriteFollows ==
  ASSUME ContactTypeInv, NEW p \in Proc,
         Update(p) \/ PostConnected(p) \/ DeleteLines(p) \/ DeleteRow(p) \/ InsertRequest(p)
  PROVE  Follows(p)
<1>0. {"post_connected", "delete_row", "post_wants"} \subseteq Labels \ {"insert_invite", "claim"}
  BY DEF Labels
<1>1. ASSUME NEW a \in {"post_connected", "delete_row", "post_wants"}, Goto(p, [call[p] EXCEPT !.at = a]) PROVE Follows(p)
  <2>1. At([call[p] EXCEPT !.at = a], call[p], a, call[p].c, call[p].v)
    BY <1>0, HereTyped, CallChange
  <2>2. a \in Labels \ {"insert_invite", "claim"} /\ a \notin {"read_conv", "create_conv", "insert", "insert_accepted", "reread", "update"}
    BY <1>0, <1>1
  <2> QED  BY <1>1, <2>1, <2>2, FollowsOn
<1>2. \/ Goto(p, NoCall)
      \/ \E a \in {"post_connected", "delete_row", "post_wants"} : Goto(p, [call[p] EXCEPT !.at = a])
  BY DEF Update, PostConnected, DeleteLines, DeleteRow, InsertRequest
<1> QED  BY <1>1, <1>2, FollowsEnd

LEMMA RedeemFollows ==
  ASSUME ContactInv, ContactTypeInv, NEW p \in Proc, ReadUpsert(p) \/ InsertAccepted(p) \/ RereadUpsert(p)
  PROVE  Follows(p) /\ Redeeming(call[p])
<1>0. {"post_connected", "insert_accepted", "reread", "update"} \subseteq Labels \ {"insert_invite", "claim"}
  BY DEF Labels
<1>1. Redeeming(call[p])
  BY DEF ContactInv, MayWrite, Redeeming, ReadUpsert, InsertAccepted, RereadUpsert
<1>2. CASE InsertAccepted(p)
  <2>1. PICK a \in {"post_connected", "reread"} : Goto(p, [call[p] EXCEPT !.at = a])
    BY <1>2 DEF InsertAccepted
  <2>2. At([call[p] EXCEPT !.at = a], call[p], a, call[p].c, call[p].v)
    BY <1>0, HereTyped, CallChange
  <2> QED  BY <1>0, <1>1, <2>1, <2>2, FollowsOn
<1>3. CASE ReadUpsert(p) \/ RereadUpsert(p)
  <2>1. PICK none \in {"insert_accepted", "post_connected"} : Goto(p, Upsert(p, none))
    BY <1>3 DEF ReadUpsert, RereadUpsert
  <2>2. PICK k : k = Upsert(p, none)
    OBVIOUS
  <2>3. PICK a \in {"post_connected", "insert_accepted", "update"}, x \in Row \cup {call[p].c} :
             At(k, call[p], a, x, call[p].v)
    BY <2>2, UpsertLeads
  <2> QED  BY <1>0, <1>1, <2>1, <2>2, <2>3, FollowsOn
<1> QED  BY <1>1, <1>2, <1>3

------------------------------------------------------------------------------
PactStep == PactInv' /\ PairStep

\* What a step leaves to the pair when it writes no row and no invitation.
LEMMA PactReads ==
  ASSUME ContactTypeInv, PactInv, row' = row, inv' = inv, NEW p \in Proc, Follows(p)
  PROVE  PactStep
<1>1. PairRests
  BY DEF PairRests, BehindOf, ConnectedOf, ActiveOf, Invited
<1>2. OneActive(row')
  BY DEF PactInv
<1> QED  BY <1>1, <1>2, PactFollows DEF PactStep, PairStep

LEMMA PactOneRow ==
  ASSUME ContactTypeInv, PactInv, inv' = inv, NEW p \in Proc, Follows(p),
         NEW c \in Row, ActiveRows \subseteq {c}, \A d \in Row \ {c} : row'[d] = row[d], Agreeing(row'[c])
  PROVE  PactInv' /\ OneActive(row') /\ ActiveOf(row') \subseteq {c}
<1>1. OneActive(row') /\ ActiveOf(row') \subseteq {c}
  <2>1. ActiveOf(row) = ActiveRows /\ OneActive(row)
    BY DEF ActiveOf, ActiveRows, PactInv
  <2> QED  BY <2>1, OneRowChanges
<1> QED  BY <1>1, PactFollows

LEMMA PurgePact ==
  ASSUME ContactTypeInv, PactInv, NEW p \in Proc, NEW u \in User, Request(p, u)
  PROVE  PactStep
<1>1. PICK old \in SUBSET {c \in Row : row[c].status = "declined"} :
        row' = [c \in Row |-> IF c \in old THEN [NoRecord EXCEPT !.status = "deleted"] ELSE row[c]]
  BY DEF Request
<1>2. inv' = inv /\ Follows(p)
  BY RequestFollows DEF Request
<1>3. [NoRecord EXCEPT !.status = "deleted"].status = "deleted"
  BY DEF NoRecord
<1>4. \A c \in Row : row'[c] = row[c] \/ (row[c].status = "declined" /\ row'[c].status = "deleted")
  <2> TAKE c \in Row
  <2>1. row'[c] = IF c \in old THEN [NoRecord EXCEPT !.status = "deleted"] ELSE row[c]
    BY <1>1
  <2>2. c \in old => row[c].status = "declined"
    OBVIOUS
  <2>3. CASE c \in old
    BY <1>3, <2>1, <2>2, <2>3
  <2> QED  BY <2>1, <2>3
<1>5. ActiveOf(row') = ActiveOf(row) /\ \A c \in ActiveOf(row) : row'[c] = row[c]
  BY <1>4 DEF ActiveOf
<1>6. BehindOf(row') = BehindOf(row) /\ (ConnectedOf(row') <=> ConnectedOf(row))
  BY <1>4, <1>5 DEF BehindOf, ConnectedOf
<1>7. OneActive(row')
  BY <1>4, <1>5 DEF OneActive, Agreeing, PactInv
<1> QED  BY <1>2, <1>6, <1>7, PactFollows DEF PactStep, PairStep, PairRests, Invited

LEMMA AskPact ==
  ASSUME ContactTypeInv, PactInv, NEW p \in Proc, InsertRequest(p)
  PROVE  PactStep
<1>0. inv' = inv /\ Follows(p) /\ call[p].u \in User /\ row \in [Row -> Records]
  BY WriteFollows, HereTyped DEF InsertRequest, ContactTypeInv, TypeOK
<1>1. CASE row' = row
  BY <1>0, <1>1, PactReads
<1>2. ASSUME NEW r, r = [status |-> "pending", from |-> call[p].u, conv |-> call[p].v, agreed |-> {call[p].u}], Inserted(r)
      PROVE  PactStep
  <2>1. PICK c \in Row : row' = [row EXCEPT ![c] = r]
    BY <1>2 DEF Inserted
  <2>2. ActiveRows = {} /\ ActiveOf(row) = {} /\ row'[c] = r /\ \A d \in Row \ {c} : row'[d] = row[d]
    BY <1>0, <1>2, <2>1 DEF Inserted, ActiveOf, ActiveRows
  <2>3. PactInv' /\ OneActive(row')
    BY <1>0, <1>2, <2>2, PactOneRow DEF Agreeing
  <2>4. BehindOf(row') = {call[p].u} /\ ~ConnectedOf(row')
    BY <1>2, <2>2, <2>3, Standing
  <2> QED  BY <1>0, <2>2, <2>3, <2>4, NothingStands, PairAsks DEF PactStep, PairStep
<1> QED  BY <1>1, <1>2 DEF InsertRequest

LEMMA MeetPact ==
  ASSUME ContactInv, ContactTypeInv, PactInv, NEW p \in Proc, InsertAccepted(p)
  PROVE  PactStep
<1>0. inv' = inv /\ Follows(p) /\ Invited /\ row \in [Row -> Records]
  BY RedeemFollows DEF InsertAccepted, PactInv, ContactTypeInv, TypeOK
<1>1. CASE row' = row
  BY <1>0, <1>1, PactReads
<1>2. ASSUME NEW r, r = [status |-> "accepted", from |-> Inviter, conv |-> call[p].v, agreed |-> User], Inserted(r)
      PROVE  PactStep
  <2>1. PICK c \in Row : row' = [row EXCEPT ![c] = r]
    BY <1>2 DEF Inserted
  <2>2. ActiveRows = {} /\ ActiveOf(row) = {} /\ row'[c] = r /\ \A d \in Row \ {c} : row'[d] = row[d]
    BY <1>0, <1>2, <2>1 DEF Inserted, ActiveOf, ActiveRows
  <2>3. PactInv' /\ OneActive(row')
    BY <1>0, <1>2, <2>2, PactOneRow DEF Agreeing
  <2>4. BehindOf(row') = User /\ ConnectedOf(row')
    BY <1>2, <2>2, <2>3, Standing
  <2> QED  BY <1>0, <2>2, <2>3, <2>4, NothingStands, PairMeets DEF PactStep, PairStep
<1> QED  BY <1>1, <1>2 DEF InsertAccepted

\* The UPDATE of a row that waits settles it, for the other one or by an invitation.
LEMMA SettlePact ==
  ASSUME ContactInv, ContactTypeInv, PactInv, NEW p \in Proc, Update(p)
  PROVE  PactStep
<1>0. inv' = inv /\ Follows(p)
  BY WriteFollows DEF Update
<1>1. PICK c \in Row : c = call[p].c
  BY UpdateWrites
<1>2. CASE row[c].status # "pending"
  <2>1. row' = row
    BY <1>1, <1>2 DEF Update
  <2> QED  BY <1>0, <2>1, PactReads
<1>3. CASE row[c].status = "pending"
  <2>1. \A d \in Row \ {c} : row'[d] = row[d]
    BY <1>1, UpdateWrites
  <2>2. row'[c].status = IF call[p].op = "decline" THEN "declined" ELSE "accepted"
    BY <1>1, <1>3, UpdateWrites
  <2>3. Agreeing(row'[c])
    <3>1. \A d \in Row : RowMoves(row[d], row'[d])
      BY UpdateStep
    <3>2. Backed(row'[c])
      BY <1>3, <2>2, <3>1 DEF RowMoves
    <3> QED  BY <2>2, <3>2 DEF Agreeing, Backed
  <2>4. c \in ActiveRows /\ ActiveRows \subseteq {c}
    BY <1>3 DEF PactInv, OneActive, ActiveOf, ActiveRows
  <2>5. PactInv' /\ OneActive(row') /\ ActiveOf(row') \subseteq {c}
    BY <1>0, <2>1, <2>3, <2>4, PactOneRow
  <2>6. BehindOf(row) = {row[c].from} /\ ~ConnectedOf(row) /\ row[c].from \in User
    BY <1>3, Standing, HereTyped DEF PactInv, Records
  <2>7. CASE call[p].op = "decline"
    <3>1. ActiveOf(row') = {}
      BY <2>2, <2>5, <2>7 DEF ActiveOf
    <3> QED  BY <1>0, <2>5, <2>6, <3>1, NothingStands, PairDrops DEF PactStep, PairStep
  <2>8. CASE call[p].op # "decline"
    <3>1. BehindOf(row') = User /\ ConnectedOf(row')
      BY <2>2, <2>5, <2>8, Standing
    <3> QED  BY <1>0, <2>5, <2>6, <3>1, PairAgrees DEF PactStep, PairStep
  <2> QED  BY <2>7, <2>8
<1> QED  BY <1>2, <1>3

LEMMA TakeBackPact ==
  ASSUME ContactTypeInv, PactInv, NEW p \in Proc, DeleteRow(p)
  PROVE  PactStep
<1>0. inv' = inv /\ Follows(p) /\ row \in [Row -> Records]
  BY WriteFollows DEF DeleteRow, ContactTypeInv, TypeOK
<1>1. PICK c \in Row : c = call[p].c
  BY HereTyped DEF DeleteRow, Placed
<1>2. CASE row[c].status # "pending"
  <2>1. row' = row
    BY <1>1, <1>2 DEF DeleteRow
  <2> QED  BY <1>0, <2>1, PactReads
<1>3. CASE row[c].status = "pending"
  <2>1. row' = [row EXCEPT ![c] = [NoRecord EXCEPT !.status = "deleted"]]
    BY <1>1, <1>3 DEF DeleteRow
  <2>2. [NoRecord EXCEPT !.status = "deleted"].status = "deleted"
    BY DEF NoRecord
  <2>3. row'[c].status = "deleted" /\ \A d \in Row \ {c} : row'[d] = row[d]
    BY <1>0, <2>1, <2>2
  <2>4. c \in ActiveRows /\ ActiveRows \subseteq {c}
    BY <1>3 DEF PactInv, OneActive, ActiveOf, ActiveRows
  <2>5. PactInv' /\ ActiveOf(row') \subseteq {c}
    BY <1>0, <2>3, <2>4, PactOneRow DEF Agreeing
  <2>6. ~ConnectedOf(row) /\ ActiveOf(row') = {}
    BY <1>3, <2>3, <2>5, Standing DEF PactInv, ActiveOf
  <2> QED  BY <1>0, <2>5, <2>6, NothingStands, PairDrops DEF PactStep, PairStep
<1> QED  BY <1>2, <1>3

LEMMA InvitationPact ==
  ASSUME ContactTypeInv, PactInv, NEW p \in Proc, NEW i \in Invite, InviteContact(p, i) \/ Redeem(p, i)
  PROVE  PactStep
<1>0. /\ {"insert_invite", "claim"} \subseteq Labels
      /\ {"invite", "redeem"} \subseteq {"none", "invite"} \cup Connecting \cup Retracting
      /\ Invitee \in User /\ i \in Invite \cup {NoInvite}
  BY DEF Labels, Connecting, User
<1>1. CASE InviteContact(p, i)
  <2>1. PICK k : k = [NoCall EXCEPT !.at = "insert_invite", !.op = "invite", !.i = i]
    OBVIOUS
  <2>2. Starts(k, "insert_invite", "invite", NoRow, NoConv)
    BY <1>0, <2>1, CallStart, Zenon
  <2>3. k.i = i
    BY <2>1 DEF NoCall
  <2>4. Goto(p, k) /\ row' = row /\ inv' = inv /\ inv[i] = "none" /\ \A q \in Proc : call[q].i # i
    BY <1>1, <2>1 DEF InviteContact
  <2>5. k \in Calls /\ ~Redeeming(k) /\ Named(k)
    BY <2>2, <2>3 DEF Starts, Redeeming, Named
  <2>6. OneActive(row') /\ (Invited => Invited') /\ PairRests
    BY <2>4 DEF PactInv, Invited, PairRests, BehindOf, ConnectedOf, ActiveOf
  <2>7. \A q \in Proc \ {p} : Inviting(call[q]) => inv'[call[q].i] = "none"
    BY <2>4 DEF PactInv
  <2> QED  BY <2>3, <2>4, <2>5, <2>6, <2>7, PactFrame DEF PactStep, PairStep
<1>2. CASE Redeem(p, i)
  <2>1. PICK k : k = [NoCall EXCEPT !.at = "claim", !.op = "redeem", !.u = Invitee, !.i = i]
    OBVIOUS
  <2>2. Starts(k, "claim", "redeem", NoRow, NoConv)
    BY <1>0, <2>1, CallStart, Zenon
  <2>3. Goto(p, k) /\ row' = row /\ inv' = inv /\ k.i = i
    BY <1>2, <2>1 DEF Redeem, NoCall
  <2> QED  BY <1>0, <2>2, <2>3, FollowsStart, PactReads
<1> QED  BY <1>1, <1>2

\* An invitation is stored once, and only a stored one is claimed or cancelled.
LEMMA InvitesPact ==
  ASSUME ContactTypeInv, PactInv, NEW p \in Proc, InsertInvite(p) \/ Claim(p)
  PROVE  PactStep
<1>0. row' = row /\ inv \in [Invite -> {"none", "open", "consumed", "cancelled"}] /\ OneActive(row')
  BY DEF InsertInvite, Claim, ContactTypeInv, TypeOK, PactInv
<1>1. NoCall \in Calls /\ ~Inviting(NoCall) /\ Named(NoCall) /\ ~Redeeming(NoCall)
  BY NoCallStarts DEF Starts, Inviting, Named, Redeeming
<1>2. CASE InsertInvite(p)
  <2>1. PICK i \in Invite : i = call[p].i /\ inv[i] = "none" /\ inv' = [inv EXCEPT ![i] = "open"] /\ Goto(p, NoCall)
    BY <1>2 DEF InsertInvite, PactInv, Inviting, Named
  <2>2. \A q \in Proc \ {p} : Inviting(call[q]) => call[q].i # i
    BY <1>2, <2>1 DEF PactInv, Inviting, InsertInvite
  <2>3. \A j \in Invite \ {i} : inv'[j] = inv[j]
    BY <1>0, <2>1
  <2>4. \A q \in Proc \ {p} : Inviting(call[q]) => inv'[call[q].i] = "none"
    BY <2>2, <2>3 DEF PactInv, Inviting, Named
  <2>5. Invited => Invited'
    BY <2>1, <2>3 DEF Invited
  <2> QED  BY <1>0, <1>1, <2>1, <2>4, <2>5, PactFrame, PairRedeems DEF PactStep
<1>3. CASE Claim(p)
  <2>1. CASE inv' = inv /\ Goto(p, NoCall)
    BY <1>0, <2>1, FollowsEnd, PactReads
  <2>2. ASSUME NEW i, i = call[p].i, inv[i] = "open", inv' = [inv EXCEPT ![i] = "consumed"],
               Goto(p, [call[p] EXCEPT !.at = "read_conv"])
        PROVE  PactStep
    <3>1. At([call[p] EXCEPT !.at = "read_conv"], call[p], "read_conv", call[p].c, call[p].v)
      BY HereTyped, CallChange DEF Labels
    <3>2. PICK k : k = [call[p] EXCEPT !.at = "read_conv"]
      OBVIOUS
    <3>3. k \in Calls /\ ~Inviting(k) /\ Named(k) /\ Goto(p, k)
      BY <2>2, <3>1, <3>2 DEF At, Inviting, Named
    <3>4. i \in Invite
      BY <1>3, <2>2 DEF Claim, PactInv, Named
    <3>5. inv'[i] = "consumed" /\ \A j \in Invite \ {i} : inv'[j] = inv[j]
      BY <1>0, <2>2, <3>4
    <3>6. Invited'
      BY <3>4, <3>5 DEF Invited
    <3>7. \A q \in Proc \ {p} : Inviting(call[q]) => inv'[call[q].i] = "none"
      BY <2>2, <3>5 DEF PactInv, Inviting, Named
    <3> QED  BY <1>0, <3>3, <3>6, <3>7, PactFrame, PairRedeems DEF PactStep
  <2> QED  BY <1>3, <2>1, <2>2 DEF Claim
<1> QED  BY <1>2, <1>3

LEMMA QuietPact ==
  ASSUME PactInv, row' = row, call' = call,
         \A i \in Invite : (inv'[i] = "consumed" <=> inv[i] = "consumed") /\ (inv[i] = "none" => inv'[i] = "none")
  PROVE  PactStep
<1>1. PairRests
  BY DEF PairRests, BehindOf, ConnectedOf, ActiveOf, Invited
<1>2. PactInv'
  BY DEF PactInv, Invited, Inviting, Named
<1> QED  BY <1>1, <1>2 DEF PactStep, PairStep

LEMMA PactKept == ContactInv /\ ContactTypeInv /\ PactInv /\ [Next]_vars => PactStep
<1> SUFFICES ASSUME ContactInv, ContactTypeInv, PactInv, [Next]_vars PROVE PactStep
  OBVIOUS
<1>1. CASE SignUp \/ UNCHANGED vars
  BY <1>1, QuietPact DEF SignUp, vars
<1>2. ASSUME NEW i \in Invite, CancelInvite(i) PROVE PactStep
  BY <1>2, QuietPact DEF CancelInvite, ContactTypeInv, TypeOK
<1>3. ASSUME NEW p \in Proc, \E u \in User : Request(p, u) PROVE PactStep
  BY <1>3, PurgePact
<1>4. ASSUME NEW p \in Proc, NEW c \in Row, (\E op \in {"accept", "decline"} : Respond(p, c, op)) \/ Withdraw(p, c)
      PROVE  PactStep
  BY <1>4, AnswerFollows, PactReads DEF Respond, Withdraw
<1>5. ASSUME NEW p \in Proc, \E i \in Invite : InviteContact(p, i) \/ Redeem(p, i) PROVE PactStep
  BY <1>5, InvitationPact
<1>6. ASSUME NEW p \in Proc, ReadActive(p) \/ ReadConv(p) \/ CreateConv(p) \/ PostWants(p) PROVE PactStep
  BY <1>6, ReadFollows, PactReads DEF ReadActive, ReadConv, CreateConv, PostWants
<1>7. ASSUME NEW p \in Proc, PostConnected(p) \/ DeleteLines(p) PROVE PactStep
  BY <1>7, WriteFollows, PactReads DEF PostConnected, DeleteLines
<1>8. ASSUME NEW p \in Proc, ReadUpsert(p) \/ RereadUpsert(p) PROVE PactStep
  BY <1>8, RedeemFollows, PactReads DEF ReadUpsert, RereadUpsert
<1>9. ASSUME NEW p \in Proc, \/ InsertRequest(p) \/ Update(p) \/ DeleteRow(p)
                             \/ InsertInvite(p) \/ Claim(p) \/ InsertAccepted(p)
      PROVE  PactStep
  BY <1>9, AskPact, SettlePact, TakeBackPact, InvitesPact, MeetPact
<1> QED  BY <1>1, <1>2, <1>3, <1>4, <1>5, <1>6, <1>7, <1>8, <1>9, Zenon DEF Next

LEMMA PactInitially == Init => PactInv /\ Pair!Init
<1> SUFFICES ASSUME Init PROVE PactInv /\ Pair!Init
  OBVIOUS
<1>1. (\A c \in Row : row[c].status = "none") /\ (\A i \in Invite : inv[i] = "none")
      /\ \A p \in Proc : call[p].at = "idle"
  BY DEF Init, NoRecord, NoCall
<1>2. PactInv
  BY <1>1 DEF PactInv, OneActive, ActiveOf, Agreeing, Redeeming, Inviting, Named
<1>3. ActiveRows = {}
  BY <1>1 DEF ActiveRows
<1>4. Pair!Init
  BY <1>1, <1>3 DEF Pair!Init
<1> QED  BY <1>2, <1>4

\* However the statements of requests, answers, withdrawals and redemptions
\* interleave, what the two people see is a behaviour of Acquaintance: one asks, the
\* other one agrees or an invitation brings them together, and what they have agreed
\* to is never taken back, neither by a late answer nor by another row.
THEOREM ContactsImplementAcquaintance == Spec => ImplementsAcquaintance
<1> DEFINE Abstract == [Pair!Next]_<<UNION {row[c].agreed : c \in ActiveRows},
                                     \E c \in Row : row[c].status = "accepted",
                                     \E i \in Invite : inv[i] = "consumed">>
<1>1. ContactInv /\ ContactTypeInv /\ PactInv /\ [Next]_vars => PactInv' /\ Abstract
  <2> SUFFICES ASSUME ContactInv, ContactTypeInv, PactInv, [Next]_vars PROVE PactInv' /\ Abstract
    OBVIOUS
  <2>1. PactInv' /\ PairStep
    BY PactKept DEF PactStep
  <2>2. PairRests => Abstract
    BY DEF PairRests, BehindOf, ConnectedOf, ActiveOf, ActiveRows, Invited
  <2> QED  BY <2>1, <2>2 DEF PairStep
<1>2. Init => PactInv /\ Pair!Init
  BY PactInitially
<1> QED  BY <1>1, <1>2, ContactInvariant, TypeInvariant, PTL DEF Spec, ImplementsAcquaintance, Pair!Spec

------------------------------------------------------------------------------
(***************************************************************************)
(* The pair's thread                                                       *)
(***************************************************************************)
\* The steps of a call between its search for the thread and the row it inserts.
Finding == {"read_conv", "create_conv", "insert", "insert_accepted", "reread"}

FindersApart == \A p, q \in Proc : call[p].at \in Finding /\ call[q].at \in Finding => p = q

NothingDeleted == \A c \in Row : row[c].status # "deleted"

\* There is one thread, remembered by a row or about to be, and whoever is about
\* to make one has seen that there is none.
ThreadInv ==
  /\ \A v, w \in created : v = w
  /\ \A p \in Proc : call[p].at = "create_conv" => created = {}
  /\ created # {} => \/ \E c \in Row : row[c].conv # NoConv
                     \/ \E p \in Proc : call[p].at \in {"insert", "insert_accepted"}

LEMMA ThreadInitial == Init => ThreadInv
  BY DEF Init, ThreadInv, NoCall

\* A step that makes no thread, forgets none and starts no search for one.
LEMMA ThreadKept ==
  ASSUME ThreadInv, created' = created,
         \A c \in Row : row[c].conv # NoConv => row'[c].conv # NoConv,
         \A p \in Proc : call'[p].at = "create_conv" => call[p].at = "create_conv",
         \A p \in Proc : call[p].at \in {"insert", "insert_accepted"} /\ call'[p].at \notin {"insert", "insert_accepted"}
           => \E c \in Row : row'[c].conv # NoConv
  PROVE  ThreadInv'
  BY DEF ThreadInv

\* The call that moves leaves or enters none of the steps in question.
LEMMA ThreadAside ==
  ASSUME ContactTypeInv, ThreadInv, created' = created, NEW p \in Proc, NEW k, call' = [call EXCEPT ![p] = k],
         \A c \in Row : row[c].conv # NoConv => row'[c].conv # NoConv,
         k.at # "create_conv", call[p].at \notin {"insert", "insert_accepted"}
  PROVE  ThreadInv'
<1>1. call'[p] = k /\ \A q \in Proc \ {p} : call'[q] = call[q]
  BY DEF ContactTypeInv, TypeOK
<1> QED  BY <1>1, ThreadKept

\* An active row has the pair's conversation.
LEMMA ActiveHasThread ==
  ASSUME ContactTypeInv, ActiveRows # {}
  PROVE  \E c \in Row : row[c].conv # NoConv
<1>1. PICK c \in Row : row[c].status \in {"pending", "accepted"}
  BY DEF ActiveRows
<1>2. row[c].conv \in created /\ created \subseteq Conv
  BY <1>1 DEF ContactTypeInv, RowFits, TypeOK
<1> QED  BY <1>2, ContactAssumption

LEMMA InsertedHasThread ==
  ASSUME ContactTypeInv, NEW r, r.conv \in created, Inserted(r)
  PROVE  /\ \E c \in Row : row'[c].conv # NoConv
         /\ \A c \in Row : row[c].conv # NoConv => row'[c].conv # NoConv
<1>1. PICK c \in Row : row' = [row EXCEPT ![c] = r]
  BY DEF Inserted
<1>2. r.conv # NoConv
  BY ContactAssumption DEF ContactTypeInv, TypeOK
<1> QED  BY <1>1, <1>2 DEF ContactTypeInv, TypeOK

LEMMA ThreadBegins ==
  ASSUME ContactTypeInv, ThreadInv, NothingDeleted', NEW p \in Proc,
         \/ \E u \in User : Request(p, u)
         \/ \E c \in Row : (\E op \in {"accept", "decline"} : Respond(p, c, op)) \/ Withdraw(p, c)
         \/ \E i \in Invite : InviteContact(p, i) \/ Redeem(p, i)
  PROVE  ThreadInv'
<1>1. call[p].at \notin {"insert", "insert_accepted"} /\ created' = created
  <2>1. call[p] = NoCall /\ created' = created
    BY DEF Request, Respond, Withdraw, InviteContact, Redeem
  <2>2. NoCall.at = "idle"
    BY DEF NoCall
  <2> QED  BY <2>1, <2>2
<1>2. ASSUME NEW u \in User, Request(p, u) PROVE ThreadInv'
  <2>1. \A c \in Row : row'[c] = row[c]
    <3>1. PICK old \in SUBSET {c \in Row : row[c].status = "declined"} :
            row' = [c \in Row |-> IF c \in old THEN [NoRecord EXCEPT !.status = "deleted"] ELSE row[c]]
      BY <1>2 DEF Request
    <3>2. [NoRecord EXCEPT !.status = "deleted"].status = "deleted"
      BY DEF NoRecord
    <3>3. \A c \in Row : c \notin old
      BY <3>1, <3>2 DEF NothingDeleted
    <3> QED  BY <3>1, <3>3
  <2>2. [NoCall EXCEPT !.at = "read_active", !.op = "request", !.u = u].at = "read_active"
    BY DEF NoCall
  <2> QED  BY <1>1, <1>2, <2>1, <2>2, ThreadAside DEF Request, Goto
<1>3. ASSUME NEW c \in Row, NEW op \in {"accept", "decline"}, Respond(p, c, op) PROVE ThreadInv'
  <2>1. [NoCall EXCEPT !.at = "update", !.op = op, !.u = Other(row[c].from), !.c = c, !.v = row[c].conv].at = "update"
    BY DEF NoCall
  <2> QED  BY <1>1, <1>3, <2>1, ThreadAside DEF Respond, Goto
<1>4. ASSUME NEW c \in Row, Withdraw(p, c) PROVE ThreadInv'
  <2>1. [NoCall EXCEPT !.at = "delete_lines", !.op = "withdraw", !.u = row[c].from, !.c = c, !.v = row[c].conv].at = "delete_lines"
    BY DEF NoCall
  <2> QED  BY <1>1, <1>4, <2>1, ThreadAside DEF Withdraw, Goto
<1>5. ASSUME NEW i \in Invite, InviteContact(p, i) PROVE ThreadInv'
  <2>1. [NoCall EXCEPT !.at = "insert_invite", !.op = "invite", !.i = i].at = "insert_invite"
    BY DEF NoCall
  <2> QED  BY <1>1, <1>5, <2>1, ThreadAside DEF InviteContact, Goto
<1>6. ASSUME NEW i \in Invite, Redeem(p, i) PROVE ThreadInv'
  <2>1. [NoCall EXCEPT !.at = "claim", !.op = "redeem", !.u = Invitee, !.i = i].at = "claim"
    BY DEF NoCall
  <2> QED  BY <1>1, <1>6, <2>1, ThreadAside DEF Redeem, Goto
<1> QED  BY <1>2, <1>3, <1>4, <1>5, <1>6

\* The search: nobody else is at it, so what it finds is still so when it makes one.
LEMMA ThreadSearch ==
  ASSUME ContactTypeInv, ThreadInv, FindersApart, NEW p \in Proc, ReadConv(p) \/ CreateConv(p)
  PROVE  ThreadInv'
<1>1. CASE ReadConv(p)
  <2>1. row' = row /\ created' = created /\ call[p].at = "read_conv" /\ \A q \in Proc \ {p} : call'[q] = call[q]
    BY <1>1 DEF ReadConv, Goto, ContactTypeInv, TypeOK
  <2>2. call'[p].at = "create_conv" => \A c \in Row : row[c].conv = NoConv
    <3> DEFINE withConv == {c \in Row : row[c].conv # NoConv}
    <3>1. CASE withConv = {}
      BY <3>1
    <3>2. CASE withConv # {}
      <4>1. call'[p] = [call[p] EXCEPT !.at = "insert", !.v = row[Max(withConv)].conv]
        BY <1>1, <3>2 DEF ReadConv, Goto, ContactTypeInv, TypeOK
      <4>2. call'[p].at = "insert"
        BY <4>1 DEF ContactTypeInv, TypeOK, Calls
      <4> QED  BY <4>2
    <3> QED  BY <3>1, <3>2
  <2>3. call'[p].at = "create_conv" => created = {}
    BY <2>1, <2>2 DEF ThreadInv, FindersApart, Finding
  <2> QED  BY <2>1, <2>3 DEF ThreadInv
<1>2. CASE CreateConv(p)
  <2>1. PICK v \in Conv \ created : created' = created \cup {v} /\ Goto(p, [call[p] EXCEPT !.at = "insert", !.v = v])
    BY <1>2 DEF CreateConv
  <2>2. call[p].at = "create_conv" /\ created = {}
    BY <1>2 DEF CreateConv, ThreadInv
  <2>3. call'[p].at = "insert" /\ \A q \in Proc \ {p} : call'[q] = call[q]
    BY <2>1 DEF Goto, ContactTypeInv, TypeOK, Calls
  <2>4. \A q \in Proc : call'[q].at # "create_conv"
    BY <2>2, <2>3 DEF FindersApart, Finding
  <2> QED  BY <2>1, <2>2, <2>3, <2>4 DEF ThreadInv
<1> QED  BY <1>1, <1>2

\* A call that is at work on its insert ends it with a row that has the thread.
LEMMA ThreadInserts ==
  ASSUME ContactTypeInv, ThreadInv, NEW p \in Proc,
         InsertRequest(p) \/ ReadUpsert(p) \/ InsertAccepted(p) \/ RereadUpsert(p)
  PROVE  ThreadInv'
<1>1. created' = created /\ \A q \in Proc \ {p} : call'[q] = call[q]
  BY DEF InsertRequest, ReadUpsert, InsertAccepted, RereadUpsert, Goto, ContactTypeInv, TypeOK
<1>2. call[p].at \in {"insert", "insert_accepted"} => call[p].v \in created
  BY DEF ContactTypeInv, Holds, Posting
<1>3. CASE InsertRequest(p)
  <2>1. /\ \E c \in Row : row'[c].conv # NoConv
        /\ \A c \in Row : row[c].conv # NoConv => row'[c].conv # NoConv
    BY <1>2, <1>3, InsertedHasThread, ActiveHasThread DEF InsertRequest
  <2>2. call'[p].at # "create_conv"
    BY <1>3 DEF InsertRequest, Goto, ContactTypeInv, TypeOK, Calls, NoCall
  <2> QED  BY <1>1, <2>1, <2>2, ThreadKept
<1>4. CASE InsertAccepted(p)
  <2>1. /\ \E c \in Row : row'[c].conv # NoConv
        /\ \A c \in Row : row[c].conv # NoConv => row'[c].conv # NoConv
    BY <1>2, <1>4, InsertedHasThread, ActiveHasThread DEF InsertAccepted
  <2>2. call'[p].at # "create_conv"
    BY <1>4 DEF InsertAccepted, Goto, ContactTypeInv, TypeOK, Calls
  <2> QED  BY <1>1, <2>1, <2>2, ThreadKept
<1>5. CASE ReadUpsert(p) \/ RereadUpsert(p)
  <2>1. row' = row
    BY <1>5 DEF ReadUpsert, RereadUpsert
  <2>2. ASSUME ActiveRows = {} PROVE call'[p].at \in {"insert_accepted", "post_connected"} /\ (call[p].at = "insert" => call'[p].at = "insert_accepted")
    BY <1>5, <2>2 DEF ReadUpsert, RereadUpsert, Upsert, Goto, ContactTypeInv, TypeOK, Calls
  <2>3. ASSUME ActiveRows # {} PROVE call'[p].at # "create_conv"
    <3>1. \A none : Upsert(p, none).at \in {"post_connected", "update"}
      BY <2>3 DEF Upsert, ContactTypeInv, TypeOK, Calls
    <3>2. call'[p].at \in {"post_connected", "update"}
      BY <1>5, <3>1 DEF ReadUpsert, RereadUpsert, Goto, ContactTypeInv, TypeOK
    <3> QED  BY <3>2
  <2>4. ActiveRows # {} => \E c \in Row : row[c].conv # NoConv
    BY ActiveHasThread
  <2>5. call[p].at # "insert_accepted"
    BY <1>5 DEF ReadUpsert, RereadUpsert
  <2> QED  BY <1>1, <2>1, <2>2, <2>3, <2>4, <2>5, ThreadKept
<1> QED  BY <1>3, <1>4, <1>5

LEMMA ThreadRest ==
  ASSUME ContactTypeInv, ThreadInv, NothingDeleted', NEW p \in Proc,
         \/ ReadActive(p) \/ PostWants(p) \/ Update(p) \/ PostConnected(p)
         \/ DeleteLines(p) \/ DeleteRow(p) \/ InsertInvite(p) \/ Claim(p)
  PROVE  ThreadInv'
<1>1. created' = created /\ call[p].at \notin {"insert", "insert_accepted"} /\ \A q \in Proc \ {p} : call'[q] = call[q]
  BY DEF ReadActive, PostWants, Update, PostConnected, DeleteLines, DeleteRow, InsertInvite, Claim, Goto,
         ContactTypeInv, TypeOK
<1>2. call'[p].at # "create_conv"
  <2>1. NoCall.at = "idle" /\ call[p] \in Calls
    BY DEF NoCall, ContactTypeInv, TypeOK
  <2>2. CASE ReadActive(p)
    <3>1. \/ call'[p] = [call[p] EXCEPT !.at = "read_conv"] \/ call'[p] = NoCall
          \/ \E c \in Row : call'[p] = [call[p] EXCEPT !.at = "update", !.c = c, !.v = row[c].conv]
      BY <2>2 DEF ReadActive, Goto, ContactTypeInv, TypeOK, ActiveRows
    <3>2. [call[p] EXCEPT !.at = "read_conv"].at = "read_conv"
      BY <2>1 DEF Calls
    <3>3. \A c \in Row : [call[p] EXCEPT !.at = "update", !.c = c, !.v = row[c].conv].at = "update"
      BY <2>1 DEF Calls
    <3> QED  BY <2>1, <3>1, <3>2, <3>3
  <2>3. CASE PostWants(p) \/ PostConnected(p) \/ DeleteRow(p) \/ InsertInvite(p)
    BY <2>1, <2>3 DEF PostWants, PostConnected, DeleteRow, InsertInvite, Goto, ContactTypeInv, TypeOK
  <2>4. CASE Update(p) \/ DeleteLines(p) \/ Claim(p)
    BY <2>1, <2>4 DEF Update, DeleteLines, Claim, Goto, ContactTypeInv, TypeOK, Calls
  <2> QED  BY <2>2, <2>3, <2>4
<1>3. \A c \in Row : row'[c].conv = row[c].conv
  <2>1. CASE Update(p)
    BY <2>1 DEF Update, ContactTypeInv, TypeOK, Records
  <2>2. CASE DeleteRow(p)
    <3>1. [NoRecord EXCEPT !.status = "deleted"].status = "deleted"
      BY DEF NoRecord
    <3>2. call[p].c \in Row
      BY <2>2 DEF DeleteRow, ContactTypeInv, TypeOK
    <3> QED  BY <2>2, <3>1, <3>2 DEF DeleteRow, NothingDeleted, ContactTypeInv, TypeOK
  <2> QED  BY <2>1, <2>2 DEF ReadActive, PostWants, PostConnected, DeleteLines, InsertInvite, Claim
<1> QED  BY <1>1, <1>2, <1>3, ThreadKept

LEMMA ThreadStep ==
  ContactTypeInv /\ ThreadInv /\ FindersApart /\ NothingDeleted' /\ [Next]_vars => ThreadInv'
<1> SUFFICES ASSUME ContactTypeInv, ThreadInv, FindersApart, NothingDeleted', [Next]_vars PROVE ThreadInv'
  OBVIOUS
<1>1. CASE SignUp \/ (\E i \in Invite : CancelInvite(i)) \/ UNCHANGED vars
  BY <1>1, ThreadKept DEF SignUp, CancelInvite, vars
<1> QED  BY <1>1, ThreadBegins, ThreadSearch, ThreadInserts, ThreadRest DEF Next

LEMMA ThreadIsOne == ContactTypeInv /\ ThreadInv => OneThreadPerPair
<1> SUFFICES ASSUME ThreadInv PROVE Cardinality(created) <= 1
  BY DEF OneThreadPerPair
<1>1. CASE created = {}
  BY <1>1, FS_EmptySet
<1>2. CASE created # {}
  <2>1. PICK v \in created : created = {v}
    BY <1>2 DEF ThreadInv
  <2>2. Cardinality({v}) = 1
    BY FS_Singleton
  <2>3. Cardinality(created) = 1
    BY <2>1, <2>2
  <2> QED  BY <2>3
<1> QED  BY <1>1, <1>2

\* Of "a re-request lands in the same thread" (getOrCreateDirectConversation)
\* nothing is wrong but two things: that the thread is remembered by rows that
\* can be deleted, and that two calls look for it at a time.  While neither
\* happens, the pair has one thread, whatever else overlaps.
THEOREM RememberedThreadIsOne == Spec /\ []NothingDeleted /\ []FindersApart => []OneThreadPerPair
<1>1. ContactTypeInv /\ ThreadInv /\ FindersApart /\ NothingDeleted' /\ [Next]_vars => ThreadInv'
  BY ThreadStep
<1> QED  BY ThreadInitial, <1>1, TypeInvariant, ThreadIsOne, PTL DEF Spec

------------------------------------------------------------------------------
(***************************************************************************)
(* Calls.  A conversation that is not excused is seen as five sets of      *)
(* pages: A in the call, I with the prompt, R, D and E with a ring, a      *)
(* decline and an end on its way to them.  M are the pages of its users.   *)
(***************************************************************************)
Across(M, t) == {q \in M : Owner[q] # Owner[t]}
Beside(M, t) == {q \in M \ {t} : Owner[q] = Owner[t]}

\* One page of a user is in the call.
OneCall(A) == \A t, q \in A : Owner[t] = Owner[q] => t = q

\* Who declined has no ring or prompt left, who ended no call.
DeclinedAll(I, R, D) == \A q \in D, t \in I \cup R : Owner[q] = Owner[t]
EndedAll(A, E) == \A q \in E, t \in A : Owner[q] = Owner[t]

\* Both users have a page open.
Answerable(M) == \A t \in M : \E q \in M : Owner[q] # Owner[t]

\* A page in a call will be told that it is over, or its ring is or will be before
\* the peer, or the peer is in the call to stay.
NotAlone(M, A, I, R, D, E) == Answerable(M) =>
  \A t \in A \ (D \cup E) : \E q \in M : /\ Owner[q] # Owner[t]
                                         /\ q \in I \cup R \/ (t \notin R /\ q \in A \ D)

Within(M, A, I, R, D, E) ==
  /\ A \subseteq M /\ I \subseteq M /\ R \subseteq M /\ D \subseteq M /\ E \subseteq M
  /\ I \cap R = {}

\* What holds of a conversation even after both users called each other at once.
Sides(M, A, I, R, D, E) ==
  /\ Within(M, A, I, R, D, E) /\ OneCall(A)
  /\ DeclinedAll(I, R, D) /\ EndedAll(A, E)
  /\ NotAlone(M, A, I, R, D, E)

\* Otherwise, no user is called while in the call; a ring or a prompt has its caller,
\* or will be told of the end; who is declined is called only by one who has ended,
\* and who ended has no ring or prompt left.
Apart(A, I, R) == \A t \in A, q \in I \cup R : Owner[t] # Owner[q]
HasCaller(A, I, R, E) == \A t \in (I \cup R) \ E : \E q \in A : Owner[q] # Owner[t]
OneWay(A, I, R, D, E) ==
  /\ Apart(A, I, R) /\ HasCaller(A, I, R, E)
  /\ D \cap (I \cup R) \subseteq E /\ EndedAll(I \cup R, E)

Of(d) == {t \in Page : Owner[t] \in d}
Heading(ty, d) == {t \in Page : InFlight(t, ty, d)}
Calling(d) == {t \in Page : active[t] = d}
Prompted(d) == {t \in Page : incoming[t] = d}
SidesOK(d) ==
  /\ Sides(Of(d), Calling(d), Prompted(d), Heading("ring", d), Heading("decline", d), Heading("end", d))
  /\ d \notin crossed => OneWay(Calling(d), Prompted(d), Heading("ring", d), Heading("decline", d), Heading("end", d))

\* One ring of a conversation goes to a page at a time, ahead of what follows it.
RingsLead(s, d) ==
  \A j, k \in DOMAIN s : s[j] = [dm |-> d, type |-> "ring"] /\ s[k].dm = d /\ s[k].type # "accept" =>
    IF s[k].type = "ring" THEN j = k ELSE j < k

Good(d) == SidesOK(d) /\ \A q \in Page : RingsLead(signals[q], d)
CallsInv == CallsTypeOK /\ \A d \in Dm \ excused : Good(d)

\* The users of a conversation are two at most.
TwoSided(M) == \A x, y, z \in M : Owner[x] # Owner[y] /\ Owner[y] # Owner[z] => Owner[x] = Owner[z]

(***************************************************************************)
(* What each step does to the five sets keeps them in order.               *)
(***************************************************************************)
LEMMA SidesStart ==
  ASSUME NEW M, NEW A, NEW I, NEW R, NEW D, NEW E, TwoSided(M), Sides(M, A, I, R, D, E),
         NEW t \in M, t \notin A, I = {}, D = {}, E = {}, Beside(M, t) \cap A = {}, Across(M, t) \cap R = {}
  PROVE  Sides(M, A \cup {t}, I, R \cup Across(M, t), D, E)
  BY DEF Sides, TwoSided, Across, Beside, OneCall, DeclinedAll, EndedAll, NotAlone, Answerable, Within

\* A call that crosses none finds nothing left of an earlier one.
LEMMA OneWayStart ==
  ASSUME NEW M, NEW A, NEW I, NEW R, NEW D, NEW E, TwoSided(M), Sides(M, A, I, R, D, E),
         NEW t \in M, t \notin A, I = {}, R = {}, D = {}, E = {}, Beside(M, t) \cap A = {}
  PROVE  OneWay(A \cup {t}, I, R \cup Across(M, t), D, E)
<1>1. \A s \in A : s \notin Across(M, t)
  <2> SUFFICES ASSUME NEW s \in A, s \in M, Owner[s] # Owner[t] PROVE FALSE
    BY DEF Across
  <2>1. Answerable(M)
    BY DEF Answerable, TwoSided
  <2>2. PICK q \in A : Owner[q] # Owner[s]
    BY <2>1 DEF Sides, NotAlone
  <2>3. q \in M /\ Owner[q] = Owner[t]
    BY <2>2 DEF Sides, Within, TwoSided
  <2> QED  BY <2>3 DEF Beside
<1>2. \A q \in Across(M, t) : q \in M /\ Owner[q] # Owner[t]
  BY DEF Across
<1>3. A = {}
  BY <1>1 DEF Sides, Within, Across, Beside
<1> QED  BY <1>2, <1>3 DEF OneWay, Apart, HasCaller, EndedAll

LEMMA SidesAccept ==
  ASSUME NEW M, NEW A, NEW I, NEW R, NEW D, NEW E, TwoSided(M), Sides(M, A, I, R, D, E),
         OneWay(A, I, R, D, E), NEW t \in I, Beside(M, t) \cap (A \cup I \cup R) = {}
  PROVE  /\ Sides(M, A \cup {t}, I \ {t}, R, D, E)
         /\ OneWay(A \cup {t}, I \ {t}, R, D, E)
<1> DEFINE B == A \cup {t}
<1> DEFINE J == I \ {t}
<1>0. t \in M /\ t \notin R
  BY DEF Sides, Within
<1>1. Within(M, B, J, R, D, E) /\ DeclinedAll(J, R, D)
  BY DEF Sides, Within, DeclinedAll
<1>2. OneCall(B)
  BY <1>0 DEF Sides, Within, OneCall, Beside
<1>3. EndedAll(B, E)
  BY DEF Sides, EndedAll, OneWay
<1>4. NotAlone(M, B, J, R, D, E)
  <2> SUFFICES ASSUME Answerable(M), NEW x \in B, x \notin D, x \notin E
               PROVE  \E q \in M : Owner[q] # Owner[x] /\ (q \in J \cup R \/ (x \notin R /\ q \in B \ D))
    BY DEF NotAlone
  <2>1. CASE x = t
    <3>1. PICK q \in A : Owner[q] # Owner[t]
      BY <2>1 DEF OneWay, HasCaller
    <3>2. q \in M /\ q \notin D
      BY <3>1 DEF Sides, Within, DeclinedAll
    <3> QED  BY <1>0, <2>1, <3>1, <3>2
  <2>2. CASE x # t
    <3>1. PICK q \in M : Owner[q] # Owner[x] /\ (q \in I \cup R \/ (x \notin R /\ q \in A \ D))
      BY <2>2 DEF Sides, NotAlone
    <3>2. CASE q = t
      <4>1. x \in A /\ x \notin R
        BY <2>2 DEF OneWay, Apart
      <4>2. t \notin D
        BY <3>1, <3>2, <4>1 DEF Sides, EndedAll, OneWay
      <4> QED  BY <3>1, <3>2, <4>1, <4>2
    <3>3. CASE q # t
      BY <3>1, <3>3
    <3> QED  BY <3>2, <3>3
  <2> QED  BY <2>1, <2>2
<1>5. Apart(B, J, R)
  BY <1>0 DEF Sides, Within, OneWay, Apart, Beside
<1>6. HasCaller(B, J, R, E) /\ D \cap (J \cup R) \subseteq E /\ EndedAll(J \cup R, E)
  BY DEF OneWay, HasCaller, EndedAll
<1> HIDE DEF B, J
<1>7. Sides(M, B, J, R, D, E) /\ OneWay(B, J, R, D, E)
  BY <1>1, <1>2, <1>3, <1>4, <1>5, <1>6 DEF Sides, OneWay
<1> QED  BY <1>7 DEF B, J

LEMMA SidesDecline ==
  ASSUME NEW M, NEW A, NEW I, NEW R, NEW D, NEW E, TwoSided(M), Sides(M, A, I, R, D, E),
         NEW t \in I, t \notin A, Beside(M, t) \cap (A \cup I \cup R) = {}
  PROVE  /\ Sides(M, A, I \ {t}, R, D \cup Across(M, t), E)
         /\ OneWay(A, I, R, D, E) => OneWay(A, I \ {t}, R, D \cup Across(M, t), E)
<1>1. Sides(M, A, I \ {t}, R, D \cup Across(M, t), E)
  BY DEF Sides, TwoSided, Across, Beside, OneCall, DeclinedAll, EndedAll, NotAlone, Answerable, Within
<1>2. OneWay(A, I, R, D, E) => OneWay(A, I \ {t}, R, D \cup Across(M, t), E)
  BY DEF Sides, TwoSided, Across, Beside, OneCall, DeclinedAll, EndedAll, NotAlone, Answerable, Within,
     OneWay, Apart, HasCaller
<1> QED  BY <1>1, <1>2

LEMMA SidesEnd ==
  ASSUME NEW M, NEW A, NEW I, NEW R, NEW D, NEW E, TwoSided(M), Sides(M, A, I, R, D, E),
         NEW t \in A
  PROVE  /\ Sides(M, A \ {t}, I, R, D, E \cup Across(M, t))
         /\ OneWay(A, I, R, D, E) => OneWay(A \ {t}, I, R, D, E \cup Across(M, t))
<1>1. Sides(M, A \ {t}, I, R, D, E \cup Across(M, t))
  BY DEF Sides, TwoSided, Across, Beside, OneCall, DeclinedAll, EndedAll, NotAlone, Answerable, Within
<1>2. OneWay(A, I, R, D, E) => OneWay(A \ {t}, I, R, D, E \cup Across(M, t))
  BY DEF Sides, TwoSided, Across, Beside, OneCall, DeclinedAll, EndedAll, NotAlone, Answerable, Within,
     OneWay, Apart, HasCaller
<1> QED  BY <1>1, <1>2

LEMMA SidesPrompt ==
  ASSUME NEW M, NEW A, NEW I, NEW R, NEW D, NEW E, TwoSided(M), Sides(M, A, I, R, D, E),
         NEW t \in R
  PROVE  /\ Sides(M, A, I \cup {t}, R \ {t}, D, E)
         /\ OneWay(A, I, R, D, E) => OneWay(A, I \cup {t}, R \ {t}, D, E)
<1>1. Sides(M, A, I \cup {t}, R \ {t}, D, E)
  BY DEF Sides, TwoSided, Across, Beside, OneCall, DeclinedAll, EndedAll, NotAlone, Answerable, Within
<1>2. OneWay(A, I, R, D, E) => OneWay(A, I \cup {t}, R \ {t}, D, E)
  BY DEF Sides, TwoSided, Across, Beside, OneCall, DeclinedAll, EndedAll, NotAlone, Answerable, Within,
     OneWay, Apart, HasCaller
<1> QED  BY <1>1, <1>2

LEMMA SidesDeclined ==
  ASSUME NEW M, NEW A, NEW I, NEW R, NEW D, NEW E, TwoSided(M), Sides(M, A, I, R, D, E),
         NEW t \in D, t \notin R, NEW F, F \subseteq D, D \subseteq F \cup {t}
  PROVE  /\ Sides(M, A \ {t}, I, R, F, E)
         /\ OneWay(A, I, R, D, E) => OneWay(A \ {t}, I, R, F, E)
<1>1. Sides(M, A \ {t}, I, R, F, E)
  BY DEF Sides, TwoSided, Across, Beside, OneCall, DeclinedAll, EndedAll, NotAlone, Answerable, Within
<1>2. OneWay(A, I, R, D, E) => OneWay(A \ {t}, I, R, F, E)
  BY DEF Sides, TwoSided, Across, Beside, OneCall, DeclinedAll, EndedAll, NotAlone, Answerable, Within,
     OneWay, Apart, HasCaller
<1> QED  BY <1>1, <1>2

LEMMA SidesEnded ==
  ASSUME NEW M, NEW A, NEW I, NEW R, NEW D, NEW E, TwoSided(M), Sides(M, A, I, R, D, E),
         NEW t \in E, t \notin R, NEW F, F \subseteq E, E \subseteq F \cup {t}
  PROVE  /\ Sides(M, A \ {t}, I \ {t}, R, D, F)
         /\ OneWay(A, I, R, D, E) => OneWay(A \ {t}, I \ {t}, R, D, F)
<1>1. Sides(M, A \ {t}, I \ {t}, R, D, F)
  BY DEF Sides, TwoSided, Across, Beside, OneCall, DeclinedAll, EndedAll, NotAlone, Answerable, Within
<1>2. OneWay(A, I, R, D, E) => OneWay(A \ {t}, I \ {t}, R, D, F)
  BY DEF Sides, TwoSided, Across, Beside, OneCall, DeclinedAll, EndedAll, NotAlone, Answerable, Within,
     OneWay, Apart, HasCaller
<1> QED  BY <1>1, <1>2

LEMMA ConversationIsTwoSided ==
  ASSUME NEW d \in Dm
  PROVE  TwoSided(Of(d)) /\ \A t \in Of(d) : PeerPages(t, d) = Across(Of(d), t)
<1>1. PICK u, v : d = {u, v}
  BY DmAssumption
<1>4. TwoSided(Of(d))
  BY <1>1 DEF TwoSided, Of
<1>5. \A t \in Of(d) : PeerPages(t, d) = Across(Of(d), t)
  BY DEF PeerPages, Across, Of
<1> QED  BY <1>4, <1>5

(***************************************************************************)
(* The signals on their way to a page.                                     *)
(***************************************************************************)
Types == {"ring", "accept", "decline", "end"}
SignalsOK == signals \in [Page -> Seq([dm : Dm, type : Types])]
In(s, ty, d) == \E k \in DOMAIN s : s[k] = [dm |-> d, type |-> ty]
Without(s, k) == SubSeq(s, 1, k - 1) \o SubSeq(s, k + 1, Len(s))

LEMMA AppendKnown ==
  ASSUME NEW S, NEW s \in Seq(S), NEW e \in S
  PROVE  /\ Append(s, e) \in Seq(S)
         /\ \A ty, d : In(Append(s, e), ty, d) <=> In(s, ty, d) \/ e = [dm |-> d, type |-> ty]
<1>1. PICK n \in Nat : n = Len(s)
  OBVIOUS
<1>2. PICK r \in Seq(S) : r = Append(s, e)
  BY AppendProperties
<1>3. DOMAIN r = 1..(n + 1) /\ DOMAIN s = 1..n /\ r[n + 1] = e /\ \A k \in 1..n : r[k] = s[k]
  BY <1>1, <1>2
<1>4. ASSUME NEW x PROVE (\E k \in DOMAIN r : r[k] = x) <=> (\E k \in DOMAIN s : s[k] = x) \/ e = x
  <2>1. ASSUME NEW k \in DOMAIN r, r[k] = x PROVE (\E l \in DOMAIN s : s[l] = x) \/ e = x
    BY <1>3, <2>1
  <2>2. ASSUME NEW k \in DOMAIN s, s[k] = x PROVE \E l \in DOMAIN r : r[l] = x
    <3>1. k \in DOMAIN r /\ r[k] = x
      BY <1>3, <2>2
    <3> QED  BY <3>1
  <2>3. n + 1 \in DOMAIN r /\ r[n + 1] = e
    BY <1>3
  <2> QED  BY <2>1, <2>2, <2>3
<1> QED  BY <1>2, <1>4 DEF In

LEMMA AppendLeads ==
  ASSUME NEW s \in Seq([dm : Dm, type : Types]), NEW e \in [dm : Dm, type : Types], NEW d \in Dm, RingsLead(s, d),
         e = [dm |-> d, type |-> "ring"] => ~In(s, "ring", d) /\ ~In(s, "decline", d) /\ ~In(s, "end", d)
  PROVE  RingsLead(Append(s, e), d)
<1>1. PICK n \in Nat : n = Len(s)
  OBVIOUS
<1>2. PICK r \in Seq([dm : Dm, type : Types]) : r = Append(s, e)
  BY AppendProperties
<1>3. DOMAIN r = 1..(n + 1) /\ DOMAIN s = 1..n /\ r[n + 1] = e /\ \A k \in 1..n : r[k] = s[k]
  BY <1>1, <1>2
<1>4. \A k \in 1..n : s[k].dm = d /\ s[k].type # "accept" =>
        s[k] \in {[dm |-> d, type |-> "ring"], [dm |-> d, type |-> "decline"], [dm |-> d, type |-> "end"]}
  <2> TAKE k \in 1..n
  <2>0. k \in 1..Len(s)
    BY <1>1
  <2>1. PICK x \in [dm : Dm, type : Types] : x = s[k]
    BY <2>0, ElementOfSeq
  <2>2. x = [dm |-> x.dm, type |-> x.type] /\ x.type \in Types
    BY <2>1
  <2> QED  BY <2>1, <2>2 DEF Types
<1>5. e = [dm |-> d, type |-> "ring"] => \A k \in 1..n : ~(s[k].dm = d /\ s[k].type # "accept")
  BY <1>3, <1>4 DEF In
<1>6. SUFFICES ASSUME NEW j \in 1..(n + 1), NEW k \in 1..(n + 1),
                      r[j] = [dm |-> d, type |-> "ring"], r[k].dm = d, r[k].type # "accept"
               PROVE  IF r[k].type = "ring" THEN j = k ELSE j < k
  BY <1>2, <1>3 DEF RingsLead
<1>7. CASE j \in 1..n /\ k \in 1..n
  BY <1>3, <1>6, <1>7 DEF RingsLead
<1>8. CASE j = n + 1
  <2>1. k = n + 1
    BY <1>3, <1>5, <1>6, <1>8
  <2> QED  BY <1>6, <1>8, <2>1
<1>9. CASE j \in 1..n /\ k = n + 1
  <2>1. r[k].type # "ring"
    <3> SUFFICES ASSUME r[k].type = "ring" PROVE FALSE
      OBVIOUS
    <3>1. e = [dm |-> d, type |-> "ring"]
      BY <1>3, <1>6, <1>9
    <3>2. s[j].dm = d /\ s[j].type = "ring"
      BY <1>3, <1>6, <1>9
    <3> QED  BY <1>5, <1>9, <3>1, <3>2
  <2> QED  BY <1>9, <2>1
<1> QED  BY <1>7, <1>8, <1>9

LEMMA WithoutKnown ==
  ASSUME NEW S, NEW s \in Seq(S), NEW i \in DOMAIN s
  PROVE  /\ Without(s, i) \in Seq(S)
         /\ \A ty, d : In(Without(s, i), ty, d) => In(s, ty, d)
         /\ \A ty, d : In(s, ty, d) /\ s[i] # [dm |-> d, type |-> ty] => In(Without(s, i), ty, d)
         /\ \A d : RingsLead(s, d) => RingsLead(Without(s, i), d)
         /\ \A d : RingsLead(s, d) /\ s[i] = [dm |-> d, type |-> "ring"] => ~In(Without(s, i), "ring", d)
<1>1. PICK n \in Nat : n = Len(s) /\ DOMAIN s = 1..n
  OBVIOUS
<1>2. i \in 1..n
  BY <1>1
<1>3. PICK r \in Seq(S) : r = Without(s, i) /\ Len(r) = n - 1
                          /\ \A k \in 1..(n - 1) : r[k] = IF k < i THEN s[k] ELSE s[k + 1]
  <2>1. SubSeq(s, 1, i - 1) \in Seq(S) /\ Len(SubSeq(s, 1, i - 1)) = i - 1
        /\ \A k \in 1..(i - 1) : SubSeq(s, 1, i - 1)[k] = s[k]
    BY <1>1, <1>2
  <2>2. SubSeq(s, i + 1, n) \in Seq(S) /\ Len(SubSeq(s, i + 1, n)) = n - i
        /\ \A k \in 1..(n - i) : SubSeq(s, i + 1, n)[k] = s[k + i]
    BY <1>1, <1>2
  <2>3. PICK a \in Seq(S), b \in Seq(S) : a = SubSeq(s, 1, i - 1) /\ b = SubSeq(s, i + 1, n)
    BY <2>1, <2>2
  <2>4. Without(s, i) = a \o b
    BY <1>1, <2>3 DEF Without
  <2>5. Len(a) = i - 1 /\ Len(b) = n - i
    BY <2>1, <2>2, <2>3
  <2>6. a \o b \in Seq(S) /\ Len(a \o b) = n - 1
        /\ \A k \in 1..(n - 1) : (a \o b)[k] = IF k <= i - 1 THEN a[k] ELSE b[k - (i - 1)]
    <3>1. Len(a \o b) = (i - 1) + (n - i)
      BY <2>3, <2>5, ConcatProperties
    <3>2. \A k \in 1..(Len(a) + Len(b)) : (a \o b)[k] = IF k <= Len(a) THEN a[k] ELSE b[k - Len(a)]
      BY ConcatProperties
    <3>3. (i - 1) + (n - i) = n - 1
      <4>1. PICK m \in Int : m = i
        BY <1>2
      <4>2. (m - 1) + (n - m) = n - 1
        BY ONLY n \in Nat, m \in Int
      <4> QED  BY <4>1, <4>2
    <3>4. a \o b \in Seq(S)
      BY ConcatProperties
    <3>5. Len(a) + Len(b) = n - 1
      BY <2>5, <3>3
    <3>6. \A k \in 1..(n - 1) : (a \o b)[k] = IF k <= i - 1 THEN a[k] ELSE b[k - (i - 1)]
      BY ONLY <3>2, <3>5, <2>5
    <3> QED  BY <3>1, <3>3, <3>4, <3>6
  <2>7. \A k \in 1..(n - 1) : (a \o b)[k] = IF k < i THEN s[k] ELSE s[k + 1]
    <3> TAKE k \in 1..(n - 1)
    <3>1. CASE k < i
      <4>1. k <= i - 1 /\ k \in 1..(i - 1)
        BY <1>1, <1>2, <3>1
      <4> QED  BY <2>1, <2>3, <2>6, <3>1, <4>1
    <3>2. CASE ~(k < i)
      <4>1. ~(k <= i - 1) /\ k - (i - 1) \in 1..(n - i) /\ (k - (i - 1)) + i = k + 1
        BY <1>1, <1>2, <3>2
      <4>2. (a \o b)[k] = b[k - (i - 1)]
        BY <2>6, <4>1
      <4> QED  BY <2>2, <2>3, <3>2, <4>1, <4>2
    <3> QED  BY <3>1, <3>2
  <2> QED  BY <2>4, <2>6, <2>7
<1>4. DOMAIN r = 1..(n - 1)
  BY <1>3
<1>5. \A k \in DOMAIN r : \E l \in DOMAIN s : r[k] = s[l] /\ l # i /\ l = IF k < i THEN k ELSE k + 1
  BY <1>1, <1>2, <1>3, <1>4
<1>6. \A l \in DOMAIN s : l # i => \E k \in DOMAIN r : r[k] = s[l]
  <2> TAKE l \in DOMAIN s
  <2> HAVE l # i
  <2>1. CASE l < i
    <3>1. l \in DOMAIN r /\ r[l] = s[l]
      BY <1>1, <1>2, <1>3, <1>4, <2>1
    <3> QED  BY <3>1
  <2>2. CASE l > i
    <3>1. l - 1 \in DOMAIN r /\ r[l - 1] = s[l]
      BY <1>1, <1>2, <1>3, <1>4, <2>2
    <3> QED  BY <3>1
  <2> QED  BY <1>1, <1>2, <2>1, <2>2
<1>7. \A ty, d : In(r, ty, d) => In(s, ty, d)
  BY <1>5 DEF In
<1>8. \A ty, d : In(s, ty, d) /\ s[i] # [dm |-> d, type |-> ty] => In(r, ty, d)
  BY <1>6 DEF In
<1>9. ASSUME NEW d, RingsLead(s, d) PROVE RingsLead(r, d)
  <2> SUFFICES ASSUME NEW j \in DOMAIN r, NEW k \in DOMAIN r,
                      r[j] = [dm |-> d, type |-> "ring"], r[k].dm = d, r[k].type # "accept"
               PROVE  IF r[k].type = "ring" THEN j = k ELSE j < k
    BY DEF RingsLead
  <2>1. PICK j1 \in DOMAIN s : r[j] = s[j1] /\ j1 = IF j < i THEN j ELSE j + 1
    BY <1>5
  <2>2. PICK k1 \in DOMAIN s : r[k] = s[k1] /\ k1 = IF k < i THEN k ELSE k + 1
    BY <1>5
  <2>3. IF r[k].type = "ring" THEN j1 = k1 ELSE j1 < k1
    BY <1>9, <2>1, <2>2 DEF RingsLead
  <2>4. j \in Nat /\ k \in Nat /\ i \in Nat
    BY <1>2, <1>4
  <2> QED  BY <2>1, <2>2, <2>3, <2>4
<1>10. ASSUME NEW d, RingsLead(s, d), s[i] = [dm |-> d, type |-> "ring"], In(r, "ring", d) PROVE FALSE
  <2>1. PICK k \in DOMAIN r : r[k] = [dm |-> d, type |-> "ring"]
    BY <1>10 DEF In
  <2>2. PICK l \in DOMAIN s : s[l] = [dm |-> d, type |-> "ring"] /\ l # i
    BY <1>5, <2>1
  <2>3. s[l].dm = d /\ s[l].type = "ring"
    BY <2>2
  <2> QED  BY <1>10, <2>2, <2>3 DEF RingsLead
<1> QED  BY <1>3, <1>7, <1>8, <1>9, <1>10

LEMMA TypeIsSignals == CallsTypeOK <=> /\ SignalsOK
                                       /\ incoming \in [Page -> Dm \cup {NoDm}] /\ active \in [Page -> Dm \cup {NoDm}]
                                       /\ media \in [Page -> {"out", "joining", "in"}]
                                       /\ leaving \subseteq Page \X Dm /\ noticed \subseteq Page
                                       /\ starts \in 0..MaxStarts /\ crossed \subseteq Dm /\ excused \subseteq Dm
  BY DEF CallsTypeOK, SignalsOK, Types

LEMMA HeadingIn ==
  ASSUME NEW ty, NEW d
  PROVE  /\ Heading(ty, d) = {q \in Page : In(signals[q], ty, d)}
         /\ Heading(ty, d)' = {q \in Page : In(signals'[q], ty, d)}
  BY DEF Heading, InFlight, In

\* What a page is sent, and what it takes.
LEMMA SignalKnown ==
  ASSUME SignalsOK, NEW t \in Page, NEW c \in Dm, NEW type \in Types
  PROVE  /\ Signal(t, c, type) \in [Page -> Seq([dm : Dm, type : Types])]
         /\ \A q \in Page, ty \in Types, d \in Dm : In(Signal(t, c, type)[q], ty, d)
               <=> In(signals[q], ty, d) \/ (q \in PeerPages(t, c) /\ ty = type /\ d = c)
         /\ \A q \in Page, d \in Dm :
               RingsLead(signals[q], d)
               /\ (q \in PeerPages(t, c) /\ type = "ring" /\ d = c =>
                     ~In(signals[q], "ring", d) /\ ~In(signals[q], "decline", d) /\ ~In(signals[q], "end", d))
               => RingsLead(Signal(t, c, type)[q], d)
<1>1. PICK e \in [dm : Dm, type : Types] : e = [dm |-> c, type |-> type]
  OBVIOUS
<1>2. \A ty, d : e = [dm |-> d, type |-> ty] <=> ty = type /\ d = c
  BY <1>1
<1>3. \A q \in Page : Signal(t, c, type)[q] = IF q \in PeerPages(t, c) THEN Append(signals[q], e) ELSE signals[q]
  BY <1>1 DEF Signal
<1>4. \A q \in Page : signals[q] \in Seq([dm : Dm, type : Types])
  BY DEF SignalsOK
<1>5. \A q \in Page : Append(signals[q], e) \in Seq([dm : Dm, type : Types])
  BY <1>4, AppendKnown
<1>6. Signal(t, c, type) \in [Page -> Seq([dm : Dm, type : Types])]
  BY <1>1, <1>4, <1>5 DEF Signal
<1>7. ASSUME NEW q \in Page, NEW ty \in Types, NEW d \in Dm
      PROVE  In(Signal(t, c, type)[q], ty, d) <=> In(signals[q], ty, d) \/ (q \in PeerPages(t, c) /\ ty = type /\ d = c)
  <2>1. In(Append(signals[q], e), ty, d) <=> In(signals[q], ty, d) \/ e = [dm |-> d, type |-> ty]
    BY <1>4, AppendKnown
  <2> QED  BY <1>2, <1>3, <2>1
<1>8. ASSUME NEW q \in Page, NEW d \in Dm, RingsLead(signals[q], d),
             q \in PeerPages(t, c) /\ type = "ring" /\ d = c =>
                     ~In(signals[q], "ring", d) /\ ~In(signals[q], "decline", d) /\ ~In(signals[q], "end", d)
      PROVE  RingsLead(Signal(t, c, type)[q], d)
  <2>1. CASE q \notin PeerPages(t, c)
    BY <1>3, <1>8, <2>1
  <2>2. CASE q \in PeerPages(t, c)
    <3>1. e = [dm |-> d, type |-> "ring"] =>
            ~In(signals[q], "ring", d) /\ ~In(signals[q], "decline", d) /\ ~In(signals[q], "end", d)
      BY <1>2, <1>8, <2>2
    <3>2. PICK s \in Seq([dm : Dm, type : Types]) : s = signals[q]
      BY <1>4
    <3>3. RingsLead(Append(s, e), d)
      BY <1>8, <3>1, <3>2, AppendLeads
    <3> QED  BY <1>3, <2>2, <3>2, <3>3
  <2> QED  BY <2>1, <2>2
<1> QED  BY <1>6, <1>7, <1>8

LEMMA TakeKnown ==
  ASSUME SignalsOK, NEW t \in Page, NEW k \in DOMAIN signals[t]
  PROVE  /\ Take(t, k) \in [Page -> Seq([dm : Dm, type : Types])]
         /\ \A q \in Page \ {t} : Take(t, k)[q] = signals[q]
         /\ signals[t][k] \in [dm : Dm, type : Types]
         /\ In(signals[t], signals[t][k].type, signals[t][k].dm)
         /\ \A ty, d : In(Take(t, k)[t], ty, d) => In(signals[t], ty, d)
         /\ \A ty, d : In(signals[t], ty, d) /\ signals[t][k] # [dm |-> d, type |-> ty] => In(Take(t, k)[t], ty, d)
         /\ \A d : RingsLead(signals[t], d) => RingsLead(Take(t, k)[t], d)
         /\ \A d : RingsLead(signals[t], d) /\ signals[t][k] = [dm |-> d, type |-> "ring"] =>
                     ~In(Take(t, k)[t], "ring", d)
<1>1. PICK s \in Seq([dm : Dm, type : Types]) : s = signals[t] /\ Take(t, k) = [signals EXCEPT ![t] = Without(s, k)]
  BY DEF SignalsOK, Take, Without
<1>2. k \in DOMAIN s
  BY <1>1
<1>3. /\ Without(s, k) \in Seq([dm : Dm, type : Types])
      /\ \A ty, d : In(Without(s, k), ty, d) => In(s, ty, d)
      /\ \A ty, d : In(s, ty, d) /\ s[k] # [dm |-> d, type |-> ty] => In(Without(s, k), ty, d)
      /\ \A d : RingsLead(s, d) => RingsLead(Without(s, k), d)
      /\ \A d : RingsLead(s, d) /\ s[k] = [dm |-> d, type |-> "ring"] => ~In(Without(s, k), "ring", d)
  BY <1>2, WithoutKnown
<1>4. Take(t, k) \in [Page -> Seq([dm : Dm, type : Types])] /\ Take(t, k)[t] = Without(s, k)
      /\ \A q \in Page \ {t} : Take(t, k)[q] = signals[q]
  BY <1>1, <1>3 DEF SignalsOK
<1>5. k \in 1..Len(s)
  BY <1>2
<1>6. PICK x \in [dm : Dm, type : Types] : x = s[k]
  BY <1>5, ElementOfSeq
<1>7. x = [dm |-> x.dm, type |-> x.type]
  BY <1>6
<1>8. In(s, s[k].type, s[k].dm)
  BY <1>2, <1>6, <1>7 DEF In
<1>9. signals[t][k] \in [dm : Dm, type : Types]
  BY <1>1, <1>6
<1>10. In(signals[t], signals[t][k].type, signals[t][k].dm)
  BY <1>1, <1>8
<1>11. \A ty, d : In(Take(t, k)[t], ty, d) => In(signals[t], ty, d)
  BY <1>1, <1>3, <1>4
<1>12. \A ty, d : In(signals[t], ty, d) /\ signals[t][k] # [dm |-> d, type |-> ty] => In(Take(t, k)[t], ty, d)
  BY <1>1, <1>3, <1>4
<1>13. \A d : RingsLead(signals[t], d) => RingsLead(Take(t, k)[t], d)
  BY <1>1, <1>3, <1>4
<1>14. \A d : RingsLead(signals[t], d) /\ signals[t][k] = [dm |-> d, type |-> "ring"] => ~In(Take(t, k)[t], "ring", d)
  BY <1>1, <1>3, <1>4
<1> QED  BY <1>4, <1>9, <1>10, <1>11, <1>12, <1>13, <1>14

(***************************************************************************)
(* What a step sends or takes, seen from one conversation.                 *)
(***************************************************************************)
SameSignals(d) == /\ \A ty \in Types : Heading(ty, d)' = Heading(ty, d)
                  /\ \A q \in Page : RingsLead(signals[q], d) => RingsLead(signals'[q], d)

LEMMA Untouched ==
  ASSUME NEW d \in Dm, Good(d), SameSignals(d), Calling(d)' = Calling(d), Prompted(d)' = Prompted(d),
         d \in crossed => d \in crossed'
  PROVE  Good(d)'
<1>1. Of(d)' = Of(d)
  BY DEF Of
<1>2. Heading("ring", d)' = Heading("ring", d) /\ Heading("decline", d)' = Heading("decline", d)
      /\ Heading("end", d)' = Heading("end", d)
  BY DEF SameSignals, Types
<1>3. SidesOK(d)'
  BY <1>1, <1>2 DEF Good, SidesOK
<1>4. \A q \in Page : RingsLead(signals'[q], d)
  BY DEF Good, SameSignals
<1> QED  BY <1>3, <1>4 DEF Good

LEMMA Sent ==
  ASSUME SignalsOK, NEW t \in Page, NEW c \in Dm, NEW type \in Types, signals' = Signal(t, c, type)
  PROVE  /\ SignalsOK'
         /\ \A d \in Dm \ {c} : SameSignals(d)
         /\ Heading(type, c)' = Heading(type, c) \cup PeerPages(t, c)
         /\ \A ty \in Types \ {type} : Heading(ty, c)' = Heading(ty, c)
         /\ type # "ring" \/ PeerPages(t, c) \cap (Heading("ring", c) \cup Heading("decline", c) \cup Heading("end", c)) = {}
              => \A q \in Page : RingsLead(signals[q], c) => RingsLead(signals'[q], c)
<1>1. PeerPages(t, c) \subseteq Page
  BY DEF PeerPages
<1>2. SignalsOK'
  BY SignalKnown DEF SignalsOK
<1>3. \A q \in Page, ty \in Types, d \in Dm : In(signals'[q], ty, d)
               <=> In(signals[q], ty, d) \/ (q \in PeerPages(t, c) /\ ty = type /\ d = c)
  <2>1. \A q \in Page, ty \in Types, d \in Dm : In(Signal(t, c, type)[q], ty, d)
               <=> In(signals[q], ty, d) \/ (q \in PeerPages(t, c) /\ ty = type /\ d = c)
    BY SignalKnown
  <2> QED  BY <2>1
<1>4. \A q \in Page, d \in Dm :
               RingsLead(signals[q], d)
               /\ (q \in PeerPages(t, c) /\ type = "ring" /\ d = c =>
                     ~In(signals[q], "ring", d) /\ ~In(signals[q], "decline", d) /\ ~In(signals[q], "end", d))
               => RingsLead(signals'[q], d)
  BY SignalKnown
<1>5. \A ty \in Types, d \in Dm : ~(ty = type /\ d = c) => Heading(ty, d)' = Heading(ty, d)
  <2> SUFFICES ASSUME NEW ty \in Types, NEW d \in Dm, ~(ty = type /\ d = c) PROVE Heading(ty, d)' = Heading(ty, d)
    OBVIOUS
  <2>1. \A q \in Page : In(signals'[q], ty, d) <=> In(signals[q], ty, d)
    BY <1>3
  <2> QED  BY <2>1, HeadingIn
<1>6. \A d \in Dm \ {c} : SameSignals(d)
  <2> SUFFICES ASSUME NEW d \in Dm, d # c PROVE SameSignals(d)
    OBVIOUS
  <2>1. \A ty \in Types : Heading(ty, d)' = Heading(ty, d)
    BY <1>5
  <2>2. \A q \in Page : RingsLead(signals[q], d) => RingsLead(signals'[q], d)
    BY <1>4
  <2> QED  BY <2>1, <2>2 DEF SameSignals
<1>7. Heading(type, c)' = Heading(type, c) \cup PeerPages(t, c)
  <2>1. \A q \in Page : In(signals'[q], type, c) <=> In(signals[q], type, c) \/ q \in PeerPages(t, c)
    BY <1>1, <1>3
  <2> QED  BY <1>1, <2>1, HeadingIn
<1>8. \A ty \in Types \ {type} : Heading(ty, c)' = Heading(ty, c)
  BY <1>5
<1>9. ASSUME type # "ring" \/ PeerPages(t, c) \cap (Heading("ring", c) \cup Heading("decline", c) \cup Heading("end", c)) = {},
             NEW q \in Page, RingsLead(signals[q], c)
      PROVE  RingsLead(signals'[q], c)
  <2>1. q \in PeerPages(t, c) /\ type = "ring" =>
            ~In(signals[q], "ring", c) /\ ~In(signals[q], "decline", c) /\ ~In(signals[q], "end", c)
    <3> HAVE q \in PeerPages(t, c) /\ type = "ring"
    <3>1. q \notin Heading("ring", c) /\ q \notin Heading("decline", c) /\ q \notin Heading("end", c)
      BY <1>1, <1>9
    <3> QED  BY <3>1, HeadingIn
  <2> QED  BY <1>4, <1>9, <2>1
<1> QED  BY <1>2, <1>6, <1>7, <1>8, <1>9

LEMMA Took ==
  ASSUME SignalsOK, NEW t \in Page, NEW k \in DOMAIN signals[t], signals' = Take(t, k),
         NEW c, c = signals[t][k].dm, NEW type, type = signals[t][k].type
  PROVE  /\ SignalsOK' /\ c \in Dm /\ type \in Types
         /\ t \in Heading(type, c)
         /\ \A d \in Dm \ {c} : SameSignals(d)
         /\ \A q \in Page, d \in Dm : RingsLead(signals[q], d) => RingsLead(signals'[q], d)
         /\ Heading(type, c)' \subseteq Heading(type, c) /\ Heading(type, c) \subseteq Heading(type, c)' \cup {t}
         /\ \A ty \in Types \ {type} : Heading(ty, c)' = Heading(ty, c)
         /\ type = "ring" /\ RingsLead(signals[t], c) => t \notin Heading("ring", c)'
<1>1. SignalsOK'
  BY TakeKnown DEF SignalsOK
<1>2. c \in Dm /\ type \in Types /\ signals[t][k] = [dm |-> c, type |-> type] /\ In(signals[t], type, c)
  BY TakeKnown
<1>3. \A q \in Page \ {t} : signals'[q] = signals[q]
  BY TakeKnown
<1>4. \A ty, d : In(signals'[t], ty, d) => In(signals[t], ty, d)
  BY TakeKnown
<1>5. \A ty, d : In(signals[t], ty, d) /\ signals[t][k] # [dm |-> d, type |-> ty] => In(signals'[t], ty, d)
  BY TakeKnown
<1>6. \A d : RingsLead(signals[t], d) => RingsLead(signals'[t], d)
  BY TakeKnown
<1>7. \A d : RingsLead(signals[t], d) /\ signals[t][k] = [dm |-> d, type |-> "ring"] => ~In(signals'[t], "ring", d)
  BY TakeKnown
<1>8. \A ty, d : ~(ty = type /\ d = c) => signals[t][k] # [dm |-> d, type |-> ty]
  BY <1>2
<1>9. \A ty, d : ~(ty = type /\ d = c) => Heading(ty, d)' = Heading(ty, d)
  <2> SUFFICES ASSUME NEW ty, NEW d, ~(ty = type /\ d = c) PROVE Heading(ty, d)' = Heading(ty, d)
    OBVIOUS
  <2>1. \A q \in Page : In(signals'[q], ty, d) <=> In(signals[q], ty, d)
    <3> TAKE q \in Page
    <3>1. CASE q = t
      BY <1>4, <1>5, <1>8, <3>1
    <3>2. CASE q # t
      BY <1>3, <3>2
    <3> QED  BY <3>1, <3>2
  <2> QED  BY <2>1, HeadingIn
<1>10. \A q \in Page, d \in Dm : RingsLead(signals[q], d) => RingsLead(signals'[q], d)
  <2> TAKE q \in Page, d \in Dm
  <2>1. CASE q = t
    BY <1>6, <2>1
  <2>2. CASE q # t
    BY <1>3, <2>2
  <2> QED  BY <2>1, <2>2
<1>11. \A d \in Dm \ {c} : SameSignals(d)
  <2> SUFFICES ASSUME NEW d \in Dm, d # c PROVE SameSignals(d)
    OBVIOUS
  <2>1. \A ty \in Types : Heading(ty, d)' = Heading(ty, d)
    BY <1>9
  <2>2. \A q \in Page : RingsLead(signals[q], d) => RingsLead(signals'[q], d)
    BY <1>10
  <2> QED  BY <2>1, <2>2 DEF SameSignals
<1>12. Heading(type, c)' \subseteq Heading(type, c) /\ Heading(type, c) \subseteq Heading(type, c)' \cup {t}
  <2>1. \A q \in Page : In(signals'[q], type, c) => In(signals[q], type, c)
    <3> TAKE q \in Page
    <3>1. CASE q = t
      BY <1>4, <3>1
    <3>2. CASE q # t
      BY <1>3, <3>2
    <3> QED  BY <3>1, <3>2
  <2>2. \A q \in Page \ {t} : In(signals[q], type, c) => In(signals'[q], type, c)
    BY <1>3
  <2> QED  BY <2>1, <2>2, HeadingIn
<1>13. t \in Heading(type, c)
  BY <1>2, HeadingIn
<1>14. \A ty \in Types \ {type} : Heading(ty, c)' = Heading(ty, c)
  BY <1>9
<1>15. type = "ring" /\ RingsLead(signals[t], c) => t \notin Heading("ring", c)'
  BY <1>2, <1>7, HeadingIn
<1> QED  BY <1>1, <1>2, <1>10, <1>11, <1>12, <1>13, <1>14, <1>15

(***************************************************************************)
(* Every action keeps the invariant.                                       *)
(***************************************************************************)
LEMMA Mounted ==
  ASSUME CallsTypeOK, NEW t \in Page, NEW c \in Dm, active[t] = NoDm, Mount(t, c)
  PROVE  /\ active' \in [Page -> Dm \cup {NoDm}] /\ media' \in [Page -> {"out", "joining", "in"}]
         /\ t \notin Calling(c) /\ Calling(c)' = Calling(c) \cup {t} /\ \A d \in Dm \ {c} : Calling(d)' = Calling(d)
<1>1. NoDm \notin Dm
  BY DmAssumption
<1> QED  BY <1>1 DEF CallsTypeOK, Mount, Calling

LEMMA Unmounted ==
  ASSUME CallsTypeOK, NEW t \in Page, NEW c \in Dm, active[t] = c, Unmount(t)
  PROVE  /\ active' \in [Page -> Dm \cup {NoDm}] /\ media' \in [Page -> {"out", "joining", "in"}]
         /\ leaving' \subseteq Page \X Dm /\ noticed' \subseteq Page
         /\ t \in Calling(c) /\ Calling(c)' = Calling(c) \ {t} /\ \A d \in Dm \ {c} : Calling(d)' = Calling(d)
<1>1. NoDm \notin Dm
  BY DmAssumption
<1>2. InRoom(active[t]) \subseteq Page
  BY DEF InRoom
<1> QED  BY <1>1, <1>2 DEF CallsTypeOK, Unmount, Calling

LEMMA StartKeepsCalls ==
  ASSUME CallsInv, NEW t \in Page, NEW c \in Dm, Start(t, c)
  PROVE  CallsInv'
<1>1. CallsTypeOK /\ SignalsOK
  BY TypeIsSignals DEF CallsInv
<1>2. "ring" \in Types /\ "decline" \in Types /\ "end" \in Types
  BY DEF Types
<1>3. active[t] = NoDm /\ Mount(t, c) /\ Owner[t] \in c /\ signals' = Signal(t, c, "ring")
      /\ incoming' = incoming /\ leaving' = leaving /\ noticed' = noticed
      /\ starts < MaxStarts /\ starts' = starts + 1
      /\ excused \subseteq excused' /\ excused' \subseteq excused \cup {c} /\ (c \notin excused' => ~Unfinished(t, c))
      /\ crossed' \subseteq crossed \cup {c} /\ crossed \subseteq crossed' \cup {c} /\ (c \notin crossed' => ~Crosses(t, c))
  BY DEF Start
<1>4. /\ SignalsOK'
      /\ \A d \in Dm \ {c} : SameSignals(d)
      /\ Heading("ring", c)' = Heading("ring", c) \cup PeerPages(t, c)
      /\ \A ty \in Types \ {"ring"} : Heading(ty, c)' = Heading(ty, c)
      /\ PeerPages(t, c) \cap (Heading("ring", c) \cup Heading("decline", c) \cup Heading("end", c)) = {}
              => \A q \in Page : RingsLead(signals[q], c) => RingsLead(signals'[q], c)
  BY <1>1, <1>2, <1>3, Sent
<1>5. /\ active' \in [Page -> Dm \cup {NoDm}] /\ media' \in [Page -> {"out", "joining", "in"}]
      /\ t \notin Calling(c) /\ Calling(c)' = Calling(c) \cup {t} /\ \A d \in Dm \ {c} : Calling(d)' = Calling(d)
  BY <1>1, <1>3, Mounted
<1>6. \A d : Prompted(d)' = Prompted(d)
  BY <1>3 DEF Prompted
<1>7. CallsTypeOK'
  <2>1. starts' \in 0..MaxStarts
    BY <1>1, <1>3, DmAssumption DEF CallsTypeOK
  <2> QED  BY <1>1, <1>3, <1>4, <1>5, <2>1 DEF CallsTypeOK, SignalsOK, Types
<1>8. ASSUME NEW d \in Dm \ {c}, d \notin excused' PROVE Good(d)'
  BY <1>3, <1>4, <1>5, <1>6, <1>8, Untouched DEF CallsInv
<1>9. ASSUME c \notin excused' PROVE Good(c)'
  <2>1. Good(c) /\ ~Unfinished(t, c)
    BY <1>3, <1>9 DEF CallsInv
  <2>2. PICK M, A, I, R, D, E : M = Of(c) /\ A = Calling(c) /\ I = Prompted(c)
           /\ R = Heading("ring", c) /\ D = Heading("decline", c) /\ E = Heading("end", c)
    OBVIOUS
  <2>3. Sides(M, A, I, R, D, E) /\ TwoSided(M) /\ t \in M /\ PeerPages(t, c) = Across(M, t)
    BY <1>3, <2>1, <2>2, ConversationIsTwoSided DEF Good, SidesOK, Of
  <2>4. I = {} /\ D = {} /\ E = {} /\ Beside(M, t) \cap A = {}
    BY <1>3, <2>1, <2>2 DEF Unfinished, Prompted, Heading, Beside, Calling, OtherPages, Of
  <2>5. Across(M, t) \cap R = {}
    BY <2>1, <2>2, <2>3 DEF Unfinished, Heading
  <2>6. /\ Sides(M, A \cup {t}, I, R \cup Across(M, t), D, E)
        /\ c \notin crossed' => OneWay(A \cup {t}, I, R \cup Across(M, t), D, E)
    <3>1. Sides(M, A \cup {t}, I, R \cup Across(M, t), D, E)
      BY <1>5, <2>2, <2>3, <2>4, <2>5, SidesStart
    <3>2. ASSUME c \notin crossed' PROVE OneWay(A \cup {t}, I, R \cup Across(M, t), D, E)
      <4>1. t \notin R /\ Beside(M, t) \cap R = {}
        BY <1>3, <2>2, <3>2 DEF Crosses, Beside, Heading, OtherPages, Of
      <4>2. R = {}
        BY <2>3, <2>5, <4>1 DEF Sides, Within, Across, Beside
      <4> QED  BY <1>5, <2>2, <2>3, <2>4, <4>2, OneWayStart
    <3> QED  BY <3>1, <3>2
  <2>7. Of(c)' = M /\ Calling(c)' = A \cup {t} /\ Prompted(c)' = I /\ Heading("ring", c)' = R \cup Across(M, t)
        /\ Heading("decline", c)' = D /\ Heading("end", c)' = E
    BY <1>2, <1>4, <1>5, <1>6, <2>2, <2>3 DEF Of
  <2>8. SidesOK(c)'
    BY <2>6, <2>7 DEF SidesOK
  <2>9. \A q \in Page : RingsLead(signals'[q], c)
    BY <1>4, <2>1, <2>2, <2>3, <2>4, <2>5 DEF Good
  <2> QED  BY <2>8, <2>9 DEF Good
<1> QED  BY <1>7, <1>8, <1>9 DEF CallsInv

LEMMA AnsweredKnown ==
  ASSUME NEW t \in Page, NEW c \in Dm
  PROVE  /\ excused \subseteq Answered(t, c) /\ Answered(t, c) \subseteq excused \cup {c}
         /\ c \notin Answered(t, c) => Beside(Of(c), t) \cap (Calling(c) \cup Prompted(c) \cup Heading("ring", c)) = {}
  BY DEF Answered, Beside, Of, Calling, Prompted, Heading, OtherPages

LEMMA AcceptKeepsCalls ==
  ASSUME CallsInv, NEW t \in Page, Accept(t)
  PROVE  CallsInv'
<1>1. CallsTypeOK /\ SignalsOK
  BY TypeIsSignals DEF CallsInv
<1>2. "ring" \in Types /\ "decline" \in Types /\ "end" \in Types /\ "accept" \in Types
  BY DEF Types
<1>3. PICK c \in Dm : c = incoming[t]
  BY <1>1 DEF CallsTypeOK, Accept
<1>4. active[t] = NoDm /\ Mount(t, c) /\ signals' = Signal(t, c, "accept")
      /\ incoming' = [incoming EXCEPT ![t] = NoDm] /\ leaving' = leaving /\ noticed' = noticed
      /\ starts' = starts /\ crossed' = crossed /\ excused' = Answered(t, c) \cup ({c} \cap crossed)
  BY <1>3 DEF Accept
<1>5. /\ SignalsOK'
      /\ \A d \in Dm \ {c} : SameSignals(d)
      /\ \A ty \in Types \ {"accept"} : Heading(ty, c)' = Heading(ty, c)
      /\ \A q \in Page : RingsLead(signals[q], c) => RingsLead(signals'[q], c)
  BY <1>1, <1>2, <1>4, Sent
<1>6. /\ active' \in [Page -> Dm \cup {NoDm}] /\ media' \in [Page -> {"out", "joining", "in"}]
      /\ t \notin Calling(c) /\ Calling(c)' = Calling(c) \cup {t} /\ \A d \in Dm \ {c} : Calling(d)' = Calling(d)
  BY <1>1, <1>4, Mounted
<1>7. incoming' \in [Page -> Dm \cup {NoDm}] /\ t \in Prompted(c) /\ Prompted(c)' = Prompted(c) \ {t}
      /\ \A d \in Dm \ {c} : Prompted(d)' = Prompted(d)
  BY <1>1, <1>3, <1>4, DmAssumption DEF CallsTypeOK, Prompted
<1>8. excused \subseteq excused' /\ excused' \subseteq excused \cup {c} /\ (c \notin excused' => c \notin crossed)
      /\ (c \notin excused' => Beside(Of(c), t) \cap (Calling(c) \cup Prompted(c) \cup Heading("ring", c)) = {})
  BY <1>4, AnsweredKnown
<1>9. CallsTypeOK'
  BY <1>1, <1>4, <1>5, <1>6, <1>7, <1>8 DEF CallsTypeOK, SignalsOK, Types
<1>10. ASSUME NEW d \in Dm \ {c}, d \notin excused' PROVE Good(d)'
  BY <1>5, <1>6, <1>7, <1>8, <1>4, <1>10, Untouched DEF CallsInv
<1>11. ASSUME c \notin excused' PROVE Good(c)'
  <2>1. Good(c)
    BY <1>8, <1>11 DEF CallsInv
  <2>2. PICK M, A, I, R, D, E : M = Of(c) /\ A = Calling(c) /\ I = Prompted(c)
           /\ R = Heading("ring", c) /\ D = Heading("decline", c) /\ E = Heading("end", c)
    OBVIOUS
  <2>3. Sides(M, A, I, R, D, E) /\ OneWay(A, I, R, D, E) /\ TwoSided(M) /\ t \in I
    BY <1>7, <1>8, <1>11, <2>1, <2>2, ConversationIsTwoSided DEF Good, SidesOK
  <2>4. Beside(M, t) \cap (A \cup I \cup R) = {}
    BY <1>8, <1>11, <2>2
  <2>5. Sides(M, A \cup {t}, I \ {t}, R, D, E) /\ OneWay(A \cup {t}, I \ {t}, R, D, E)
    BY <2>3, <2>4, SidesAccept
  <2>6. Of(c)' = M /\ Calling(c)' = A \cup {t} /\ Prompted(c)' = I \ {t} /\ Heading("ring", c)' = R
        /\ Heading("decline", c)' = D /\ Heading("end", c)' = E
    BY <1>2, <1>5, <1>6, <1>7, <2>2 DEF Of
  <2>7. SidesOK(c)'
    BY <2>5, <2>6 DEF SidesOK
  <2> QED  BY <1>5, <2>1, <2>7 DEF Good
<1> QED  BY <1>9, <1>10, <1>11 DEF CallsInv

LEMMA DeclineKeepsCalls ==
  ASSUME CallsInv, NEW t \in Page, Decline(t)
  PROVE  CallsInv'
<1>1. CallsTypeOK /\ SignalsOK
  BY TypeIsSignals DEF CallsInv
<1>2. "ring" \in Types /\ "decline" \in Types /\ "end" \in Types
  BY DEF Types
<1>3. PICK c \in Dm : c = incoming[t]
  BY <1>1 DEF CallsTypeOK, Decline
<1>4. signals' = Signal(t, c, "decline") /\ active[t] = NoDm /\ active' = active /\ media' = media
      /\ incoming' = [incoming EXCEPT ![t] = NoDm] /\ leaving' = leaving /\ noticed' = noticed
      /\ starts' = starts /\ crossed' = crossed /\ excused' = Answered(t, c)
  BY <1>3 DEF Decline
<1>5. /\ SignalsOK'
      /\ \A d \in Dm \ {c} : SameSignals(d)
      /\ Heading("decline", c)' = Heading("decline", c) \cup PeerPages(t, c)
      /\ \A ty \in Types \ {"decline"} : Heading(ty, c)' = Heading(ty, c)
      /\ \A q \in Page : RingsLead(signals[q], c) => RingsLead(signals'[q], c)
  BY <1>1, <1>2, <1>4, Sent
<1>6. \A d : Calling(d)' = Calling(d)
  BY <1>4 DEF Calling
<1>7. incoming' \in [Page -> Dm \cup {NoDm}] /\ t \in Prompted(c) /\ Prompted(c)' = Prompted(c) \ {t}
      /\ \A d \in Dm \ {c} : Prompted(d)' = Prompted(d)
  BY <1>1, <1>3, <1>4, DmAssumption DEF CallsTypeOK, Prompted
<1>8. excused \subseteq excused' /\ excused' \subseteq excused \cup {c}
      /\ (c \notin excused' => Beside(Of(c), t) \cap (Calling(c) \cup Prompted(c) \cup Heading("ring", c)) = {})
  BY <1>4, AnsweredKnown
<1>9. CallsTypeOK'
  BY <1>1, <1>4, <1>5, <1>7, <1>8 DEF CallsTypeOK, SignalsOK, Types
<1>10. ASSUME NEW d \in Dm \ {c}, d \notin excused' PROVE Good(d)'
  BY <1>4, <1>5, <1>6, <1>7, <1>8, <1>10, Untouched DEF CallsInv
<1>11. ASSUME c \notin excused' PROVE Good(c)'
  <2>1. Good(c)
    BY <1>8, <1>11 DEF CallsInv
  <2>2. PICK M, A, I, R, D, E : M = Of(c) /\ A = Calling(c) /\ I = Prompted(c)
           /\ R = Heading("ring", c) /\ D = Heading("decline", c) /\ E = Heading("end", c)
    OBVIOUS
  <2>3. Sides(M, A, I, R, D, E) /\ TwoSided(M) /\ t \in I /\ t \in M /\ t \notin A
        /\ (c \notin crossed => OneWay(A, I, R, D, E))
    BY <1>4, <1>7, <2>1, <2>2, ConversationIsTwoSided, DmAssumption DEF Calling, Good, SidesOK, Sides, Within
  <2>4. Beside(M, t) \cap (A \cup I \cup R) = {}
    BY <1>8, <1>11, <2>2
  <2>5. /\ Sides(M, A, I \ {t}, R, D \cup Across(M, t), E)
        /\ c \notin crossed => OneWay(A, I \ {t}, R, D \cup Across(M, t), E)
    BY <2>3, <2>4, SidesDecline
  <2>6. Of(c)' = M /\ Calling(c)' = A /\ Prompted(c)' = I \ {t} /\ Heading("ring", c)' = R
        /\ Heading("decline", c)' = D \cup Across(M, t) /\ Heading("end", c)' = E
    BY <1>2, <1>5, <1>6, <1>7, <2>2, <2>3, ConversationIsTwoSided DEF Of
  <2>7. SidesOK(c)'
    BY <1>4, <2>5, <2>6 DEF SidesOK
  <2> QED  BY <1>5, <2>1, <2>7 DEF Good
<1> QED  BY <1>9, <1>10, <1>11 DEF CallsInv

LEMMA EndCallKeepsCalls ==
  ASSUME CallsInv, NEW t \in Page, EndCall(t)
  PROVE  CallsInv'
<1>1. CallsTypeOK /\ SignalsOK
  BY TypeIsSignals DEF CallsInv
<1>2. "ring" \in Types /\ "decline" \in Types /\ "end" \in Types
  BY DEF Types
<1>3. PICK c \in Dm : c = active[t]
  BY <1>1 DEF CallsTypeOK, EndCall
<1>4. signals' = Signal(t, c, "end") /\ Unmount(t) /\ incoming' = incoming /\ starts' = starts
      /\ crossed' = crossed /\ excused' = excused
  BY <1>3 DEF EndCall
<1>5. /\ SignalsOK'
      /\ \A d \in Dm \ {c} : SameSignals(d)
      /\ Heading("end", c)' = Heading("end", c) \cup PeerPages(t, c)
      /\ \A ty \in Types \ {"end"} : Heading(ty, c)' = Heading(ty, c)
      /\ \A q \in Page : RingsLead(signals[q], c) => RingsLead(signals'[q], c)
  BY <1>1, <1>2, <1>4, Sent
<1>6. /\ active' \in [Page -> Dm \cup {NoDm}] /\ media' \in [Page -> {"out", "joining", "in"}]
      /\ leaving' \subseteq Page \X Dm /\ noticed' \subseteq Page
      /\ t \in Calling(c) /\ Calling(c)' = Calling(c) \ {t} /\ \A d \in Dm \ {c} : Calling(d)' = Calling(d)
  BY <1>1, <1>3, <1>4, Unmounted
<1>7. \A d : Prompted(d)' = Prompted(d)
  BY <1>4 DEF Prompted
<1>9. CallsTypeOK'
  BY <1>1, <1>4, <1>5, <1>6 DEF CallsTypeOK, SignalsOK, Types
<1>10. ASSUME NEW d \in Dm \ {c}, d \notin excused' PROVE Good(d)'
  BY <1>4, <1>5, <1>6, <1>7, <1>10, Untouched DEF CallsInv
<1>11. ASSUME c \notin excused' PROVE Good(c)'
  <2>1. Good(c)
    BY <1>4, <1>11 DEF CallsInv
  <2>2. PICK M, A, I, R, D, E : M = Of(c) /\ A = Calling(c) /\ I = Prompted(c)
           /\ R = Heading("ring", c) /\ D = Heading("decline", c) /\ E = Heading("end", c)
    OBVIOUS
  <2>3. Sides(M, A, I, R, D, E) /\ TwoSided(M) /\ t \in A /\ t \in M
        /\ (c \notin crossed => OneWay(A, I, R, D, E))
    BY <1>4, <1>6, <1>11, <2>1, <2>2, ConversationIsTwoSided DEF Good, SidesOK, Sides, Within
  <2>5. /\ Sides(M, A \ {t}, I, R, D, E \cup Across(M, t))
        /\ c \notin crossed => OneWay(A \ {t}, I, R, D, E \cup Across(M, t))
    BY <2>3, SidesEnd
  <2>6. Of(c)' = M /\ Calling(c)' = A \ {t} /\ Prompted(c)' = I /\ Heading("ring", c)' = R
        /\ Heading("decline", c)' = D /\ Heading("end", c)' = E \cup Across(M, t)
    BY <1>2, <1>5, <1>6, <1>7, <2>2, <2>3, ConversationIsTwoSided DEF Of
  <2>7. SidesOK(c)'
    BY <1>4, <2>5, <2>6 DEF SidesOK
  <2> QED  BY <1>5, <2>1, <2>7 DEF Good
<1> QED  BY <1>9, <1>10, <1>11 DEF CallsInv

LEMMA LateKnown ==
  ASSUME NEW t \in Page, NEW k \in DOMAIN signals[t], NEW c, c = signals[t][k].dm, RingsLead(signals[t], c),
         signals[t][k].type \in {"decline", "end"}, t \in Heading("ring", c), SignalsOK
  PROVE  c \in Late(t, k)
<1>1. PICK j \in DOMAIN signals[t] : signals[t][j] = [dm |-> c, type |-> "ring"]
  BY DEF Heading, InFlight
<1>2. j < k
  BY <1>1 DEF RingsLead
<1>3. j \in 1..Len(signals[t]) /\ k \in 1..Len(signals[t])
  BY <1>1 DEF SignalsOK
<1>4. j \in 1..(k - 1)
  BY <1>2, <1>3
<1>5. signals[t][j].dm = signals[t][k].dm
  BY <1>1
<1> QED  BY <1>4, <1>5 DEF Late, Overtakes

LEMMA RingKeepsCalls ==
  ASSUME CallsInv, NEW t \in Page, NEW k \in DOMAIN signals[t], OnRing(t, k)
  PROVE  CallsInv'
<1>1. CallsTypeOK /\ SignalsOK
  BY TypeIsSignals DEF CallsInv
<1>2. "ring" \in Types /\ "decline" \in Types /\ "end" \in Types
  BY DEF Types
<1>3. PICK c : c = signals[t][k].dm
  OBVIOUS
<1>4. signals[t][k].type = "ring" /\ active' = active /\ media' = media /\ leaving' = leaving
      /\ noticed' = noticed /\ starts' = starts /\ crossed' = crossed
      /\ signals' = Take(t, k) /\ incoming' = [incoming EXCEPT ![t] = c]
      /\ excused' = excused \cup Late(t, k) \cup ({incoming[t]} \ {NoDm, c})
  BY <1>3 DEF OnRing
<1>5. \A d : Calling(d)' = Calling(d)
  BY <1>4 DEF Calling
<1>6. c \in Dm /\ Late(t, k) \subseteq {c}
  BY <1>1, <1>3, TakeKnown DEF Late
<1>7. /\ SignalsOK'
      /\ t \in Heading("ring", c)
      /\ \A d \in Dm \ {c} : SameSignals(d)
      /\ \A q \in Page, d \in Dm : RingsLead(signals[q], d) => RingsLead(signals'[q], d)
      /\ Heading("ring", c)' \subseteq Heading("ring", c) /\ Heading("ring", c) \subseteq Heading("ring", c)' \cup {t}
      /\ \A ty \in Types \ {"ring"} : Heading(ty, c)' = Heading(ty, c)
      /\ RingsLead(signals[t], c) => t \notin Heading("ring", c)'
  BY <1>1, <1>3, <1>4, Took
<1>8. incoming' \in [Page -> Dm \cup {NoDm}] /\ Prompted(c)' = Prompted(c) \cup {t}
      /\ \A d \in Dm \ {c} : incoming[t] # d => Prompted(d)' = Prompted(d)
  BY <1>1, <1>4, <1>6 DEF CallsTypeOK, Prompted
<1>9. excused \subseteq excused' /\ excused' \subseteq Dm
      /\ \A d \in Dm \ {c} : d \notin excused' => incoming[t] # d
  <2>1. NoDm \notin Dm
    BY DmAssumption
  <2>2. excused \subseteq Dm /\ incoming[t] \in Dm \cup {NoDm}
    BY <1>1 DEF CallsTypeOK
  <2> QED  BY <1>4, <1>6, <2>1, <2>2
<1>10. CallsTypeOK'
  BY <1>1, <1>4, <1>7, <1>8, <1>9 DEF CallsTypeOK, SignalsOK, Types
<1>11. ASSUME NEW d \in Dm \ {c}, d \notin excused' PROVE Good(d)'
  BY <1>4, <1>5, <1>7, <1>8, <1>9, <1>11, Untouched DEF CallsInv
<1>12. ASSUME c \notin excused' PROVE Good(c)'
  <2>1. Good(c)
    BY <1>6, <1>9, <1>12 DEF CallsInv
  <2>2. PICK M, A, I, R, D, E : M = Of(c) /\ A = Calling(c) /\ I = Prompted(c)
           /\ R = Heading("ring", c) /\ D = Heading("decline", c) /\ E = Heading("end", c)
    OBVIOUS
  <2>3. Sides(M, A, I, R, D, E) /\ TwoSided(M) /\ t \in R /\ (c \notin crossed => OneWay(A, I, R, D, E))
    BY <1>6, <1>7, <2>1, <2>2, ConversationIsTwoSided DEF Good, SidesOK
  <2>4. /\ Sides(M, A, I \cup {t}, R \ {t}, D, E)
        /\ c \notin crossed => OneWay(A, I \cup {t}, R \ {t}, D, E)
    BY <2>3, SidesPrompt
  <2>5. RingsLead(signals[t], c)
    BY <2>1 DEF Good
  <2>6. Of(c)' = M /\ Calling(c)' = A /\ Prompted(c)' = I \cup {t} /\ Heading("ring", c)' = R \ {t}
        /\ Heading("decline", c)' = D /\ Heading("end", c)' = E
    BY <1>2, <1>5, <1>7, <1>8, <2>2, <2>5 DEF Of
  <2>7. SidesOK(c)'
    BY <1>4, <2>4, <2>6 DEF SidesOK
  <2> QED  BY <1>6, <1>7, <2>1, <2>7 DEF Good
<1> QED  BY <1>10, <1>11, <1>12 DEF CallsInv

LEMMA DeclinedKeepsCalls ==
  ASSUME CallsInv, NEW t \in Page, NEW k \in DOMAIN signals[t], OnDeclined(t, k)
  PROVE  CallsInv'
<1>1. CallsTypeOK /\ SignalsOK
  BY TypeIsSignals DEF CallsInv
<1>2. "ring" \in Types /\ "decline" \in Types /\ "end" \in Types
  BY DEF Types
<1>3. PICK c : c = signals[t][k].dm
  OBVIOUS
<1>4. c \in Dm /\ Late(t, k) \subseteq {c}
  BY <1>1, <1>3, TakeKnown DEF Late
<1>5. signals[t][k].type = "decline" /\ signals' = Take(t, k) /\ incoming' = incoming /\ starts' = starts
      /\ crossed' = crossed /\ excused' = excused \cup Late(t, k)
      /\ (active[t] = c => Unmount(t)) /\ (active[t] # c => UNCHANGED <<active, media, leaving, noticed>>)
  BY <1>3 DEF OnDeclined
<1>6. /\ SignalsOK'
      /\ t \in Heading("decline", c)
      /\ \A d \in Dm \ {c} : SameSignals(d)
      /\ \A q \in Page, d \in Dm : RingsLead(signals[q], d) => RingsLead(signals'[q], d)
      /\ Heading("decline", c)' \subseteq Heading("decline", c)
      /\ Heading("decline", c) \subseteq Heading("decline", c)' \cup {t}
      /\ \A ty \in Types \ {"decline"} : Heading(ty, c)' = Heading(ty, c)
  BY <1>1, <1>3, <1>5, Took
<1>7. /\ active' \in [Page -> Dm \cup {NoDm}] /\ media' \in [Page -> {"out", "joining", "in"}]
      /\ leaving' \subseteq Page \X Dm /\ noticed' \subseteq Page
      /\ Calling(c)' = Calling(c) \ {t} /\ \A d \in Dm \ {c} : Calling(d)' = Calling(d)
  <2>1. CASE active[t] = c
    BY <1>1, <1>4, <1>5, <2>1, Unmounted
  <2>2. CASE active[t] # c
    BY <1>1, <1>5, <2>2 DEF CallsTypeOK, Calling
  <2> QED  BY <2>1, <2>2
<1>8. \A d : Prompted(d)' = Prompted(d)
  BY <1>5 DEF Prompted
<1>9. CallsTypeOK'
  BY <1>1, <1>4, <1>5, <1>6, <1>7 DEF CallsTypeOK, SignalsOK, Types
<1>10. ASSUME NEW d \in Dm \ {c}, d \notin excused' PROVE Good(d)'
  BY <1>5, <1>6, <1>7, <1>8, <1>10, Untouched DEF CallsInv
<1>11. ASSUME c \notin excused' PROVE Good(c)'
  <2>1. Good(c) /\ RingsLead(signals[t], c) /\ c \notin Late(t, k)
    BY <1>4, <1>5, <1>11 DEF CallsInv, Good
  <2>2. PICK M, A, I, R, D, E, F : M = Of(c) /\ A = Calling(c) /\ I = Prompted(c)
           /\ R = Heading("ring", c) /\ D = Heading("decline", c) /\ E = Heading("end", c)
           /\ F = Heading("decline", c)'
    OBVIOUS
  <2>3. t \notin R
    BY <1>1, <1>3, <1>5, <2>1, <2>2, LateKnown
  <2>4. Sides(M, A, I, R, D, E) /\ TwoSided(M) /\ t \in D /\ F \subseteq D /\ D \subseteq F \cup {t}
        /\ (c \notin crossed => OneWay(A, I, R, D, E))
    BY <1>4, <1>6, <2>1, <2>2, ConversationIsTwoSided DEF Good, SidesOK
  <2>5. /\ Sides(M, A \ {t}, I, R, F, E)
        /\ c \notin crossed => OneWay(A \ {t}, I, R, F, E)
    BY <2>3, <2>4, SidesDeclined
  <2>6. Of(c)' = M /\ Calling(c)' = A \ {t} /\ Prompted(c)' = I /\ Heading("ring", c)' = R
        /\ Heading("decline", c)' = F /\ Heading("end", c)' = E
    BY <1>2, <1>6, <1>7, <1>8, <2>2 DEF Of
  <2>7. SidesOK(c)'
    BY <1>5, <2>5, <2>6 DEF SidesOK
  <2> QED  BY <1>4, <1>6, <2>1, <2>7 DEF Good
<1> QED  BY <1>9, <1>10, <1>11 DEF CallsInv

LEMMA EndedKeepsCalls ==
  ASSUME CallsInv, NEW t \in Page, NEW k \in DOMAIN signals[t], OnEnded(t, k)
  PROVE  CallsInv'
<1>1. CallsTypeOK /\ SignalsOK
  BY TypeIsSignals DEF CallsInv
<1>2. "ring" \in Types /\ "decline" \in Types /\ "end" \in Types
  BY DEF Types
<1>3. PICK c : c = signals[t][k].dm
  OBVIOUS
<1>4. c \in Dm /\ Late(t, k) \subseteq {c}
  BY <1>1, <1>3, TakeKnown DEF Late
<1>5. signals[t][k].type = "end" /\ signals' = Take(t, k) /\ starts' = starts
      /\ incoming' = [incoming EXCEPT ![t] = IF @ = c THEN NoDm ELSE @]
      /\ crossed' = crossed /\ excused' = excused \cup Late(t, k)
      /\ (active[t] = c => Unmount(t)) /\ (active[t] # c => UNCHANGED <<active, media, leaving, noticed>>)
  BY <1>3 DEF OnEnded
<1>6. /\ SignalsOK'
      /\ t \in Heading("end", c)
      /\ \A d \in Dm \ {c} : SameSignals(d)
      /\ \A q \in Page, d \in Dm : RingsLead(signals[q], d) => RingsLead(signals'[q], d)
      /\ Heading("end", c)' \subseteq Heading("end", c)
      /\ Heading("end", c) \subseteq Heading("end", c)' \cup {t}
      /\ \A ty \in Types \ {"end"} : Heading(ty, c)' = Heading(ty, c)
  BY <1>1, <1>3, <1>5, Took
<1>7. /\ active' \in [Page -> Dm \cup {NoDm}] /\ media' \in [Page -> {"out", "joining", "in"}]
      /\ leaving' \subseteq Page \X Dm /\ noticed' \subseteq Page
      /\ Calling(c)' = Calling(c) \ {t} /\ \A d \in Dm \ {c} : Calling(d)' = Calling(d)
  <2>1. CASE active[t] = c
    BY <1>1, <1>4, <1>5, <2>1, Unmounted
  <2>2. CASE active[t] # c
    BY <1>1, <1>5, <2>2 DEF CallsTypeOK, Calling
  <2> QED  BY <2>1, <2>2
<1>8. incoming' \in [Page -> Dm \cup {NoDm}] /\ Prompted(c)' = Prompted(c) \ {t}
      /\ \A d \in Dm \ {c} : Prompted(d)' = Prompted(d)
  <2>1. NoDm \notin Dm
    BY DmAssumption
  <2>2. incoming \in [Page -> Dm \cup {NoDm}] /\ incoming' = [incoming EXCEPT ![t] = IF incoming[t] = c THEN NoDm ELSE incoming[t]]
    BY <1>1, <1>5 DEF CallsTypeOK
  <2>3. incoming'[t] # c /\ \A q \in Page \ {t} : incoming'[q] = incoming[q]
    BY <1>4, <2>1, <2>2
  <2>4. \A d \in Dm \ {c} : incoming'[t] = d <=> incoming[t] = d
    BY <1>4, <2>1, <2>2
  <2>5. Prompted(c)' = Prompted(c) \ {t}
    BY <2>3 DEF Prompted
  <2>6. \A d \in Dm \ {c} : Prompted(d)' = Prompted(d)
    BY <2>3, <2>4 DEF Prompted
  <2> QED  BY <2>2, <2>5, <2>6
<1>9. CallsTypeOK'
  BY <1>1, <1>4, <1>5, <1>6, <1>7, <1>8 DEF CallsTypeOK, SignalsOK, Types
<1>10. ASSUME NEW d \in Dm \ {c}, d \notin excused' PROVE Good(d)'
  BY <1>5, <1>6, <1>7, <1>8, <1>10, Untouched DEF CallsInv
<1>11. ASSUME c \notin excused' PROVE Good(c)'
  <2>1. Good(c) /\ RingsLead(signals[t], c) /\ c \notin Late(t, k)
    BY <1>4, <1>5, <1>11 DEF CallsInv, Good
  <2>2. PICK M, A, I, R, D, E, F : M = Of(c) /\ A = Calling(c) /\ I = Prompted(c)
           /\ R = Heading("ring", c) /\ D = Heading("decline", c) /\ E = Heading("end", c)
           /\ F = Heading("end", c)'
    OBVIOUS
  <2>3. t \notin R
    BY <1>1, <1>3, <1>5, <2>1, <2>2, LateKnown
  <2>4. Sides(M, A, I, R, D, E) /\ TwoSided(M) /\ t \in E /\ F \subseteq E /\ E \subseteq F \cup {t}
        /\ (c \notin crossed => OneWay(A, I, R, D, E))
    BY <1>4, <1>6, <2>1, <2>2, ConversationIsTwoSided DEF Good, SidesOK
  <2>5. /\ Sides(M, A \ {t}, I \ {t}, R, D, F)
        /\ c \notin crossed => OneWay(A \ {t}, I \ {t}, R, D, F)
    BY <2>3, <2>4, SidesEnded
  <2>6. Of(c)' = M /\ Calling(c)' = A \ {t} /\ Prompted(c)' = I \ {t} /\ Heading("ring", c)' = R
        /\ Heading("decline", c)' = D /\ Heading("end", c)' = F
    BY <1>2, <1>6, <1>7, <1>8, <2>2 DEF Of
  <2>7. SidesOK(c)'
    BY <1>5, <2>5, <2>6 DEF SidesOK
  <2> QED  BY <1>4, <1>6, <2>1, <2>7 DEF Good
<1> QED  BY <1>9, <1>10, <1>11 DEF CallsInv

LEMMA AcceptedKeepsCalls ==
  ASSUME CallsInv, NEW t \in Page, NEW k \in DOMAIN signals[t], OnAccepted(t, k) \/ Lose(t, k)
  PROVE  CallsInv'
<1>1. CallsTypeOK /\ SignalsOK
  BY TypeIsSignals DEF CallsInv
<1>2. PICK c, type : c = signals[t][k].dm /\ type = signals[t][k].type
  OBVIOUS
<1>3. signals' = Take(t, k) /\ incoming' = incoming /\ active' = active /\ media' = media /\ leaving' = leaving
      /\ noticed' = noticed /\ starts' = starts /\ crossed' = crossed
      /\ excused \subseteq excused' /\ excused' \subseteq excused \cup {c} /\ (c \in excused' \/ type = "accept")
  BY <1>2 DEF OnAccepted, Lose
<1>4. /\ SignalsOK' /\ c \in Dm
      /\ \A d \in Dm \ {c} : SameSignals(d)
      /\ \A q \in Page, d \in Dm : RingsLead(signals[q], d) => RingsLead(signals'[q], d)
      /\ \A ty \in Types \ {type} : Heading(ty, c)' = Heading(ty, c)
  BY <1>1, <1>2, <1>3, Took
<1>5. \A d : Calling(d)' = Calling(d) /\ Prompted(d)' = Prompted(d) /\ Of(d)' = Of(d)
  BY <1>3 DEF Calling, Prompted, Of
<1>6. CallsTypeOK'
  BY <1>1, <1>3, <1>4 DEF CallsTypeOK, SignalsOK, Types
<1>7. ASSUME NEW d \in Dm \ {c}, d \notin excused' PROVE Good(d)'
  BY <1>3, <1>4, <1>5, <1>7, Untouched DEF CallsInv
<1>8. ASSUME c \notin excused' PROVE Good(c)'
  <2>1. Good(c) /\ type = "accept"
    BY <1>3, <1>4, <1>8 DEF CallsInv
  <2>2. Heading("ring", c)' = Heading("ring", c) /\ Heading("decline", c)' = Heading("decline", c)
        /\ Heading("end", c)' = Heading("end", c)
    BY <1>4, <2>1 DEF Types
  <2>3. SidesOK(c)'
    BY <1>3, <1>5, <2>1, <2>2 DEF Good, SidesOK
  <2> QED  BY <1>4, <2>1, <2>3 DEF Good
<1> QED  BY <1>6, <1>7, <1>8 DEF CallsInv

LEMMA RoomKeepsCalls ==
  ASSUME CallsInv, UNCHANGED <<incoming, active, signals, starts, crossed, excused>>,
         media' \in [Page -> {"out", "joining", "in"}], leaving' \subseteq Page \X Dm, noticed' \subseteq Page
  PROVE  CallsInv'
<1>1. CallsTypeOK'
  BY DEF CallsInv, CallsTypeOK
<1>2. \A d \in Dm : Good(d) => Good(d)'
  <2> TAKE d \in Dm
  <2>1. \A ty : Heading(ty, d)' = Heading(ty, d)
    BY DEF Heading, InFlight
  <2>2. Calling(d)' = Calling(d) /\ Prompted(d)' = Prompted(d)
    BY DEF Calling, Prompted
  <2> QED  BY <2>1, <2>2, Untouched DEF SameSignals
<1> QED  BY <1>1, <1>2 DEF CallsInv

LEMMA CallsStart ==
  ASSUME CallsInit
  PROVE  CallsInv
<1>1. CallsTypeOK
  BY DmAssumption DEF CallsInit, CallsTypeOK
<1>2. ASSUME NEW d \in Dm PROVE Good(d)
  <2>1. \A ty : Heading(ty, d) = {}
    BY DEF CallsInit, Heading, InFlight
  <2>2. Calling(d) = {} /\ Prompted(d) = {}
    BY DmAssumption DEF CallsInit, Calling, Prompted
  <2>3. SidesOK(d)
    BY <2>1, <2>2 DEF SidesOK, Sides, Within, OneCall, DeclinedAll, EndedAll, NotAlone, OneWay, Apart, HasCaller
  <2>4. \A q \in Page : RingsLead(signals[q], d)
    BY DEF CallsInit, RingsLead
  <2> QED  BY <2>3, <2>4 DEF Good
<1> QED  BY <1>1, <1>2 DEF CallsInv

LEMMA CallsInvKept ==
  ASSUME CallsInv, [CallsNext]_CallVars
  PROVE  CallsInv'
<1>1. CASE UNCHANGED CallVars
  BY <1>1, RoomKeepsCalls DEF CallVars, CallsInv, CallsTypeOK
<1>2. ASSUME NEW t \in Page, Join(t) PROVE CallsInv'
  BY <1>2, RoomKeepsCalls DEF Join, CallsInv, CallsTypeOK
<1>3. ASSUME NEW t \in Page, NEW d \in Dm, JoinAndLeave(t, d) PROVE CallsInv'
  BY <1>3, RoomKeepsCalls DEF JoinAndLeave, CallsInv, CallsTypeOK, InRoom
<1>4. ASSUME NEW t \in Page, OnParticipantLeft(t) PROVE CallsInv'
  BY <1>4, EndCallKeepsCalls DEF OnParticipantLeft
<1>5. ASSUME NEW t \in Page, NEW k \in DOMAIN signals[t],
             OnRing(t, k) \/ OnDeclined(t, k) \/ OnEnded(t, k) \/ OnAccepted(t, k) \/ Lose(t, k)
      PROVE  CallsInv'
  BY <1>5, RingKeepsCalls, DeclinedKeepsCalls, EndedKeepsCalls, AcceptedKeepsCalls
<1> QED
  BY <1>1, <1>2, <1>3, <1>4, <1>5, StartKeepsCalls, AcceptKeepsCalls, DeclineKeepsCalls, EndCallKeepsCalls DEF CallsNext

LEMMA CallsQuiet ==
  ASSUME CallsInv
  PROVE  NobodyWaitsAlone
<1> SUFFICES ASSUME AllArrived, NEW t \in Page, NEW d, d \notin excused, d # NoDm, PeerPages(t, d) # {}
             PROVE  /\ active[t] = d => \E q \in PeerPages(t, d) : d \in {active[q], incoming[q]}
                    /\ incoming[t] = d /\ d \notin crossed => \E q \in PeerPages(t, d) : active[q] = d
  BY DEF NobodyWaitsAlone
<1> SUFFICES ASSUME d \in {active[t], incoming[t]}
             PROVE  /\ active[t] = d => \E q \in PeerPages(t, d) : d \in {active[q], incoming[q]}
                    /\ incoming[t] = d /\ d \notin crossed => \E q \in PeerPages(t, d) : active[q] = d
  OBVIOUS
<1>1. d \in Dm /\ Good(d)
  BY DEF CallsInv, CallsTypeOK
<1>2. \A ty : Heading(ty, d) = {}
  BY DEF AllArrived, Heading, InFlight
<1>3. PICK M, A, I : M = Of(d) /\ A = Calling(d) /\ I = Prompted(d)
  OBVIOUS
<1>4. Sides(M, A, I, {}, {}, {}) /\ (d \notin crossed => OneWay(A, I, {}, {}, {}))
  BY <1>1, <1>2, <1>3 DEF Good, SidesOK
<1>5. t \in A \cup I /\ A \subseteq M /\ I \subseteq M
  BY <1>3, <1>4 DEF Calling, Prompted, Sides, Within
<1>6. PeerPages(t, d) = Across(M, t)
  BY <1>1, <1>3, <1>5, ConversationIsTwoSided
<1>7. ASSUME t \in A PROVE \E q \in PeerPages(t, d) : d \in {active[q], incoming[q]}
  <2>0. Answerable(M)
    BY <1>5, <1>6, <1>7 DEF Across, Answerable
  <2>1. PICK q \in M : Owner[q] # Owner[t] /\ (q \in I \/ q \in A)
    BY <1>4, <1>7, <2>0 DEF Sides, NotAlone
  <2> QED  BY <1>3, <1>6, <1>7, <2>1 DEF Across, Calling, Prompted
<1>8. ASSUME t \in I, d \notin crossed PROVE \E q \in PeerPages(t, d) : active[q] = d
  <2>1. PICK q \in A : Owner[q] # Owner[t]
    BY <1>4, <1>8 DEF OneWay, HasCaller
  <2> QED  BY <1>3, <1>5, <1>6, <2>1 DEF Across, Calling
<1> QED  BY <1>3, <1>7, <1>8 DEF Calling, Prompted

\* Once every signal has arrived, no page waits in a call whose other side has
\* neither a call nor a prompt for it, also when both users called each other at
\* once; and no page rings for a caller that is gone, unless they did or the code
\* loses track of the conversation, as the handlers of DmCallManager.tsx leave the
\* pages.  For any users, conversations, pages and calls.
THEOREM NobodyWaitsAloneHolds == CallsSpec => []NobodyWaitsAlone
<1>1. CallsInit => CallsInv
  BY CallsStart
<1>2. CallsInv /\ [CallsNext]_CallVars => CallsInv'
  BY CallsInvKept
<1>3. CallsInv => NobodyWaitsAlone
  BY CallsQuiet
<1> QED  BY <1>1, <1>2, <1>3, PTL DEF CallsSpec

================================================================================
