--------------------------- MODULE Community_proofs ---------------------------
(***************************************************************************)
(* Proofs about CommunityAccess, for any number of links, people and calls *)
(* and any cap: the invitation links, and the access to the spaces; and    *)
(* about CommunityEntry, for any number of people, requests and calls: the *)
(* decisions of join requests, and the members of a plain space.           *)
(***************************************************************************)
EXTENDS CommunityAccess, CommunityEntry, FiniteSetTheorems, TLAPS

(***************************************************************************)
(* The inductive invariant.  A call between its redemption row and the     *)
(* count (or the taking back of the row) holds a claim.  The count is the  *)
(* number of people with a redemption that nobody still claims.            *)
(***************************************************************************)
AtClaim == {"claim", "bump", "unclaim"}
Claiming(p, i) == comCall[p].i = i /\ comCall[p].at \in {"bump", "unclaim"}
Settled(i) == {u \in Person : <<i, u>> \in redeemed
                              /\ \A p \in Proc : Claiming(p, i) => comCall[p].u # u}

LinkRows == [space : Space \cup {"none"}, cap : 0..MaxUses, uses : Nat, live : BOOLEAN]

LinkTypeOK ==
  /\ link \in [Link -> LinkRows]
  /\ redeemed \subseteq Link \X Person
  /\ comCall \in [Proc -> ComCalls]

\* Only links that exist are redeemed.
LinkExists ==
  /\ \A p \in Proc : comCall[p].at \in AtClaim => comCall[p].i \in Link /\ link[comCall[p].i].cap # 0
  /\ \A i \in Link, u \in Person : <<i, u>> \in redeemed => link[i].cap # 0

\* A claim is backed by a redemption row, and a row by at most one claim.
ClaimHasRow ==
  \A p \in Proc, i \in Link : Claiming(p, i) => <<i, comCall[p].u>> \in redeemed

ClaimIsSole ==
  \A p, q \in Proc, i \in Link :
    Claiming(p, i) /\ Claiming(q, i) /\ comCall[p].u = comCall[q].u => p = q

CountIsExact ==
  \A i \in Link : link[i].uses <= link[i].cap /\ link[i].uses = Cardinality(Settled(i))

LinkInv == LinkTypeOK /\ LinkExists /\ ClaimHasRow /\ ClaimIsSole /\ CountIsExact

USE CommunityAssumption DEF LinkRows

LEMMA SettledFinite == \A i : IsFiniteSet(Settled(i))
  BY FS_Subset DEF Settled

LEMMA IdleType == ComIdle \in ComCalls
  BY DEF ComIdle, ComCalls

LEMMA LinkInitial == ComInit => LinkInv
  <1> SUFFICES ASSUME ComInit PROVE LinkInv
    OBVIOUS
  <1>1. LinkTypeOK
    BY IdleType DEF ComInit, LinkTypeOK, NoLink
  <1>2. \A p \in Proc : comCall[p].at = "idle"
    BY DEF ComInit, ComIdle
  <1>3. LinkExists /\ ClaimHasRow /\ ClaimIsSole
    BY <1>2 DEF ComInit, LinkExists, ClaimHasRow, ClaimIsSole, Claiming, AtClaim
  <1>4. CountIsExact
    <2>1. \A i \in Link : Settled(i) = {}
      BY DEF ComInit, Settled
    <2>2. \A i \in Link : link[i].uses = 0 /\ link[i].cap = 0
      BY DEF ComInit, NoLink
    <2>3. QED
      BY <2>1, <2>2, FS_EmptySet DEF CountIsExact
  <1>5. QED
    BY <1>1, <1>3, <1>4 DEF LinkInv

(***************************************************************************)
(* A call that holds no claim goes on without taking one.                  *)
(***************************************************************************)
LEMMA QuietStep ==
  ASSUME LinkInv, NEW p \in Proc, NEW c \in ComCalls,
         comCall' = [comCall EXCEPT ![p] = c], UNCHANGED <<link, redeemed>>,
         comCall[p].at \notin {"bump", "unclaim"}, c.at \notin {"bump", "unclaim"},
         c.at = "claim" => c.i \in Link /\ link[c.i].cap # 0
  PROVE  LinkInv'
  <1>1. LinkTypeOK'
    BY DEF LinkInv, LinkTypeOK
  <1>2. \A q \in Proc : q # p => comCall'[q] = comCall[q]
    BY DEF LinkInv, LinkTypeOK
  <1>3. comCall'[p] = c
    BY DEF LinkInv, LinkTypeOK
  <1>4. \A q \in Proc, i \in Link : Claiming(q, i)' <=> Claiming(q, i)
    BY <1>2, <1>3 DEF Claiming
  <1>5. \A q \in Proc, i \in Link : Claiming(q, i) => comCall'[q] = comCall[q]
    BY <1>2 DEF Claiming
  <1>6. LinkExists'
    BY <1>2, <1>3 DEF LinkInv, LinkExists, AtClaim
  <1>7. ClaimHasRow' /\ ClaimIsSole'
    BY <1>4, <1>5 DEF LinkInv, ClaimHasRow, ClaimIsSole
  <1>8. \A i \in Link : Settled(i)' = Settled(i)
    BY <1>4, <1>5 DEF Settled
  <1>9. CountIsExact'
    BY <1>8 DEF LinkInv, CountIsExact
  <1>10. QED
    BY <1>1, <1>6, <1>7, <1>9 DEF LinkInv

\* What ComGoto and ComReturn do, and what entering a call does.
LEMMA GotoStep ==
  ASSUME LinkInv, NEW p \in Proc, UNCHANGED <<link, redeemed>>,
         comCall[p].at \notin {"bump", "unclaim"},
         \/ ComReturn(p)
         \/ \E at \in {"insert_member", "sync", "admit", "staff_spaces", "delete_chats"} : ComGoto(p, at)
  PROVE  LinkInv'
  <1>1. CASE ComReturn(p)
    BY <1>1, IdleType, QuietStep DEF ComReturn, ComIdle
  <1>2. ASSUME NEW at \in {"insert_member", "sync", "admit", "staff_spaces", "delete_chats"}, ComGoto(p, at)
        PROVE  LinkInv'
    <2> DEFINE c == [comCall[p] EXCEPT !.at = at]
    <2>1. c \in ComCalls /\ c.at = at
      BY DEF LinkInv, LinkTypeOK, ComCalls
    <2>2. comCall' = [comCall EXCEPT ![p] = c]
      BY <1>2 DEF ComGoto
    <2>3. QED
      BY <2>1, <2>2, QuietStep
  <1>3. QED
    BY <1>1, <1>2

LEMMA ThroughStep ==
  ASSUME LinkInv, NEW p \in Proc, UNCHANGED <<link, redeemed>>,
         comCall[p].at \notin {"bump", "unclaim"},
         NEW at \in {"join_spaces", "leave_spaces"}, NEW left \in SUBSET Space, GoThrough(p, at, left)
  PROVE  LinkInv'
  <1> DEFINE c == comCall[p]
  <1>1. c \in ComCalls
    BY DEF LinkInv, LinkTypeOK
  <1>2. CASE left # {}
    <2> DEFINE d == [c EXCEPT !.at = at, !.spaces = left]
    <2>1. d \in ComCalls /\ d.at = at
      BY <1>1 DEF ComCalls
    <2>2. comCall' = [comCall EXCEPT ![p] = d]
      BY <1>2 DEF GoThrough
    <2>3. QED
      BY <2>1, <2>2, QuietStep
  <1>3. CASE left = {} /\ c.op \in {"redeem", "ensure"}
    <2> DEFINE d == [c EXCEPT !.at = "admit", !.spaces = {}]
    <2>1. d \in ComCalls /\ d.at = "admit"
      BY <1>1 DEF ComCalls
    <2>2. comCall' = [comCall EXCEPT ![p] = d]
      BY <1>3 DEF GoThrough
    <2>3. QED
      BY <2>1, <2>2, QuietStep
  <1>4. CASE left = {} /\ c.op \notin {"redeem", "ensure"}
    <2>1. comCall' = [comCall EXCEPT ![p] = ComIdle] /\ ComIdle.at = "idle"
      BY <1>4 DEF GoThrough, ComIdle
    <2>2. QED
      BY <2>1, IdleType, QuietStep
  <1>5. QED
    BY <1>2, <1>3, <1>4

LEMMA EnterStep ==
  ASSUME LinkInv, NEW p \in Proc, NEW u \in Person,
         NEW op \in {"join", "ensure", "redeem", "promote", "demote", "remove"},
         NEW i \in Link \cup {"none"}, NEW s \in Space \cup {"none"},
         NEW at \in {"claim", "insert_member", "write_role", "delete_member"},
         at = "claim" => i \in Link /\ Usable(i),
         Enter(p, op, u, i, s, at)
  PROVE  LinkInv'
  <1> DEFINE c == [at |-> at, op |-> op, u |-> u, i |-> i, s |-> s, spaces |-> {}]
  <1>1. c \in ComCalls /\ comCall' = [comCall EXCEPT ![p] = c] /\ comCall[p].at = "idle"
    BY DEF Enter, ComCalls, ComIdle
  <1>2. at = "claim" => i \in Link /\ link[i].cap # 0
    <2>1. ASSUME at = "claim" PROVE link[i].cap # 0
      BY <2>1 DEF Usable, LinkInv, LinkTypeOK
    <2>2. QED
      BY <2>1
  <1>3. UNCHANGED <<link, redeemed>>
    BY DEF Enter
  <1>4. QED
    BY <1>1, <1>2, <1>3, QuietStep

(***************************************************************************)
(* The links themselves.                                                   *)
(***************************************************************************)
LEMMA CreateStep ==
  ASSUME LinkInv, NEW i \in Link, NEW s \in Space \cup {"none"}, NEW cap \in 1..MaxUses, CreateInvite(i, s, cap)
  PROVE  LinkInv'
  <1> DEFINE l == [space |-> s, cap |-> cap, uses |-> 0, live |-> TRUE]
  <1>1. link' = [link EXCEPT ![i] = l] /\ link[i].cap = 0 /\ link[i].uses = 0 /\ UNCHANGED <<redeemed, comCall>>
    BY DEF CreateInvite, NoLink
  <1>2. l \in LinkRows
    OBVIOUS
  <1>3. LinkTypeOK'
    BY <1>1, <1>2 DEF LinkInv, LinkTypeOK
  <1>4. \A j \in Link : link'[j] = IF j = i THEN l ELSE link[j]
    BY <1>1 DEF LinkInv, LinkTypeOK
  <1>5. LinkExists'
    BY <1>1, <1>4 DEF LinkInv, LinkExists
  <1>6. ClaimHasRow' /\ ClaimIsSole'
    BY <1>1 DEF LinkInv, ClaimHasRow, ClaimIsSole, Claiming
  <1>7. \A j \in Link : Settled(j)' = Settled(j)
    BY <1>1 DEF Settled, Claiming
  <1>8. CountIsExact'
    BY <1>1, <1>4, <1>7 DEF LinkInv, CountIsExact
  <1>9. QED
    BY <1>3, <1>5, <1>6, <1>8 DEF LinkInv

LEMMA EndStep ==
  ASSUME LinkInv, NEW i \in Link, EndInvite(i)
  PROVE  LinkInv'
  <1>1. link' = [link EXCEPT ![i].live = FALSE] /\ UNCHANGED <<redeemed, comCall>>
    BY DEF EndInvite
  <1>2. LinkTypeOK'
    BY <1>1 DEF LinkInv, LinkTypeOK
  <1>3. \A j \in Link : link'[j].cap = link[j].cap /\ link'[j].uses = link[j].uses
    BY <1>1 DEF LinkInv, LinkTypeOK
  <1>4. LinkExists'
    BY <1>1, <1>3 DEF LinkInv, LinkExists
  <1>5. ClaimHasRow' /\ ClaimIsSole'
    BY <1>1 DEF LinkInv, ClaimHasRow, ClaimIsSole, Claiming
  <1>6. \A j \in Link : Settled(j)' = Settled(j)
    BY <1>1 DEF Settled, Claiming
  <1>7. CountIsExact'
    BY <1>3, <1>6 DEF LinkInv, CountIsExact
  <1>8. QED
    BY <1>2, <1>4, <1>5, <1>7 DEF LinkInv

(***************************************************************************)
(* The claim: the row is taken; the use is counted, or the row given back. *)
(***************************************************************************)
LEMMA UsedLinkType ==
  ASSUME NEW l \in LinkRows
  PROVE  [l EXCEPT !.uses = @ + 1, !.live = l.uses + 1 < l.cap] \in LinkRows
  <1>1. ASSUME NEW b \in BOOLEAN PROVE [l EXCEPT !.uses = @ + 1, !.live = b] \in LinkRows
    <2>1. l.uses + 1 \in Nat
      OBVIOUS
    <2>2. QED
      BY <2>1
  <1>2. (l.uses + 1 < l.cap) \in BOOLEAN
    OBVIOUS
  <1>3. QED
    BY <1>1, <1>2

LEMMA ClaimStep ==
  ASSUME LinkInv, NEW p \in Proc, ClaimRow(p)
  PROVE  LinkInv'
  <1> DEFINE c == comCall[p]
  <1> DEFINE i == c.i
  <1> DEFINE u == c.u
  <1>1. c.at = "claim" /\ c \in ComCalls /\ i \in Link /\ u \in Person /\ link[i].cap # 0
    BY DEF ClaimRow, LinkInv, LinkTypeOK, LinkExists, AtClaim, ComCalls
  <1>2. CASE <<i, u>> \in redeemed
    <2>1. UNCHANGED <<link, redeemed>>
      BY <1>2 DEF ClaimRow
    <2>2. ComGoto(p, "insert_member") \/ ComReturn(p)
      BY <1>2 DEF ClaimRow
    <2>3. QED
      BY <1>1, <2>1, <2>2, GotoStep
  <1>3. CASE <<i, u>> \notin redeemed
    <2> DEFINE d == [c EXCEPT !.at = "bump"]
    <2>1. redeemed' = redeemed \cup {<<i, u>>} /\ comCall' = [comCall EXCEPT ![p] = d] /\ link' = link
      BY <1>3 DEF ClaimRow, ComGoto
    <2>2. d \in ComCalls /\ d.at = "bump" /\ d.i = i /\ d.u = u
      BY <1>1 DEF ComCalls
    <2>3. LinkTypeOK'
      BY <1>1, <2>1, <2>2 DEF LinkInv, LinkTypeOK
    <2>4. comCall'[p] = d /\ \A q \in Proc : q # p => comCall'[q] = comCall[q]
      BY <2>1 DEF LinkInv, LinkTypeOK
    <2>5. LinkExists'
      BY <1>1, <2>1, <2>2, <2>4 DEF LinkInv, LinkExists, AtClaim
    <2>6. ClaimHasRow'
      BY <2>1, <2>2, <2>4 DEF LinkInv, ClaimHasRow, Claiming
    <2>7. \A q \in Proc : q # p /\ Claiming(q, i) => comCall[q].u # u
      BY <1>1, <1>3 DEF LinkInv, ClaimHasRow
    <2>8. ClaimIsSole'
      <3>1. \A q \in Proc, j \in Link : q # p => (Claiming(q, j)' <=> Claiming(q, j)) /\ comCall'[q].u = comCall[q].u
        BY <2>4 DEF Claiming
      <3>2. \A j \in Link : Claiming(p, j)' => j = i
        BY <2>2, <2>4 DEF Claiming
      <3>3. comCall'[p].u = u
        BY <2>2, <2>4
      <3>4. QED
        BY <2>7, <3>1, <3>2, <3>3 DEF LinkInv, ClaimIsSole
    <2>9. ASSUME NEW j \in Link PROVE Settled(j)' = Settled(j)
      <3>1. \A q \in Proc : q # p => (Claiming(q, j)' <=> Claiming(q, j)) /\ comCall'[q].u = comCall[q].u
        BY <2>4 DEF Claiming
      <3>2. ~Claiming(p, j) /\ (Claiming(p, j)' <=> j = i) /\ comCall'[p].u = u
        BY <1>1, <2>2, <2>4 DEF Claiming
      <3>3. \A w \in Person : <<j, w>> \in redeemed' <=> <<j, w>> \in redeemed \/ (j = i /\ w = u)
        BY <2>1
      <3>4. \A w \in Person : w \in Settled(j)' <=> w \in Settled(j)
        BY <1>3, <3>1, <3>2, <3>3 DEF Settled
      <3>5. QED
        BY <3>4 DEF Settled
    <2>10. CountIsExact'
      BY <2>1, <2>9 DEF LinkInv, CountIsExact
    <2>11. QED
      BY <2>3, <2>5, <2>6, <2>8, <2>10 DEF LinkInv
  <1>4. QED
    BY <1>2, <1>3

\* A claim ends: in a use, or, without one left, on the way to giving up.
LEMMA BumpStep ==
  ASSUME LinkInv, NEW p \in Proc, BumpUse(p)
  PROVE  LinkInv'
  <1> DEFINE c == comCall[p]
  <1>0. PICK i \in Link : i = c.i
    BY DEF BumpUse, LinkInv, LinkExists, AtClaim
  <1> DEFINE u == c.u
  <1>1. /\ c.at = "bump" /\ c \in ComCalls /\ i \in Link /\ u \in Person
        /\ link[i].cap # 0 /\ Claiming(p, i) /\ <<i, u>> \in redeemed
    BY <1>0 DEF BumpUse, LinkInv, LinkTypeOK, LinkExists, AtClaim, ComCalls, ClaimHasRow, Claiming
  <1>2. CASE Usable(i)
    <2> DEFINE d == [c EXCEPT !.at = "insert_member"]
    <2>1. /\ link' = [link EXCEPT ![i].uses = @ + 1, ![i].live = link[i].uses + 1 < link[i].cap]
          /\ comCall' = [comCall EXCEPT ![p] = d] /\ redeemed' = redeemed
      BY <1>0, <1>2 DEF BumpUse, ComGoto
    <2>2. d \in ComCalls /\ d.at = "insert_member"
      BY <1>1 DEF ComCalls
    <2>3. LinkTypeOK'
      <3> DEFINE l == [link[i] EXCEPT !.uses = @ + 1, !.live = link[i].uses + 1 < link[i].cap]
      <3>1. link[i] \in LinkRows
        BY DEF LinkInv, LinkTypeOK
      <3>2. l \in LinkRows
        BY <3>1, UsedLinkType
      <3>3. link' = [link EXCEPT ![i] = l]
        BY <2>1, <3>1 DEF LinkInv, LinkTypeOK
      <3>4. QED
        BY <2>1, <2>2, <3>2, <3>3 DEF LinkInv, LinkTypeOK
    <2>4. comCall'[p] = d /\ \A q \in Proc : q # p => comCall'[q] = comCall[q]
      BY <2>1 DEF LinkInv, LinkTypeOK
    <2>5. \A j \in Link : /\ link'[j].cap = link[j].cap
                          /\ link'[j].uses = IF j = i THEN link[j].uses + 1 ELSE link[j].uses
      BY <1>1, <2>1 DEF LinkInv, LinkTypeOK
    <2>6. LinkExists'
      <3>1. \A q \in Proc : comCall'[q].at \in AtClaim => q # p
        BY <2>2, <2>4 DEF AtClaim
      <3>2. \A q \in Proc : comCall'[q].at \in AtClaim => comCall'[q].i \in Link /\ link'[comCall'[q].i].cap # 0
        BY <2>4, <2>5, <3>1 DEF LinkInv, LinkExists
      <3>3. QED
        BY <2>1, <2>5, <3>2 DEF LinkInv, LinkExists
    <2>7. \A q \in Proc, j \in Link : Claiming(q, j)' <=> q # p /\ Claiming(q, j)
      BY <2>2, <2>4 DEF Claiming
    <2>8. ClaimHasRow' /\ ClaimIsSole'
      BY <2>1, <2>4, <2>7 DEF LinkInv, ClaimHasRow, ClaimIsSole
    <2>9. u \notin Settled(i) /\ Settled(i)' = Settled(i) \cup {u}
      <3>1. u \notin Settled(i)
        BY <1>1 DEF Settled
      <3>2. \A q \in Proc : Claiming(q, i) /\ comCall[q].u = u => q = p
        BY <1>1 DEF LinkInv, ClaimIsSole
      <3>3. u \in Settled(i)'
        BY <1>1, <2>1, <2>4, <2>7, <3>2 DEF Settled
      <3>4. \A w \in Person : w # u => (w \in Settled(i)' <=> w \in Settled(i))
        BY <1>1, <2>1, <2>4, <2>7 DEF Settled
      <3>5. QED
        BY <3>1, <3>3, <3>4 DEF Settled
    <2>10. \A j \in Link : j # i => Settled(j)' = Settled(j)
      <3>1. \A j \in Link : j # i => ~Claiming(p, j)
        BY <1>0 DEF Claiming
      <3>2. QED
        BY <2>1, <2>4, <2>7, <3>1 DEF Settled
    <2>11. Cardinality(Settled(i)') = Cardinality(Settled(i)) + 1
      BY <2>9, SettledFinite, FS_AddElement
    <2>12. ASSUME NEW j \in Link
           PROVE  link'[j].uses <= link'[j].cap /\ link'[j].uses = Cardinality(Settled(j)')
      <3>1. CASE j = i
        <4>1. link[i].uses \in Nat /\ link[i].cap \in Nat /\ link[i].uses < link[i].cap
          BY <1>1, <1>2 DEF LinkInv, LinkTypeOK, Usable
        <4>2. link[i].uses = Cardinality(Settled(i))
          BY <1>1 DEF LinkInv, CountIsExact
        <4>3. link'[i].uses = link[i].uses + 1 /\ link'[i].cap = link[i].cap
          BY <1>1, <2>5
        <4>4. link'[i].uses <= link'[i].cap /\ link'[i].uses = Cardinality(Settled(i)')
          BY <2>11, <4>1, <4>2, <4>3
        <4>5. QED
          BY <3>1, <4>4
      <3>2. CASE j # i
        BY <2>5, <2>10, <3>2 DEF LinkInv, CountIsExact
      <3>3. QED
        BY <3>1, <3>2
    <2>13. CountIsExact'
      BY <2>12 DEF CountIsExact
    <2>14. QED
      BY <2>3, <2>6, <2>8, <2>13 DEF LinkInv
  <1>3. CASE ~Usable(i)
    <2> DEFINE d == [c EXCEPT !.at = "unclaim"]
    <2>1. comCall' = [comCall EXCEPT ![p] = d] /\ UNCHANGED <<link, redeemed>>
      BY <1>0, <1>3 DEF BumpUse, ComGoto
    <2>2. d \in ComCalls /\ d.at = "unclaim" /\ d.i = i /\ d.u = u
      BY <1>0, <1>1 DEF ComCalls
    <2>3. LinkTypeOK'
      BY <2>1, <2>2 DEF LinkInv, LinkTypeOK
    <2>4. comCall'[p] = d /\ \A q \in Proc : q # p => comCall'[q] = comCall[q]
      BY <2>1 DEF LinkInv, LinkTypeOK
    <2>5. \A q \in Proc, j \in Link : (Claiming(q, j)' <=> Claiming(q, j)) /\ comCall'[q].u = comCall[q].u
      BY <1>0, <1>1, <2>2, <2>4 DEF Claiming
    <2>6. LinkExists'
      BY <1>0, <1>1, <2>1, <2>2, <2>4 DEF LinkInv, LinkExists, AtClaim
    <2>7. ClaimHasRow' /\ ClaimIsSole'
      BY <2>1, <2>5 DEF LinkInv, ClaimHasRow, ClaimIsSole
    <2>8. \A j \in Link : Settled(j)' = Settled(j)
      BY <2>1, <2>5 DEF Settled
    <2>9. CountIsExact'
      BY <2>1, <2>8 DEF LinkInv, CountIsExact
    <2>10. QED
      BY <2>3, <2>6, <2>7, <2>9 DEF LinkInv
  <1>4. QED
    BY <1>2, <1>3

LEMMA UnclaimStep ==
  ASSUME LinkInv, NEW p \in Proc, Unclaim(p)
  PROVE  LinkInv'
  <1> DEFINE i == comCall[p].i
  <1> DEFINE u == comCall[p].u
  <1>1. i \in Link /\ u \in Person /\ Claiming(p, i)
    BY DEF Unclaim, LinkInv, LinkTypeOK, LinkExists, AtClaim, ComCalls, Claiming
  <1>2. redeemed' = redeemed \ {<<i, u>>} /\ comCall' = [comCall EXCEPT ![p] = ComIdle] /\ link' = link
    BY DEF Unclaim, ComReturn
  <1>3. LinkTypeOK'
    BY <1>2, IdleType DEF LinkInv, LinkTypeOK
  <1>4. comCall'[p] = ComIdle /\ \A q \in Proc : q # p => comCall'[q] = comCall[q]
    BY <1>2 DEF LinkInv, LinkTypeOK
  <1>5. LinkExists'
    BY <1>2, <1>4 DEF LinkInv, LinkExists, AtClaim, ComIdle
  <1>6. \A q \in Proc, j \in Link : Claiming(q, j)' <=> q # p /\ Claiming(q, j)
    BY <1>4 DEF Claiming, ComIdle
  <1>7. \A q \in Proc : q # p /\ Claiming(q, i) => comCall[q].u # u
    BY <1>1 DEF LinkInv, ClaimIsSole
  <1>8. ClaimHasRow'
    BY <1>2, <1>4, <1>6, <1>7 DEF LinkInv, ClaimHasRow
  <1>9. ClaimIsSole'
    BY <1>4, <1>6 DEF LinkInv, ClaimIsSole
  <1>10. ASSUME NEW j \in Link PROVE Settled(j)' = Settled(j)
    <2>1. \A w \in Person : <<j, w>> \in redeemed' <=> <<j, w>> \in redeemed /\ ~(j = i /\ w = u)
      BY <1>2
    <2>2. \A w \in Person : (j = i /\ w = u) => w \notin Settled(j) /\ w \notin Settled(j)'
      BY <1>1, <2>1 DEF Settled
    <2>3. Claiming(p, j) => j = i
      BY DEF Claiming
    <2>4. \A w \in Person : ~(j = i /\ w = u) => (w \in Settled(j)' <=> w \in Settled(j))
      BY <1>4, <1>6, <2>1, <2>3 DEF Settled
    <2>5. QED
      BY <2>2, <2>4 DEF Settled
  <1>11. CountIsExact'
    BY <1>2, <1>10 DEF LinkInv, CountIsExact
  <1>12. QED
    BY <1>3, <1>5, <1>8, <1>9, <1>11 DEF LinkInv

(***************************************************************************)
(* Every step of the component.                                            *)
(***************************************************************************)
KnownSpaces == adminonly \subseteq Space

LEMMA SpacesInitial == ComInit => KnownSpaces
  BY DEF ComInit, KnownSpaces

LEMMA SpacesStep == KnownSpaces /\ [ComNext]_ComVars => KnownSpaces'
  <1> SUFFICES ASSUME KnownSpaces, [ComNext]_ComVars PROVE KnownSpaces'
    OBVIOUS
  <1>1. ASSUME NEW p \in Proc, NEW op, NEW u, NEW i, NEW s, NEW at, Enter(p, op, u, i, s, at) PROVE adminonly' = adminonly
    BY <1>1 DEF Enter
  <1>2. ASSUME NEW p \in Proc, NEW u \in Person,
               \/ JoinCommunity(p, u) \/ RemoveMember(p, u) \/ \E s \in Space : EnsureMember(p, u, s)
               \/ \E i \in Link : RedeemInvite(p, u, i)
               \/ \E r \in {"member", "owner"} : SetMemberRole(p, u, r)
        PROVE  adminonly' = adminonly
    BY <1>1, <1>2 DEF JoinCommunity, RemoveMember, EnsureMember, RedeemInvite, SetMemberRole
  <1>3. ASSUME NEW p \in Proc,
               \/ ClaimRow(p) \/ BumpUse(p) \/ Unclaim(p) \/ InsertMember(p) \/ SyncMemberToSpaces(p) \/ AdmitToSpace(p)
               \/ WriteRole(p) \/ SyncStaffSpaces(p) \/ DeleteMember(p) \/ DeleteChats(p)
               \/ \E s \in Space : JoinSpace(p, s) \/ LeaveSpace(p, s)
        PROVE  adminonly' = adminonly
    BY <1>3 DEF ClaimRow, BumpUse, Unclaim, InsertMember, SyncMemberToSpaces, AdmitToSpace, WriteRole,
                SyncStaffSpaces, DeleteMember, DeleteChats, JoinSpace, LeaveSpace
  <1>4. ASSUME NEW i \in Link,
               (\E s \in Space \cup {"none"}, cap \in 1..MaxUses : CreateInvite(i, s, cap)) \/ EndInvite(i)
        PROVE  adminonly' = adminonly
    BY <1>4 DEF CreateInvite, EndInvite
  <1>5. ASSUME NEW s \in Space, SwitchSpace(s) PROVE KnownSpaces'
    BY <1>5 DEF KnownSpaces, SwitchSpace
  <1>6. CASE UNCHANGED ComVars
    BY <1>6 DEF KnownSpaces, ComVars
  <1>7. QED
    BY <1>2, <1>3, <1>4, <1>5, <1>6 DEF KnownSpaces, ComNext

LEMMA AdmissionStep ==
  ASSUME LinkInv, NEW p \in Proc,
         \/ \E u \in Person : JoinCommunity(p, u) \/ RemoveMember(p, u) \/ \E s \in Space : EnsureMember(p, u, s)
         \/ \E u \in Person, i \in Link : RedeemInvite(p, u, i)
         \/ \E u \in Person, r \in {"member", "owner"} : SetMemberRole(p, u, r)
  PROVE  LinkInv'
  <1>1. ASSUME NEW u \in Person, JoinCommunity(p, u) PROVE LinkInv'
    <2>1. CASE Enter(p, "join", u, "none", "none", "insert_member")
      BY <2>1, EnterStep
    <2>2. ASSUME NEW i \in Link, Usable(i), Enter(p, "join", u, i, "none", "claim") PROVE LinkInv'
      BY <2>2, EnterStep
    <2>3. QED
      BY <1>1, <2>1, <2>2 DEF JoinCommunity
  <1>2. ASSUME NEW u \in Person, NEW s \in Space, EnsureMember(p, u, s) PROVE LinkInv'
    BY <1>2, EnterStep DEF EnsureMember
  <1>3. ASSUME NEW u \in Person, RemoveMember(p, u) PROVE LinkInv'
    BY <1>3, EnterStep DEF RemoveMember
  <1>4. ASSUME NEW u \in Person, NEW i \in Link, RedeemInvite(p, u, i) PROVE LinkInv'
    <2>1. link[i].space \in Space \cup {"none"} /\ Usable(i) /\ Enter(p, "redeem", u, i, link[i].space, "claim")
      BY <1>4 DEF RedeemInvite, LinkInv, LinkTypeOK
    <2>2. QED
      BY <2>1, EnterStep
  <1>5. ASSUME NEW u \in Person, NEW r \in {"member", "owner"}, SetMemberRole(p, u, r) PROVE LinkInv'
    <2>1. Enter(p, "promote", u, "none", "none", "write_role") \/ Enter(p, "demote", u, "none", "none", "write_role")
      BY <1>5 DEF SetMemberRole
    <2>2. QED
      BY <2>1, EnterStep
  <1>6. QED
    BY <1>1, <1>2, <1>3, <1>4, <1>5

LEMMA CallStep ==
  ASSUME LinkInv, KnownSpaces, NEW p \in Proc,
         \/ InsertMember(p) \/ SyncMemberToSpaces(p) \/ AdmitToSpace(p)
         \/ WriteRole(p) \/ SyncStaffSpaces(p) \/ DeleteMember(p) \/ DeleteChats(p)
         \/ \E s \in Space : JoinSpace(p, s) \/ LeaveSpace(p, s)
  PROVE  LinkInv'
  <1>1. CASE InsertMember(p)
    BY <1>1, GotoStep DEF InsertMember
  <1>2. CASE SyncMemberToSpaces(p)
    BY <1>2, ThroughStep DEF SyncMemberToSpaces
  <1>3. CASE AdmitToSpace(p)
    BY <1>3, GotoStep DEF AdmitToSpace
  <1>4. CASE WriteRole(p)
    BY <1>4, GotoStep DEF WriteRole
  <1>5. CASE SyncStaffSpaces(p)
    BY <1>5, ThroughStep DEF SyncStaffSpaces, KnownSpaces
  <1>6. CASE DeleteMember(p)
    BY <1>6, GotoStep DEF DeleteMember
  <1>7. CASE DeleteChats(p)
    BY <1>7, GotoStep DEF DeleteChats
  <1>8. ASSUME NEW s \in Space, JoinSpace(p, s) \/ LeaveSpace(p, s) PROVE LinkInv'
    <2>1. comCall[p].spaces \ {s} \in SUBSET Space
      BY DEF LinkInv, LinkTypeOK, ComCalls
    <2>2. QED
      BY <1>8, <2>1, ThroughStep DEF JoinSpace, LeaveSpace
  <1>9. QED
    BY <1>1, <1>2, <1>3, <1>4, <1>5, <1>6, <1>7, <1>8

LEMMA LinkStep == LinkInv /\ KnownSpaces /\ [ComNext]_ComVars => LinkInv'
  <1> SUFFICES ASSUME LinkInv, KnownSpaces, [ComNext]_ComVars PROVE LinkInv'
    OBVIOUS
  <1>1. ASSUME NEW p \in Proc, ClaimRow(p) \/ BumpUse(p) \/ Unclaim(p) PROVE LinkInv'
    BY <1>1, ClaimStep, BumpStep, UnclaimStep
  <1>2. ASSUME NEW i \in Link, EndInvite(i) PROVE LinkInv'
    BY <1>2, EndStep
  <1>3. ASSUME NEW i \in Link, NEW s \in Space \cup {"none"}, NEW cap \in 1..MaxUses, CreateInvite(i, s, cap)
        PROVE  LinkInv'
    BY <1>3, CreateStep
  <1>4. CASE UNCHANGED ComVars \/ \E s \in Space : SwitchSpace(s)
    <2>1. UNCHANGED <<link, redeemed, comCall>>
      BY <1>4 DEF ComVars, SwitchSpace
    <2>2. \A i \in Link : Settled(i)' = Settled(i)
      BY <2>1 DEF Settled, Claiming
    <2>3. CountIsExact'
      BY <2>1, <2>2 DEF LinkInv, CountIsExact
    <2>4. QED
      BY <2>1, <2>3 DEF LinkInv, LinkTypeOK, LinkExists, ClaimHasRow, ClaimIsSole, Claiming
  <1>5. QED
    BY <1>1, <1>2, <1>3, <1>4, AdmissionStep, CallStep DEF ComNext

LEMMA LinkInvariant == ComSpec => []LinkInv
  BY LinkInitial, LinkStep, SpacesInitial, SpacesStep, PTL DEF ComSpec

\* However many people open one link at the same time, it never admits more than
\* its cap, and once no claim is under way its count is the number of people
\* who hold a redemption.
THEOREM UsesAreCountedHolds == ComSpec => []UsesAreCounted
  <1>1. LinkInv => UsesAreCounted
    <2> SUFFICES ASSUME LinkInv, NEW i \in Link,
                        \A p \in Proc : comCall[p].i = i => comCall[p].at \notin {"bump", "unclaim"}
                 PROVE  link[i].uses = Cardinality({u \in Person : <<i, u>> \in redeemed})
      BY DEF UsesAreCounted, LinkInv, CountIsExact
    <2>1. Settled(i) = {u \in Person : <<i, u>> \in redeemed}
      BY DEF Settled, Claiming
    <2>2. QED
      BY <2>1 DEF LinkInv, CountIsExact
  <1>2. QED
    BY <1>1, LinkInvariant, PTL

(***************************************************************************)
(* Access.  A removal or demotion of a user who is not crossed is the only *)
(* call about the user; an admission that has inserted the member finds    *)
(* the member still there, and those on its list that are adminonly by now *)
(* waved in; a redemption past its claim has a use that nobody takes back; *)
(* and what a user not crossed may enter is what the user's role and       *)
(* redemptions allow, or was waved, but for what the removal or the        *)
(* demotion about to end takes away.                                       *)
(***************************************************************************)
AccessForm(c) ==
  /\ c.op = "none" => c.at = "idle"
  /\ c.op \in {"join", "ensure", "redeem"} =>
       c.at \in {"claim", "bump", "unclaim", "insert_member", "sync", "join_spaces", "admit"}
  /\ c.op = "join" => c.at # "admit"
  /\ c.op = "promote" => c.at \in {"write_role", "staff_spaces", "join_spaces"}
  /\ c.op = "demote" => c.at \in {"write_role", "staff_spaces", "leave_spaces"}
  /\ c.op = "remove" => c.at \in {"delete_member", "delete_chats"}

AccessTypeOK ==
  /\ standing \in [Person -> {"none", "member", "owner"}]
  /\ chats \in [Person -> SUBSET Space] /\ adminonly \subseteq Space
  /\ crossed \subseteq Person /\ waved \subseteq Space \X Person
  /\ \A p \in Proc : AccessForm(comCall[p])

ExpelsAlone ==
  \A p, q \in Proc :
    p # q /\ comCall[p].op \in Expelling /\ comCall[q].op # "none" /\ comCall[q].u = comCall[p].u
      => comCall[p].u \in crossed

Welcome(u, s) == standing[u] = "owner" \/ <<s, u>> \in waved

Stands(c) ==
  /\ c.op \in {"join", "ensure", "redeem"} /\ c.at \in {"sync", "join_spaces", "admit"} => standing[c.u] # "none"
  /\ c.op = "promote" => standing[c.u] # "none"
  /\ c.op = "promote" /\ c.at \in {"staff_spaces", "join_spaces"} => standing[c.u] = "owner"
  /\ c.at = "join_spaces" => \A s \in c.spaces \cap adminonly : Welcome(c.u, s)

AdmittedStands == \A p \in Proc : comCall[p].u \in crossed \/ Stands(comCall[p])

Redeemer(c) == c.op = "redeem" /\ c.at \in {"insert_member", "sync", "join_spaces", "admit"}
GoesByLink(c) == c.op = "redeem" => c.i \in Link /\ link[c.i].cap # 0 /\ c.s = link[c.i].space
RedeemerIsSettled ==
  \A p \in Proc : GoesByLink(comCall[p]) /\ (Redeemer(comCall[p]) => comCall[p].u \in Settled(comCall[p].i))

Held(u, s) == \E i \in Link : link[i].cap # 0 /\ link[i].space = s /\ u \in Settled(i)
Clearing(c, u) == c.u = u /\ c.op = "remove" /\ c.at = "delete_chats"
Lowering(c, u, s) ==
  c.u = u /\ c.op = "demote" /\ (c.at = "staff_spaces" \/ (c.at = "leave_spaces" /\ s \in c.spaces))
Closing(c, u, s) == Clearing(c, u) \/ Lowering(c, u, s)
Closes(c, u) == c.u = u /\ c.op \in Expelling /\ c.at \in {"delete_chats", "staff_spaces", "leave_spaces"}

MayChat(u) ==
  /\ chats[u] # {} => standing[u] # "none" \/ \E p \in Proc : Clearing(comCall[p], u)
  /\ \A s \in chats[u] \cap adminonly :
       Welcome(u, s) \/ Held(u, s) \/ \E p \in Proc : Closing(comCall[p], u, s)
ChatsFollow == \A u \in Person : u \in crossed \/ MayChat(u)

AccessInv == AccessTypeOK /\ ExpelsAlone /\ AdmittedStands /\ RedeemerIsSettled /\ ChatsFollow

\* What a step of p leaves of its call.
SameCall(p) ==
  /\ comCall'[p].op = comCall[p].op /\ comCall'[p].u = comCall[p].u
  /\ comCall'[p].i = comCall[p].i /\ comCall'[p].s = comCall[p].s

LEMMA Went ==
  ASSUME LinkInv, NEW p \in Proc, NEW at, ComGoto(p, at)
  PROVE  /\ comCall'[p].at = at /\ SameCall(p) /\ comCall'[p].spaces = comCall[p].spaces
         /\ \A q \in Proc : q # p => comCall'[q] = comCall[q]
  BY DEF LinkInv, LinkTypeOK, ComGoto, ComCalls, SameCall

LEMMA WentThrough ==
  ASSUME LinkInv, NEW p \in Proc, NEW at, NEW left, GoThrough(p, at, left)
  PROVE  /\ \/ left # {} /\ SameCall(p) /\ comCall'[p].at = at /\ comCall'[p].spaces = left
            \/ left = {} /\ SameCall(p) /\ comCall'[p].at = "admit" /\ comCall[p].op \in {"redeem", "ensure"}
            \/ left = {} /\ comCall'[p] = ComIdle /\ comCall[p].op \notin {"redeem", "ensure"}
         /\ \A q \in Proc : q # p => comCall'[q] = comCall[q]
  <1>1. comCall[p] \in ComCalls /\ comCall \in [Proc -> ComCalls]
    BY DEF LinkInv, LinkTypeOK
  <1>2. CASE left # {}
    BY <1>1, <1>2 DEF GoThrough, ComCalls, SameCall
  <1>3. CASE left = {} /\ comCall[p].op \in {"redeem", "ensure"}
    BY <1>1, <1>3 DEF GoThrough, ComCalls, SameCall
  <1>4. CASE left = {} /\ comCall[p].op \notin {"redeem", "ensure"}
    BY <1>1, <1>4 DEF GoThrough
  <1>5. QED
    BY <1>2, <1>3, <1>4

LEMMA Returned ==
  ASSUME LinkInv, NEW p \in Proc, ComReturn(p)
  PROVE  /\ comCall'[p] = ComIdle /\ ComIdle.op = "none" /\ ComIdle.at = "idle"
         /\ \A q \in Proc : q # p => comCall'[q] = comCall[q]
  BY DEF LinkInv, LinkTypeOK, ComReturn, ComIdle

LEMMA CallTyped ==
  ASSUME LinkInv, NEW p \in Proc
  PROVE  comCall[p] \in ComCalls /\ comCall[p].u \in Person
  BY DEF LinkInv, LinkTypeOK, ComCalls

(***************************************************************************)
(* A redemption nobody claims any more stays one, and a link leads where   *)
(* it led.                                                                 *)
(***************************************************************************)
Stays(i) == link[i].cap # 0 => link'[i].cap # 0 /\ link'[i].space = link[i].space
Grows(i) == Settled(i) \subseteq Settled(i)' /\ Stays(i)

LEMMA GrowsQuietly ==
  ASSUME redeemed' = redeemed, NEW i \in Link, Stays(i),
         \A q \in Proc : Claiming(q, i)' => Claiming(q, i) /\ comCall'[q].u = comCall[q].u
  PROVE  Grows(i)
  BY DEF Grows, Settled

LEMMA SettledGrows ==
  ASSUME LinkInv, ComNext
  PROVE  \A i \in Link : Grows(i)
  <1> SUFFICES ASSUME NEW i \in Link PROVE Grows(i)
    OBVIOUS
  <1>0. link' = link => Stays(i)
    BY DEF Stays
  <1>1. ASSUME NEW p \in Proc, NEW at, ComGoto(p, at), at \notin {"bump", "unclaim"}, redeemed' = redeemed, Stays(i)
        PROVE  Grows(i)
    BY <1>1, Went, GrowsQuietly DEF Claiming, SameCall
  <1>2. ASSUME NEW p \in Proc, ComReturn(p), UNCHANGED <<redeemed, link>> PROVE Grows(i)
    BY <1>0, <1>2, Returned, GrowsQuietly DEF Claiming
  <1>3. ASSUME NEW p \in Proc, NEW op, NEW u, NEW j, NEW s, NEW at \in {"claim", "insert_member", "write_role", "delete_member"},
               Enter(p, op, u, j, s, at)
        PROVE  Grows(i)
    <2>1. UNCHANGED <<redeemed, link>> /\ comCall'[p].at = at /\ \A q \in Proc : q # p => comCall'[q] = comCall[q]
      BY <1>3 DEF Enter, LinkInv, LinkTypeOK
    <2>2. QED
      BY <1>0, <2>1, GrowsQuietly DEF Claiming
  <1>4. ASSUME NEW p \in Proc, ClaimRow(p) PROVE Grows(i)
    <2> DEFINE c == comCall[p]
    <2>1. CASE <<c.i, c.u>> \in redeemed
      <3>1. UNCHANGED <<redeemed, link>> /\ (ComGoto(p, "insert_member") \/ ComReturn(p))
        BY <1>4, <2>1 DEF ClaimRow
      <3>2. QED
        BY <1>0, <1>1, <1>2, <3>1
    <2>2. CASE <<c.i, c.u>> \notin redeemed
      <3>1. redeemed \subseteq redeemed' /\ link' = link /\ ComGoto(p, "bump")
        BY <1>4, <2>2 DEF ClaimRow
      <3>2. \A q \in Proc : Claiming(q, i)' => comCall'[q].u = comCall[q].u /\ (q = p \/ Claiming(q, i))
        BY <3>1, Went DEF Claiming, SameCall
      <3>3. Claiming(p, i)' => c.u \notin Settled(i)
        BY <2>2, <3>1, Went DEF Claiming, Settled, SameCall
      <3>4. ASSUME NEW u \in Settled(i) PROVE u \in Settled(i)'
        BY <3>1, <3>2, <3>3, <3>4 DEF Settled
      <3>5. QED
        BY <1>0, <3>1, <3>4 DEF Grows
    <2>3. QED
      BY <2>1, <2>2
  <1>5. ASSUME NEW p \in Proc, BumpUse(p) PROVE Grows(i)
    <2>1. comCall[p].at = "bump" /\ redeemed' = redeemed /\ (ComGoto(p, "insert_member") \/ ComGoto(p, "unclaim"))
      BY <1>5 DEF BumpUse
    <2>2. Stays(i)
      <3> DEFINE j == comCall[p].i
      <3>1. CASE Usable(j)
        <4>1. link' = [link EXCEPT ![j].uses = @ + 1, ![j].live = link[j].uses + 1 < link[j].cap]
          BY <1>5, <3>1 DEF BumpUse
        <4>2. QED
          BY <4>1 DEF LinkInv, LinkTypeOK, Stays
      <3>2. CASE ~Usable(j)
        BY <1>0, <1>5, <3>2 DEF BumpUse
      <3>3. QED
        BY <3>1, <3>2
    <2>3. \A q \in Proc : Claiming(q, i)' => Claiming(q, i) /\ comCall'[q].u = comCall[q].u
      BY <2>1, Went DEF Claiming, SameCall
    <2>4. QED
      BY <2>1, <2>2, <2>3, GrowsQuietly
  <1>6. ASSUME NEW p \in Proc, Unclaim(p) PROVE Grows(i)
    <2> DEFINE c == comCall[p]
    <2>1. redeemed' = redeemed \ {<<c.i, c.u>>} /\ link' = link /\ ComReturn(p) /\ c.at = "unclaim"
      BY <1>6 DEF Unclaim
    <2>2. c.i = i => c.u \notin Settled(i)
      BY <2>1 DEF Settled, Claiming
    <2>3. \A q \in Proc : Claiming(q, i)' => Claiming(q, i) /\ comCall'[q].u = comCall[q].u
      BY <2>1, Returned DEF Claiming
    <2>4. ASSUME NEW u \in Settled(i) PROVE u \in Settled(i)'
      <3>1. <<i, u>> # <<c.i, c.u>>
        BY <2>2
      <3>2. QED
        BY <2>1, <2>3, <3>1 DEF Settled
    <2>5. QED
      BY <1>0, <2>1, <2>4 DEF Grows
  <1>7. ASSUME NEW p \in Proc,
               \/ \E u \in Person : JoinCommunity(p, u) \/ RemoveMember(p, u) \/ \E s \in Space : EnsureMember(p, u, s)
               \/ \E u \in Person, j \in Link : RedeemInvite(p, u, j)
               \/ \E u \in Person, r \in {"member", "owner"} : SetMemberRole(p, u, r)
        PROVE  Grows(i)
    BY <1>3, <1>7 DEF JoinCommunity, EnsureMember, RemoveMember, RedeemInvite, SetMemberRole
  <1>8. ASSUME NEW p \in Proc, InsertMember(p) \/ AdmitToSpace(p) \/ WriteRole(p) \/ DeleteMember(p) \/ DeleteChats(p)
        PROVE  Grows(i)
    BY <1>0, <1>1, <1>2, <1>8 DEF InsertMember, AdmitToSpace, WriteRole, DeleteMember, DeleteChats
  <1>9. ASSUME NEW p \in Proc,
               \/ SyncMemberToSpaces(p) \/ SyncStaffSpaces(p) \/ \E s \in Space : JoinSpace(p, s) \/ LeaveSpace(p, s)
        PROVE  Grows(i)
    <2>1. UNCHANGED <<redeemed, link>> /\ \E at \in {"join_spaces", "leave_spaces"} : \E left : GoThrough(p, at, left)
      BY <1>9 DEF SyncMemberToSpaces, SyncStaffSpaces, JoinSpace, LeaveSpace
    <2>2. \A q \in Proc : Claiming(q, i)' => Claiming(q, i) /\ comCall'[q].u = comCall[q].u
      BY <2>1, WentThrough DEF Claiming, ComIdle
    <2>3. QED
      BY <1>0, <2>1, <2>2, GrowsQuietly
  <1>10. ASSUME NEW j \in Link, (\E s \in Space \cup {"none"}, cap \in 1..MaxUses : CreateInvite(j, s, cap)) \/ EndInvite(j)
         PROVE  Grows(i)
    <2>1. UNCHANGED <<redeemed, comCall>>
      BY <1>10 DEF CreateInvite, EndInvite
    <2>2. Settled(i)' = Settled(i)
      BY <2>1 DEF Settled, Claiming
    <2>3. link[j] = NoLink => link[j].cap = 0
      BY DEF NoLink
    <2>4. Stays(i)
      BY <1>10, <2>3 DEF CreateInvite, EndInvite, LinkInv, LinkTypeOK, Stays
    <2>5. QED
      BY <2>2, <2>4 DEF Grows
  <1>11. ASSUME NEW s \in Space, SwitchSpace(s) PROVE Grows(i)
    BY <1>0, <1>11 DEF SwitchSpace, Grows, Settled, Claiming
  <1>12. QED
    BY <1>4, <1>5, <1>6, <1>7, <1>8, <1>9, <1>10, <1>11 DEF ComNext

(***************************************************************************)
(* Each part of the invariant, step by step.  A call that goes on, or ends *)
(* changes no other and not whom it is about.                              *)
(***************************************************************************)
Proceeds(p) ==
  /\ crossed' = crossed
  /\ \A q \in Proc : q # p => comCall'[q] = comCall[q]
  /\ comCall'[p] = ComIdle \/ SameCall(p)

LEMMA ProceedsBy ==
  ASSUME LinkInv, NEW p \in Proc, crossed' = crossed,
         ComReturn(p) \/ (\E at : ComGoto(p, at)) \/ \E at, left : GoThrough(p, at, left)
  PROVE  Proceeds(p)
  BY Went, WentThrough, Returned DEF Proceeds

LEMMA AloneProceeds ==
  ASSUME AccessInv, NEW p \in Proc, Proceeds(p)
  PROVE  ExpelsAlone'
  BY DEF AccessInv, ExpelsAlone, Proceeds, ComIdle, Expelling, SameCall

\* Who is welcome stays so.
Welcomes(u) == \A s \in Space : s \in adminonly' /\ Welcome(u, s) => Welcome(u, s)'

LEMMA StandsProceeds ==
  ASSUME AccessInv, LinkInv, NEW p \in Proc, Proceeds(p), UNCHANGED <<standing, adminonly>>,
         comCall'[p].u \in crossed \/ Stands(comCall[p])',
         \A q \in Proc : q # p /\ comCall[q].op # "none" => comCall[q].u \in crossed \/ Welcomes(comCall[q].u)
  PROVE  AdmittedStands'
  <1> SUFFICES ASSUME NEW q \in Proc, q # p, comCall'[q].u \notin crossed PROVE Stands(comCall[q])'
    BY DEF AdmittedStands, Proceeds
  <1>1. comCall'[q] = comCall[q] /\ Stands(comCall[q]) /\ AccessForm(comCall[q]) /\ comCall[q].spaces \subseteq Space
    BY CallTyped DEF Proceeds, AccessInv, AdmittedStands, AccessTypeOK, ComCalls
  <1>2. CASE comCall[q].op = "none"
    BY <1>1, <1>2 DEF Stands, AccessForm
  <1>3. CASE comCall[q].op # "none"
    BY <1>1, <1>3 DEF Stands, Welcomes, Proceeds
  <1>4. QED
    BY <1>2, <1>3

LEMMA SettledProceeds ==
  ASSUME AccessInv, NEW p \in Proc, Proceeds(p), \A i \in Link : Grows(i),
         Redeemer(comCall'[p]) => Redeemer(comCall[p])
  PROVE  RedeemerIsSettled'
  BY DEF AccessInv, RedeemerIsSettled, GoesByLink, Proceeds, SameCall, Grows, Stays, Redeemer, ComIdle

LEMMA HeldStays ==
  ASSUME NEW u, NEW s, \A i \in Link : Grows(i), Held(u, s)
  PROVE  Held(u, s)'
  BY DEF Held, Grows, Stays

\* A step of p that gives the user nothing, and is not about to take away.
LEMMA ChatsRest ==
  ASSUME AccessInv, \A i \in Link : Grows(i), NEW p \in Proc, Proceeds(p), NEW u \in Person, u \notin crossed,
         chats'[u] = chats[u], standing[u] # "none" => standing'[u] # "none",
         adminonly' = adminonly, Welcomes(u),
         ~Closes(comCall[p], u)
  PROVE  MayChat(u)'
  <1>1. MayChat(u)
    BY DEF AccessInv, ChatsFollow
  <1>2. /\ \A q \in Proc : Clearing(comCall[q], u) => comCall'[q] = comCall[q]
        /\ \A q \in Proc, s \in Space : Closing(comCall[q], u, s) => comCall'[q] = comCall[q]
    BY DEF Proceeds, Closes, Closing, Clearing, Lowering, Expelling
  <1>4. chats'[u] # {} => standing'[u] # "none" \/ \E q \in Proc : Clearing(comCall'[q], u)
    BY <1>1, <1>2 DEF MayChat
  <1>5. ASSUME NEW s \in chats[u] \cap adminonly
        PROVE  Welcome(u, s)' \/ Held(u, s)' \/ \E q \in Proc : Closing(comCall'[q], u, s)
    <2>1. s \in Space
      BY <1>5 DEF AccessInv, AccessTypeOK
    <2>2. QED
      BY <1>1, <1>2, <2>1, HeldStays DEF MayChat, Welcomes
  <1>6. QED
    BY <1>4, <1>5 DEF MayChat, Closing, Clearing, Lowering


\* A call goes on, and its user's rows may change.
LEMMA AccessGoesOn ==
  ASSUME LinkInv, AccessInv, \A j \in Link : Grows(j), NEW p \in Proc, Proceeds(p), UNCHANGED <<standing, adminonly>>,
         chats' \in [Person -> SUBSET Space], waved' \subseteq Space \X Person,
         AccessForm(comCall'[p]), comCall'[p].u \in crossed \/ Stands(comCall[p])',
         \A q \in Proc : q # p /\ comCall[q].op # "none" => comCall[q].u \in crossed \/ Welcomes(comCall[q].u),
         Redeemer(comCall'[p]) => Redeemer(comCall[p]),
         \A u \in Person \ crossed : MayChat(u)'
  PROVE  AccessInv'
  <1>1. AccessTypeOK'
    BY DEF AccessInv, AccessTypeOK, Proceeds
  <1>2. ExpelsAlone'
    BY AloneProceeds
  <1>3. AdmittedStands'
    BY StandsProceeds
  <1>4. RedeemerIsSettled'
    BY SettledProceeds
  <1>5. ChatsFollow'
    BY DEF ChatsFollow, Proceeds
  <1>6. QED
    BY <1>1, <1>2, <1>3, <1>4, <1>5 DEF AccessInv

LEMMA AccessEnters ==
  ASSUME LinkInv, AccessInv, \A j \in Link : Grows(j), NEW p \in Proc, NEW u \in Person,
         NEW op \in {"join", "ensure", "redeem", "promote", "demote", "remove"}, NEW i, NEW s, NEW at,
         \/ op = "join" /\ at \in {"insert_member", "claim"}
         \/ op = "ensure" /\ at = "insert_member"
         \/ op = "redeem" /\ at = "claim" /\ i \in Link /\ link[i].cap # 0 /\ s = link[i].space
         \/ op \in {"promote", "demote"} /\ at = "write_role" /\ standing[u] # "none"
         \/ op = "remove" /\ at = "delete_member",
         Enter(p, op, u, i, s, at)
  PROVE  AccessInv'
  <1>1. /\ UNCHANGED <<standing, chats, adminonly, waved, link>> /\ comCall[p].op = "none" /\ comCall[p].at = "idle"
        /\ comCall'[p].at = at /\ comCall'[p].op = op /\ comCall'[p].u = u /\ comCall'[p].i = i /\ comCall'[p].s = s
        /\ \A q \in Proc : q # p => comCall'[q] = comCall[q]
    BY DEF Enter, LinkInv, LinkTypeOK, ComIdle
  <1>2. crossed' = crossed \/ crossed' = crossed \cup {u}
    BY DEF Enter
  <1>3. ASSUME NEW q \in Proc, q # p, comCall[q].u = u, comCall[q].op # "none",
               op \in Expelling \/ comCall[q].op \in Expelling
        PROVE  u \in crossed'
    <2>1. comCall[q].op \in Admitting \cup Expelling
      BY <1>3, CallTyped DEF ComCalls, Admitting, Expelling
    <2>2. comCall[q].op \in (IF op \in Expelling THEN Admitting \cup Expelling ELSE Expelling)
      BY <1>3, <2>1
    <2>3. QED
      BY <1>3, <2>2 DEF Enter
  <1>4. AccessTypeOK'
    BY <1>1, <1>2 DEF AccessInv, AccessTypeOK, AccessForm
  <1>5. ExpelsAlone'
    <2> SUFFICES ASSUME NEW x \in Proc, NEW y \in Proc, x # y, comCall'[x].op \in Expelling, comCall'[y].op # "none",
                        comCall'[y].u = comCall'[x].u, comCall'[x].u \notin crossed'
                 PROVE  FALSE
      BY DEF ExpelsAlone, Expelling
    <2>1. CASE x = p
      BY <1>1, <1>3, <2>1
    <2>2. CASE y = p
      BY <1>1, <1>3, <2>2 DEF Expelling
    <2>3. CASE x # p /\ y # p
      BY <1>1, <1>2, <2>3 DEF AccessInv, ExpelsAlone
    <2>4. QED
      BY <2>1, <2>2, <2>3
  <1>6. AdmittedStands'
    BY <1>1, <1>2 DEF AccessInv, AdmittedStands, Stands, Welcome
  <1>7. RedeemerIsSettled'
    <2>1. GoesByLink(comCall[p])' /\ ~Redeemer(comCall'[p])
      BY <1>1 DEF GoesByLink, Redeemer
    <2>2. QED
      BY <1>1, <2>1 DEF AccessInv, RedeemerIsSettled, GoesByLink, Redeemer, Grows
  <1>8. ChatsFollow'
    <2> SUFFICES ASSUME NEW x \in Person, x \notin crossed' PROVE MayChat(x)'
      BY DEF ChatsFollow
    <2>1. MayChat(x)
      BY <1>2 DEF AccessInv, ChatsFollow
    <2>2. /\ \A q \in Proc : Clearing(comCall[q], x) => comCall'[q] = comCall[q]
          /\ \A q \in Proc, t \in Space : Closing(comCall[q], x, t) => comCall'[q] = comCall[q]
      BY <1>1 DEF Clearing, Lowering, Closing
    <2>3. chats'[x] # {} => standing'[x] # "none" \/ \E q \in Proc : Clearing(comCall'[q], x)
      BY <1>1, <2>1, <2>2 DEF MayChat
    <2>4. ASSUME NEW t \in chats[x] \cap adminonly
          PROVE  Welcome(x, t)' \/ Held(x, t)' \/ \E q \in Proc : Closing(comCall'[q], x, t)
      <3>1. t \in Space
        BY <2>4 DEF AccessInv, AccessTypeOK
      <3>2. QED
        BY <1>1, <2>1, <2>2, <3>1, HeldStays DEF MayChat, Welcome
    <2>5. QED
      BY <1>1, <2>3, <2>4 DEF MayChat, Closing, Clearing, Lowering
  <1>9. QED
    BY <1>4, <1>5, <1>6, <1>7, <1>8 DEF AccessInv

LEMMA AccessBegins ==
  ASSUME LinkInv, AccessInv, \A j \in Link : Grows(j), NEW p \in Proc,
         \/ \E u \in Person : JoinCommunity(p, u) \/ RemoveMember(p, u) \/ \E s \in Space : EnsureMember(p, u, s)
         \/ \E u \in Person, i \in Link : RedeemInvite(p, u, i)
         \/ \E u \in Person, r \in {"member", "owner"} : SetMemberRole(p, u, r)
  PROVE  AccessInv'
  <1>1. ASSUME NEW u \in Person, JoinCommunity(p, u) PROVE AccessInv'
    <2>1. Enter(p, "join", u, "none", "none", "insert_member") \/ \E i : Enter(p, "join", u, i, "none", "claim")
      BY <1>1 DEF JoinCommunity
    <2>2. QED
      BY <2>1, AccessEnters
  <1>2. ASSUME NEW u \in Person, RemoveMember(p, u) PROVE AccessInv'
    BY <1>2, AccessEnters DEF RemoveMember
  <1>3. ASSUME NEW u \in Person, NEW i \in Link, RedeemInvite(p, u, i) PROVE AccessInv'
    <2>1. link[i].cap # 0
      BY <1>3 DEF RedeemInvite, Usable, LinkInv, LinkTypeOK
    <2>2. QED
      BY <1>3, <2>1, AccessEnters DEF RedeemInvite
  <1>4. ASSUME NEW u \in Person, NEW r \in {"member", "owner"}, SetMemberRole(p, u, r) PROVE AccessInv'
    <2>1. standing[u] # "none"
          /\ (Enter(p, "promote", u, "none", "none", "write_role") \/ Enter(p, "demote", u, "none", "none", "write_role"))
      BY <1>4 DEF SetMemberRole
    <2>2. QED
      BY <2>1, AccessEnters
  <1>5. ASSUME NEW u \in Person, NEW s \in Space, EnsureMember(p, u, s) PROVE AccessInv'
    BY <1>5, AccessEnters DEF EnsureMember
  <1>6. QED
    BY <1>1, <1>2, <1>3, <1>4, <1>5

\* The claim: the redemption is kept by a call that goes on with it.
LEMMA AccessClaims ==
  ASSUME LinkInv, LinkInv', AccessInv, \A j \in Link : Grows(j), NEW p \in Proc, ClaimRow(p) \/ BumpUse(p) \/ Unclaim(p)
  PROVE  AccessInv'
  <1> DEFINE c == comCall[p]
  <1>0. AccessForm(c) /\ c \in ComCalls
    BY CallTyped DEF AccessInv, AccessTypeOK
  <1>1. /\ UNCHANGED <<standing, chats, adminonly, waved, crossed>> /\ c.at \in {"claim", "bump", "unclaim"}
        /\ (ComReturn(p) \/ \E at \in {"bump", "unclaim", "insert_member"} : ComGoto(p, at))
    BY DEF ClaimRow, BumpUse, Unclaim
  <1>2. Proceeds(p) /\ \A u \in Person : Welcomes(u)
    BY <1>1, ProceedsBy DEF Welcomes, Welcome
  <1>3. c.op \in {"join", "ensure", "redeem"}
    BY <1>0, <1>1 DEF AccessForm, ComCalls
  <1>4. /\ comCall'[p].at \in {"idle", "bump", "unclaim", "insert_member"}
        /\ comCall'[p].op = c.op \/ comCall'[p] = ComIdle
        /\ ComIdle.op = "none"
        /\ comCall'[p].op = "none" => comCall'[p].at = "idle"
        /\ comCall'[p].op # "none" => comCall'[p].at # "idle"
    <2>1. CASE ComReturn(p)
      BY <2>1, Returned
    <2>2. ASSUME NEW at \in {"bump", "unclaim", "insert_member"}, ComGoto(p, at)
          PROVE  comCall'[p].at = at /\ comCall'[p].op = c.op
      BY <2>2, Went DEF SameCall
    <2>3. ComIdle.op = "none"
      BY DEF ComIdle
    <2>4. QED
      BY <1>1, <1>3, <2>1, <2>2, <2>3
  <1>5. AccessTypeOK'
    <2>1. AccessForm(comCall'[p])
      BY <1>3, <1>4 DEF AccessForm
    <2>2. QED
      BY <1>1, <1>2, <2>1 DEF AccessInv, AccessTypeOK, Proceeds
  <1>6. ExpelsAlone'
    BY <1>2, AloneProceeds
  <1>7. AdmittedStands'
    <2>1. Stands(comCall[p])'
      BY <1>3, <1>4 DEF Stands
    <2>2. QED
      BY <1>1, <1>2, <2>1, StandsProceeds, CallTyped
  <1>8. RedeemerIsSettled'
    <2>1. CASE Redeemer(comCall'[p])
      <3>1. comCall'[p].at = "insert_member" /\ c.op = "redeem" /\ ComGoto(p, "insert_member")
        BY <1>1, <1>3, <1>4, <2>1, Went, Returned DEF Redeemer
      <3>2. ClaimRow(p) => comCall'[p].at # "insert_member"
        <4>1. ClaimRow(p) => ComGoto(p, "bump") \/ ComReturn(p)
          BY <3>1 DEF ClaimRow
        <4>2. QED
          BY <4>1, Went, Returned
      <3>3. Unclaim(p) => comCall'[p].at # "insert_member"
        BY Returned DEF Unclaim
      <3>4. BumpUse(p)
        BY <3>1, <3>2, <3>3
      <3>5. PICK i \in Link, u \in Person : i = c.i /\ u = c.u
        BY <3>4, CallTyped DEF BumpUse, LinkInv, LinkExists, AtClaim
      <3>6. redeemed' = redeemed /\ Claiming(p, i)
        BY <3>4, <3>5 DEF BumpUse, Claiming
      <3>7. <<i, u>> \in redeemed
        BY <3>5, <3>6 DEF LinkInv, ClaimHasRow
      <3>8. \A q \in Proc : Claiming(q, i)' => q # p /\ Claiming(q, i) /\ comCall'[q].u = comCall[q].u
        BY <3>1, Went DEF Claiming
      <3>9. \A q \in Proc : Claiming(q, i)' => comCall'[q].u # u
        BY <3>5, <3>6, <3>8 DEF LinkInv, ClaimIsSole
      <3>10. u \in Settled(i)'
        BY <3>6, <3>7, <3>9 DEF Settled
      <3>11. comCall'[p].u = u /\ comCall'[p].i = i /\ comCall'[p].s = c.s
        BY <3>1, <3>5, Went DEF SameCall
      <3>12. GoesByLink(comCall[p])'
        BY <3>1, <3>5, <3>11 DEF AccessInv, RedeemerIsSettled, GoesByLink, Grows, Stays
      <3>13. \A q \in Proc : q # p => comCall'[q] = comCall[q]
        BY <1>2 DEF Proceeds
      <3>14. QED
        BY <3>5, <3>10, <3>11, <3>12, <3>13 DEF AccessInv, RedeemerIsSettled, GoesByLink, Redeemer, Grows, Stays
    <2>2. CASE ~Redeemer(comCall'[p])
      BY <1>2, <2>2, SettledProceeds
    <2>3. QED
      BY <2>1, <2>2
  <1>9. ChatsFollow'
    <2> SUFFICES ASSUME NEW u \in Person, u \notin crossed PROVE MayChat(u)'
      BY <1>1 DEF ChatsFollow
    <2>1. QED
      BY <1>1, <1>2, ChatsRest DEF Closes
  <1>10. QED
    BY <1>5, <1>6, <1>7, <1>8, <1>9 DEF AccessInv

\* A removal or demotion of somebody not crossed is the only call about the user.
LEMMA AloneAbout ==
  ASSUME AccessInv, NEW p \in Proc, NEW q \in Proc, p # q, comCall[p].u \notin crossed,
         comCall[p].op \in Expelling \/ comCall[q].op \in Expelling, comCall[p].op # "none", comCall[q].op # "none"
  PROVE  comCall[q].u # comCall[p].u
  BY DEF AccessInv, ExpelsAlone

LEMMA AccessInserts ==
  ASSUME LinkInv, AccessInv, \A j \in Link : Grows(j), NEW p \in Proc, InsertMember(p)
  PROVE  AccessInv'
  <1> DEFINE c == comCall[p]
  <1>0. AccessForm(c) /\ c \in ComCalls /\ c.u \in Person /\ standing \in [Person -> {"none", "member", "owner"}]
    BY CallTyped DEF AccessInv, AccessTypeOK
  <1>1. /\ UNCHANGED <<chats, adminonly, waved, crossed>> /\ c.at = "insert_member"
        /\ \E at \in {"admit", "sync"} : ComGoto(p, at) /\ (at = "admit" => c.op = "redeem")
        /\ standing' = [standing EXCEPT ![c.u] = IF standing[c.u] = "none" THEN "member" ELSE standing[c.u]]
    BY DEF InsertMember
  <1>2. Proceeds(p)
    BY <1>1, ProceedsBy
  <1>3. c.op \in {"join", "ensure", "redeem"}
    BY <1>0, <1>1 DEF AccessForm, ComCalls
  <1>4. comCall'[p].at \in {"admit", "sync"} /\ comCall'[p].op = c.op /\ comCall'[p].u = c.u
        /\ (comCall'[p].at = "admit" => c.op = "redeem")
    BY <1>1, Went DEF SameCall
  <1>5. /\ \A u \in Person : u # c.u => standing'[u] = standing[u]
        /\ standing'[c.u] # "none" /\ (standing[c.u] # "none" => standing'[c.u] = standing[c.u])
        /\ standing' \in [Person -> {"none", "member", "owner"}]
    BY <1>0, <1>1
  <1>6. AccessTypeOK'
    <2>1. AccessForm(comCall'[p])
      BY <1>3, <1>4 DEF AccessForm
    <2>2. QED
      BY <1>1, <1>2, <1>5, <2>1 DEF AccessInv, AccessTypeOK, Proceeds
  <1>7. ExpelsAlone'
    BY <1>2, AloneProceeds
  <1>8. AdmittedStands'
    <2> SUFFICES ASSUME NEW q \in Proc, comCall'[q].u \notin crossed PROVE Stands(comCall[q])'
      BY <1>1 DEF AdmittedStands
    <2>1. CASE q = p
      BY <1>3, <1>4, <1>5, <2>1 DEF Stands
    <2>2. CASE q # p
      <3>1. comCall'[q] = comCall[q] /\ Stands(comCall[q]) /\ comCall[q].u \in Person
        BY <1>2, <2>2, CallTyped DEF Proceeds, AccessInv, AdmittedStands
      <3>2. standing[comCall[q].u] = "owner" => standing'[comCall[q].u] = "owner"
        BY <1>5, <3>1
      <3>3. standing[comCall[q].u] # "none" => standing'[comCall[q].u] # "none"
        BY <1>5, <3>1
      <3>4. QED
        BY <1>1, <3>1, <3>2, <3>3 DEF Stands, Welcome
    <2>3. QED
      BY <2>1, <2>2
  <1>9. RedeemerIsSettled'
    <2>1. Redeemer(comCall'[p]) => Redeemer(c)
      BY <1>1, <1>4 DEF Redeemer
    <2>2. QED
      BY <1>2, <2>1, SettledProceeds
  <1>10. ChatsFollow'
    <2> SUFFICES ASSUME NEW u \in Person, u \notin crossed PROVE MayChat(u)'
      BY <1>1 DEF ChatsFollow
    <2>1. (standing[u] # "none" => standing'[u] = standing[u])
      BY <1>5
    <2>2. Welcomes(u)
      BY <1>1, <2>1 DEF Welcomes, Welcome
    <2>3. QED
      BY <1>1, <1>2, <1>3, <2>1, <2>2, ChatsRest DEF Closes, Expelling
  <1>11. QED
    BY <1>6, <1>7, <1>8, <1>9, <1>10 DEF AccessInv

\* The spaces to enter or to leave are read.
LEMMA AccessReads ==
  ASSUME LinkInv, AccessInv, \A j \in Link : Grows(j), NEW p \in Proc, SyncMemberToSpaces(p) \/ SyncStaffSpaces(p)
  PROVE  AccessInv'
  <1> DEFINE c == comCall[p]
  <1> DEFINE d == comCall'[p]
  <1>0. AccessForm(c) /\ c \in ComCalls /\ c.u \in Person
    BY CallTyped DEF AccessInv, AccessTypeOK
  <1>1. /\ UNCHANGED <<standing, chats, adminonly, waved, crossed>>
        /\ \/ c.at = "sync" /\ GoThrough(p, "join_spaces", Space \ adminonly)
           \/ c.at = "staff_spaces" /\ c.op = "promote" /\ GoThrough(p, "join_spaces", adminonly)
           \/ c.at = "staff_spaces" /\ c.op # "promote" /\ GoThrough(p, "leave_spaces", adminonly)
    BY DEF SyncMemberToSpaces, SyncStaffSpaces
  <1>2. /\ c.at = "sync" => c.op \in {"join", "ensure", "redeem"}
        /\ c.at = "staff_spaces" => c.op \in {"promote", "demote"}
    BY <1>0, <1>1 DEF AccessForm, ComCalls
  <1>3. Proceeds(p) /\ \A u \in Person : Welcomes(u)
    BY <1>1, ProceedsBy DEF Welcomes, Welcome
  <1>8. /\ chats' \in [Person -> SUBSET Space] /\ waved' \subseteq Space \X Person
        /\ \A q \in Proc : Welcomes(comCall[q].u)
    BY <1>1, <1>3, CallTyped DEF AccessInv, AccessTypeOK
  <1>4. CASE c.at = "sync"
    <2>1. GoThrough(p, "join_spaces", Space \ adminonly)
      BY <1>1, <1>4
    <2>2. \/ SameCall(p) /\ d.at = "join_spaces" /\ d.spaces = Space \ adminonly
          \/ SameCall(p) /\ d.at = "admit" /\ c.op # "join"
          \/ d = ComIdle
      BY <2>1, WentThrough
    <2>3. AccessForm(d)
      BY <1>2, <1>4, <2>2 DEF AccessForm, SameCall, ComIdle
    <2>4. d.u \in crossed \/ Stands(comCall[p])'
      BY <1>1, <1>2, <1>4, <2>2 DEF Stands, SameCall, ComIdle, AccessInv, AdmittedStands
    <2>5. Redeemer(d) => Redeemer(c)
      BY <1>4, <2>2 DEF Redeemer, SameCall, ComIdle
    <2>6. ASSUME NEW u \in Person, u \notin crossed PROVE MayChat(u)'
      BY <1>1, <1>3, <1>4, <2>6, ChatsRest DEF Closes
    <2>7. QED
      BY <1>1, <1>3, <1>8, <2>3, <2>4, <2>5, <2>6, AccessGoesOn
  <1>5. CASE c.at = "staff_spaces" /\ c.op = "promote"
    <2>1. GoThrough(p, "join_spaces", adminonly)
      BY <1>1, <1>5
    <2>2. \/ SameCall(p) /\ d.at = "join_spaces" /\ d.spaces = adminonly
          \/ d = ComIdle
      BY <1>5, <2>1, WentThrough
    <2>3. AccessForm(d)
      BY <1>5, <2>2 DEF AccessForm, SameCall, ComIdle
    <2>4. d.u \in crossed \/ Stands(comCall[p])'
      BY <1>1, <1>5, <2>2 DEF Stands, SameCall, ComIdle, AccessInv, AdmittedStands, Welcome
    <2>5. Redeemer(d) => Redeemer(c)
      BY <1>5, <2>2 DEF Redeemer, SameCall, ComIdle
    <2>6. ASSUME NEW u \in Person, u \notin crossed PROVE MayChat(u)'
      BY <1>1, <1>3, <1>5, <2>6, ChatsRest DEF Closes, Expelling
    <2>7. QED
      BY <1>1, <1>3, <1>8, <2>3, <2>4, <2>5, <2>6, AccessGoesOn
  <1>6. CASE c.at = "staff_spaces" /\ c.op = "demote"
    <2>1. GoThrough(p, "leave_spaces", adminonly)
      BY <1>1, <1>6
    <2>2. \/ SameCall(p) /\ d.at = "leave_spaces" /\ d.spaces = adminonly
          \/ d = ComIdle /\ adminonly = {}
      BY <1>6, <2>1, WentThrough
    <2>3. AccessForm(d)
      BY <1>6, <2>2 DEF AccessForm, SameCall, ComIdle
    <2>4. d.u \in crossed \/ Stands(comCall[p])'
      BY <1>1, <1>6, <2>2 DEF Stands, SameCall, ComIdle
    <2>5. Redeemer(d) => Redeemer(c)
      BY <1>6, <2>2 DEF Redeemer, SameCall, ComIdle
    <2>6. ASSUME NEW u \in Person, u \notin crossed PROVE MayChat(u)'
      <3>1. MayChat(u)
        BY <2>6 DEF AccessInv, ChatsFollow
      <3>2. \A q \in Proc : Clearing(comCall[q], u) => comCall'[q] = comCall[q]
        BY <1>3, <1>6 DEF Proceeds, Clearing
      <3>3. chats'[u] # {} => standing'[u] # "none" \/ \E q \in Proc : Clearing(comCall'[q], u)
        BY <1>1, <3>1, <3>2 DEF MayChat
      <3>4. ASSUME NEW s \in chats[u] \cap adminonly
            PROVE  Welcome(u, s)' \/ Held(u, s)' \/ \E q \in Proc : Closing(comCall'[q], u, s)
        <4>1. ASSUME NEW q \in Proc, Closing(comCall[q], u, s) PROVE \E r \in Proc : Closing(comCall'[r], u, s)
          <5>1. CASE q = p
            BY <1>6, <2>2, <3>4, <4>1, <5>1 DEF Closing, Clearing, Lowering, SameCall
          <5>2. CASE q # p
            BY <1>3, <4>1, <5>2 DEF Proceeds
          <5>3. QED
            BY <5>1, <5>2
        <4>2. Welcome(u, s) => Welcome(u, s)'
          BY <1>1 DEF Welcome
        <4>3. QED
          BY <3>1, <3>4, <4>1, <4>2, HeldStays DEF MayChat
      <3>5. QED
        BY <1>1, <3>3, <3>4 DEF MayChat, Closing, Clearing, Lowering
    <2>7. QED
      BY <1>1, <1>3, <1>8, <2>3, <2>4, <2>5, <2>6, AccessGoesOn
  <1>7. QED
    BY <1>1, <1>2, <1>4, <1>5, <1>6

\* Spaces open to the user of an admission or a promotion.
LEMMA AccessOpens ==
  ASSUME LinkInv, AccessInv, \A j \in Link : Grows(j), NEW p \in Proc, NEW s \in SUBSET Space,
         NEW u \in Person, u = comCall[p].u,
         UNCHANGED <<standing, adminonly>>, Proceeds(p),
         comCall[p].op \in Admitting, comCall[p].at \in {"join_spaces", "admit"},
         chats' = [chats EXCEPT ![u] = @ \cup s],
         waved \subseteq waved', waved' \subseteq Space \X Person,
         \/ comCall'[p] = ComIdle
         \/ SameCall(p) /\ comCall'[p].at = "admit" /\ comCall[p].op \in {"redeem", "ensure"}
         \/ SameCall(p) /\ comCall[p].at = "join_spaces" /\ comCall'[p].at = "join_spaces" /\ comCall'[p].spaces \subseteq comCall[p].spaces,
         u \notin crossed => \A t \in s \cap adminonly : Welcome(u, t)' \/ Held(u, t)
  PROVE  AccessInv'
  <1> DEFINE c == comCall[p]
  <1> DEFINE d == comCall'[p]
  <1>0. AccessForm(c) /\ c \in ComCalls /\ c.u \in Person /\ chats \in [Person -> SUBSET Space]
    BY CallTyped DEF AccessInv, AccessTypeOK
  <1>1. ComIdle.op = "none" /\ ComIdle.at = "idle" /\ crossed' = crossed
    BY DEF ComIdle, Proceeds
  <1>2. (\A v \in Person : Welcomes(v)) /\ \A t : Welcome(u, t) => Welcome(u, t)'
    BY DEF Welcomes, Welcome
  <1>3. /\ chats' \in [Person -> SUBSET Space] /\ chats'[u] = chats[u] \cup s
        /\ \A v \in Person : v # u => chats'[v] = chats[v]
    BY <1>0
  <1>4. AccessForm(d)
    BY <1>0, <1>1 DEF AccessForm, SameCall, Admitting
  <1>5. u \notin crossed => Stands(c) /\ standing[u] # "none"
    BY <1>0 DEF AccessInv, AdmittedStands, Stands, Admitting, AccessForm
  <1>6. d.u \in crossed \/ Stands(comCall[p])'
    <2>1. CASE d = ComIdle
      BY <1>1, <2>1 DEF Stands
    <2>2. CASE SameCall(p) /\ d.at = "admit" /\ c.op \in {"redeem", "ensure"}
      BY <1>5, <2>2 DEF SameCall, Stands
    <2>3. CASE SameCall(p) /\ c.at = "join_spaces" /\ d.at = "join_spaces" /\ d.spaces \subseteq c.spaces
      <3>1. u \notin crossed => \A t \in c.spaces \cap adminonly : Welcome(u, t)
        BY <1>5, <2>3 DEF Stands
      <3>2. u \notin crossed => \A t \in d.spaces \cap adminonly' : Welcome(u, t)'
        BY <1>2, <2>3, <3>1
      <3>3. QED
        BY <1>0, <1>5, <2>3, <3>2 DEF SameCall, Stands, Admitting
    <2>4. QED
      BY <2>1, <2>2, <2>3
  <1>7. Redeemer(d) => Redeemer(c)
    BY <1>1 DEF Redeemer, SameCall
  <1>8. ASSUME NEW v \in Person, v \notin crossed PROVE MayChat(v)'
    <2>1. CASE v # u
      BY <1>2, <1>3, <1>8, <2>1, ChatsRest DEF Closes
    <2>2. CASE v = u
      <3>1. ASSUME NEW q \in Proc, comCall[q].op \in Expelling PROVE comCall[q].u # u
        <4>1. p # q /\ c.op # "none" /\ comCall[q].op # "none"
          BY <3>1 DEF Expelling, Admitting
        <4>2. QED
          BY <1>8, <2>2, <3>1, <4>1, AloneAbout
      <3>2. MayChat(u)
        BY <1>8, <2>2 DEF AccessInv, ChatsFollow
      <3>3. ASSUME NEW t \in chats'[u] \cap adminonly PROVE Welcome(u, t)' \/ Held(u, t)'
        <4>1. CASE t \in s
          <5>1. Welcome(u, t)' \/ Held(u, t)
            BY <1>8, <2>2, <3>3, <4>1
          <5>2. QED
            BY <5>1, HeldStays
        <4>2. CASE t \in chats[u]
          <5>1. Welcome(u, t) \/ Held(u, t)
            BY <3>1, <3>2, <3>3, <4>2 DEF MayChat, Closing, Clearing, Lowering, Expelling
          <5>2. QED
            BY <1>2, <5>1, HeldStays
        <4>3. QED
          BY <1>3, <2>2, <3>3, <4>1, <4>2
      <3>4. standing'[u] # "none"
        BY <1>5, <1>8, <2>2
      <3>5. QED
        BY <2>2, <3>3, <3>4 DEF MayChat
    <2>3. QED
      BY <2>1, <2>2
  <1>9. \A q \in Proc : Welcomes(comCall[q].u)
    BY <1>2, CallTyped
  <1>10. QED
    BY <1>1, <1>3, <1>4, <1>6, <1>7, <1>8, <1>9, AccessGoesOn

LEMMA AccessJoins ==
  ASSUME LinkInv, AccessInv, \A j \in Link : Grows(j), NEW p \in Proc, NEW s \in Space, JoinSpace(p, s)
  PROVE  AccessInv'
  <1> DEFINE c == comCall[p]
  <1>0. PICK u \in Person : u = c.u /\ AccessForm(c) /\ c \in ComCalls
    BY CallTyped DEF AccessInv, AccessTypeOK
  <1>1. /\ UNCHANGED <<standing, adminonly, waved, crossed>> /\ c.at = "join_spaces" /\ s \in c.spaces
        /\ chats' = [chats EXCEPT ![u] = @ \cup {s}] /\ GoThrough(p, "join_spaces", c.spaces \ {s})
    BY <1>0 DEF JoinSpace
  <1>2. Proceeds(p)
    BY <1>1, ProceedsBy
  <1>3. c.op \in Admitting
    BY <1>0, <1>1 DEF AccessForm, ComCalls, Admitting
  <1>4. \/ comCall'[p] = ComIdle
        \/ SameCall(p) /\ comCall'[p].at = "admit" /\ c.op \in {"redeem", "ensure"}
        \/ SameCall(p) /\ c.at = "join_spaces" /\ comCall'[p].at = "join_spaces" /\ comCall'[p].spaces \subseteq c.spaces
    BY <1>1, WentThrough
  <1>5. u \notin crossed => \A t \in {s} \cap adminonly : Welcome(u, t)'
    <2>1. u \notin crossed /\ s \in adminonly => Welcome(u, s)
      BY <1>0, <1>1 DEF AccessInv, AdmittedStands, Stands
    <2>2. QED
      BY <1>1, <2>1 DEF Welcome
  <1>6. waved' \subseteq Space \X Person /\ {s} \in SUBSET Space
    BY <1>1 DEF AccessInv, AccessTypeOK
  <1> DEFINE new == {s}
  <1>7. new \in SUBSET Space /\ chats' = [chats EXCEPT ![u] = @ \cup new]
        /\ (u \notin crossed => \A t \in new \cap adminonly : Welcome(u, t)')
    BY <1>1, <1>5, <1>6
  <1> HIDE DEF new
  <1>8. QED
    BY <1>0, <1>1, <1>2, <1>3, <1>4, <1>6, <1>7, AccessOpens

LEMMA AccessAdmits ==
  ASSUME LinkInv, AccessInv, \A j \in Link : Grows(j), NEW p \in Proc, AdmitToSpace(p)
  PROVE  AccessInv'
  <1> DEFINE c == comCall[p]
  <1>0. PICK u \in Person : u = c.u /\ AccessForm(c) /\ c \in ComCalls /\ c.s \in Space \cup {"none"}
    BY CallTyped DEF AccessInv, AccessTypeOK, ComCalls
  <1> DEFINE new == {c.s} \ {"none"}
  <1>1. /\ UNCHANGED <<standing, adminonly, crossed>> /\ c.at = "admit" /\ ComReturn(p)
        /\ chats' = [chats EXCEPT ![u] = @ \cup new]
        /\ waved' = IF c.op = "ensure" /\ c.s \in adminonly THEN waved \cup {<<c.s, u>>} ELSE waved
    BY <1>0 DEF AdmitToSpace
  <1>2. Proceeds(p) /\ comCall'[p] = ComIdle
    BY <1>1, ProceedsBy, Returned
  <1>3. c.op \in {"ensure", "redeem"} /\ c.op \in Admitting
    BY <1>0, <1>1 DEF AccessForm, ComCalls, Admitting
  <1>4. waved \subseteq waved' /\ waved' \subseteq Space \X Person
    BY <1>0, <1>1 DEF AccessInv, AccessTypeOK
  <1>5. ASSUME NEW t \in new \cap adminonly PROVE Welcome(u, t)' \/ Held(u, t)
    <2>1. t = c.s
      BY <1>5
    <2>2. CASE c.op = "ensure"
      BY <1>1, <1>5, <2>1, <2>2 DEF Welcome
    <2>3. CASE c.op = "redeem"
      <3>1. c.i \in Link /\ link[c.i].cap # 0 /\ link[c.i].space = t /\ u \in Settled(c.i)
        BY <1>0, <1>1, <2>1, <2>3 DEF AccessInv, RedeemerIsSettled, GoesByLink, Redeemer
      <3>2. QED
        BY <3>1 DEF Held
    <2>4. QED
      BY <1>3, <2>2, <2>3
  <1>6. new \in SUBSET Space
    BY <1>0
  <1> HIDE DEF new
  <1>7. QED
    BY <1>0, <1>1, <1>2, <1>3, <1>4, <1>5, <1>6, AccessOpens

\* The role is written, or the member deleted.
LEMMA AccessWrites ==
  ASSUME LinkInv, AccessInv, \A j \in Link : Grows(j), NEW p \in Proc, WriteRole(p) \/ DeleteMember(p)
  PROVE  AccessInv'
  <1> DEFINE c == comCall[p]
  <1>0. AccessForm(c) /\ c \in ComCalls /\ c.u \in Person /\ standing \in [Person -> {"none", "member", "owner"}]
    BY CallTyped DEF AccessInv, AccessTypeOK
  <1>1. PICK r : /\ standing' = [standing EXCEPT ![c.u] = r]
                 /\ r = IF c.at = "delete_member" THEN "none"
                        ELSE IF standing[c.u] = "none" THEN "none" ELSE IF c.op = "promote" THEN "owner" ELSE "member"
    BY DEF WriteRole, DeleteMember
  <1>2. /\ UNCHANGED <<chats, adminonly, waved, crossed>>
        /\ \/ c.at = "write_role" /\ ComGoto(p, "staff_spaces")
           \/ c.at = "delete_member" /\ ComGoto(p, "delete_chats")
    BY DEF WriteRole, DeleteMember
  <1>3. Proceeds(p)
    BY <1>2, ProceedsBy
  <1>4. /\ comCall'[p].op = c.op /\ comCall'[p].u = c.u
        /\ c.at = "write_role" => comCall'[p].at = "staff_spaces"
        /\ c.at = "delete_member" => comCall'[p].at = "delete_chats"
    BY <1>2, Went DEF SameCall
  <1>5. /\ c.at = "write_role" => c.op \in {"promote", "demote"}
        /\ c.at = "delete_member" => c.op = "remove"
    BY <1>0 DEF AccessForm, ComCalls
  <1>6. /\ standing' \in [Person -> {"none", "member", "owner"}] /\ standing'[c.u] = r
        /\ \A u \in Person : u # c.u => standing'[u] = standing[u]
    BY <1>0, <1>1
  <1>7. c.u \notin crossed /\ c.op = "promote" => standing[c.u] # "none" /\ r = "owner"
    BY <1>0, <1>1, <1>5 DEF AccessInv, AdmittedStands, Stands, AccessForm
  <1>8. AccessTypeOK'
    <2>1. AccessForm(comCall'[p])
      BY <1>2, <1>4, <1>5 DEF AccessForm
    <2>2. QED
      BY <1>2, <1>3, <1>6, <2>1 DEF AccessInv, AccessTypeOK, Proceeds
  <1>9. ExpelsAlone'
    BY <1>3, AloneProceeds
  <1>10. AdmittedStands'
    <2> SUFFICES ASSUME NEW q \in Proc, comCall'[q].u \notin crossed PROVE Stands(comCall[q])'
      BY <1>2 DEF AdmittedStands
    <2>1. CASE q = p
      BY <1>2, <1>4, <1>5, <1>6, <1>7, <2>1 DEF Stands
    <2>2. CASE q # p
      <3>1. comCall'[q] = comCall[q] /\ Stands(comCall[q]) /\ comCall[q].u \in Person
        BY <1>3, <2>2, CallTyped DEF Proceeds, AccessInv, AdmittedStands
      <3>2. CASE comCall[q].u = c.u /\ comCall[q].op # "none"
        <4>1. c.op = "promote"
          BY <1>2, <1>5, <2>2, <3>1, <3>2, AloneAbout DEF Expelling
        <4>2. r = "owner"
          BY <1>7, <3>1, <3>2, <4>1
        <4>3. QED
          BY <1>6, <3>1, <3>2, <4>2 DEF Stands, Welcome
      <3>3. CASE comCall[q].op = "none"
        BY <3>1, <3>3 DEF Stands, AccessInv, AccessTypeOK, AccessForm
      <3>4. CASE comCall[q].u # c.u
        <4>1. standing'[comCall[q].u] = standing[comCall[q].u]
          BY <1>6, <3>1, <3>4
        <4>2. QED
          BY <1>2, <3>1, <4>1 DEF Stands, Welcome
      <3>5. QED
        BY <3>2, <3>3, <3>4
    <2>3. QED
      BY <2>1, <2>2
  <1>11. RedeemerIsSettled'
    <2>1. ~Redeemer(comCall'[p])
      BY <1>2, <1>4, <1>5 DEF Redeemer
    <2>2. QED
      BY <1>3, <2>1, SettledProceeds
  <1>12. ChatsFollow'
    <2> SUFFICES ASSUME NEW u \in Person, u \notin crossed PROVE MayChat(u)'
      BY <1>2 DEF ChatsFollow
    <2>1. CASE u # c.u
      <3>1. standing'[u] = standing[u]
        BY <1>6, <2>1
      <3>2. Welcomes(u) /\ ~Closes(c, u)
        BY <1>2, <2>1, <3>1 DEF Welcomes, Welcome, Closes
      <3>3. QED
        BY <1>2, <1>3, <3>1, <3>2, ChatsRest
    <2>2. CASE u = c.u /\ c.op = "promote"
      <3>1. standing'[u] = "owner"
        BY <1>6, <1>7, <2>2
      <3>2. QED
        BY <3>1 DEF MayChat, Welcome
    <2>3. CASE u = c.u /\ c.op = "remove"
      <3>1. Clearing(comCall'[p], u)
        BY <1>2, <1>4, <1>5, <2>3 DEF Clearing
      <3>2. QED
        BY <3>1 DEF MayChat, Clearing, Closing
    <2>4. CASE u = c.u /\ c.op = "demote"
      <3>1. \A s : Lowering(comCall'[p], u, s)
        BY <1>2, <1>4, <1>5, <2>4 DEF Lowering
      <3>2. \A q \in Proc : ~Clearing(comCall[q], u)
        <4>1. ASSUME NEW q \in Proc, Clearing(comCall[q], u) PROVE FALSE
          <5>1. comCall[q].op \in Expelling /\ q # p /\ comCall[q].u = c.u /\ comCall[q].op # "none"
            BY <2>4, <4>1 DEF Clearing, Expelling
          <5>2. QED
            BY <2>4, <5>1, AloneAbout DEF Expelling
        <4>2. QED
          BY <4>1
      <3>3. chats[u] # {} => standing[u] # "none"
        BY <3>2 DEF AccessInv, ChatsFollow, MayChat
      <3>4. chats'[u] # {} => standing'[u] # "none"
        BY <1>1, <1>2, <1>5, <1>6, <2>4, <3>3
      <3>5. QED
        BY <3>1, <3>4 DEF MayChat, Lowering, Closing
    <2>5. QED
      BY <1>2, <1>5, <2>1, <2>2, <2>3, <2>4
  <1>13. QED
    BY <1>8, <1>9, <1>10, <1>11, <1>12 DEF AccessInv

\* Conversations close for the user of a removal or a demotion, and with them
\* what the user was waved into.
LEMMA AccessCloses ==
  ASSUME LinkInv, AccessInv, \A j \in Link : Grows(j), NEW p \in Proc, NEW s \in SUBSET Space,
         UNCHANGED <<standing, adminonly>>, Proceeds(p), comCall[p].op \in Expelling,
         chats' = [chats EXCEPT ![comCall[p].u] = @ \ s], waved' = waved \ (s \X {comCall[p].u}),
         \/ comCall'[p] = ComIdle /\ s = Space
         \/ comCall[p].op = "demote" /\ comCall[p].at = "leave_spaces" /\ comCall'[p] = ComIdle /\ comCall[p].spaces \subseteq s
         \/ /\ comCall[p].op = "demote" /\ comCall[p].at = "leave_spaces"
            /\ SameCall(p) /\ comCall'[p].at = "leave_spaces" /\ comCall'[p].spaces = comCall[p].spaces \ s
  PROVE  AccessInv'
  <1> DEFINE c == comCall[p]
  <1> DEFINE d == comCall'[p]
  <1>0. /\ AccessForm(c) /\ c \in ComCalls /\ c.u \in Person /\ chats \in [Person -> SUBSET Space]
        /\ waved \subseteq Space \X Person
    BY CallTyped DEF AccessInv, AccessTypeOK
  <1>1. ComIdle.op = "none" /\ ComIdle.at = "idle" /\ crossed' = crossed
    BY DEF ComIdle, Proceeds
  <1>2. \A u \in Person : u # c.u => Welcomes(u)
    BY DEF Welcomes, Welcome
  <1>3. /\ chats' \in [Person -> SUBSET Space] /\ chats'[c.u] = chats[c.u] \ s
        /\ \A u \in Person : u # c.u => chats'[u] = chats[u]
        /\ waved' \subseteq Space \X Person
    BY <1>0
  <1>4. AccessForm(d)
    BY <1>1 DEF AccessForm, SameCall
  <1>5. Stands(comCall[p])'
    BY <1>1 DEF Stands, SameCall
  <1>6. ASSUME NEW q \in Proc, q # p, comCall[q].op # "none"
        PROVE  comCall[q].u \in crossed \/ Welcomes(comCall[q].u)
    BY <1>2, <1>6, AloneAbout, CallTyped DEF Expelling
  <1>7. Redeemer(d) => Redeemer(c)
    BY <1>1 DEF Redeemer, SameCall
  <1>8. ASSUME NEW u \in Person, u \notin crossed PROVE MayChat(u)'
    <2>1. CASE u # c.u
      BY <1>2, <1>3, <1>8, <2>1, ChatsRest DEF Closes
    <2>2. CASE u = c.u /\ s = Space
      <3>1. chats'[u] = {}
        BY <1>0, <1>3, <2>2
      <3>2. QED
        BY <3>1 DEF MayChat
    <2>3. CASE u = c.u /\ c.op = "demote"
      <3>1. MayChat(u)
        BY <1>8 DEF AccessInv, ChatsFollow
      <3>2. \A q \in Proc : Clearing(comCall[q], u) => comCall'[q] = comCall[q]
        BY <2>3 DEF Proceeds, Clearing
      <3>3. chats'[u] # {} => standing'[u] # "none" \/ \E q \in Proc : Clearing(comCall'[q], u)
        BY <1>3, <2>3, <3>1, <3>2 DEF MayChat
      <3>4. CASE \/ c.at = "leave_spaces" /\ d = ComIdle /\ c.spaces \subseteq s
                 \/ SameCall(p) /\ d.at = "leave_spaces" /\ d.spaces = c.spaces \ s /\ c.at = "leave_spaces"
        <4>1. ASSUME NEW t \in chats'[u] \cap adminonly
              PROVE  Welcome(u, t)' \/ Held(u, t)' \/ \E q \in Proc : Closing(comCall'[q], u, t)
          <5>1. t \in chats[u] /\ t \notin s
            BY <1>3, <2>3, <4>1
          <5>2. ASSUME NEW q \in Proc, Closing(comCall[q], u, t) PROVE \E r \in Proc : Closing(comCall'[r], u, t)
            <6>1. CASE q = p
              BY <2>3, <3>4, <5>1, <5>2, <6>1 DEF Closing, Clearing, Lowering, SameCall
            <6>2. CASE q # p
              BY <5>2, <6>2 DEF Proceeds
            <6>3. QED
              BY <6>1, <6>2
          <5>3. Welcome(u, t) => Welcome(u, t)'
            BY <5>1 DEF Welcome
          <5>4. QED
            BY <3>1, <4>1, <5>1, <5>2, <5>3, HeldStays DEF MayChat
        <4>2. QED
          BY <3>3, <4>1 DEF MayChat, Closing, Clearing, Lowering
      <3>5. QED
        BY <2>2, <2>3, <3>4
    <2>4. QED
      BY <2>1, <2>2, <2>3
  <1>9. QED
    BY <1>1, <1>3, <1>4, <1>5, <1>6, <1>7, <1>8, AccessGoesOn

LEMMA AccessLeaves ==
  ASSUME LinkInv, AccessInv, \A j \in Link : Grows(j), NEW p \in Proc,
         DeleteChats(p) \/ \E s \in Space : LeaveSpace(p, s)
  PROVE  AccessInv'
  <1> DEFINE c == comCall[p]
  <1>0. AccessForm(c) /\ c \in ComCalls /\ c.u \in Person /\ chats \in [Person -> SUBSET Space]
    BY CallTyped DEF AccessInv, AccessTypeOK
  <1>1. CASE DeleteChats(p)
    <2>1. /\ UNCHANGED <<standing, adminonly, crossed>> /\ c.at = "delete_chats" /\ ComReturn(p)
          /\ chats' = [chats EXCEPT ![c.u] = {}] /\ waved' = waved \ (Space \X {c.u})
      BY <1>1 DEF DeleteChats
    <2>2. Proceeds(p) /\ comCall'[p] = ComIdle /\ c.op \in Expelling
      BY <1>0, <2>1, ProceedsBy, Returned DEF AccessForm, ComCalls, Expelling
    <2>3. chats' = [chats EXCEPT ![c.u] = @ \ Space]
      <3>1. chats[c.u] \ Space = {}
        BY <1>0
      <3>2. QED
        BY <2>1, <3>1
    <2>4. Space \in SUBSET Space
      OBVIOUS
    <2>5. QED
      BY <2>1, <2>2, <2>3, <2>4, AccessCloses
  <1>2. ASSUME NEW s \in Space, LeaveSpace(p, s) PROVE AccessInv'
    <2> DEFINE gone == {s}
    <2>1. /\ UNCHANGED <<standing, adminonly, crossed>> /\ c.at = "leave_spaces" /\ s \in c.spaces
          /\ chats' = [chats EXCEPT ![c.u] = @ \ {s}] /\ waved' = waved \ {<<s, c.u>>}
          /\ GoThrough(p, "leave_spaces", c.spaces \ gone)
      BY <1>2 DEF LeaveSpace
    <2>2. c.op = "demote" /\ c.op \in Expelling
      BY <1>0, <2>1 DEF AccessForm, ComCalls, Expelling
    <2>3. Proceeds(p)
      BY <2>1, ProceedsBy
    <2>4. \/ SameCall(p) /\ comCall'[p].at = "leave_spaces" /\ comCall'[p].spaces = c.spaces \ gone
          \/ comCall'[p] = ComIdle /\ c.spaces \subseteq gone
      BY <2>1, <2>2, WentThrough
    <2>5. gone \in SUBSET Space /\ chats' = [chats EXCEPT ![c.u] = @ \ gone] /\ waved' = waved \ (gone \X {c.u})
      <3>1. {<<s, c.u>>} = gone \X {c.u}
        OBVIOUS
      <3>2. QED
        BY <2>1, <3>1
    <2> HIDE DEF gone
    <2>6. QED
      BY <2>1, <2>2, <2>3, <2>4, <2>5, AccessCloses
  <1>3. QED
    BY <1>1, <1>2

\* Whoever is in a space, or about to enter it, when it becomes adminonly is
\* waved, but for owners.
LEMMA AccessSwitches ==
  ASSUME LinkInv, AccessInv, \A j \in Link : Grows(j), NEW s \in Space, SwitchSpace(s)
  PROVE  AccessInv'
  <1>1. UNCHANGED <<standing, chats, link, redeemed, comCall, crossed>>
    BY DEF SwitchSpace
  <1>2. \/ adminonly' = adminonly \ {s} /\ waved' = waved \ ({s} \X Person)
        \/ /\ adminonly' = adminonly \cup {s}
           /\ waved' = waved \cup {<<s, u>> : u \in {v \in Person : standing[v] # "owner" /\ Within(v, s)}}
    BY DEF SwitchSpace
  <1>3. AccessTypeOK'
    <2>1. adminonly' \subseteq Space /\ waved' \subseteq Space \X Person
      BY <1>2 DEF AccessInv, AccessTypeOK
    <2>2. QED
      BY <1>1, <2>1 DEF AccessInv, AccessTypeOK
  <1>4. ASSUME NEW u \in Person, NEW t \in adminonly',
               t \in adminonly => Welcome(u, t) \/ Within(u, t),
               t \notin adminonly => Within(u, t)
        PROVE  Welcome(u, t)' \/ (t \in adminonly /\ ~Welcome(u, t))
    <2>1. CASE t = s /\ t \notin adminonly
      BY <1>1, <1>2, <1>4, <2>1 DEF Welcome
    <2>2. CASE t \in adminonly /\ Welcome(u, t)
      BY <1>1, <1>2, <2>2 DEF Welcome
    <2>3. QED
      BY <1>2, <1>4, <2>1, <2>2
  <1>5. AdmittedStands'
    <2> SUFFICES ASSUME NEW q \in Proc, comCall[q].u \notin crossed PROVE Stands(comCall[q])'
      BY <1>1 DEF AdmittedStands
    <2>1. Stands(comCall[q]) /\ comCall[q].u \in Person
      BY CallTyped DEF AccessInv, AdmittedStands
    <2>2. ASSUME comCall[q].at = "join_spaces", NEW t \in comCall[q].spaces, t \in adminonly' PROVE Welcome(comCall[q].u, t)'
      <3>1. Within(comCall[q].u, t)
        BY <2>2 DEF Within
      <3>2. t \in adminonly => Welcome(comCall[q].u, t)
        BY <2>1, <2>2 DEF Stands
      <3>3. QED
        BY <1>1, <1>4, <2>1, <2>2, <3>1, <3>2
    <2>3. QED
      BY <1>1, <2>1, <2>2 DEF Stands
  <1>6. RedeemerIsSettled'
    BY <1>1 DEF AccessInv, RedeemerIsSettled, GoesByLink, Grows, Redeemer
  <1>7. ChatsFollow'
    <2> SUFFICES ASSUME NEW u \in Person, u \notin crossed PROVE MayChat(u)'
      BY <1>1 DEF ChatsFollow
    <2>1. MayChat(u)
      BY DEF AccessInv, ChatsFollow
    <2>2. ASSUME NEW t \in chats[u] \cap adminonly'
          PROVE  Welcome(u, t)' \/ Held(u, t)' \/ \E q \in Proc : Closing(comCall[q], u, t)
      <3>1. Within(u, t)
        BY <2>2 DEF Within
      <3>2. CASE t \in adminonly /\ ~Welcome(u, t)
        BY <2>1, <2>2, <3>2, HeldStays DEF MayChat
      <3>3. CASE ~(t \in adminonly /\ ~Welcome(u, t))
        BY <1>4, <2>2, <3>1, <3>3
      <3>4. QED
        BY <3>2, <3>3
    <2>3. QED
      BY <1>1, <2>1, <2>2 DEF MayChat, Closing, Clearing, Lowering
  <1>8. ExpelsAlone'
    BY <1>1 DEF AccessInv, ExpelsAlone
  <1>9. QED
    BY <1>3, <1>5, <1>6, <1>7, <1>8 DEF AccessInv

LEMMA AccessRests ==
  ASSUME AccessInv, UNCHANGED <<standing, chats, adminonly, comCall, crossed, waved>>, \A j \in Link : Grows(j)
  PROVE  AccessInv'
  <1>1. AccessTypeOK' /\ ExpelsAlone' /\ AdmittedStands'
    BY DEF AccessInv, AccessTypeOK, AccessForm, ExpelsAlone, AdmittedStands, Stands, Welcome
  <1>2. RedeemerIsSettled'
    BY DEF AccessInv, RedeemerIsSettled, GoesByLink, Grows, Stays, Redeemer
  <1>3. ASSUME NEW u \in Person, u \notin crossed PROVE MayChat(u)'
    <2>1. MayChat(u)
      BY <1>3 DEF AccessInv, ChatsFollow
    <2>2. \A s : Welcome(u, s)' <=> Welcome(u, s)
      BY DEF Welcome
    <2>3. \A s : Held(u, s) => Held(u, s)'
      BY HeldStays
    <2>4. QED
      BY <2>1, <2>2, <2>3 DEF MayChat, Closing, Clearing, Lowering
  <1>4. QED
    BY <1>1, <1>2, <1>3 DEF AccessInv, ChatsFollow

LEMMA AccessStep == LinkInv /\ LinkInv' /\ AccessInv /\ [ComNext]_ComVars => AccessInv'
  <1> SUFFICES ASSUME LinkInv, LinkInv', AccessInv, [ComNext]_ComVars PROVE AccessInv'
    OBVIOUS
  <1>1. CASE UNCHANGED ComVars
    <2>1. \A i \in Link : Grows(i)
      BY <1>1 DEF ComVars, Grows, Stays, Settled, Claiming
    <2>2. QED
      BY <1>1, <2>1, AccessRests DEF ComVars
  <1>2. CASE ComNext
    <2>0. \A j \in Link : Grows(j)
      BY <1>2, SettledGrows
    <2>1. ASSUME NEW i \in Link,
                 (\E s \in Space \cup {"none"}, cap \in 1..MaxUses : CreateInvite(i, s, cap)) \/ EndInvite(i)
          PROVE  AccessInv'
      <3>1. UNCHANGED <<standing, chats, adminonly, comCall, crossed, waved>>
        BY <2>1 DEF CreateInvite, EndInvite
      <3>2. QED
        BY <2>0, <3>1, AccessRests
    <2>2. ASSUME NEW p \in Proc, ClaimRow(p) \/ BumpUse(p) \/ Unclaim(p) PROVE AccessInv'
      BY <2>0, <2>2, AccessClaims
    <2>3. ASSUME NEW p \in Proc, InsertMember(p) \/ WriteRole(p) \/ DeleteMember(p) PROVE AccessInv'
      BY <2>0, <2>3, AccessInserts, AccessWrites
    <2>4. ASSUME NEW p \in Proc, SyncMemberToSpaces(p) \/ SyncStaffSpaces(p) PROVE AccessInv'
      BY <2>0, <2>4, AccessReads
    <2>5. ASSUME NEW p \in Proc, AdmitToSpace(p) \/ DeleteChats(p) \/ \E s \in Space : JoinSpace(p, s) \/ LeaveSpace(p, s)
          PROVE  AccessInv'
      BY <2>0, <2>5, AccessAdmits, AccessJoins, AccessLeaves
    <2>6. ASSUME NEW s \in Space, SwitchSpace(s) PROVE AccessInv'
      BY <2>0, <2>6, AccessSwitches
    <2>7. QED
      BY <1>2, <2>0, <2>1, <2>2, <2>3, <2>4, <2>5, <2>6, AccessBegins DEF ComNext
  <1>3. QED
    BY <1>1, <1>2

LEMMA AccessInitial == ComInit => AccessInv
  <1> SUFFICES ASSUME ComInit PROVE AccessInv
    OBVIOUS
  <1>1. \A p \in Proc : comCall[p].op = "none" /\ comCall[p].at = "idle"
    BY DEF ComInit, ComIdle
  <1>2. AccessTypeOK
    BY <1>1 DEF ComInit, AccessTypeOK, AccessForm
  <1>3. ExpelsAlone /\ AdmittedStands /\ RedeemerIsSettled
    BY <1>1 DEF ExpelsAlone, AdmittedStands, RedeemerIsSettled, GoesByLink, Stands, Redeemer, Expelling
  <1>4. ChatsFollow
    BY DEF ComInit, ChatsFollow, MayChat, Welcome
  <1>5. QED
    BY <1>2, <1>3, <1>4 DEF AccessInv

\* Once the calls about a user are done, the user is in the conversation of a
\* space only as a member of the community, and in one that is adminonly only as
\* staff, as the holder of a link to it, or waved in by ensureCommunityAndSpaceMember
\* or by updateSpace, which takes nobody out, but for a user whose admission
\* overlapped a removal or a demotion: setMemberRole takes away the spaces that
\* are adminonly by then, and removeMember every one.
THEOREM AccessFollowsMembershipHolds == ComSpec => []AccessFollowsMembership
  <1>1. LinkInv /\ AccessInv => AccessFollowsMembership
    <2> SUFFICES ASSUME LinkInv, AccessInv, NEW u \in Person, u \notin crossed,
                        \A p \in Proc : comCall[p].op # "none" => comCall[p].u # u
                 PROVE  /\ chats[u] # {} => standing[u] # "none"
                        /\ \A s \in chats[u] \cap adminonly :
                             \/ standing[u] = "owner" \/ <<s, u>> \in waved
                             \/ \E i \in Link : link[i].space = s /\ <<i, u>> \in redeemed
      BY DEF AccessFollowsMembership
    <2>1. /\ \A p \in Proc : ~Clearing(comCall[p], u)
          /\ \A p \in Proc, s \in Space : ~Closing(comCall[p], u, s)
      BY DEF Closing, Clearing, Lowering
    <2>2. \A s : Held(u, s) => \E i \in Link : link[i].space = s /\ <<i, u>> \in redeemed
      BY DEF Held, Settled
    <2>3. MayChat(u) /\ chats[u] \subseteq Space
      BY DEF AccessInv, ChatsFollow, AccessTypeOK
    <2>4. QED
      BY <2>1, <2>2, <2>3 DEF MayChat, Welcome
  <1>2. AccessInv => KnownSpaces
    BY DEF AccessInv, AccessTypeOK, KnownSpaces
  <1>3. QED
    BY <1>1, <1>2, LinkInitial, LinkStep, AccessInitial, AccessStep, PTL DEF ComSpec

\* Every variable of the membership component keeps its kind.
THEOREM ComTypeCorrect == ComSpec => []ComTypeOK
  <1>1. LinkInv /\ AccessInv => ComTypeOK
    BY DEF LinkInv, LinkTypeOK, AccessInv, AccessTypeOK, ComTypeOK
  <1>2. AccessInv => KnownSpaces
    BY DEF AccessInv, AccessTypeOK, KnownSpaces
  <1>3. QED
    BY <1>1, <1>2, LinkInitial, LinkStep, AccessInitial, AccessStep, PTL DEF ComSpec

(***************************************************************************)
(* Entry: the records of the calls.                                        *)
(***************************************************************************)
Record(at, op, u, r, seen, list) ==
  [at |-> at, op |-> op, u |-> u, r |-> r, seen |-> seen, list |-> list]

LEMMA CallRecord ==
  ASSUME NEW c \in EntryCalls
  PROVE  c = Record(c.at, c.op, c.u, c.r, c.seen, c.list)
  BY DEF EntryCalls, Record

LEMMA CallGoesOn ==
  ASSUME NEW c \in EntryCalls, NEW a, NEW s, NEW l
  PROVE  /\ [c EXCEPT !.at = a] = Record(a, c.op, c.u, c.r, c.seen, c.list)
         /\ [c EXCEPT !.list = l] = Record(c.at, c.op, c.u, c.r, c.seen, l)
         /\ [c EXCEPT !.at = a, !.seen = s] = Record(a, c.op, c.u, c.r, s, c.list)
  <1> DEFINE d == [c EXCEPT !.at = a]
  <1>1. d = Record(a, c.op, c.u, c.r, c.seen, c.list) /\ [c EXCEPT !.list = l] = Record(c.at, c.op, c.u, c.r, c.seen, l)
    BY CallRecord DEF Record
  <1> HIDE DEF d
  <1>2. [d EXCEPT !.seen = s] = Record(a, c.op, c.u, c.r, s, c.list)
    BY <1>1 DEF Record
  <1>3. QED
    BY <1>1, <1>2 DEF d

LEMMA CallBegins ==
  ASSUME NEW a, NEW o, NEW u
  PROVE  [EntryIdle EXCEPT !.op = o, !.u = u, !.at = a] = Record(a, o, u, "none", "none", {})
  <1> DEFINE d == [EntryIdle EXCEPT !.op = o]
  <1> DEFINE e == [d EXCEPT !.u = u]
  <1>1. d = Record("idle", o, Founder, "none", "none", {})
    BY DEF EntryIdle, Record
  <1> HIDE DEF d
  <1>2. e = Record("idle", o, u, "none", "none", {})
    BY <1>1 DEF Record
  <1> HIDE DEF e
  <1>3. [e EXCEPT !.at = a] = Record(a, o, u, "none", "none", {})
    BY <1>2 DEF Record
  <1>4. QED
    BY <1>3 DEF e, d

LEMMA DecisionBegins ==
  ASSUME NEW a, NEW o, NEW u, NEW r
  PROVE  [EntryIdle EXCEPT !.op = o, !.u = u, !.r = r, !.at = a] = Record(a, o, u, r, "none", {})
  <1> DEFINE d == [EntryIdle EXCEPT !.op = o]
  <1> DEFINE e == [d EXCEPT !.u = u]
  <1> DEFINE f == [e EXCEPT !.r = r]
  <1>1. d = Record("idle", o, Founder, "none", "none", {})
    BY DEF EntryIdle, Record
  <1> HIDE DEF d
  <1>2. e = Record("idle", o, u, "none", "none", {})
    BY <1>1 DEF Record
  <1> HIDE DEF e
  <1>3. f = Record("idle", o, u, r, "none", {})
    BY <1>2 DEF Record
  <1> HIDE DEF f
  <1>4. [f EXCEPT !.at = a] = Record(a, o, u, r, "none", {})
    BY <1>3 DEF Record
  <1>5. QED
    BY <1>4 DEF f, e, d

LEMMA SpaceBegins ==
  ASSUME NEW a, NEW o, NEW s
  PROVE  [EntryIdle EXCEPT !.op = o, !.at = a, !.seen = s] = Record(a, o, Founder, "none", s, {})
  <1> DEFINE d == [EntryIdle EXCEPT !.op = o]
  <1> DEFINE e == [d EXCEPT !.at = a]
  <1>1. d = Record("idle", o, Founder, "none", "none", {})
    BY DEF EntryIdle, Record
  <1> HIDE DEF d
  <1>2. e = Record(a, o, Founder, "none", "none", {})
    BY <1>1 DEF Record
  <1> HIDE DEF e
  <1>3. [e EXCEPT !.seen = s] = Record(a, o, Founder, "none", s, {})
    BY <1>2 DEF Record
  <1>4. QED
    BY <1>3 DEF e, d

NewSpace(s, l) == [EntryIdle EXCEPT !.op = "space", !.at = "insert_space", !.seen = s, !.list = l]

LEMMA SpaceBeginsWith ==
  ASSUME NEW s, NEW l
  PROVE  NewSpace(s, l) = Record("insert_space", "space", Founder, "none", s, l)
  <1> DEFINE d == [EntryIdle EXCEPT !.op = "space"]
  <1> DEFINE e == [d EXCEPT !.at = "insert_space"]
  <1> DEFINE f == [e EXCEPT !.seen = s]
  <1>1. d = Record("idle", "space", Founder, "none", "none", {})
    BY DEF EntryIdle, Record
  <1> HIDE DEF d
  <1>2. e = Record("insert_space", "space", Founder, "none", "none", {})
    BY <1>1 DEF Record
  <1> HIDE DEF e
  <1>3. f = Record("insert_space", "space", Founder, "none", s, {})
    BY <1>2 DEF Record
  <1> HIDE DEF f
  <1>4. [f EXCEPT !.list = l] = Record("insert_space", "space", Founder, "none", s, l)
    BY <1>3 DEF Record
  <1>5. QED
    BY <1>4 DEF f, e, d, NewSpace

LEMMA IdleRecord == EntryIdle = Record("idle", "none", Founder, "none", "none", {}) /\ EntryIdle \in EntryCalls
  BY DEF EntryIdle, Record, EntryCalls, People

(***************************************************************************)
(* The statement a call is at tells the operation it belongs to.           *)
(***************************************************************************)
Seating == {"insert_member", "read_policy", "read_spaces", "admit"}
EntryForm(c) ==
  /\ c.at = "idle" <=> c.op = "none"
  /\ c.op = "join" => c.at \in {"look", "insert_request"} \cup Seating
  /\ c.op = "approve" => c.at \in Seating \cup {"decide"}
  /\ c.op = "deny" => c.at = "decide"
  /\ c.op = "space" => c.at \in {"insert_space", "read_members", "seed", "write_entry"}
  /\ c.op = "remove" => c.at = "put_out"
  /\ c.op \in {"approve", "deny"} => c.r \in Request
  /\ c.at = "insert_space" /\ c.seen = "none" => c.list = {}

EntryRowsOK ==
  /\ policy \in Policies /\ belongs \subseteq People /\ inRoom \subseteq People
  /\ room \in [made : BOOLEAN, entry : Policies \cup {"none"}, plain : BOOLEAN]
  /\ request \in [Request -> [u : People, status : {"none", "pending", "approved", "denied"}]]
  /\ admitted \subseteq Request /\ torn \subseteq Request /\ missed \subseteq People

EntryWellFormed ==
  /\ EntryRowsOK
  /\ entryCall \in [Proc -> EntryCalls]
  /\ \A p \in Proc : EntryForm(entryCall[p])

USE EntryAssumption

LEMMA CallMoved ==
  ASSUME EntryWellFormed, NEW p \in Proc, NEW d, Call(p, d)
  PROVE  entryCall'[p] = d /\ \A q \in Proc : q # p => entryCall'[q] = entryCall[q]
  BY DEF EntryWellFormed, Call

LEMMA FormMoved ==
  ASSUME EntryWellFormed, NEW p \in Proc, NEW d \in EntryCalls, EntryForm(d), Call(p, d), EntryRowsOK'
  PROVE  EntryWellFormed'
  <1>1. entryCall' \in [Proc -> EntryCalls]
    BY DEF EntryWellFormed, Call
  <1>2. \A q \in Proc : EntryForm(entryCall'[q])
    BY CallMoved DEF EntryWellFormed
  <1>3. QED
    BY <1>1, <1>2 DEF EntryWellFormed

\* What each operation's call starts with.
LEMMA Begins ==
  ASSUME NEW p \in Proc
  PROVE  /\ \A u : JoinByPolicy(p, u) => Call(p, Record(IF policy = "open" THEN "insert_member" ELSE "look", "join", u, "none", "none", {}))
         /\ \A r, op : Decide(p, r, op) => Call(p, Record(IF op = "approve" THEN "insert_member" ELSE "decide", op, request[r].u, r, "none", {}))
         /\ \A u : RemovePerson(p, u) => Call(p, Record("put_out", "remove", u, "none", "none", {}))
         /\ \A e : CreateSpace(p, e) =>
              Call(p, Record("insert_space", "space", Founder, "none", e, IF Stricter(policy, e) THEN {Founder} ELSE {}))
         /\ \A e : UpdateSpace(p, e) => Call(p, Record("write_entry", "space", Founder, "none", e, {}))
  <1>1. ASSUME NEW u, JoinByPolicy(p, u)
        PROVE  Call(p, Record(IF policy = "open" THEN "insert_member" ELSE "look", "join", u, "none", "none", {}))
    <2> DEFINE at == IF policy = "open" THEN "insert_member" ELSE "look"
    <2>1. Call(p, [EntryIdle EXCEPT !.op = "join", !.u = u, !.at = at])
      BY <1>1, Zenon DEF JoinByPolicy
    <2> HIDE DEF at
    <2>2. Call(p, Record(at, "join", u, "none", "none", {}))
      BY <2>1, CallBegins, Zenon
    <2>3. QED
      BY <2>2 DEF at
  <1>2. ASSUME NEW r, NEW op, Decide(p, r, op)
        PROVE  Call(p, Record(IF op = "approve" THEN "insert_member" ELSE "decide", op, request[r].u, r, "none", {}))
    <2> DEFINE at == IF op = "approve" THEN "insert_member" ELSE "decide"
    <2>1. Call(p, [EntryIdle EXCEPT !.op = op, !.u = request[r].u, !.r = r, !.at = at])
      BY <1>2, Zenon DEF Decide
    <2> HIDE DEF at
    <2>2. [EntryIdle EXCEPT !.op = op, !.u = request[r].u, !.r = r, !.at = at] = Record(at, op, request[r].u, r, "none", {})
      BY DecisionBegins, Zenon
    <2>3. Call(p, Record(at, op, request[r].u, r, "none", {}))
      BY <2>1, <2>2, Zenon
    <2>4. QED
      BY <2>3 DEF at
  <1>3. ASSUME NEW u, RemovePerson(p, u) PROVE Call(p, Record("put_out", "remove", u, "none", "none", {}))
    <2>1. Call(p, [EntryIdle EXCEPT !.op = "remove", !.u = u, !.at = "put_out"])
      BY <1>3, Zenon DEF RemovePerson
    <2>2. QED
      BY <2>1, CallBegins, Zenon
  <1>4. ASSUME NEW e, CreateSpace(p, e)
        PROVE  Call(p, Record("insert_space", "space", Founder, "none", e, IF Stricter(policy, e) THEN {Founder} ELSE {}))
    <2> DEFINE l == IF Stricter(policy, e) THEN {Founder} ELSE {}
    <2>1. Call(p, NewSpace(e, l))
      BY <1>4, Zenon DEF CreateSpace, NewSpace
    <2> HIDE DEF l
    <2>2. Call(p, Record("insert_space", "space", Founder, "none", e, l))
      BY <2>1, SpaceBeginsWith, Zenon
    <2>3. QED
      BY <2>2 DEF l
  <1>5. ASSUME NEW e, UpdateSpace(p, e) PROVE Call(p, Record("write_entry", "space", Founder, "none", e, {}))
    <2>1. Call(p, [EntryIdle EXCEPT !.op = "space", !.at = "write_entry", !.seen = e])
      BY <1>5, Zenon DEF UpdateSpace
    <2>2. [EntryIdle EXCEPT !.op = "space", !.at = "write_entry", !.seen = e] = Record("write_entry", "space", Founder, "none", e, {})
      BY SpaceBegins, Zenon
    <2>3. QED
      BY <2>1, <2>2, Zenon
  <1>6. QED
    BY <1>1, <1>2, <1>3, <1>4, <1>5, Zenon

LEMMA IdleForm == EntryForm(EntryIdle)
  BY DEF EntryForm, EntryIdle

LEMMA EntryBegins ==
  ASSUME EntryWellFormed, NEW p \in Proc,
         \/ \E u \in People : JoinByPolicy(p, u) \/ RemovePerson(p, u)
         \/ \E r \in Request, op \in {"approve", "deny"} : DecideJoinRequest(p, r, op)
         \/ \E e \in Policies \cup {"none"} : CreateSpace(p, e) \/ UpdateSpace(p, e)
  PROVE  EntryWellFormed'
  <1>1. ASSUME NEW u \in People, JoinByPolicy(p, u) PROVE EntryWellFormed'
    <2> DEFINE d == Record(IF policy = "open" THEN "insert_member" ELSE "look", "join", u, "none", "none", {})
    <2>1. Call(p, d)
      BY <1>1, Begins, Zenon
    <2>2. d \in EntryCalls /\ EntryForm(d)
      BY DEF Record, EntryCalls, EntryForm, Seating
    <2>3. EntryRowsOK'
      BY <1>1 DEF JoinByPolicy, EntryRows, EntryWellFormed, EntryRowsOK
    <2>4. QED
      BY <2>1, <2>2, <2>3, FormMoved
  <1>2. ASSUME NEW u \in People, RemovePerson(p, u) PROVE EntryWellFormed'
    <2> DEFINE d == Record("put_out", "remove", u, "none", "none", {})
    <2>1. Call(p, d)
      BY <1>2, Begins, Zenon
    <2>2. d \in EntryCalls /\ EntryForm(d)
      BY DEF Record, EntryCalls, EntryForm, Seating
    <2>3. EntryRowsOK'
      BY <1>2 DEF RemovePerson, EntryWellFormed, EntryRowsOK
    <2>4. QED
      BY <2>1, <2>2, <2>3, FormMoved
  <1>3. ASSUME NEW r \in Request, NEW op \in {"approve", "deny"}, DecideJoinRequest(p, r, op) PROVE EntryWellFormed'
    <2> DEFINE d == Record(IF op = "approve" THEN "insert_member" ELSE "decide", op, request[r].u, r, "none", {})
    <2>1. Call(p, d)
      BY <1>3, Begins, Zenon DEF DecideJoinRequest
    <2>0. request[r].u \in People
      BY DEF EntryWellFormed, EntryRowsOK
    <2>2. d \in EntryCalls /\ EntryForm(d)
      BY <2>0 DEF Record, EntryCalls, EntryForm, Seating
    <2>3. EntryRowsOK'
      BY <1>3, <2>0 DEF DecideJoinRequest, Decide, EntryRows, EntryWellFormed, EntryRowsOK
    <2>4. QED
      BY <2>1, <2>2, <2>3, FormMoved
  <1>4. ASSUME NEW e \in Policies \cup {"none"}, CreateSpace(p, e) PROVE EntryWellFormed'
    <2> DEFINE d == Record("insert_space", "space", Founder, "none", e, IF Stricter(policy, e) THEN {Founder} ELSE {})
    <2>1. Call(p, d)
      BY <1>4, Begins, Zenon
    <2>2. d \in EntryCalls /\ EntryForm(d)
      BY DEF Record, EntryCalls, EntryForm, People, Stricter
    <2>3. EntryRowsOK'
      BY <1>4 DEF CreateSpace, EntryRows, EntryNotes, EntryWellFormed, EntryRowsOK
    <2>4. QED
      BY <2>1, <2>2, <2>3, FormMoved
  <1>5. ASSUME NEW e \in Policies \cup {"none"}, UpdateSpace(p, e) PROVE EntryWellFormed'
    <2> DEFINE d == Record("write_entry", "space", Founder, "none", e, {})
    <2>1. Call(p, d)
      BY <1>5, Begins, Zenon
    <2>2. d \in EntryCalls /\ EntryForm(d)
      BY DEF Record, EntryCalls, EntryForm, People
    <2>3. EntryRowsOK'
      BY <1>5 DEF UpdateSpace, EntryRows, EntryNotes, EntryWellFormed, EntryRowsOK
    <2>4. QED
      BY <2>1, <2>2, <2>3, FormMoved
  <1>6. QED
    BY <1>1, <1>2, <1>3, <1>4, <1>5

\* Where each statement of a call leads.
Goes(p, at, seen, list) ==
  Call(p, Record(at, entryCall[p].op, entryCall[p].u, entryCall[p].r, seen, list))

LEMMA Leads ==
  ASSUME EntryWellFormed, NEW p \in Proc
  PROVE  LET c == entryCall[p] IN
         /\ \A at : Step(p, at) => Goes(p, at, c.seen, c.list)
         /\ AfterSync(p) => IF c.op = "approve" THEN Goes(p, "decide", "none", c.list) ELSE Done(p)
         /\ ReadPolicy(p) => Goes(p, "read_spaces", policy, c.list)
         /\ ReadSpaces(p) =>
              IF room.made /\ ~Stricter(c.seen, room.entry) THEN Goes(p, "admit", "none", c.list) ELSE AfterSync(p)
         /\ InsertSpace(p) => Goes(p, IF c.list = {} THEN "read_members" ELSE "seed", "none", c.list)
         /\ ReadMembers(p) => Goes(p, "seed", c.seen, belongs)
         /\ \A u : SeedMember(p, u) => IF c.list = {u} THEN Done(p) ELSE Goes(p, "seed", c.seen, c.list \ {u})
  <1> DEFINE c == entryCall[p]
  <1>1. c \in EntryCalls
    BY DEF EntryWellFormed
  <1>2. ASSUME NEW at, Step(p, at) PROVE Goes(p, at, c.seen, c.list)
    BY <1>1, <1>2, CallGoesOn, Zenon DEF Step, Goes
  <1>3. ASSUME NEW at, NEW s, Call(p, [c EXCEPT !.at = at, !.seen = s]) PROVE Goes(p, at, s, c.list)
    BY <1>1, <1>3, CallGoesOn, Zenon DEF Goes
  <1>4. AfterSync(p) => IF c.op = "approve" THEN Goes(p, "decide", "none", c.list) ELSE Done(p)
    BY <1>3, Zenon DEF AfterSync
  <1>5. ReadPolicy(p) => Goes(p, "read_spaces", policy, c.list)
    BY <1>3, Zenon DEF ReadPolicy
  <1>6. ReadSpaces(p) =>
          IF room.made /\ ~Stricter(c.seen, room.entry) THEN Goes(p, "admit", "none", c.list) ELSE AfterSync(p)
    BY <1>3, Zenon DEF ReadSpaces
  <1>7. ASSUME InsertSpace(p) PROVE Goes(p, IF c.list = {} THEN "read_members" ELSE "seed", "none", c.list)
    <2> DEFINE at == IF c.list = {} THEN "read_members" ELSE "seed"
    <2>1. Call(p, [c EXCEPT !.at = at, !.seen = "none"])
      BY <1>7, Zenon DEF InsertSpace
    <2> HIDE DEF at
    <2>2. Goes(p, at, "none", c.list)
      BY <1>3, <2>1, Zenon
    <2>3. QED
      BY <2>2 DEF at
  <1>8. ASSUME ReadMembers(p) PROVE Goes(p, "seed", c.seen, belongs)
    <2> DEFINE d == [c EXCEPT !.at = "seed"]
    <2>0. d = Record("seed", c.op, c.u, c.r, c.seen, c.list)
      BY <1>1, CallGoesOn, Zenon
    <2> HIDE DEF d
    <2>1. [d EXCEPT !.list = belongs] = Record("seed", c.op, c.u, c.r, c.seen, belongs)
      BY <2>0 DEF Record
    <2>2. Call(p, [d EXCEPT !.list = belongs])
      BY <1>8, Zenon DEF ReadMembers, d
    <2>3. QED
      BY <2>1, <2>2, Zenon DEF Goes
  <1>9. ASSUME NEW u, SeedMember(p, u) PROVE IF c.list = {u} THEN Done(p) ELSE Goes(p, "seed", c.seen, c.list \ {u})
    <2> DEFINE l == c.list \ {u}
    <2>1. c.list # {u} => Call(p, [c EXCEPT !.list = c.list \ {u}])
      BY <1>1, <1>9 DEF SeedMember
    <2>2. [c EXCEPT !.list = l] = Record(c.at, c.op, c.u, c.r, c.seen, l) /\ c.at = "seed"
      BY <1>1, <1>9, CallGoesOn, Zenon DEF SeedMember
    <2>3. QED
      BY <1>9, <2>1, <2>2, Zenon DEF SeedMember, Goes
  <1>10. QED
    BY <1>2, <1>4, <1>5, <1>6, <1>7, <1>8, <1>9, Zenon

\* A call that ends, or goes on from one statement to another of its operation.
LEMMA EntryEnds ==
  ASSUME EntryWellFormed, NEW p \in Proc, Done(p), EntryRowsOK'
  PROVE  EntryWellFormed'
  BY IdleRecord, IdleForm, FormMoved DEF Done

LEMMA EntryGoes ==
  ASSUME EntryWellFormed, NEW p \in Proc, EntryRowsOK',
         NEW at, NEW seen \in Policies \cup {"none"}, NEW list \in SUBSET People,
         \/ entryCall[p].at = "look" /\ at = "insert_request"
         \/ entryCall[p].at \in Seating /\ at \in {"read_policy", "read_spaces", "admit"}
         \/ entryCall[p].op = "approve" /\ at = "decide"
         \/ entryCall[p].at \in {"insert_space", "read_members", "seed"} /\ at \in {"read_members", "seed"},
         Goes(p, at, seen, list)
  PROVE  EntryWellFormed'
  <1> DEFINE c == entryCall[p]
  <1> DEFINE d == Record(at, c.op, c.u, c.r, seen, list)
  <1>1. c \in EntryCalls /\ EntryForm(c)
    BY DEF EntryWellFormed
  <1>2. d \in EntryCalls /\ EntryForm(d)
    BY <1>1 DEF Record, EntryCalls, EntryForm, Seating
  <1>3. QED
    BY <1>2, FormMoved DEF Goes

LEMMA EntryContinues ==
  ASSUME EntryWellFormed, NEW p \in Proc,
         \/ LookForRequest(p) \/ AddMember(p) \/ ReadPolicy(p) \/ ReadSpaces(p) \/ Admit(p)
         \/ WriteDecision(p) \/ PutOut(p) \/ InsertSpace(p) \/ ReadMembers(p) \/ WriteEntry(p)
         \/ CallFails(p) \/ (\E u \in People : SeedMember(p, u)) \/ \E r \in Request : InsertRequest(p, r)
  PROVE  EntryWellFormed'
  <1> DEFINE c == entryCall[p]
  <1>0. /\ c \in EntryCalls /\ EntryForm(c) /\ c.seen \in Policies \cup {"none"} /\ c.list \in SUBSET People
        /\ c.u \in People /\ c.r \in Request \cup {"none"}
    BY DEF EntryWellFormed, EntryCalls
  <1>a. ASSUME EntryRowsOK', AfterSync(p), c.at \in {"read_spaces", "admit"} PROVE EntryWellFormed'
    BY <1>0, <1>a, Leads, EntryGoes, EntryEnds DEF Seating
  <1>1. CASE LookForRequest(p)
    <2>1. EntryRowsOK'
      BY <1>1 DEF LookForRequest, EntryRows, EntryNotes, EntryWellFormed, EntryRowsOK
    <2>2. c.at = "look" /\ (Done(p) \/ Goes(p, "insert_request", c.seen, c.list))
      BY <1>1, Leads, Zenon DEF LookForRequest
    <2>3. QED
      BY <1>0, <2>1, <2>2, EntryGoes, EntryEnds
  <1>2. CASE AddMember(p)
    <2>1. EntryRowsOK'
      BY <1>0, <1>2 DEF AddMember, EntryWellFormed, EntryRowsOK, EntryForm
    <2>2. c.at = "insert_member" /\ Goes(p, "read_policy", c.seen, c.list)
      BY <1>2, Leads, Zenon DEF AddMember
    <2>3. QED
      BY <1>0, <2>1, <2>2, EntryGoes DEF Seating
  <1>3. CASE ReadPolicy(p)
    <2>1. EntryRowsOK'
      BY <1>3 DEF ReadPolicy, EntryRows, EntryNotes, EntryWellFormed, EntryRowsOK
    <2>2. c.at = "read_policy" /\ Goes(p, "read_spaces", policy, c.list) /\ policy \in Policies
      BY <1>3, Leads, Zenon DEF ReadPolicy, EntryWellFormed, EntryRowsOK
    <2>3. QED
      BY <1>0, <2>1, <2>2, EntryGoes DEF Seating
  <1>4. CASE ReadSpaces(p)
    <2>1. EntryRowsOK'
      BY <1>4 DEF ReadSpaces, EntryRows, EntryNotes, EntryWellFormed, EntryRowsOK
    <2>2. c.at = "read_spaces" /\ (AfterSync(p) \/ Goes(p, "admit", "none", c.list))
      BY <1>4, Leads, Zenon DEF ReadSpaces
    <2>3. QED
      BY <1>0, <1>a, <2>1, <2>2, EntryGoes DEF Seating
  <1>5. CASE Admit(p)
    <2>1. EntryRowsOK'
      BY <1>0, <1>5 DEF Admit, EntryNotes, EntryWellFormed, EntryRowsOK
    <2>2. QED
      BY <1>5, <1>a, <2>1 DEF Admit
  <1>6. CASE WriteDecision(p)
    <2> DEFINE s == IF c.op = "approve" THEN "approved" ELSE "denied"
    <2>1. request' = [request EXCEPT ![c.r].status = s] /\ s \in {"approved", "denied"}
      BY <1>6 DEF WriteDecision
    <2> HIDE DEF s
    <2>2. request' \in [Request -> [u : People, status : {"none", "pending", "approved", "denied"}]]
      BY <2>1 DEF EntryWellFormed, EntryRowsOK
    <2>3. EntryRowsOK' /\ Done(p)
      BY <1>6, <2>2 DEF WriteDecision, EntryNotes, EntryWellFormed, EntryRowsOK
    <2>4. QED
      BY <2>3, EntryEnds
  <1>7. CASE PutOut(p)
    <2>1. EntryRowsOK' /\ Done(p)
      BY <1>7 DEF PutOut, EntryNotes, EntryWellFormed, EntryRowsOK
    <2>2. QED
      BY <2>1, EntryEnds
  <1>8. CASE InsertSpace(p)
    <2>1. EntryRowsOK'
      BY <1>0, <1>8 DEF InsertSpace, EntryNotes, EntryWellFormed, EntryRowsOK
    <2>2. c.at = "insert_space" /\ (Goes(p, "read_members", "none", c.list) \/ Goes(p, "seed", "none", c.list))
      BY <1>8, Leads, Zenon DEF InsertSpace
    <2>3. QED
      BY <1>0, <2>1, <2>2, EntryGoes
  <1>9. CASE ReadMembers(p)
    <2>1. EntryRowsOK' /\ belongs \in SUBSET People
      BY <1>9 DEF ReadMembers, EntryRows, EntryNotes, EntryWellFormed, EntryRowsOK
    <2>2. c.at = "read_members" /\ Goes(p, "seed", c.seen, belongs)
      BY <1>9, Leads, Zenon DEF ReadMembers
    <2>3. QED
      BY <1>0, <2>1, <2>2, EntryGoes
  <1>10. CASE WriteEntry(p)
    <2> DEFINE s == c.seen
    <2> DEFINE x == [room EXCEPT !.entry = s]
    <2>1. room' = [x EXCEPT !.plain = FALSE]
      BY <1>10 DEF WriteEntry
    <2> HIDE DEF s
    <2>2. x \in [made : BOOLEAN, entry : Policies \cup {"none"}, plain : BOOLEAN]
      BY <1>0 DEF EntryWellFormed, EntryRowsOK, s
    <2> HIDE DEF x
    <2>3. room' \in [made : BOOLEAN, entry : Policies \cup {"none"}, plain : BOOLEAN]
      BY <2>1, <2>2
    <2>4. EntryRowsOK' /\ Done(p)
      BY <1>10, <2>3 DEF WriteEntry, EntryNotes, EntryWellFormed, EntryRowsOK
    <2>5. QED
      BY <2>4, EntryEnds
  <1>11. CASE CallFails(p)
    <2>1. torn' \subseteq Request
      BY <1>0, <1>11 DEF CallFails, EntryForm, EntryWellFormed, EntryRowsOK
    <2>2. missed' \subseteq People
      BY <1>0, <1>11 DEF CallFails, EntryWellFormed, EntryRowsOK
    <2>3. EntryRowsOK' /\ Done(p)
      BY <1>11, <2>1, <2>2 DEF CallFails, EntryRows, EntryWellFormed, EntryRowsOK
    <2>4. QED
      BY <2>3, EntryEnds
  <1>12. ASSUME NEW u \in People, SeedMember(p, u) PROVE EntryWellFormed'
    <2>1. EntryRowsOK'
      BY <1>12 DEF SeedMember, EntryNotes, EntryWellFormed, EntryRowsOK
    <2>2. c.at = "seed" /\ (Done(p) \/ Goes(p, "seed", c.seen, c.list \ {u})) /\ c.list \ {u} \in SUBSET People
      BY <1>0, <1>12, Leads DEF SeedMember
    <2>3. QED
      BY <1>0, <2>1, <2>2, EntryGoes, EntryEnds
  <1>13. ASSUME NEW r \in Request, InsertRequest(p, r) PROVE EntryWellFormed'
    <2>1. request' = [request EXCEPT ![r] = [u |-> c.u, status |-> "pending"]]
      BY <1>13 DEF InsertRequest
    <2>2. request' \in [Request -> [u : People, status : {"none", "pending", "approved", "denied"}]]
      BY <1>0, <2>1 DEF EntryWellFormed, EntryRowsOK
    <2>3. EntryRowsOK' /\ Done(p)
      BY <1>13, <2>2 DEF InsertRequest, EntryNotes, EntryWellFormed, EntryRowsOK
    <2>4. QED
      BY <2>3, EntryEnds
  <1>14. QED
    BY <1>1, <1>2, <1>3, <1>4, <1>5, <1>6, <1>7, <1>8, <1>9, <1>10, <1>11, <1>12, <1>13

LEMMA EntryBeginsOrContinues ==
  ASSUME EntryWellFormed, [EntryNext]_EntryVars
  PROVE  EntryWellFormed'
  <1>1. ASSUME NEW j \in Policies, UpdateCommunity(j) PROVE EntryWellFormed'
    BY <1>1 DEF UpdateCommunity, EntryNotes, EntryWellFormed, EntryRowsOK
  <1>2. CASE UNCHANGED EntryVars
    BY <1>2 DEF EntryVars, EntryWellFormed, EntryRowsOK
  <1>3. QED
    BY <1>1, <1>2, EntryBegins, EntryContinues DEF EntryNext

LEMMA EntryStarts == EntryInit => EntryWellFormed
  <1> SUFFICES ASSUME EntryInit PROVE EntryWellFormed
    OBVIOUS
  <1>1. EntryRowsOK
    BY DEF EntryInit, EntryRowsOK, People, NoRequest, Policies
  <1>2. QED
    BY <1>1, IdleRecord, IdleForm DEF EntryInit, EntryWellFormed

(***************************************************************************)
(* Decisions.  While a call decides a request, and no other does, the      *)
(* request is pending; an approval past the member's row has let the       *)
(* person in, a denial has not; and whoever was let in by an approval is   *)
(* on its request, or on the call that will write it.                      *)
(***************************************************************************)
Deciding(c) == c.op \in {"approve", "deny"}
LetIn(c) == c.op = "approve" /\ c.at # "insert_member"

ApprovalLetsIn == \A p \in Proc : LetIn(entryCall[p]) => entryCall[p].r \in admitted

DecidedIsPending ==
  \A p \in Proc :
    Deciding(entryCall[p]) /\ entryCall[p].r \notin torn =>
      /\ request[entryCall[p].r].status = "pending"
      /\ entryCall[p].op = "deny" => entryCall[p].r \notin admitted

DecidersAreTorn ==
  \A p, q \in Proc :
    p # q /\ Deciding(entryCall[p]) /\ Deciding(entryCall[q]) /\ entryCall[p].r = entryCall[q].r
      => entryCall[p].r \in torn

AdmittedIsWritten ==
  \A r \in admitted \ torn :
    request[r].status = "approved" \/ \E p \in Proc : entryCall[p].op = "approve" /\ entryCall[p].r = r

DecisionInv ==
  EntryWellFormed /\ ApprovalLetsIn /\ DecidedIsPending /\ DecidersAreTorn /\ AdmittedIsWritten /\ DecisionIsWhatWasDone

LEMMA DecisionMoves ==
  ASSUME DecisionInv, EntryWellFormed', NEW p \in Proc, NEW d, Call(p, d),
         UNCHANGED <<request, admitted>>, torn \subseteq torn',
         \/ d.op = entryCall[p].op /\ d.r = entryCall[p].r /\ (LetIn(d) => LetIn(entryCall[p]))
         \/ ~Deciding(d) /\ (entryCall[p].op = "approve" => entryCall[p].r \in torn')
  PROVE  DecisionInv'
  <1>1. entryCall'[p] = d /\ \A q \in Proc : q # p => entryCall'[q] = entryCall[q]
    BY CallMoved DEF DecisionInv
  <1>2. ApprovalLetsIn'
    BY <1>1 DEF DecisionInv, ApprovalLetsIn, LetIn, Deciding
  <1>3. DecidedIsPending'
    BY <1>1 DEF DecisionInv, DecidedIsPending, Deciding
  <1>4. DecidersAreTorn'
    BY <1>1 DEF DecisionInv, DecidersAreTorn, Deciding
  <1>5. AdmittedIsWritten'
    BY <1>1 DEF DecisionInv, AdmittedIsWritten, Deciding
  <1>6. DecisionIsWhatWasDone'
    BY DEF DecisionInv, DecisionIsWhatWasDone
  <1>7. QED
    BY <1>2, <1>3, <1>4, <1>5, <1>6 DEF DecisionInv

LEMMA DecisionBegun ==
  ASSUME DecisionInv, EntryWellFormed', NEW p \in Proc, NEW r \in Request, NEW op \in {"approve", "deny"},
         DecideJoinRequest(p, r, op)
  PROVE  DecisionInv'
  <1> DEFINE d == Record(IF op = "approve" THEN "insert_member" ELSE "decide", op, request[r].u, r, "none", {})
  <1>1. Call(p, d) /\ d.op = op /\ d.r = r /\ ~LetIn(d)
    BY Begins DEF DecideJoinRequest, Record, LetIn
  <1> HIDE DEF d
  <1>2. entryCall'[p] = d /\ \A q \in Proc : q # p => entryCall'[q] = entryCall[q]
    BY <1>1, CallMoved DEF DecisionInv
  <1>3. /\ request[r].status = "pending" /\ UNCHANGED <<request, admitted>> /\ torn \subseteq torn'
        /\ ~Deciding(entryCall[p])
    BY DEF DecideJoinRequest, Decide, EntryRows, EntryIdle, Deciding
  <1>4. (\E q \in Proc \ {p} : Deciding(entryCall[q]) /\ entryCall[q].r = r) => r \in torn'
    BY DEF DecideJoinRequest, Decide, Others, Deciding
  <1>5. r \in admitted => r \in torn'
    <2>1. ASSUME r \in admitted, r \notin torn PROVE \E q \in Proc \ {p} : Deciding(entryCall[q]) /\ entryCall[q].r = r
      BY <1>3, <2>1 DEF DecisionInv, AdmittedIsWritten, Deciding
    <2>2. QED
      BY <1>3, <1>4, <2>1
  <1>6. ApprovalLetsIn'
    BY <1>1, <1>2, <1>3 DEF DecisionInv, ApprovalLetsIn
  <1>7. DecidedIsPending'
    BY <1>1, <1>2, <1>3, <1>5 DEF DecisionInv, DecidedIsPending
  <1>8. DecidersAreTorn'
    BY <1>1, <1>2, <1>3, <1>4 DEF DecisionInv, DecidersAreTorn
  <1>9. AdmittedIsWritten'
    BY <1>1, <1>2, <1>3 DEF DecisionInv, AdmittedIsWritten, Deciding
  <1>10. DecisionIsWhatWasDone'
    BY <1>3 DEF DecisionInv, DecisionIsWhatWasDone
  <1>11. QED
    BY <1>6, <1>7, <1>8, <1>9, <1>10 DEF DecisionInv

LEMMA DecisionAdmits ==
  ASSUME DecisionInv, EntryWellFormed', NEW p \in Proc, AddMember(p)
  PROVE  DecisionInv'
  <1> DEFINE c == entryCall[p]
  <1> DEFINE d == Record("read_policy", c.op, c.u, c.r, c.seen, c.list)
  <1>1. Call(p, d)
    BY Leads, Zenon DEF AddMember, DecisionInv, Goes
  <1>2. entryCall'[p] = d /\ d.op = c.op /\ d.r = c.r /\ \A q \in Proc : q # p => entryCall'[q] = entryCall[q]
    BY <1>1, CallMoved DEF DecisionInv, Record
  <1>3. /\ UNCHANGED <<request, torn>> /\ EntryForm(c) /\ c.at = "insert_member"
        /\ admitted' = IF c.op = "approve" THEN admitted \cup {c.r} ELSE admitted
    BY DEF AddMember, DecisionInv, EntryWellFormed
  <1> HIDE DEF d
  <1>4. ApprovalLetsIn'
    BY <1>2, <1>3 DEF DecisionInv, ApprovalLetsIn, LetIn
  <1>5. DecidedIsPending'
    <2>1. \A q \in Proc : entryCall[q].op = "deny" /\ entryCall[q].r \notin torn => q # p /\ entryCall[q].r \notin admitted'
      BY <1>3 DEF DecisionInv, DecidedIsPending, DecidersAreTorn, Deciding, EntryForm
    <2>2. QED
      BY <1>2, <1>3, <2>1 DEF DecisionInv, DecidedIsPending, Deciding
  <1>6. DecidersAreTorn'
    BY <1>2, <1>3 DEF DecisionInv, DecidersAreTorn, Deciding
  <1>7. AdmittedIsWritten'
    BY <1>2, <1>3 DEF DecisionInv, AdmittedIsWritten
  <1>8. DecisionIsWhatWasDone'
    <2>1. c.op = "approve" /\ c.r \notin torn => request[c.r].status = "pending"
      BY DEF DecisionInv, DecidedIsPending, Deciding
    <2>2. QED
      BY <1>3, <2>1 DEF DecisionInv, DecisionIsWhatWasDone
  <1>9. QED
    BY <1>4, <1>5, <1>6, <1>7, <1>8 DEF DecisionInv

LEMMA DecisionWritten ==
  ASSUME DecisionInv, EntryWellFormed', NEW p \in Proc, WriteDecision(p)
  PROVE  DecisionInv'
  <1> DEFINE c == entryCall[p]
  <1> DEFINE s == IF c.op = "approve" THEN "approved" ELSE "denied"
  <1>1. entryCall'[p] = EntryIdle /\ \A q \in Proc : q # p => entryCall'[q] = entryCall[q]
    BY CallMoved DEF WriteDecision, Done, DecisionInv
  <1>2. c \in EntryCalls /\ EntryForm(c) /\ c.at = "decide" /\ UNCHANGED <<admitted, torn>>
    BY DEF WriteDecision, EntryNotes, DecisionInv, EntryWellFormed
  <1>3. c.op \in {"approve", "deny"} /\ c.r \in Request
    BY <1>2 DEF EntryForm, EntryCalls, Seating
  <1>4. request' = [request EXCEPT ![c.r].status = s]
    BY Zenon DEF WriteDecision
  <1> HIDE DEF s
  <1>5. \A r \in Request : request'[r].status = IF r = c.r THEN s ELSE request[r].status
    BY <1>3, <1>4 DEF DecisionInv, EntryWellFormed, EntryRowsOK
  <1>6. admitted \subseteq Request /\ torn \subseteq Request /\ EntryIdle.op = "none"
    BY DEF DecisionInv, EntryWellFormed, EntryRowsOK, EntryIdle
  <1>7. ApprovalLetsIn'
    BY <1>1, <1>2, <1>6 DEF DecisionInv, ApprovalLetsIn, LetIn
  <1>8. DecidersAreTorn'
    BY <1>1, <1>2, <1>6 DEF DecisionInv, DecidersAreTorn, Deciding
  <1>9. ASSUME NEW q \in Proc, Deciding(entryCall'[q]), entryCall'[q].r \notin torn'
        PROVE  request'[entryCall'[q].r].status = "pending"
               /\ (entryCall'[q].op = "deny" => entryCall'[q].r \notin admitted')
    <2>1. q # p /\ entryCall'[q] = entryCall[q] /\ entryCall[q].r \in Request
      BY <1>1, <1>6, <1>9 DEF Deciding, DecisionInv, EntryWellFormed, EntryForm
    <2>2. entryCall[q].r # c.r
      BY <1>2, <1>3, <1>9, <2>1 DEF DecisionInv, DecidersAreTorn, Deciding
    <2>3. QED
      BY <1>2, <1>5, <1>9, <2>1, <2>2 DEF DecisionInv, DecidedIsPending
  <1>10. AdmittedIsWritten'
    <2>1. c.op = "deny" /\ c.r \notin torn => c.r \notin admitted
      BY <1>3 DEF DecisionInv, DecidedIsPending, Deciding
    <2>2. ASSUME NEW r \in admitted \ torn, request'[r].status # "approved"
          PROVE  \E q \in Proc : entryCall'[q].op = "approve" /\ entryCall'[q].r = r
      <3>1. r # c.r
        BY <1>3, <1>5, <1>6, <2>1, <2>2 DEF s
      <3>2. PICK q \in Proc : entryCall[q].op = "approve" /\ entryCall[q].r = r
        BY <1>5, <1>6, <2>2, <3>1 DEF DecisionInv, AdmittedIsWritten
      <3>3. QED
        BY <1>1, <3>1, <3>2
    <2>3. QED
      BY <1>2, <2>2 DEF AdmittedIsWritten
  <1>11. DecisionIsWhatWasDone'
    <2>1. s = "approved" => c.r \in admitted
      BY <1>2, <1>3 DEF s, DecisionInv, ApprovalLetsIn, LetIn
    <2>2. s = "denied" /\ c.r \notin torn => c.r \notin admitted
      BY <1>3 DEF s, DecisionInv, DecidedIsPending, Deciding
    <2>3. QED
      BY <1>2, <1>5, <2>1, <2>2 DEF DecisionInv, DecisionIsWhatWasDone
  <1>12. QED
    BY <1>7, <1>8, <1>9, <1>10, <1>11 DEF DecisionInv, DecidedIsPending

\* The other statements neither decide nor write a request.
LEMMA DecisionRests ==
  ASSUME DecisionInv, EntryWellFormed', NEW p \in Proc,
         \/ LookForRequest(p) \/ ReadPolicy(p) \/ ReadSpaces(p) \/ Admit(p)
         \/ PutOut(p) \/ InsertSpace(p) \/ ReadMembers(p) \/ WriteEntry(p) \/ CallFails(p)
         \/ \E u \in People : SeedMember(p, u) \/ JoinByPolicy(p, u) \/ RemovePerson(p, u)
         \/ \E e \in Policies \cup {"none"} : CreateSpace(p, e) \/ UpdateSpace(p, e)
  PROVE  DecisionInv'
  <1> DEFINE c == entryCall[p]
  <1>0. c \in EntryCalls /\ EntryForm(c) /\ EntryWellFormed
    BY DEF DecisionInv, EntryWellFormed
  <1>1. ASSUME UNCHANGED <<request, admitted>>, torn \subseteq torn', Done(p), c.op = "approve" => c.r \in torn'
        PROVE  DecisionInv'
    <2>1. ~Deciding(EntryIdle)
      BY DEF EntryIdle, Deciding
    <2>2. QED
      BY <1>1, <2>1, DecisionMoves DEF Done
  <1>2. ASSUME UNCHANGED <<request, admitted, torn>>, NEW at, NEW s, NEW l, Goes(p, at, s, l),
               c.at # "insert_member"
        PROVE  DecisionInv'
    <2> DEFINE d == Record(at, c.op, c.u, c.r, s, l)
    <2>1. Call(p, d) /\ d.op = c.op /\ d.r = c.r
      BY <1>2 DEF Goes, Record
    <2> HIDE DEF d
    <2>2. LetIn(d) => LetIn(c)
      BY <1>2, <2>1 DEF LetIn
    <2>3. QED
      BY <1>2, <2>1, <2>2, DecisionMoves
  <1>3. ASSUME UNCHANGED <<request, admitted, torn>>, NEW at, NEW o, NEW u, NEW r, NEW s, NEW l,
               Call(p, Record(at, o, u, r, s, l)), c = EntryIdle, o \in {"join", "remove", "space"}
        PROVE  DecisionInv'
    <2> DEFINE d == Record(at, o, u, r, s, l)
    <2>1. Call(p, d) /\ ~Deciding(d) /\ c.op = "none"
      BY <1>3 DEF Record, Deciding, EntryIdle
    <2> HIDE DEF d
    <2>2. QED
      BY <1>3, <2>1, DecisionMoves
  <1>4. ASSUME UNCHANGED <<request, admitted, torn>>, AfterSync(p), c.at \in {"read_spaces", "admit"}
        PROVE  DecisionInv'
    BY <1>0, <1>1, <1>2, <1>4, Leads
  <1>5. CASE LookForRequest(p)
    <2>1. UNCHANGED <<request, admitted, torn>> /\ c.at = "look" /\ (Done(p) \/ Goes(p, "insert_request", c.seen, c.list))
      BY <1>0, <1>5, Leads DEF LookForRequest, EntryRows, EntryNotes
    <2>2. c.op # "approve"
      BY <1>0, <2>1 DEF EntryForm, Seating
    <2>3. QED
      BY <1>1, <1>2, <2>1, <2>2
  <1>6. CASE ReadPolicy(p)
    <2>1. UNCHANGED <<request, admitted, torn>> /\ c.at = "read_policy"
      BY <1>6 DEF ReadPolicy, EntryRows, EntryNotes
    <2>2. Goes(p, "read_spaces", policy, c.list)
      BY <1>0, <1>6, Leads
    <2>3. QED
      BY <1>2, <2>1, <2>2
  <1>7. CASE ReadSpaces(p)
    <2>1. UNCHANGED <<request, admitted, torn>> /\ c.at = "read_spaces"
      BY <1>7 DEF ReadSpaces, EntryRows, EntryNotes
    <2>2. AfterSync(p) \/ Goes(p, "admit", "none", c.list)
      BY <1>0, <1>7, Leads
    <2>3. QED
      BY <1>2, <1>4, <2>1, <2>2
  <1>8. CASE Admit(p)
    BY <1>4, <1>8 DEF Admit, EntryNotes
  <1>9. CASE PutOut(p) \/ WriteEntry(p)
    <2>1. UNCHANGED <<request, admitted, torn>> /\ Done(p) /\ c.at \in {"put_out", "write_entry"}
      BY <1>9 DEF PutOut, WriteEntry, EntryNotes
    <2>2. c.op # "approve"
      BY <1>0, <2>1 DEF EntryForm, Seating
    <2>3. QED
      BY <1>1, <2>1, <2>2
  <1>10. CASE InsertSpace(p)
    <2>1. UNCHANGED <<request, admitted, torn>> /\ c.at = "insert_space"
      BY <1>10 DEF InsertSpace, EntryNotes
    <2>2. Goes(p, IF c.list = {} THEN "read_members" ELSE "seed", "none", c.list)
      BY <1>0, <1>10, Leads
    <2>3. QED
      BY <1>2, <2>1, <2>2
  <1>11. CASE ReadMembers(p)
    <2>1. UNCHANGED <<request, admitted, torn>> /\ c.at = "read_members"
      BY <1>11 DEF ReadMembers, EntryRows, EntryNotes
    <2>2. Goes(p, "seed", c.seen, belongs)
      BY <1>0, <1>11, Leads
    <2>3. QED
      BY <1>2, <2>1, <2>2
  <1>12. CASE CallFails(p)
    <2>1. UNCHANGED <<request, admitted>> /\ torn \subseteq torn' /\ Done(p) /\ (c.op = "approve" => c.r \in torn')
      BY <1>12 DEF CallFails, EntryRows
    <2>2. QED
      BY <1>1, <2>1
  <1>13. ASSUME NEW u \in People, SeedMember(p, u) PROVE DecisionInv'
    <2>1. UNCHANGED <<request, admitted, torn>> /\ c.at = "seed" /\ (Done(p) \/ Goes(p, "seed", c.seen, c.list \ {u}))
      BY <1>0, <1>13, Leads DEF SeedMember, EntryNotes
    <2>2. c.op # "approve"
      BY <1>0, <2>1 DEF EntryForm, Seating
    <2>3. QED
      BY <1>1, <1>2, <2>1, <2>2
  <1>14. ASSUME NEW u \in People, JoinByPolicy(p, u) PROVE DecisionInv'
    BY <1>3, <1>14, Begins DEF JoinByPolicy, EntryRows
  <1>15. ASSUME NEW u \in People, RemovePerson(p, u) PROVE DecisionInv'
    BY <1>3, <1>15, Begins DEF RemovePerson
  <1>16. ASSUME NEW e \in Policies \cup {"none"}, CreateSpace(p, e) \/ UpdateSpace(p, e) PROVE DecisionInv'
    BY <1>3, <1>16, Begins DEF CreateSpace, UpdateSpace, EntryRows, EntryNotes
  <1>17. QED
    BY <1>5, <1>6, <1>7, <1>8, <1>9, <1>10, <1>11, <1>12, <1>13, <1>14, <1>15, <1>16

LEMMA DecisionAsked ==
  ASSUME DecisionInv, EntryWellFormed', NEW p \in Proc, NEW r \in Request, InsertRequest(p, r)
  PROVE  DecisionInv'
  <1> DEFINE c == entryCall[p]
  <1>1. entryCall'[p] = EntryIdle /\ \A q \in Proc : q # p => entryCall'[q] = entryCall[q]
    BY CallMoved DEF InsertRequest, Done, DecisionInv
  <1>2. /\ UNCHANGED <<admitted, torn>> /\ request[r].status = "none" /\ c.op # "approve"
        /\ EntryIdle.op = "none" /\ admitted \subseteq Request /\ torn \subseteq Request
    BY DEF InsertRequest, EntryNotes, NoRequest, DecisionInv, EntryWellFormed, EntryRowsOK, EntryForm, Seating, EntryIdle
  <1>3. \A x \in Request : request'[x].status = IF x = r THEN "pending" ELSE request[x].status
    BY DEF InsertRequest, DecisionInv, EntryWellFormed, EntryRowsOK
  <1>4. ApprovalLetsIn' /\ DecidersAreTorn'
    BY <1>1, <1>2 DEF DecisionInv, ApprovalLetsIn, DecidersAreTorn, LetIn, Deciding
  <1>5. DecidedIsPending'
    <2>1. \A q \in Proc : Deciding(entryCall[q]) => entryCall[q].r \in Request
      BY DEF DecisionInv, EntryWellFormed, EntryForm, Deciding
    <2>2. QED
      BY <1>1, <1>2, <1>3, <2>1 DEF DecisionInv, DecidedIsPending, Deciding
  <1>6. AdmittedIsWritten'
    <2>1. \A x \in admitted \ torn : x # r
      BY <1>2 DEF DecisionInv, AdmittedIsWritten, DecidedIsPending, Deciding
    <2>2. ASSUME NEW x \in admitted \ torn, request'[x].status # "approved"
          PROVE  \E q \in Proc : entryCall'[q].op = "approve" /\ entryCall'[q].r = x
      <3>1. PICK q \in Proc : entryCall[q].op = "approve" /\ entryCall[q].r = x
        BY <1>2, <1>3, <2>1, <2>2 DEF DecisionInv, AdmittedIsWritten
      <3>2. QED
        BY <1>1, <1>2, <3>1
    <2>3. QED
      BY <1>2, <2>2 DEF AdmittedIsWritten
  <1>7. DecisionIsWhatWasDone'
    BY <1>2, <1>3 DEF DecisionInv, DecisionIsWhatWasDone
  <1>8. QED
    BY <1>4, <1>5, <1>6, <1>7 DEF DecisionInv

LEMMA DecisionStep == DecisionInv /\ [EntryNext]_EntryVars => DecisionInv'
  <1> SUFFICES ASSUME DecisionInv, [EntryNext]_EntryVars PROVE DecisionInv'
    OBVIOUS
  <1>1. EntryWellFormed'
    BY EntryBeginsOrContinues DEF DecisionInv
  <1>2. CASE UNCHANGED <<request, entryCall, admitted, torn>>
    BY <1>1, <1>2 DEF DecisionInv, ApprovalLetsIn, DecidedIsPending, DecidersAreTorn, AdmittedIsWritten, DecisionIsWhatWasDone
  <1>3. ASSUME NEW j \in Policies, UpdateCommunity(j) PROVE UNCHANGED <<request, entryCall, admitted, torn>>
    BY <1>3 DEF UpdateCommunity, EntryNotes
  <1>4. UNCHANGED EntryVars => UNCHANGED <<request, entryCall, admitted, torn>>
    BY DEF EntryVars
  <1>5. QED
    BY <1>1, <1>2, <1>3, <1>4, DecisionBegun, DecisionAdmits, DecisionWritten, DecisionRests, DecisionAsked DEF EntryNext

\* What a request says was decided is what was done: the approved let the person
\* in and the denied did not, although decideJoinRequest lets the person in
\* first and writes the row last; but for a request two calls decide at a time
\* or one fails to.
THEOREM DecisionIsWhatWasDoneHolds == EntrySpec => []DecisionIsWhatWasDone
  <1>1. EntryInit => DecisionInv
    <2> SUFFICES ASSUME EntryInit PROVE DecisionInv
      OBVIOUS
    <2>1. \A p \in Proc : entryCall[p].op = "none"
      BY DEF EntryInit, EntryIdle
    <2>2. admitted = {} /\ \A r \in Request : request[r].status = "none"
      BY DEF EntryInit, NoRequest
    <2>3. QED
      BY <2>1, <2>2, EntryStarts DEF DecisionInv, ApprovalLetsIn, DecidedIsPending, DecidersAreTorn,
                                     AdmittedIsWritten, DecisionIsWhatWasDone, LetIn, Deciding
  <1>2. DecisionInv => DecisionIsWhatWasDone
    BY DEF DecisionInv
  <1>3. QED
    BY <1>1, <1>2, DecisionStep, PTL DEF EntrySpec

(***************************************************************************)
(* The plain space.  A member not in its conversation is carried there by  *)
(* a call: the admission that has inserted the member, or the creation of  *)
(* the space, which has yet to read the members or has read this one.  A   *)
(* removal on its way to the conversation meets nobody on the way back,    *)
(* but for the missed.                                                     *)
(***************************************************************************)
Incoming(c) == c.op \in {"join", "approve"} /\ c.at \in Seating
Carries(c, u) ==
  \/ c.u = u /\ c.at \in {"read_policy", "read_spaces", "admit"}
  \/ c.at = "read_members"
  \/ c.at = "seed" /\ u \in c.list

PlainIsOpen == room.plain => room.made /\ room.entry = "none"

MembersAreCarried ==
  room.plain => \A u \in belongs : u \in inRoom \cup missed \/ \E p \in Proc : Carries(entryCall[p], u)

PutOutIsGone ==
  \A p \in Proc : entryCall[p].at = "put_out" /\ entryCall[p].u \in belongs => entryCall[p].u \in missed

ReturningIsMissed ==
  \A p, q \in Proc :
    entryCall[p].at = "put_out" /\ Incoming(entryCall[q]) /\ entryCall[q].u = entryCall[p].u
      => entryCall[p].u \in missed

PlainInv == EntryWellFormed /\ PlainIsOpen /\ MembersAreCarried /\ PutOutIsGone /\ ReturningIsMissed

LEMMA RemovalIsAtPutOut ==
  ASSUME EntryWellFormed, NEW p \in Proc
  PROVE  /\ entryCall[p] \in EntryCalls /\ EntryForm(entryCall[p])
         /\ entryCall[p].at = "put_out" => entryCall[p].op = "remove"
         /\ entryCall[p].at \in Seating => Incoming(entryCall[p])
  <1>1. entryCall[p] \in EntryCalls /\ EntryForm(entryCall[p])
    BY DEF EntryWellFormed
  <1>2. QED
    BY <1>1 DEF EntryForm, EntryCalls, Seating, Incoming

\* A call that goes on to no row of its own.
LEMMA PlainMoves ==
  ASSUME PlainInv, EntryWellFormed', NEW p \in Proc, NEW d, Call(p, d),
         belongs' = belongs, inRoom \subseteq inRoom', missed \subseteq missed', room' = room \/ ~room'.plain,
         d.at # "put_out",
         Incoming(d) => Incoming(entryCall[p]) /\ d.u = entryCall[p].u,
         \A u \in belongs : room.plain /\ Carries(entryCall[p], u) => u \in inRoom' \cup missed' \/ Carries(d, u)
  PROVE  PlainInv'
  <1>1. entryCall'[p] = d /\ \A q \in Proc : q # p => entryCall'[q] = entryCall[q]
    BY CallMoved DEF PlainInv
  <1>2. PlainIsOpen'
    BY DEF PlainInv, PlainIsOpen
  <1>3. MembersAreCarried'
    <2> SUFFICES ASSUME room' = room, room.plain, NEW u \in belongs, u \notin inRoom' \cup missed'
                 PROVE  \E q \in Proc : Carries(entryCall'[q], u)
      BY DEF MembersAreCarried, Carries
    <2>1. PICK q \in Proc : Carries(entryCall[q], u)
      BY DEF PlainInv, MembersAreCarried
    <2>2. CASE q = p
      BY <1>1, <2>1, <2>2
    <2>3. CASE q # p
      BY <1>1, <2>1, <2>3
    <2>4. QED
      BY <2>2, <2>3
  <1>4. PutOutIsGone'
    BY <1>1 DEF PlainInv, PutOutIsGone
  <1>5. ASSUME NEW q \in Proc, NEW x \in Proc, entryCall'[q].at = "put_out", Incoming(entryCall'[x]),
               entryCall'[x].u = entryCall'[q].u
        PROVE  entryCall'[q].u \in missed'
    <2>1. q # p /\ entryCall'[q] = entryCall[q] /\ Incoming(entryCall[x]) /\ entryCall[x].u = entryCall'[x].u
      BY <1>1, <1>5
    <2>2. QED
      BY <1>5, <2>1 DEF PlainInv, ReturningIsMissed
  <1>6. ReturningIsMissed'
    BY <1>5 DEF ReturningIsMissed, Incoming
  <1>7. QED
    BY <1>2, <1>3, <1>4, <1>6 DEF PlainInv

\* A call sets out to admit somebody: one whose removal is under way is missed.
LEMMA PlainEnters ==
  ASSUME PlainInv, EntryWellFormed', NEW p \in Proc, NEW d, Call(p, d), entryCall[p] = EntryIdle,
         UNCHANGED <<belongs, inRoom, room>>,
         d.at \notin {"put_out", "read_policy", "read_spaces", "admit", "read_members", "seed"},
         missed' = IF Meets(p, d.u, {"remove"}) THEN missed \cup {d.u} ELSE missed
  PROVE  PlainInv'
  <1>1. entryCall'[p] = d /\ \A q \in Proc : q # p => entryCall'[q] = entryCall[q]
    BY CallMoved DEF PlainInv
  <1>2. \A u : ~Carries(EntryIdle, u)
    BY DEF Carries, EntryIdle
  <1>3. missed \subseteq missed'
    OBVIOUS
  <1>4. PlainIsOpen'
    BY DEF PlainInv, PlainIsOpen
  <1>5. MembersAreCarried'
    BY <1>1, <1>2, <1>3 DEF PlainInv, MembersAreCarried
  <1>6. PutOutIsGone'
    BY <1>1, <1>3 DEF PlainInv, PutOutIsGone
  <1>7. ASSUME NEW q \in Proc, q # p, entryCall[q].at = "put_out", entryCall[q].u = d.u PROVE d.u \in missed'
    <2>1. entryCall[q].op = "remove"
      BY <1>7, RemovalIsAtPutOut DEF PlainInv
    <2>2. Meets(p, d.u, {"remove"})
      BY <1>7, <2>1 DEF Meets, Others
    <2>3. QED
      BY <2>2
  <1>8. ReturningIsMissed'
    <2> SUFFICES ASSUME NEW q \in Proc, NEW x \in Proc, entryCall'[q].at = "put_out", Incoming(entryCall'[x]),
                        entryCall'[x].u = entryCall'[q].u
                 PROVE  entryCall'[q].u \in missed'
      BY DEF ReturningIsMissed, Incoming
    <2>1. q # p /\ entryCall'[q] = entryCall[q]
      BY <1>1
    <2>2. CASE x = p
      BY <1>1, <1>7, <2>1, <2>2
    <2>3. CASE x # p
      BY <1>1, <1>3, <2>1, <2>3 DEF PlainInv, ReturningIsMissed
    <2>4. QED
      BY <2>2, <2>3
  <1>9. QED
    BY <1>4, <1>5, <1>6, <1>8 DEF PlainInv

LEMMA PlainAdmits ==
  ASSUME PlainInv, EntryWellFormed', NEW p \in Proc, AddMember(p)
  PROVE  PlainInv'
  <1> DEFINE c == entryCall[p]
  <1> DEFINE d == Record("read_policy", c.op, c.u, c.r, c.seen, c.list)
  <1>1. Call(p, d)
    BY Leads, Zenon DEF AddMember, PlainInv, Goes
  <1>2. /\ entryCall'[p] = d /\ d.at = "read_policy" /\ d.u = c.u /\ d.op = c.op
        /\ \A q \in Proc : q # p => entryCall'[q] = entryCall[q]
    BY <1>1, CallMoved DEF PlainInv, Record
  <1> HIDE DEF d
  <1>3. /\ UNCHANGED <<room, inRoom, missed>> /\ belongs' = belongs \cup {c.u} /\ c.at = "insert_member"
        /\ Incoming(c)
    BY RemovalIsAtPutOut DEF AddMember, PlainInv, Seating
  <1>4. PlainIsOpen'
    BY <1>3 DEF PlainInv, PlainIsOpen
  <1>5. MembersAreCarried'
    <2>1. \A u : ~Carries(c, u)
      BY <1>3 DEF Carries
    <2>2. Carries(d, c.u)
      BY <1>2 DEF Carries
    <2>3. \A u \in belongs : (\E q \in Proc : Carries(entryCall[q], u)) => \E q \in Proc : Carries(entryCall'[q], u)
      BY <1>2, <2>1
    <2>4. \E q \in Proc : Carries(entryCall'[q], c.u)
      BY <1>2, <2>2
    <2>5. QED
      BY <1>3, <2>3, <2>4 DEF PlainInv, MembersAreCarried
  <1>6. \A q \in Proc : entryCall'[q].at = "put_out" => q # p /\ entryCall'[q] = entryCall[q]
    BY <1>2
  <1>7. PutOutIsGone'
    BY <1>2, <1>3, <1>6 DEF PlainInv, PutOutIsGone, ReturningIsMissed
  <1>8. ReturningIsMissed'
    <2>1. \A q \in Proc : Incoming(entryCall'[q]) => Incoming(entryCall[q]) /\ entryCall'[q].u = entryCall[q].u
      BY <1>2, <1>3
    <2>2. QED
      BY <1>3, <1>6, <2>1 DEF PlainInv, ReturningIsMissed, Incoming
  <1>9. QED
    BY <1>4, <1>5, <1>7, <1>8 DEF PlainInv

LEMMA PlainRemoves ==
  ASSUME PlainInv, EntryWellFormed', NEW p \in Proc, NEW u \in People, RemovePerson(p, u)
  PROVE  PlainInv'
  <1> DEFINE d == Record("put_out", "remove", u, "none", "none", {})
  <1>1. Call(p, d)
    BY Begins
  <1>2. /\ entryCall'[p] = d /\ d.at = "put_out" /\ d.u = u /\ d.op = "remove"
        /\ \A q \in Proc : q # p => entryCall'[q] = entryCall[q]
    BY <1>1, CallMoved DEF PlainInv, Record
  <1> HIDE DEF d
  <1>3. /\ UNCHANGED <<room, inRoom>> /\ belongs' = belongs \ {u} /\ entryCall[p].at = "idle"
        /\ missed' = IF Meets(p, u, {"join", "approve", "remove"}) THEN missed \cup {u} ELSE missed \ {u}
    BY DEF RemovePerson, EntryIdle
  <1>4. \A x : x # u /\ x \in missed => x \in missed'
    BY <1>3
  <1>5. PlainIsOpen'
    BY <1>3 DEF PlainInv, PlainIsOpen
  <1>6. MembersAreCarried'
    <2>1. \A x : ~Carries(entryCall[p], x)
      BY <1>3 DEF Carries
    <2>2. \A x : (\E q \in Proc : Carries(entryCall[q], x)) => \E q \in Proc : Carries(entryCall'[q], x)
      BY <1>2, <2>1
    <2>3. QED
      BY <1>3, <1>4, <2>2 DEF PlainInv, MembersAreCarried
  <1>7. PutOutIsGone'
    BY <1>2, <1>3, <1>4 DEF PlainInv, PutOutIsGone
  <1>8. ASSUME NEW q \in Proc, q # p, entryCall[q].u = u, Incoming(entryCall[q]) PROVE u \in missed'
    <2>1. Meets(p, u, {"join", "approve", "remove"})
      BY <1>8 DEF Meets, Others, Incoming
    <2>2. QED
      BY <1>3, <2>1
  <1>9. ReturningIsMissed'
    <2> SUFFICES ASSUME NEW q \in Proc, NEW x \in Proc, entryCall'[q].at = "put_out", Incoming(entryCall'[x]),
                        entryCall'[x].u = entryCall'[q].u
                 PROVE  entryCall'[q].u \in missed'
      BY DEF ReturningIsMissed, Incoming
    <2>1. x # p /\ entryCall'[x] = entryCall[x]
      BY <1>2 DEF Incoming
    <2>2. CASE entryCall[x].u = u
      BY <1>8, <2>1, <2>2
    <2>3. CASE entryCall[x].u # u
      BY <1>2, <1>4, <2>1, <2>3 DEF PlainInv, ReturningIsMissed
    <2>4. QED
      BY <2>2, <2>3
  <1>10. QED
    BY <1>5, <1>6, <1>7, <1>9 DEF PlainInv

LEMMA PlainPutsOut ==
  ASSUME PlainInv, EntryWellFormed', NEW p \in Proc, PutOut(p)
  PROVE  PlainInv'
  <1> DEFINE c == entryCall[p]
  <1>1. entryCall'[p] = EntryIdle /\ \A q \in Proc : q # p => entryCall'[q] = entryCall[q]
    BY CallMoved DEF PutOut, Done, PlainInv
  <1>2. /\ UNCHANGED <<room, belongs, missed>> /\ inRoom' = inRoom \ {c.u} /\ c.at = "put_out"
        /\ EntryIdle.at = "idle" /\ ~Incoming(EntryIdle)
    BY DEF PutOut, EntryNotes, EntryIdle, Incoming
  <1>3. PlainIsOpen'
    BY <1>2 DEF PlainInv, PlainIsOpen
  <1>4. MembersAreCarried'
    <2>1. \A u : ~Carries(c, u)
      BY <1>2 DEF Carries
    <2>2. \A u : (\E q \in Proc : Carries(entryCall[q], u)) => \E q \in Proc : Carries(entryCall'[q], u)
      BY <1>1, <2>1
    <2>3. c.u \in belongs => c.u \in missed
      BY <1>2 DEF PlainInv, PutOutIsGone
    <2>4. QED
      BY <1>2, <2>2, <2>3 DEF PlainInv, MembersAreCarried
  <1>5. PutOutIsGone' /\ ReturningIsMissed'
    BY <1>1, <1>2 DEF PlainInv, PutOutIsGone, ReturningIsMissed
  <1>6. QED
    BY <1>3, <1>4, <1>5 DEF PlainInv

\* The space is there: a plain one has all its members yet to read.
LEMMA PlainIsMade ==
  ASSUME PlainInv, EntryWellFormed', NEW p \in Proc, InsertSpace(p)
  PROVE  PlainInv'
  <1> DEFINE c == entryCall[p]
  <1> DEFINE at == IF c.list = {} THEN "read_members" ELSE "seed"
  <1> DEFINE d == Record(at, c.op, c.u, c.r, "none", c.list)
  <1>1. Call(p, d)
    BY Leads DEF PlainInv, Goes
  <1>2. entryCall'[p] = d /\ d.at = at /\ d.op = c.op /\ \A q \in Proc : q # p => entryCall'[q] = entryCall[q]
    BY <1>1, CallMoved DEF PlainInv, Record
  <1>3. /\ UNCHANGED <<belongs, inRoom, missed>> /\ c.at = "insert_space" /\ EntryForm(c)
        /\ room' = [made |-> TRUE, entry |-> c.seen, plain |-> c.seen = "none"]
    BY DEF InsertSpace, EntryNotes, PlainInv, EntryWellFormed
  <1>4. room'.plain => c.seen = "none" /\ c.list = {}
    BY <1>3 DEF EntryForm
  <1>5. PlainIsOpen'
    BY <1>3 DEF PlainIsOpen
  <1>6. room'.plain => d.at = "read_members"
    BY <1>2, <1>4
  <1>7. d.at # "put_out" /\ d.at \notin Seating
    BY <1>2 DEF Seating
  <1> HIDE DEF d, at
  <1>8. MembersAreCarried'
    <2>1. room'.plain => \A u \in belongs : Carries(entryCall'[p], u)
      BY <1>2, <1>6 DEF Carries
    <2>2. QED
      BY <1>3, <2>1 DEF MembersAreCarried
  <1>9. PutOutIsGone' /\ ReturningIsMissed'
    BY <1>2, <1>3, <1>7 DEF PlainInv, PutOutIsGone, ReturningIsMissed, Incoming
  <1>10. QED
    BY <1>5, <1>8, <1>9 DEF PlainInv

LEMMA PlainRests ==
  ASSUME PlainInv, EntryWellFormed', NEW p \in Proc,
         \/ LookForRequest(p) \/ ReadPolicy(p) \/ ReadSpaces(p) \/ Admit(p) \/ WriteDecision(p)
         \/ ReadMembers(p) \/ WriteEntry(p) \/ CallFails(p)
         \/ \E u \in People : SeedMember(p, u) \/ JoinByPolicy(p, u)
         \/ \E r \in Request : InsertRequest(p, r) \/ \E op \in {"approve", "deny"} : DecideJoinRequest(p, r, op)
         \/ \E e \in Policies \cup {"none"} : CreateSpace(p, e) \/ UpdateSpace(p, e)
  PROVE  PlainInv'
  <1> DEFINE c == entryCall[p]
  <1> DEFINE Kept == belongs' = belongs /\ inRoom \subseteq inRoom' /\ missed \subseteq missed' /\ (room' = room \/ ~room'.plain)
  <1>0. c \in EntryCalls /\ EntryForm(c) /\ EntryWellFormed /\ belongs \subseteq People
    BY DEF PlainInv, EntryWellFormed, EntryRowsOK
  <1>1. ASSUME Kept, Done(p), \A u \in belongs : Carries(c, u) => u \in inRoom' \cup missed'
        PROVE  PlainInv'
    <2>1. EntryIdle.at = "idle" /\ ~Incoming(EntryIdle)
      BY DEF EntryIdle, Incoming
    <2>2. QED
      BY <1>1, <2>1, PlainMoves DEF Done
  <1>2. ASSUME Kept, NEW at, NEW s, NEW l, Goes(p, at, s, l), at # "put_out", at \in Seating => c.at \in Seating,
               \A u \in belongs : room.plain /\ Carries(c, u) =>
                 \/ u \in inRoom' \cup missed'
                 \/ c.u = u /\ at \in {"read_policy", "read_spaces", "admit"}
                 \/ at = "seed" /\ u \in l
        PROVE  PlainInv'
    <2> DEFINE d == Record(at, c.op, c.u, c.r, s, l)
    <2>1. Call(p, d) /\ d.op = c.op /\ d.u = c.u /\ d.at = at /\ d.list = l
      BY <1>2 DEF Goes, Record
    <2> HIDE DEF d
    <2>2. Incoming(d) => Incoming(c)
      BY <1>2, <2>1 DEF Incoming
    <2>3. \A u \in belongs : room.plain /\ Carries(c, u) => u \in inRoom' \cup missed' \/ Carries(d, u)
      BY <1>2, <2>1 DEF Carries
    <2>4. QED
      BY <1>2, <2>1, <2>2, <2>3, PlainMoves
  <1>3. ASSUME Kept, AfterSync(p), \A u \in belongs : room.plain /\ Carries(c, u) => u \in inRoom' \cup missed'
        PROVE  PlainInv'
    <2>1. CASE c.op = "approve"
      <3>1. Goes(p, "decide", "none", c.list)
        BY <1>0, <1>3, <2>1, Leads
      <3>2. QED
        BY <1>2, <1>3, <3>1 DEF Seating
    <2>2. CASE c.op # "approve"
      <3>1. Done(p)
        BY <1>0, <1>3, <2>2, Leads
      <3>2. EntryIdle.at = "idle" /\ ~Incoming(EntryIdle)
        BY DEF EntryIdle, Incoming
      <3>3. QED
        BY <1>3, <3>1, <3>2, PlainMoves DEF Done
    <2>3. QED
      BY <2>1, <2>2
  <1>4. CASE LookForRequest(p)
    <2>1. Kept /\ c.at = "look" /\ (Done(p) \/ Goes(p, "insert_request", c.seen, c.list))
      BY <1>0, <1>4, Leads DEF LookForRequest, EntryRows, EntryNotes
    <2>2. \A u : ~Carries(c, u)
      BY <2>1 DEF Carries
    <2>3. QED
      BY <1>1, <1>2, <2>1, <2>2 DEF Seating
  <1>5. CASE ReadPolicy(p)
    <2>1. Kept /\ c.at = "read_policy"
      BY <1>5 DEF ReadPolicy, EntryRows, EntryNotes
    <2>2. Goes(p, "read_spaces", policy, c.list)
      BY <1>0, <1>5, Leads
    <2>3. \A u \in belongs : Carries(c, u) => c.u = u
      BY <2>1 DEF Carries
    <2>4. QED
      BY <1>2, <2>1, <2>2, <2>3 DEF Seating
  <1>6. CASE ReadSpaces(p)
    <2>1. Kept /\ c.at = "read_spaces"
      BY <1>6 DEF ReadSpaces, EntryRows, EntryNotes
    <2>2. \A u \in belongs : Carries(c, u) => c.u = u
      BY <2>1 DEF Carries
    <2>3. room.plain => room.made /\ ~Stricter(c.seen, room.entry)
      BY DEF PlainInv, PlainIsOpen, Stricter
    <2>4. CASE room.made /\ ~Stricter(c.seen, room.entry)
      <3>1. Goes(p, "admit", "none", c.list)
        BY <1>0, <1>6, <2>4, Leads
      <3>2. QED
        BY <1>2, <2>1, <2>2, <3>1 DEF Seating
    <2>5. CASE ~(room.made /\ ~Stricter(c.seen, room.entry))
      <3>1. AfterSync(p)
        BY <1>0, <1>6, <2>5, Leads
      <3>2. QED
        BY <1>3, <2>1, <2>3, <2>5, <3>1
    <2>6. QED
      BY <2>4, <2>5
  <1>7. CASE Admit(p)
    <2>1. Kept /\ AfterSync(p) /\ c.at = "admit" /\ c.u \in inRoom'
      BY <1>7 DEF Admit, EntryNotes
    <2>2. \A u \in belongs : Carries(c, u) => u \in inRoom'
      BY <2>1 DEF Carries
    <2>3. QED
      BY <1>3, <2>1, <2>2
  <1>8. CASE WriteDecision(p) \/ WriteEntry(p)
    <2>1. Kept /\ Done(p) /\ c.at \in {"decide", "write_entry"}
      BY <1>0, <1>8 DEF WriteDecision, WriteEntry, EntryNotes, EntryWellFormed, EntryRowsOK
    <2>2. \A u : ~Carries(c, u)
      BY <2>1 DEF Carries
    <2>3. QED
      BY <1>1, <2>1, <2>2
  <1>9. CASE ReadMembers(p)
    <2>1. Kept /\ c.at = "read_members"
      BY <1>9 DEF ReadMembers, EntryRows, EntryNotes
    <2>2. Goes(p, "seed", c.seen, belongs)
      BY <1>0, <1>9, Leads
    <2>3. QED
      BY <1>2, <2>1, <2>2 DEF Seating
  <1>10. CASE CallFails(p)
    <2>1. Done(p) /\ UNCHANGED <<room, belongs, inRoom>>
      BY <1>10 DEF CallFails, EntryRows
    <2>2. missed' = CASE c.at \in {"read_policy", "read_spaces", "admit"} -> missed \cup {c.u}
                      [] c.at \in {"read_members", "seed"} -> People
                      [] OTHER -> missed
      BY <1>10 DEF CallFails
    <2>3. missed \subseteq People
      BY <1>0 DEF EntryWellFormed, EntryRowsOK
    <2>4. missed \subseteq missed'
      BY <2>2, <2>3
    <2>5. \A u \in belongs : Carries(c, u) => u \in missed'
      BY <1>0, <2>2 DEF Carries
    <2>6. QED
      BY <1>1, <2>1, <2>4, <2>5
  <1>11. ASSUME NEW u \in People, SeedMember(p, u) PROVE PlainInv'
    <2>1. Kept /\ c.at = "seed" /\ u \in inRoom'
      BY <1>11 DEF SeedMember, EntryNotes
    <2>2. IF c.list = {u} THEN Done(p) ELSE Goes(p, "seed", c.seen, c.list \ {u})
      BY <1>0, <1>11, Leads
    <2>3. \A x \in belongs : Carries(c, x) => x \in inRoom' \/ x \in c.list \ {u}
      BY <2>1 DEF Carries
    <2>4. CASE c.list = {u}
      BY <1>1, <2>1, <2>2, <2>3, <2>4
    <2>5. CASE c.list # {u}
      BY <1>2, <2>1, <2>2, <2>3, <2>5 DEF Seating
    <2>6. QED
      BY <2>4, <2>5
  <1>12. ASSUME NEW u \in People, JoinByPolicy(p, u) PROVE PlainInv'
    <2> DEFINE d == Record(IF policy = "open" THEN "insert_member" ELSE "look", "join", u, "none", "none", {})
    <2>1. Call(p, d) /\ d.u = u /\ d.at \in {"insert_member", "look"}
      BY <1>12, Begins DEF Record
    <2> HIDE DEF d
    <2>2. /\ UNCHANGED <<belongs, inRoom, room>> /\ c = EntryIdle
          /\ missed' = IF Meets(p, u, {"remove"}) THEN missed \cup {u} ELSE missed
      BY <1>12 DEF JoinByPolicy, EntryRows
    <2>3. QED
      BY <2>1, <2>2, PlainEnters
  <1>13. ASSUME NEW r \in Request, InsertRequest(p, r) PROVE PlainInv'
    <2>1. Kept /\ Done(p) /\ c.at = "insert_request"
      BY <1>13 DEF InsertRequest, EntryNotes
    <2>2. \A u : ~Carries(c, u)
      BY <2>1 DEF Carries
    <2>3. QED
      BY <1>1, <2>1, <2>2
  <1>14. ASSUME NEW r \in Request, NEW op \in {"approve", "deny"}, DecideJoinRequest(p, r, op) PROVE PlainInv'
    <2> DEFINE d == Record(IF op = "approve" THEN "insert_member" ELSE "decide", op, request[r].u, r, "none", {})
    <2>1. Call(p, d) /\ d.u = request[r].u /\ d.at \in {"insert_member", "decide"}
      BY <1>14, Begins DEF DecideJoinRequest, Record
    <2> HIDE DEF d
    <2>2. /\ UNCHANGED <<belongs, inRoom, room>> /\ c = EntryIdle
          /\ missed' = IF Meets(p, request[r].u, {"remove"}) THEN missed \cup {request[r].u} ELSE missed
      BY <1>14 DEF DecideJoinRequest, Decide, EntryRows
    <2>3. QED
      BY <2>1, <2>2, PlainEnters
  <1>15. ASSUME NEW e \in Policies \cup {"none"}, CreateSpace(p, e) \/ UpdateSpace(p, e) PROVE PlainInv'
    <2>1. Kept /\ c = EntryIdle
      BY <1>15 DEF CreateSpace, UpdateSpace, EntryRows, EntryNotes
    <2>2. \A u : ~Carries(c, u)
      BY <2>1 DEF Carries, EntryIdle
    <2>3. ASSUME NEW at \in {"insert_space", "write_entry"}, NEW l, Call(p, Record(at, "space", Founder, "none", e, l))
          PROVE  PlainInv'
      <3> DEFINE d == Record(at, "space", Founder, "none", e, l)
      <3>1. Call(p, d) /\ d.at # "put_out" /\ ~Incoming(d)
        BY <2>3 DEF Record, Incoming
      <3> HIDE DEF d
      <3>2. QED
        BY <2>1, <2>2, <3>1, PlainMoves
    <2>4. QED
      BY <1>15, <2>3, Begins
  <1>16. QED
    BY <1>4, <1>5, <1>6, <1>7, <1>8, <1>9, <1>10, <1>11, <1>12, <1>13, <1>14, <1>15

LEMMA PlainStep == PlainInv /\ [EntryNext]_EntryVars => PlainInv'
  <1> SUFFICES ASSUME PlainInv, [EntryNext]_EntryVars PROVE PlainInv'
    OBVIOUS
  <1>1. EntryWellFormed'
    BY EntryBeginsOrContinues DEF PlainInv
  <1>2. CASE UNCHANGED <<room, belongs, inRoom, entryCall, missed>>
    BY <1>1, <1>2 DEF PlainInv, PlainIsOpen, MembersAreCarried, PutOutIsGone, ReturningIsMissed, Carries, Incoming
  <1>3. ASSUME NEW j \in Policies, UpdateCommunity(j) PROVE UNCHANGED <<room, belongs, inRoom, entryCall, missed>>
    BY <1>3 DEF UpdateCommunity, EntryNotes
  <1>4. UNCHANGED EntryVars => UNCHANGED <<room, belongs, inRoom, entryCall, missed>>
    BY DEF EntryVars
  <1>5. QED
    BY <1>1, <1>2, <1>3, <1>4, PlainAdmits, PlainRemoves, PlainPutsOut, PlainIsMade, PlainRests DEF EntryNext

\* A space that asks nothing of its own has every member of the community in it
\* once nothing is under way: whoever joins while createSpace fills it is found
\* by the one or finds the other, but for those whose admission failed or met
\* their own removal.
THEOREM PlainSpaceHasEveryMemberHolds == EntrySpec => []PlainSpaceHasEveryMember
  <1>1. EntryInit => PlainInv
    <2> SUFFICES ASSUME EntryInit PROVE PlainInv
      OBVIOUS
    <2>1. ~room.plain /\ \A p \in Proc : entryCall[p].at = "idle"
      BY DEF EntryInit, EntryIdle
    <2>2. QED
      BY <2>1, EntryStarts DEF PlainInv, PlainIsOpen, MembersAreCarried, PutOutIsGone, ReturningIsMissed
  <1>2. PlainInv => PlainSpaceHasEveryMember
    <2>1. \A u : ~Carries(EntryIdle, u)
      BY DEF Carries, EntryIdle
    <2>2. QED
      BY <2>1 DEF PlainInv, MembersAreCarried, PlainSpaceHasEveryMember
  <1>3. QED
    BY <1>1, <1>2, PlainStep, PTL DEF EntrySpec

\* Every variable of the entry component keeps its kind.
THEOREM EntryTypeCorrect == EntrySpec => []EntryTypeOK
  <1>1. EntryWellFormed => EntryTypeOK
    BY DEF EntryWellFormed, EntryRowsOK, EntryTypeOK
  <1>2. EntryWellFormed /\ [EntryNext]_EntryVars => EntryWellFormed'
    BY EntryBeginsOrContinues
  <1>3. QED
    BY <1>1, <1>2, EntryStarts, PTL DEF EntrySpec
==============================================================================
