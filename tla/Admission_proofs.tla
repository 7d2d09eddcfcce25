--------------------------- MODULE Admission_proofs ---------------------------
(***************************************************************************)
(* Proofs about Attendance, for any people, seats and calls: the cap on    *)
(* attendees, the seats and the raised hands; and about SignIn, for any    *)
(* addresses, identities, links and calls: every account keeps a way in.   *)
(* Then the types of these, and of the sessions, in the run that checks    *)
(* them together.                                                          *)
(***************************************************************************)
EXTENDS MCAdmission, AuthSessions_proofs, FiniteSetTheorems, TLAPS

(***************************************************************************)
(* The cap.  A call past the check is counted with the seats that are      *)
(* taken; together they exceed the ceiling by less than the number of      *)
(* calls, and no call compares with a cap above the ceiling.               *)
(***************************************************************************)
\* The calls that were told there is room and have not taken their seat.
Admitted == {p \in Proc : seatCall[p].at \in {"rejoin", "insert"} /\ seatCall[p].cap # 0}

Room == ceiling + Cardinality(Proc) - 1

CapsKeepTo ==
  /\ cap <= ceiling
  /\ \A p \in Proc : seatCall[p].at = "count" => seatCall[p].cap <= ceiling

SeatInv ==
  /\ SeatTypeOK
  /\ CapsKeepTo
  /\ Cardinality(Counted) + Cardinality(Admitted) <= Room

\* The sets counted are finite and no larger than what they are taken from.
LEMMA Finite ==
  /\ IsFiniteSet(Taken) /\ Cardinality(Taken) \in Nat
  /\ IsFiniteSet(Counted) /\ Cardinality(Counted) \in Nat /\ Cardinality(Counted) <= Cardinality(Taken)
  /\ IsFiniteSet(Admitted) /\ Cardinality(Admitted) \in Nat
  /\ Cardinality(Admitted) <= Cardinality(Proc)
  /\ Cardinality(Proc) \in Nat \ {0}
<1>1. IsFiniteSet(Proc) /\ IsFiniteSet(Seat) /\ Proc # {}
  BY AttendanceAssumption
<1>2. Taken \subseteq Seat /\ Counted \subseteq Taken /\ Admitted \subseteq Proc
  BY DEF Taken, Counted, Admitted
<1>3. IsFiniteSet(Taken) /\ Cardinality(Taken) \in Nat
  BY <1>1, <1>2, FS_Subset, FS_CardinalityType
<1>4. IsFiniteSet(Counted) /\ Cardinality(Counted) \in Nat /\ Cardinality(Counted) <= Cardinality(Taken)
  BY <1>2, <1>3, FS_Subset, FS_CardinalityType
<1>5. IsFiniteSet(Admitted) /\ Cardinality(Admitted) \in Nat /\ Cardinality(Admitted) <= Cardinality(Proc)
  BY <1>1, <1>2, FS_Subset, FS_CardinalityType
<1>6. Cardinality(Proc) \in Nat /\ Cardinality(Proc) # 0
  BY <1>1, FS_CardinalityType, FS_EmptySet
<1> QED  BY <1>3, <1>4, <1>5, <1>6

\* Caps are positive numbers.
LEMMA CapsAreNumbers == SeatTypeOK => cap \in Nat \ {0} /\ ceiling \in Nat \ {0}
  BY AttendanceAssumption DEF SeatTypeOK

\* The variables keep their kinds.
LEMMA TypeInit == SeatInit => SeatTypeOK
<1> SUFFICES ASSUME SeatInit PROVE SeatTypeOK
  OBVIOUS
<1>1. seat \in [Seat -> Seats]
  BY CallersAssumption DEF SeatInit, NoSeat, Seats
<1>2. seatCall \in [Proc -> Joins \cup Hands \cup {SeatIdle}]
  BY DEF SeatInit
<1>3. over \in BOOLEAN
  BY Zenon DEF SeatInit
<1>5. cap \in Caps /\ ceiling \in Caps /\ uncounted \subseteq Seat
  BY DEF SeatInit
<1>4. guests \subseteq User \ {Founder} /\ asking \subseteq User /\ doubled \subseteq User /\ tangled \subseteq User
  BY DEF SeatInit
<1> QED  BY <1>1, <1>2, <1>3, <1>4, <1>5 DEF SeatTypeOK

LEMMA TypeStep == SeatTypeOK /\ [SeatNext]_SeatVars => SeatTypeOK'
<1> SUFFICES ASSUME SeatTypeOK, [SeatNext]_SeatVars PROVE SeatTypeOK'
  OBVIOUS
<1> USE CallersAssumption DEF SeatTypeOK, house
<1>1. NoSeat \in Seats
  BY DEF NoSeat, Seats
<1>2. CASE PresentationEnds \/ StartPresentation
  <2>1. over' \in BOOLEAN
    BY <1>2 DEF PresentationEnds, StartPresentation
  <2> QED  BY <1>2, <2>1 DEF PresentationEnds, StartPresentation
<1>13. ASSUME NEW c \in Caps, UpdatePresentation(c) PROVE SeatTypeOK'
  BY <1>13 DEF UpdatePresentation
<1>3. ASSUME NEW u \in User, LeavePresentation(u) PROVE SeatTypeOK'
  <2>1. \A s \in Seat : Left(s) \in Seats
    BY <1>1 DEF Left, Seats
  <2> QED  BY <1>3, <2>1 DEF LeavePresentation
<1>4. ASSUME NEW u \in User, NEW p \in Proc, JoinPresentation(p, u) PROVE SeatTypeOK'
  BY <1>4 DEF JoinPresentation, SeatGoto, Joins
<1>5. ASSUME NEW p \in Proc, CountSeats(p) PROVE SeatTypeOK'
  <2>1. seatCall[p] \in Joins
    BY <1>5 DEF CountSeats, Hands, SeatIdle
  <2> QED  BY <1>5, <2>1 DEF CountSeats, SeatGoto, Joins
<1>6. ASSUME NEW p \in Proc, Rejoin(p) PROVE SeatTypeOK'
  <2>1. seatCall[p] \in Joins
    BY <1>6 DEF Rejoin, Hands, SeatIdle
  <2> QED  BY <1>6, <2>1 DEF Rejoin, SeatGoto, Joins
<1>7. ASSUME NEW p \in Proc, WriteHand(p) PROVE SeatTypeOK'
  <2>1. seatCall[p] \in Hands
    BY <1>7 DEF WriteHand, Joins, SeatIdle
  <2>2. Handed(p, seatCall[p].at) \in Seats
    BY <2>1, <1>1 DEF Handed, Hands, Seats
  <2> QED  BY <1>7, <2>1, <2>2 DEF WriteHand, SeatGoto, Hands
<1>8. ASSUME NEW s \in Seat, LeaveAsGuest(s) PROVE SeatTypeOK'
  <2>1. Left(s) \in Seats
    BY <1>1 DEF Left, Seats
  <2> QED  BY <1>8, <2>1 DEF LeaveAsGuest
<1>9. ASSUME NEW s \in Seat, ResolveHand(s) PROVE SeatTypeOK'
  BY <1>9 DEF ResolveHand, Seats
<1>10. ASSUME NEW s \in Seat, NEW p \in Proc, InsertSeat(p, s) PROVE SeatTypeOK'
  <2>1. seatCall[p] \in Joins
    BY <1>10 DEF InsertSeat, Hands, SeatIdle
  <2> QED  BY <1>10, <2>1 DEF InsertSeat, SeatGoto, Joins, Seats
<1>11. ASSUME NEW s \in Seat, NEW p \in Proc, RaiseHand(p, s) \/ LowerHand(p, s) PROVE SeatTypeOK'
  BY <1>11 DEF RaiseHand, LowerHand, Hand, SeatGoto, Hands, Seats
<1>12. CASE UNCHANGED SeatVars
  BY <1>12 DEF SeatVars
<1> QED  BY <1>2, <1>3, <1>4, <1>5, <1>6, <1>7, <1>8, <1>9, <1>10, <1>11, <1>12, <1>13 DEF SeatNext

\* What a step does to the two sets: it adds to neither, lets a call past the
\* check while there is room, turns a call past the check into a seat, or raises
\* the ceiling, or sets it where nobody is within beyond it.
Unmoved == Counted' \subseteq Counted /\ Admitted' \subseteq Admitted /\ ceiling' = ceiling
Admits == Counted' \subseteq Counted /\ Cardinality(Taken) < ceiling /\ ceiling' = ceiling
Seats1 ==
  /\ \E s \in Seat : \E p \in Admitted : Counted' \subseteq Counted \cup {s} /\ Admitted' \subseteq Admitted \ {p}
  /\ ceiling' = ceiling
Resets ==
  /\ Counted' = Counted /\ Admitted' = Admitted
  /\ ceiling <= ceiling' \/ (Admitted = {} /\ Cardinality(Counted) <= ceiling')

LEMMA StepOfSets ==
  ASSUME SeatTypeOK, CapsKeepTo, [SeatNext]_SeatVars
  PROVE  Unmoved \/ Admits \/ Seats1 \/ Resets
<1> USE DEF SeatTypeOK
<1>2. CASE PresentationEnds \/ StartPresentation
  BY <1>2 DEF PresentationEnds, StartPresentation, Unmoved, Counted, Taken, Admitted
<1>3. ASSUME NEW u \in User, LeavePresentation(u) PROVE Unmoved
  BY <1>3 DEF LeavePresentation, Left, NoSeat, Counted, Taken, Admitted, Here, Unmoved
<1>4. ASSUME NEW u \in User, NEW p \in Proc, JoinPresentation(p, u) PROVE Unmoved
  <2>1. /\ UNCHANGED <<seat, ceiling, uncounted>> /\ \A q \in Proc : q # p => seatCall'[q] = seatCall[q]
        /\ seatCall'[p].at \in {"rejoin", "insert"} => seatCall'[p].cap = 0
    BY <1>4 DEF JoinPresentation, SeatGoto, house
  <2> QED  BY <2>1 DEF Counted, Taken, Admitted, Unmoved
<1>5. ASSUME NEW p \in Proc, CountSeats(p) PROVE Unmoved \/ Admits
  <2>1. UNCHANGED <<seat, ceiling, uncounted>> /\ \A q \in Proc : q # p => seatCall'[q] = seatCall[q]
    BY <1>5 DEF CountSeats, SeatGoto, house
  <2>2. Counted' = Counted /\ Taken' = Taken
    BY <2>1 DEF Counted, Taken
  <2>3. seatCall[p].cap \in Nat /\ seatCall[p].cap <= ceiling /\ ceiling \in Nat
    <3>1. seatCall[p] \in Joins
      BY <1>5 DEF CountSeats, Hands, SeatIdle
    <3> QED  BY <1>5, <3>1, AttendanceAssumption DEF CountSeats, CapsKeepTo, Joins
  <2>4. CASE Cardinality(Taken) < seatCall[p].cap
    <3>1. Cardinality(Taken) < ceiling
      BY <2>3, <2>4, Finite
    <3> QED  BY <2>1, <2>2, <3>1 DEF Admits
  <2>5. CASE ~(Cardinality(Taken) < seatCall[p].cap)
    <3>1. seatCall'[p] = SeatIdle
      BY <1>5, <2>5 DEF CountSeats, SeatGoto
    <3> QED  BY <2>1, <2>2, <3>1 DEF Admitted, SeatIdle, Unmoved
  <2> QED  BY <2>4, <2>5
<1>6. ASSUME NEW p \in Proc, Rejoin(p) PROVE Unmoved
  <2>1. seatCall[p] \in Joins /\ seatCall[p].at = "rejoin"
    BY <1>6 DEF Rejoin, Hands, SeatIdle
  <2>2. /\ UNCHANGED <<seat, ceiling, uncounted>> /\ \A q \in Proc : q # p => seatCall'[q] = seatCall[q]
        /\ seatCall'[p] = SeatIdle \/ seatCall'[p].cap = seatCall[p].cap
    BY <1>6, <2>1 DEF Rejoin, SeatGoto, house, Joins
  <2> QED  BY <2>1, <2>2 DEF Counted, Taken, Admitted, SeatIdle, Unmoved
<1>7. ASSUME NEW p \in Proc, WriteHand(p) PROVE Unmoved
  BY <1>7 DEF WriteHand, Handed, NoSeat, SeatGoto, SeatIdle, Counted, Taken, Admitted, house, Unmoved
<1>8. ASSUME NEW s \in Seat, LeaveAsGuest(s) PROVE Unmoved
  BY <1>8 DEF LeaveAsGuest, Left, NoSeat, Counted, Taken, Admitted, Unmoved
<1>9. ASSUME NEW s \in Seat, ResolveHand(s) PROVE Unmoved
  BY <1>9 DEF ResolveHand, Counted, Taken, Admitted, house, Unmoved
<1>10. ASSUME NEW s \in Seat, NEW p \in Proc, InsertSeat(p, s) PROVE Unmoved \/ Seats1
  <2>1. Admitted' \subseteq Admitted \ {p} /\ ceiling' = ceiling
    BY <1>10 DEF InsertSeat, SeatGoto, SeatIdle, Admitted
  <2>2. Counted' \subseteq Counted \cup {s}
    BY <1>10 DEF InsertSeat, Counted, Taken
  <2>3. CASE seatCall[p].cap = 0
    <3>1. s \in uncounted'
      BY <1>10, <2>3 DEF InsertSeat
    <3> QED  BY <2>1, <2>2, <3>1 DEF Counted, Unmoved
  <2>4. CASE seatCall[p].cap # 0
    <3>1. p \in Admitted
      BY <1>10, <2>4 DEF InsertSeat, Admitted
    <3> QED  BY <2>1, <2>2, <3>1 DEF Seats1
  <2> QED  BY <2>3, <2>4
<1>11. ASSUME NEW s \in Seat, NEW p \in Proc, RaiseHand(p, s) \/ LowerHand(p, s) PROVE Unmoved
  BY <1>11 DEF RaiseHand, LowerHand, Hand, SeatGoto, Counted, Taken, Admitted, house, Unmoved
<1>12. CASE UNCHANGED SeatVars
  BY <1>12 DEF SeatVars, Counted, Taken, Admitted, house, Unmoved
<1>13. ASSUME NEW c \in Caps, UpdatePresentation(c) PROVE Resets
  <2>1. UNCHANGED <<seat, uncounted, seatCall>> /\ ceiling' = IF HoldsForAll(c) \/ ceiling < c THEN c ELSE ceiling
    BY <1>13 DEF UpdatePresentation
  <2>2. Counted' = Counted /\ Admitted' = Admitted
    BY <2>1 DEF Counted, Taken, Admitted
  <2>3. ceiling \in Nat /\ c \in Nat
    BY AttendanceAssumption
  <2>4. CASE HoldsForAll(c)
    BY <2>1, <2>2, <2>4 DEF HoldsForAll, Admitted, Resets
  <2>5. CASE ~HoldsForAll(c)
    BY <2>1, <2>2, <2>3, <2>5 DEF Resets
  <2> QED  BY <2>4, <2>5
<1> QED  BY <1>2, <1>3, <1>4, <1>5, <1>6, <1>7, <1>8, <1>9, <1>10, <1>11, <1>12, <1>13 DEF SeatNext

\* No cap in force, and none a call will compare with, is above the ceiling.
LEMMA StepOfCaps ==
  ASSUME SeatTypeOK, CapsKeepTo, [SeatNext]_SeatVars
  PROVE  CapsKeepTo'
<1> USE DEF SeatTypeOK
<1>0. cap \in Nat /\ ceiling \in Nat /\ cap <= ceiling /\ \A c \in Caps : c \in Nat
  BY AttendanceAssumption DEF CapsKeepTo
<1>1. ASSUME UNCHANGED <<cap, ceiling>>,
             \A q \in Proc : seatCall'[q].at = "count" => seatCall'[q] = seatCall[q] \/ seatCall'[q].cap = cap
      PROVE  CapsKeepTo'
  BY <1>0, <1>1 DEF CapsKeepTo
<1>2. CASE PresentationEnds \/ StartPresentation
  BY <1>1, <1>2 DEF PresentationEnds, StartPresentation
<1>3. ASSUME NEW u \in User, LeavePresentation(u) PROVE CapsKeepTo'
  BY <1>1, <1>3 DEF LeavePresentation
<1>4. ASSUME NEW u \in User, NEW p \in Proc, JoinPresentation(p, u) PROVE CapsKeepTo'
  BY <1>1, <1>4 DEF JoinPresentation, SeatGoto, house
<1>5. ASSUME NEW p \in Proc, CountSeats(p) PROVE CapsKeepTo'
  <2>1. seatCall[p] \in Joins
    BY <1>5 DEF CountSeats, Hands, SeatIdle
  <2> QED  BY <1>1, <1>5, <2>1 DEF CountSeats, SeatGoto, SeatIdle, Joins, house
<1>6. ASSUME NEW p \in Proc, Rejoin(p) PROVE CapsKeepTo'
  <2>1. seatCall[p] \in Joins
    BY <1>6 DEF Rejoin, Hands, SeatIdle
  <2> QED  BY <1>1, <1>6, <2>1 DEF Rejoin, SeatGoto, SeatIdle, Joins, house
<1>7. ASSUME NEW p \in Proc, WriteHand(p) PROVE CapsKeepTo'
  BY <1>1, <1>7 DEF WriteHand, SeatGoto, SeatIdle, house
<1>8. ASSUME NEW s \in Seat, LeaveAsGuest(s) \/ ResolveHand(s) PROVE CapsKeepTo'
  BY <1>1, <1>8 DEF LeaveAsGuest, ResolveHand, house
<1>9. ASSUME NEW s \in Seat, NEW p \in Proc, InsertSeat(p, s) PROVE CapsKeepTo'
  BY <1>1, <1>9 DEF InsertSeat, SeatGoto, SeatIdle
<1>10. ASSUME NEW s \in Seat, NEW p \in Proc, RaiseHand(p, s) \/ LowerHand(p, s) PROVE CapsKeepTo'
  BY <1>1, <1>10 DEF RaiseHand, LowerHand, Hand, SeatGoto, house
<1>11. CASE UNCHANGED SeatVars
  BY <1>1, <1>11 DEF SeatVars, house
<1>12. ASSUME NEW c \in Caps, UpdatePresentation(c) PROVE CapsKeepTo'
  <2>1. /\ cap' = c /\ seatCall' = seatCall
        /\ ceiling' = IF HoldsForAll(c) \/ ceiling < c THEN c ELSE ceiling
    BY <1>12 DEF UpdatePresentation
  <2>2. CASE HoldsForAll(c)
    BY <1>0, <2>1, <2>2 DEF HoldsForAll, CapsKeepTo
  <2>3. CASE ~HoldsForAll(c)
    <3>1. c <= ceiling' /\ ceiling <= ceiling' /\ ceiling' \in Nat
      BY <1>0, <2>1, <2>3
    <3>2. ASSUME NEW p \in Proc, seatCall[p].at = "count" PROVE seatCall[p].cap <= ceiling'
      <4>1. seatCall[p].cap \in Nat /\ seatCall[p].cap <= ceiling
        <5>1. seatCall[p] \in Joins
          BY <3>2 DEF Hands, SeatIdle
        <5>2. seatCall[p].cap \in Caps \cup {0}
          BY <5>1 DEF Joins
        <5>3. \A n \in Caps \cup {0} : n \in Nat
          BY AttendanceAssumption
        <5>4. seatCall[p].cap \in Nat
          BY <5>2, <5>3, Zenon
        <5> QED  BY <3>2, <5>4 DEF CapsKeepTo
      <4> QED  BY <1>0, <3>1, <4>1
    <3> QED  BY <2>1, <3>1, <3>2 DEF CapsKeepTo
  <2> QED  BY <2>2, <2>3
<1> QED  BY <1>2, <1>3, <1>4, <1>5, <1>6, <1>7, <1>8, <1>9, <1>10, <1>11, <1>12 DEF SeatNext

LEMMA SeatInvInit == SeatInit => SeatInv
<1> SUFFICES ASSUME SeatInit PROVE SeatInv
  OBVIOUS
<1>1. Counted = {} /\ Admitted = {}
  BY DEF SeatInit, Counted, Taken, Admitted, NoSeat, SeatIdle
<1>2. Cardinality({}) = 0
  BY FS_EmptySet
<1>3. SeatTypeOK
  BY TypeInit
<1>4. Cardinality(Counted) + Cardinality(Admitted) <= Room
  BY <1>1, <1>2, <1>3, CapsAreNumbers, Finite DEF Room
<1>5. CapsKeepTo
  BY <1>3, CapsAreNumbers DEF SeatInit, SeatIdle, CapsKeepTo
<1> QED  BY <1>3, <1>4, <1>5 DEF SeatInv

LEMMA SeatInvStep == SeatInv /\ [SeatNext]_SeatVars => SeatInv'
<1> SUFFICES ASSUME SeatInv, [SeatNext]_SeatVars PROVE SeatInv'
  OBVIOUS
<1>1. SeatTypeOK' /\ CapsKeepTo'
  BY TypeStep, StepOfCaps DEF SeatInv
<1> DEFINE Bounded == Cardinality(Counted) + Cardinality(Admitted) <= Room
<1>2. IsFiniteSet(Counted) /\ IsFiniteSet(Admitted) /\ Cardinality(Counted) \in Nat /\ Cardinality(Admitted) \in Nat
      /\ Cardinality(Taken) \in Nat /\ Cardinality(Counted) <= Cardinality(Taken)
  BY Finite
<1>3. /\ IsFiniteSet(Counted') /\ IsFiniteSet(Admitted')
      /\ Cardinality(Counted') \in Nat /\ Cardinality(Admitted') \in Nat /\ Cardinality(Admitted') <= Cardinality(Proc)
  <2>1. Counted' \subseteq Seat /\ Admitted' \subseteq Proc
    BY DEF Counted, Taken, Admitted
  <2> QED  BY <2>1, AttendanceAssumption, FS_Subset, FS_CardinalityType
<1>4. Cardinality(Proc) \in Nat \ {0} /\ ceiling \in Nat \ {0} /\ ceiling' \in Nat \ {0}
  BY <1>1, Finite, CapsAreNumbers, AttendanceAssumption DEF SeatInv, SeatTypeOK
<1>5. ASSUME Unmoved PROVE Bounded'
  <2>1. Cardinality(Counted') <= Cardinality(Counted) /\ Cardinality(Admitted') <= Cardinality(Admitted)
    BY <1>2, <1>5, FS_Subset DEF Unmoved
  <2> QED  BY <1>2, <1>3, <1>4, <1>5, <2>1 DEF SeatInv, Room, Unmoved
<1>6. ASSUME Admits PROVE Bounded'
  <2>1. Cardinality(Counted') <= Cardinality(Counted)
    BY <1>2, <1>6, FS_Subset DEF Admits
  <2> QED  BY <1>2, <1>3, <1>4, <1>6, <2>1 DEF Room, Admits
<1>7. ASSUME Seats1 PROVE Bounded'
  <2>0. PICK s \in Seat, p \in Admitted : Counted' \subseteq Counted \cup {s} /\ Admitted' \subseteq Admitted \ {p}
    BY <1>7 DEF Seats1
  <2>1. IsFiniteSet(Counted \cup {s}) /\ Cardinality(Counted \cup {s}) <= Cardinality(Counted) + 1
    <3>1. Cardinality(Counted \cup {s}) = IF s \in Counted THEN Cardinality(Counted) ELSE Cardinality(Counted) + 1
      BY <1>2, FS_AddElement
    <3>2. IsFiniteSet(Counted \cup {s})
      BY <1>2, FS_AddElement
    <3> QED  BY <1>2, <3>1, <3>2
  <2>2. IsFiniteSet(Admitted \ {p}) /\ Cardinality(Admitted \ {p}) = Cardinality(Admitted) - 1
    BY <1>2, FS_RemoveElement
  <2>3. Cardinality(Counted') <= Cardinality(Counted \cup {s}) /\ Cardinality(Admitted') <= Cardinality(Admitted \ {p})
    BY <2>0, <2>1, <2>2, FS_Subset
  <2>4. Cardinality(Counted \cup {s}) \in Nat /\ Cardinality(Admitted \ {p}) \in Nat
    BY <2>1, <2>2, FS_CardinalityType
  <2> QED  BY <1>2, <1>3, <1>4, <1>7, <2>1, <2>2, <2>3, <2>4 DEF SeatInv, Room, Seats1
<1>9. ASSUME Resets PROVE Bounded'
  <2>1. Counted' = Counted /\ Admitted' = Admitted
    BY <1>9 DEF Resets
  <2>2. CASE ceiling <= ceiling'
    BY <1>2, <1>4, <2>1, <2>2 DEF SeatInv, Room
  <2>3. CASE Admitted = {} /\ Cardinality(Counted) <= ceiling'
    <3>1. Cardinality(Admitted) = 0
      BY <2>3, FS_EmptySet
    <3> QED  BY <1>2, <1>4, <2>1, <2>3, <3>1 DEF Room
  <2> QED  BY <1>9, <2>2, <2>3 DEF Resets
<1>8. Bounded'
  BY <1>5, <1>6, <1>7, <1>9, StepOfSets DEF SeatInv
<1> QED  BY <1>1, <1>8 DEF SeatInv

\* Those who were not let in to watch a replay exceed the cap by less than the
\* number of calls in flight, for any caps the host sets and at any time; one that
\* was lowered counts from when it held for everybody within.
THEOREM OverAdmitIsSmallHolds == SeatSpec => []OverAdmitIsSmall
<1>1. SeatInv => OverAdmitIsSmall
  <2> SUFFICES ASSUME SeatInv PROVE Cardinality(Counted) <= ceiling + Cardinality(Proc) - 1
    BY DEF OverAdmitIsSmall
  <2>1. ceiling \in Nat
    BY CapsAreNumbers DEF SeatInv
  <2> QED  BY <2>1, Finite DEF SeatInv, Room
<1> QED  BY <1>1, SeatInvInit, SeatInvStep, PTL DEF SeatSpec

(***************************************************************************)
(* The audience.  The inductive invariant.  A person who is about to take  *)
(* a seat has none, and nobody else is about to take one for them; a hand  *)
(* in flight is the only one of its person, and tells whether they ask, as *)
(* long as its row is a seat.                                              *)
(***************************************************************************)
AtHand == {"up", "down"}
HandOf(p, u) == seatCall[p].at \in AtHand /\ seat[seatCall[p].s].u = u
Asks(u) == \E s \in Queue : seat[s].u = u
OneSeat(u) == \A s, t \in Here(u) : s = t
Alone(u) ==
  /\ OneSeat(u)
  /\ \A p, q \in Joining(u, "insert") : p = q
  /\ Joining(u, "insert") # {} => Here(u) = {}

PersonsAlone == \A u \in User \ (guests \cup doubled) : Alone(u)
GuestsAlone == \A u \in guests \ tangled : OneSeat(u)
HandsHold == \A p \in Proc : seatCall[p].at \in AtHand => seat[seatCall[p].s].state \in {"in", "left"}
HandsAlone == \A u \in User \ tangled : \A p, q \in Proc : HandOf(p, u) /\ HandOf(q, u) => p = q
HandTells(u) ==
  \A p \in Proc : HandOf(p, u) =>
    IF seat[seatCall[p].s].state = "in" THEN u \in asking <=> seatCall[p].at = "up" ELSE u \notin asking /\ ~Asks(u)
Told(u) == HandTells(u) /\ (HandUnderWay(u) \/ (Asks(u) <=> u \in asking))
HandsTell == \A u \in User \ (doubled \cup tangled) : Told(u)

AudienceInv == SeatTypeOK /\ PersonsAlone /\ GuestsAlone /\ HandsHold /\ HandsAlone /\ HandsTell

LEMMA SeatKnown ==
  ASSUME SeatTypeOK, NEW p \in Proc
  PROVE  /\ seatCall[p].at \in {"count", "rejoin", "insert"} => seatCall[p] \in Joins /\ seatCall[p].u \in User
         /\ seatCall[p].at \in AtHand => seatCall[p] \in Hands /\ seatCall[p].s \in Seat /\ seat[seatCall[p].s].u \in User
  BY DEF SeatTypeOK, Joins, Hands, SeatIdle, AtHand, Seats

LEMMA CallSeated ==
  ASSUME SeatTypeOK, NEW p \in Proc, NEW c, SeatGoto(p, c)
  PROVE  seatCall'[p] = c /\ \A q \in Proc : q # p => seatCall'[q] = seatCall[q]
  BY DEF SeatTypeOK, SeatGoto

\* Steps that leave the seats and the hands as they are.
LEMMA SeatsRest ==
  ASSUME AudienceInv, UNCHANGED <<guests, seat, asking, tangled>>, doubled \subseteq doubled',
         \A q \in Proc : seatCall'[q].at \in AtHand \/ seatCall[q].at \in AtHand => seatCall'[q] = seatCall[q]
  PROVE  GuestsAlone' /\ HandsHold' /\ HandsAlone' /\ HandsTell'
  <1>1. \A p \in Proc, u \in User : HandOf(p, u)' <=> HandOf(p, u)
    BY DEF HandOf
  <1>2. \A u \in User : /\ Here(u)' = Here(u) /\ (Asks(u)' <=> Asks(u))
                        /\ (HandUnderWay(u)' <=> HandUnderWay(u))
    BY DEF Here, Asks, Queue, HandUnderWay, AtHand
  <1>3. GuestsAlone'
    BY DEF AudienceInv, GuestsAlone, OneSeat, Here
  <1>4. HandsHold'
    BY DEF AudienceInv, HandsHold
  <1>5. HandsAlone'
    BY <1>1 DEF AudienceInv, HandsAlone
  <1>6. HandsTell'
    <2> SUFFICES ASSUME NEW u \in User, u \notin doubled', u \notin tangled' PROVE Told(u)'
      BY DEF HandsTell
    <2>1. Told(u)
      BY DEF AudienceInv, HandsTell
    <2>2. HandTells(u)'
      <3> SUFFICES ASSUME NEW p \in Proc, HandOf(p, u)'
                   PROVE  (IF seat[seatCall[p].s].state = "in" THEN u \in asking <=> seatCall[p].at = "up"
                                                               ELSE u \notin asking /\ ~Asks(u))'
        BY DEF HandTells
      <3>1. HandOf(p, u) /\ seatCall'[p] = seatCall[p]
        BY <1>1 DEF HandOf
      <3>2. QED
        BY <1>2, <2>1, <3>1 DEF Told, HandTells
    <2>3. QED
      BY <1>2, <2>1, <2>2 DEF Told
  <1>7. QED
    BY <1>3, <1>4, <1>5, <1>6

LEMMA JoinersRest ==
  ASSUME AudienceInv, UNCHANGED <<guests, seat>>, doubled \subseteq doubled',
         \A q \in Proc : seatCall'[q].at = "insert" => seatCall'[q] = seatCall[q]
  PROVE  PersonsAlone'
  <1>1. \A u \in User : Joining(u, "insert")' \subseteq Joining(u, "insert") /\ Here(u)' = Here(u)
    BY DEF Joining, Here
  <1>2. QED
    BY <1>1 DEF AudienceInv, PersonsAlone, Alone, OneSeat

LEMMA AudienceWaits ==
  ASSUME AudienceInv, SeatTypeOK', NEW p \in Proc, NEW u \in User,
         JoinPresentation(p, u) \/ CountSeats(p) \/ Rejoin(p)
  PROVE  AudienceInv'
  <1>0. SeatTypeOK
    BY DEF AudienceInv
  <1>2. CASE JoinPresentation(p, u) \/ CountSeats(p)
    <2>1. /\ UNCHANGED <<guests, seat, asking, tangled, doubled>>
          /\ seatCall[p].at \notin AtHand \cup {"insert"} /\ seatCall'[p].at \notin AtHand \cup {"insert"}
          /\ \A q \in Proc : q # p => seatCall'[q] = seatCall[q]
      <3>1. CASE JoinPresentation(p, u)
        BY <1>0, <3>1, CallSeated DEF JoinPresentation, SeatIdle, AtHand
      <3>2. CASE CountSeats(p)
        <4>1. seatCall[p].at = "count" /\ seatCall[p] \in Joins
          BY <1>0, <3>2, SeatKnown DEF CountSeats
        <4>2. QED
          BY <1>0, <3>2, <4>1, CallSeated DEF CountSeats, SeatIdle, AtHand, Joins
      <3>3. QED
        BY <1>2, <3>1, <3>2
    <2>2. QED
      BY <2>1, SeatsRest, JoinersRest DEF AudienceInv
  <1>3. CASE Rejoin(p)
    <2> DEFINE v == seatCall[p].u
    <2>1. seatCall[p].at = "rejoin" /\ seatCall[p] \in Joins /\ v \in User /\ UNCHANGED <<guests, seat, asking, tangled>>
      BY <1>0, <1>3, SeatKnown DEF Rejoin
    <2>2. \/ seatCall'[p] = SeatIdle
          \/ ~(v \notin guests /\ Here(v) # {}) /\ seatCall'[p].at = "insert" /\ seatCall'[p].u = v
      BY <1>0, <1>3, <2>1, CallSeated DEF Rejoin, Joins
    <2>3. /\ \A q \in Proc : q # p => seatCall'[q] = seatCall[q]
          /\ seatCall[p].at \notin AtHand /\ seatCall'[p].at \notin AtHand
      BY <1>0, <1>3, <2>1, <2>2, CallSeated DEF Rejoin, SeatIdle, AtHand
    <2>4. doubled \subseteq doubled' /\ (v \notin doubled' => Joining(v, "insert") = {})
      BY <1>3 DEF Rejoin
    <2>5. PersonsAlone'
      <3> SUFFICES ASSUME NEW x \in User, x \notin guests, x \notin doubled' PROVE Alone(x)'
        BY <2>1 DEF PersonsAlone
      <3>1. Alone(x) /\ Here(x)' = Here(x)
        BY <2>1, <2>4 DEF AudienceInv, PersonsAlone, Here
      <3>2. CASE x = v /\ seatCall'[p].at = "insert"
        <4>1. Joining(x, "insert")' \subseteq {p}
          BY <2>3, <2>4, <3>2 DEF Joining
        <4>2. Here(x) = {}
          BY <2>2, <3>2 DEF SeatIdle
        <4>3. QED
          BY <3>1, <4>1, <4>2 DEF Alone, OneSeat
      <3>3. CASE ~(x = v /\ seatCall'[p].at = "insert")
        <4>1. Joining(x, "insert")' \subseteq Joining(x, "insert")
          BY <2>2, <2>3, <3>3 DEF Joining, SeatIdle
        <4>2. QED
          BY <3>1, <4>1 DEF Alone, OneSeat
      <3>4. QED
        BY <3>2, <3>3
    <2>6. QED
      BY <2>1, <2>3, <2>4, <2>5, SeatsRest DEF AudienceInv
  <1>4. QED
    BY <1>2, <1>3

\* A seat is taken.
LEMMA AudienceGrows ==
  ASSUME AudienceInv, SeatTypeOK', NEW p \in Proc, NEW s \in Seat, InsertSeat(p, s)
  PROVE  AudienceInv'
  <1>0. SeatTypeOK /\ seatCall[p].at = "insert" /\ seat[s] = NoSeat
    BY DEF AudienceInv, InsertSeat
  <1>a. PICK v \in User : v = seatCall[p].u
    BY <1>0, SeatKnown
  <1> DEFINE r == [u |-> v, state |-> "in", hand |-> "down"]
  <1>1. /\ seat' = [seat EXCEPT ![s] = r] /\ SeatGoto(p, SeatIdle) /\ UNCHANGED <<guests, asking, doubled>>
        /\ tangled \subseteq tangled' /\ (v \in guests /\ v \notin tangled' => Here(v) = {})
    BY <1>a DEF InsertSeat
  <1>2. r.u = v /\ r.state = "in" /\ r.hand = "down" /\ NoSeat.state = "free"
    BY DEF NoSeat
  <1> HIDE DEF r
  <1>3. seat'[s] = r /\ \A x \in Seat : x # s => seat'[x] = seat[x]
    BY <1>0, <1>1 DEF SeatTypeOK
  <1>4. /\ seatCall'[p] = SeatIdle /\ \A q \in Proc : q # p => seatCall'[q] = seatCall[q]
        /\ seatCall[p].at \notin AtHand /\ SeatIdle.at \notin AtHand \cup {"insert"}
    BY <1>0, <1>1, CallSeated DEF SeatIdle, AtHand
  <1>5. \A q \in Proc : /\ seatCall'[q].at \in AtHand \/ seatCall[q].at \in AtHand => seatCall'[q] = seatCall[q]
                        /\ seatCall[q].at \in AtHand => seatCall[q].s \in Seat /\ seatCall[q].s # s
    BY <1>0, <1>2, <1>4, SeatKnown DEF AudienceInv, HandsHold
  <1>6. /\ Here(v)' = Here(v) \cup {s} /\ \A u \in User : u # v => Here(u)' = Here(u)
        /\ \A u \in User : Joining(u, "insert")' \subseteq Joining(u, "insert")
        /\ p \in Joining(v, "insert") /\ p \notin Joining(v, "insert")'
    BY <1>0, <1>a, <1>2, <1>3, <1>4 DEF Here, Joining
  <1>7. PersonsAlone'
    <2> SUFFICES ASSUME NEW u \in User, u \notin guests, u \notin doubled PROVE Alone(u)'
      BY <1>1 DEF PersonsAlone
    <2>1. Alone(u)
      BY DEF AudienceInv, PersonsAlone
    <2>2. CASE u = v
      <3>1. Here(u)' = {s} /\ Joining(u, "insert")' = {}
        BY <1>6, <2>1, <2>2 DEF Alone
      <3>2. QED
        BY <3>1 DEF Alone, OneSeat
    <2>3. CASE u # v
      BY <1>6, <2>1, <2>3 DEF Alone, OneSeat
    <2>4. QED
      BY <2>2, <2>3
  <1>8. GuestsAlone'
    <2> SUFFICES ASSUME NEW u \in guests, u \notin tangled', u \in User PROVE OneSeat(u)'
      BY <1>0, <1>1 DEF GuestsAlone, SeatTypeOK
    <2>1. CASE u = v
      BY <1>1, <1>6, <2>1 DEF OneSeat
    <2>2. CASE u # v
      BY <1>1, <1>6, <2>2 DEF AudienceInv, GuestsAlone, OneSeat
    <2>3. QED
      BY <2>1, <2>2
  <1>9. HandsHold'
    BY <1>3, <1>5 DEF AudienceInv, HandsHold
  <1>10. \A q \in Proc, u \in User : HandOf(q, u)' <=> HandOf(q, u)
    BY <1>3, <1>5 DEF HandOf
  <1>11. HandsAlone'
    BY <1>1, <1>10 DEF AudienceInv, HandsAlone
  <1>12. \A u \in User : (Asks(u)' <=> Asks(u)) /\ (HandUnderWay(u)' <=> HandUnderWay(u))
    <2>1. \A u \in User : Asks(u)' <=> Asks(u)
      BY <1>0, <1>2, <1>3 DEF Asks, Queue
    <2>2. \A u \in User : HandUnderWay(u) <=> \E q \in Proc : HandOf(q, u)
      BY DEF HandUnderWay, HandOf, AtHand
    <2>3. \A u \in User : HandUnderWay(u)' <=> \E q \in Proc : HandOf(q, u)'
      BY DEF HandUnderWay, HandOf, AtHand
    <2>4. QED
      BY <1>10, <2>1, <2>2, <2>3
  <1>13. HandsTell'
    <2> SUFFICES ASSUME NEW u \in User, u \notin doubled, u \notin tangled' PROVE Told(u)'
      BY <1>1 DEF HandsTell
    <2>1. Told(u)
      BY <1>1 DEF AudienceInv, HandsTell
    <2>2. HandTells(u)'
      <3> SUFFICES ASSUME NEW q \in Proc, HandOf(q, u)'
                   PROVE  (IF seat[seatCall[q].s].state = "in" THEN u \in asking <=> seatCall[q].at = "up"
                                                               ELSE u \notin asking /\ ~Asks(u))'
        BY DEF HandTells
      <3>1. HandOf(q, u) /\ seatCall'[q] = seatCall[q] /\ seat'[seatCall[q].s] = seat[seatCall[q].s]
        BY <1>3, <1>5, <1>10 DEF HandOf
      <3>2. QED
        BY <1>1, <1>12, <2>1, <3>1 DEF Told, HandTells
    <2>3. QED
      BY <1>1, <1>12, <2>1, <2>2 DEF Told
  <1>14. QED
    BY <1>7, <1>8, <1>9, <1>11, <1>13 DEF AudienceInv

\* Seats of one person are left, all of them unless the person stays tangled.
LEMMA AudienceLeaves ==
  ASSUME AudienceInv, SeatTypeOK', NEW u \in User, NEW L, L \subseteq Here(u),
         \A x \in L : seat'[x] = Left(x), \A x \in Seat \ L : seat'[x] = seat[x],
         UNCHANGED <<guests, seatCall>>, asking' = asking \ {u},
         u \notin tangled' => L = Here(u) /\ (u \in tangled => ~HandUnderWay(u)),
         \A x \in User : x # u /\ x \in tangled => x \in tangled',
         \A x \in User : x # u /\ x \in doubled => x \in doubled',
         u \notin guests => L = Here(u) /\ (u \in doubled' \/ u \notin doubled \/ \A p, q \in Joining(u, "insert") : p = q)
  PROVE  AudienceInv'
  <1>0. SeatTypeOK
    BY DEF AudienceInv
  <1>1. \A x \in L : /\ x \in Seat /\ seat[x].state = "in" /\ seat[x].u = u /\ seat'[x].state # "in"
                     /\ \A p \in Proc : seatCall[p].at \in AtHand /\ seatCall[p].s = x => seat'[x].state = "left" /\ seat'[x].u = u
    <2> SUFFICES ASSUME NEW x \in L
                 PROVE  /\ x \in Seat /\ seat[x].state = "in" /\ seat[x].u = u /\ seat'[x].state # "in"
                        /\ \A p \in Proc : seatCall[p].at \in AtHand /\ seatCall[p].s = x => seat'[x].state = "left" /\ seat'[x].u = u
      OBVIOUS
    <2>1. x \in Seat /\ seat[x].state = "in" /\ seat[x].u = u /\ seat[x] \in Seats
      BY <1>0 DEF Here, SeatTypeOK
    <2>2. CASE \E p \in Proc : seatCall[p].at \in AtHand /\ seatCall[p].s = x
      <3>1. seat'[x] = [seat[x] EXCEPT !.state = "left"]
        BY <2>2 DEF Left, AtHand
      <3>2. QED
        BY <2>1, <3>1 DEF Seats
    <2>3. CASE ~\E p \in Proc : seatCall[p].at \in AtHand /\ seatCall[p].s = x
      <3>1. seat'[x] = NoSeat
        BY <2>3 DEF Left, AtHand
      <3>2. QED
        BY <2>1, <2>3, <3>1 DEF NoSeat
    <2>4. QED
      BY <2>2, <2>3
  <1>2. \A p \in Proc : seatCall[p].at \in AtHand =>
          /\ seatCall[p].s \in Seat /\ seat'[seatCall[p].s].u = seat[seatCall[p].s].u
          /\ seat'[seatCall[p].s].state = IF seatCall[p].s \in L THEN "left" ELSE seat[seatCall[p].s].state
    BY <1>0, <1>1, SeatKnown
  <1>3. \A p \in Proc, x \in User : HandOf(p, x)' <=> HandOf(p, x)
    BY <1>2 DEF HandOf
  <1>4. /\ \A x \in User : x # u => Here(x)' = Here(x) /\ (Asks(x)' <=> Asks(x))
        /\ Here(u)' \subseteq Here(u) /\ (L = Here(u) => Here(u)' = {} /\ ~Asks(u)')
    BY <1>1 DEF Here, Asks, Queue
  <1>5. \A x \in User : HandUnderWay(x)' <=> HandUnderWay(x)
    <2>1. \A x \in User : HandUnderWay(x) <=> \E q \in Proc : HandOf(q, x)
      BY DEF HandUnderWay, HandOf, AtHand
    <2>2. \A x \in User : HandUnderWay(x)' <=> \E q \in Proc : HandOf(q, x)'
      BY DEF HandUnderWay, HandOf, AtHand
    <2>3. QED
      BY <1>3, <2>1, <2>2
  <1>6. PersonsAlone'
    <2> SUFFICES ASSUME NEW x \in User, x \notin guests, x \notin doubled' PROVE Alone(x)'
      BY DEF PersonsAlone
    <2>1. Joining(x, "insert")' = Joining(x, "insert")
      BY DEF Joining
    <2>2. CASE x = u
      <3>1. \A p, q \in Joining(x, "insert") : p = q
        BY <2>2 DEF AudienceInv, PersonsAlone, Alone
      <3>2. Here(x)' = {}
        BY <1>4, <2>2
      <3>3. QED
        BY <2>1, <3>1, <3>2 DEF Alone, OneSeat
    <2>3. CASE x # u
      BY <1>4, <2>1, <2>3 DEF AudienceInv, PersonsAlone, Alone, OneSeat
    <2>4. QED
      BY <2>2, <2>3
  <1>7. GuestsAlone'
    <2> SUFFICES ASSUME NEW x \in guests, x \notin tangled', x \in User PROVE OneSeat(x)'
      BY <1>0 DEF GuestsAlone, SeatTypeOK
    <2>1. CASE x = u
      BY <1>4, <2>1 DEF OneSeat
    <2>2. CASE x # u
      BY <1>4, <2>2 DEF AudienceInv, GuestsAlone, OneSeat
    <2>3. QED
      BY <2>1, <2>2
  <1>8. HandsHold'
    BY <1>2 DEF AudienceInv, HandsHold
  <1>9. HandsAlone'
    <2> SUFFICES ASSUME NEW x \in User, x \notin tangled', NEW p \in Proc, NEW q \in Proc, HandOf(p, x), HandOf(q, x) PROVE p = q
      BY <1>3 DEF HandsAlone
    <2>1. x \notin tangled
      BY DEF HandUnderWay, HandOf, AtHand
    <2>2. QED
      BY <2>1 DEF AudienceInv, HandsAlone
  <1>10. HandsTell'
    <2> SUFFICES ASSUME NEW x \in User, x \notin doubled', x \notin tangled' PROVE Told(x)'
      BY DEF HandsTell
    <2>1. CASE x = u
      <3>1. ~Asks(x)' /\ x \notin asking'
        BY <1>4, <2>1
      <3>2. HandTells(x)'
        <4> SUFFICES ASSUME NEW p \in Proc, HandOf(p, x)' PROVE seat'[seatCall'[p].s].state # "in"
          BY <3>1 DEF HandTells
        <4>1. HandOf(p, x) /\ seatCall[p].s \in Seat
          BY <1>2, <1>3 DEF HandOf
        <4>2. QED
          BY <1>1, <1>2, <2>1, <4>1 DEF HandOf, Here
      <3>3. QED
        BY <3>1, <3>2 DEF Told
    <2>2. CASE x # u
      <3>1. Told(x) /\ (x \in asking' <=> x \in asking)
        BY <2>2 DEF AudienceInv, HandsTell
      <3>2. HandTells(x)'
        <4> SUFFICES ASSUME NEW p \in Proc, HandOf(p, x)'
                     PROVE  (IF seat[seatCall[p].s].state = "in" THEN x \in asking <=> seatCall[p].at = "up"
                                                                 ELSE x \notin asking /\ ~Asks(x))'
          BY DEF HandTells
        <4>1. HandOf(p, x) /\ seat'[seatCall[p].s].state = seat[seatCall[p].s].state
          BY <1>1, <1>2, <1>3, <2>2 DEF HandOf
        <4>2. QED
          BY <1>4, <2>2, <3>1, <4>1 DEF Told, HandTells
      <3>3. QED
        BY <1>4, <1>5, <2>2, <3>1, <3>2 DEF Told
    <2>3. QED
      BY <2>1, <2>2
  <1>11. QED
    BY <1>6, <1>7, <1>8, <1>9, <1>10 DEF AudienceInv

LEMMA AudienceShrinks ==
  ASSUME AudienceInv, SeatTypeOK', NEW u \in User, NEW s \in Seat, LeavePresentation(u) \/ LeaveAsGuest(s)
  PROVE  AudienceInv'
  <1>0. SeatTypeOK /\ IsFiniteSet(Proc)
    BY AttendanceAssumption DEF AudienceInv
  <1>1. CASE LeavePresentation(u)
    <2>1. ASSUME u \notin doubled', u \in doubled, NEW p \in Joining(u, "insert"), NEW q \in Joining(u, "insert")
          PROVE  p = q
      <3>1. Cardinality(Joining(u, "insert")) <= 1 /\ Joining(u, "insert") \subseteq Proc
        <4>1. ~(Cardinality(Joining(u, "insert")) > 1)
          BY <1>1, <2>1 DEF LeavePresentation
        <4>2. Joining(u, "insert") \subseteq Proc
          BY DEF Joining
        <4>3. Cardinality(Joining(u, "insert")) \in Nat
          BY <1>0, <4>2, FS_Subset, FS_CardinalityType
        <4>4. QED
          BY <4>1, <4>2, <4>3
      <3>2. IsFiniteSet(Joining(u, "insert")) /\ Cardinality(Joining(u, "insert")) \in Nat
        BY <1>0, <3>1, FS_Subset, FS_CardinalityType
      <3>3. Cardinality(Joining(u, "insert")) # 0
        BY <2>1, <3>2, FS_EmptySet
      <3>4. Cardinality(Joining(u, "insert")) = 1
        BY <3>1, <3>2, <3>3
      <3>5. QED
        BY <2>1, <3>2, <3>4, FS_Singleton
    <2>2. /\ \A x \in Here(u) : seat'[x] = Left(x)
          /\ \A x \in Seat \ Here(u) : seat'[x] = seat[x]
      BY <1>1 DEF LeavePresentation, Here
    <2>3. /\ UNCHANGED <<guests, seatCall>> /\ asking' = asking \ {u}
          /\ \A x \in User : x # u /\ x \in tangled => x \in tangled'
          /\ \A x \in User : x # u /\ x \in doubled => x \in doubled'
          /\ u \notin tangled' => (u \in tangled => ~HandUnderWay(u))
      BY <1>1 DEF LeavePresentation
    <2>4. QED
      BY <2>1, <2>2, <2>3, AudienceLeaves
  <1>2. CASE LeaveAsGuest(s)
    <2>0. PICK v \in User : v = seat[s].u /\ s \in Here(v) /\ v \in guests
      BY <1>0, <1>2 DEF LeaveAsGuest, SeatTypeOK, Seats, Here
    <2>1. /\ seat'[s] = Left(s) /\ \A x \in Seat \ {s} : seat'[x] = seat[x]
          /\ UNCHANGED <<guests, seatCall, doubled>> /\ asking' = asking \ {v}
          /\ \A x \in User : x # v /\ x \in tangled => x \in tangled'
          /\ v \notin tangled' /\ v \in tangled => Here(v) = {s} /\ ~HandUnderWay(v)
      BY <1>0, <1>2, <2>0 DEF LeaveAsGuest, SeatTypeOK
    <2>2. v \notin tangled' => {s} = Here(v)
      BY <2>0, <2>1 DEF AudienceInv, GuestsAlone, OneSeat
    <2> DEFINE L == {s}
    <2>3. /\ L \subseteq Here(v) /\ \A x \in L : seat'[x] = Left(x)
          /\ \A x \in Seat \ L : seat'[x] = seat[x]
          /\ v \notin tangled' => L = Here(v) /\ (v \in tangled => ~HandUnderWay(v))
      BY <2>0, <2>1, <2>2
    <2> HIDE DEF L
    <2>4. QED
      BY <2>0, <2>1, <2>3, AudienceLeaves
  <1>3. QED
    BY <1>1, <1>2

\* A hand is raised or lowered: the call that will write it begins.
LEMMA HandBegins ==
  ASSUME AudienceInv, SeatTypeOK', NEW p \in Proc, NEW s \in Seat, RaiseHand(p, s) \/ LowerHand(p, s)
  PROVE  AudienceInv'
  <1>0. SeatTypeOK
    BY DEF AudienceInv
  <1>1. PICK to \in AtHand : Hand(p, s, to)
    BY DEF RaiseHand, LowerHand, AtHand
  <1>2. PICK u \in User : u = seat[s].u
    BY <1>0 DEF SeatTypeOK, Seats
  <1>3. /\ seatCall[p] = SeatIdle /\ seat[s].state = "in" /\ UNCHANGED <<guests, seat, doubled>>
        /\ asking' = (IF to = "up" THEN asking \cup {u} ELSE asking \ {u})
        /\ tangled' = IF HandUnderWay(u) THEN tangled \cup {u} ELSE tangled
    BY <1>1, <1>2 DEF Hand
  <1>4. /\ seatCall'[p].at = to /\ seatCall'[p].s = s /\ \A q \in Proc : q # p => seatCall'[q] = seatCall[q]
        /\ SeatIdle.at \notin AtHand \cup {"insert"} /\ "insert" \notin AtHand
    BY <1>0, <1>1, CallSeated DEF Hand, SeatIdle, AtHand
  <1>5. /\ \A q \in Proc, x \in User : q # p => (HandOf(q, x)' <=> HandOf(q, x))
        /\ \A x \in User : ~HandOf(p, x) /\ (HandOf(p, x)' <=> x = u)
    BY <1>2, <1>3, <1>4 DEF HandOf
  <1>6. \A x \in User : /\ Here(x)' = Here(x) /\ (Asks(x)' <=> Asks(x))
                        /\ Joining(x, "insert")' = Joining(x, "insert")
    BY <1>3, <1>4 DEF Here, Asks, Queue, Joining, AtHand
  <1>7. PersonsAlone' /\ GuestsAlone'
    <2>1. PersonsAlone'
      BY <1>3, <1>6 DEF AudienceInv, PersonsAlone, Alone, OneSeat
    <2>2. guests \subseteq User /\ tangled \subseteq tangled'
      BY <1>0, <1>3 DEF SeatTypeOK
    <2>3. GuestsAlone'
      BY <1>3, <1>6, <2>2 DEF AudienceInv, GuestsAlone, OneSeat
    <2>4. QED
      BY <2>1, <2>3
  <1>8. HandsHold'
    BY <1>3, <1>4 DEF AudienceInv, HandsHold
  <1>9. \A x \in User : HandUnderWay(x) <=> \E q \in Proc : HandOf(q, x)
    BY DEF HandUnderWay, HandOf, AtHand
  <1>10. \A x \in User : HandUnderWay(x)' <=> \E q \in Proc : HandOf(q, x)'
    BY DEF HandUnderWay, HandOf, AtHand
  <1>11. HandsAlone'
    <2> SUFFICES ASSUME NEW x \in User, x \notin tangled', NEW q \in Proc, NEW r \in Proc, HandOf(q, x)', HandOf(r, x)' PROVE q = r
      BY DEF HandsAlone
    <2>1. CASE x = u
      BY <1>3, <1>5, <1>9, <2>1
    <2>2. CASE x # u
      BY <1>3, <1>5, <2>2 DEF AudienceInv, HandsAlone
    <2>3. QED
      BY <2>1, <2>2
  <1>12. HandsTell'
    <2> SUFFICES ASSUME NEW x \in User, x \notin doubled, x \notin tangled' PROVE Told(x)'
      BY <1>3 DEF HandsTell
    <2>1. CASE x = u
      <3>1. \A q \in Proc : HandOf(q, x)' => q = p
        BY <1>3, <1>5, <1>9, <2>1
      <3>2. HandTells(x)'
        <4> SUFFICES ASSUME HandOf(p, x)'
                     PROVE  seat'[seatCall'[p].s].state = "in" /\ (x \in asking' <=> seatCall'[p].at = "up")
          BY <3>1 DEF HandTells
        <4>1. QED
          BY <1>3, <1>4, <2>1 DEF AtHand
      <3>3. HandUnderWay(x)'
        BY <1>5, <1>10, <2>1
      <3>4. QED
        BY <3>2, <3>3 DEF Told
    <2>2. CASE x # u
      <3>1. Told(x) /\ (x \in asking' <=> x \in asking)
        BY <1>3, <2>2 DEF AudienceInv, HandsTell
      <3>2. HandTells(x)'
        <4> SUFFICES ASSUME NEW q \in Proc, HandOf(q, x)'
                     PROVE  (IF seat[seatCall[q].s].state = "in" THEN x \in asking <=> seatCall[q].at = "up"
                                                                 ELSE x \notin asking /\ ~Asks(x))'
          BY DEF HandTells
        <4>1. HandOf(q, x) /\ seatCall'[q] = seatCall[q]
          BY <1>4, <1>5, <2>2
        <4>2. QED
          BY <1>3, <1>6, <3>1, <4>1 DEF Told, HandTells
      <3>3. HandUnderWay(x)' <=> HandUnderWay(x)
        BY <1>5, <1>9, <1>10, <2>2
      <3>4. QED
        BY <1>6, <3>1, <3>2, <3>3 DEF Told
    <2>3. QED
      BY <2>1, <2>2
  <1>13. QED
    BY <1>7, <1>8, <1>11, <1>12 DEF AudienceInv

\* A person who is neither doubled nor tangled has one seat.
LEMMA OneSeatOf ==
  ASSUME AudienceInv, NEW u \in User, u \notin doubled, u \notin tangled
  PROVE  OneSeat(u)
  BY DEF AudienceInv, PersonsAlone, Alone, GuestsAlone

\* The hand is written.
LEMMA HandIsWritten ==
  ASSUME AudienceInv, SeatTypeOK', NEW p \in Proc, WriteHand(p)
  PROVE  AudienceInv'
  <1>0. SeatTypeOK /\ seatCall[p].at \in AtHand /\ seatCall[p] \in Hands
    BY SeatKnown DEF AudienceInv, WriteHand, AtHand
  <1>1. PICK s \in Seat, to \in AtHand, u \in User : s = seatCall[p].s /\ to = seatCall[p].at /\ u = seat[s].u
    BY <1>0, SeatKnown
  <1>2. /\ seat' = [seat EXCEPT ![s] = Handed(p, to)] /\ SeatGoto(p, SeatIdle)
        /\ UNCHANGED <<guests, asking, doubled, tangled>>
    BY <1>1 DEF WriteHand
  <1>3. seat'[s] = Handed(p, to) /\ \A x \in Seat : x # s => seat'[x] = seat[x]
    BY <1>0, <1>2 DEF SeatTypeOK
  <1>4. /\ seatCall'[p] = SeatIdle /\ \A q \in Proc : q # p => seatCall'[q] = seatCall[q]
        /\ SeatIdle.at \notin AtHand \cup {"insert"} /\ "insert" \notin AtHand
    BY <1>0, <1>2, CallSeated DEF SeatIdle, AtHand
  <1>5. seat[s] \in Seats /\ seat[s].state \in {"in", "left"}
    BY <1>0, <1>1 DEF SeatTypeOK, AudienceInv, HandsHold
  <1>6. /\ seat[s].state = "in" => seat'[s].state = "in" /\ seat'[s].u = u /\ seat'[s].hand = to
        /\ seat[s].state = "left" =>
             /\ seat'[s].state # "in"
             /\ \A q \in Proc : q # p /\ seatCall[q].at \in AtHand /\ seatCall[q].s = s => seat'[s].state = "left" /\ seat'[s].u = u
    <2>1. CASE Handed(p, to) = NoSeat /\ seat[s].state = "left" /\ \A q \in Proc \ {p} : seatCall[q].at \in AtHand => seatCall[q].s # s
      BY <1>3, <2>1 DEF NoSeat
    <2>2. CASE Handed(p, to) = [seat[s] EXCEPT !.hand = to]
      BY <1>1, <1>3, <1>5, <2>2 DEF Seats
    <2>3. QED
      BY <1>1, <2>1, <2>2 DEF Handed, AtHand
  <1>7. \A q \in Proc, x \in User : q # p => (HandOf(q, x)' <=> HandOf(q, x))
    <2> SUFFICES ASSUME NEW q \in Proc, NEW x \in User, q # p PROVE HandOf(q, x)' <=> HandOf(q, x)
      OBVIOUS
    <2>1. seatCall[q].at \in AtHand => seatCall[q].s \in Seat
      BY <1>0, SeatKnown
    <2>2. QED
      BY <1>1, <1>3, <1>4, <1>5, <1>6, <2>1 DEF HandOf
  <1>8. \A x \in User : ~HandOf(p, x)' /\ (HandOf(p, x) <=> x = u)
    BY <1>0, <1>1, <1>4 DEF HandOf
  <1>9. \A x \in User : /\ Here(x)' = Here(x) /\ Joining(x, "insert")' = Joining(x, "insert")
                        /\ x # u => (Asks(x)' <=> Asks(x))
    <2>1. \A x \in User : Here(x)' = Here(x)
      BY <1>1, <1>3, <1>5, <1>6 DEF Here
    <2>2. \A x \in User : Joining(x, "insert")' = Joining(x, "insert")
      BY <1>0, <1>4 DEF Joining
    <2>3. \A x \in User : x # u => (Asks(x)' <=> Asks(x))
      BY <1>1, <1>3, <1>5, <1>6 DEF Asks, Queue
    <2>4. QED
      BY <2>1, <2>2, <2>3
  <1>10. PersonsAlone' /\ GuestsAlone'
    <2>1. guests \subseteq User
      BY <1>0 DEF SeatTypeOK
    <2>2. QED
      BY <1>2, <1>9, <2>1 DEF AudienceInv, PersonsAlone, Alone, GuestsAlone, OneSeat
  <1>11. HandsHold'
    <2> SUFFICES ASSUME NEW q \in Proc, seatCall'[q].at \in AtHand PROVE seat'[seatCall'[q].s].state \in {"in", "left"}
      BY DEF HandsHold
    <2>1. q # p /\ seatCall'[q] = seatCall[q] /\ seatCall[q].s \in Seat
      BY <1>0, <1>4, SeatKnown
    <2>2. QED
      BY <1>3, <1>5, <1>6, <2>1 DEF AudienceInv, HandsHold
  <1>12. HandsAlone'
    BY <1>2, <1>7, <1>8 DEF AudienceInv, HandsAlone
  <1>13. \A x \in User : HandUnderWay(x) <=> \E q \in Proc : HandOf(q, x)
    BY DEF HandUnderWay, HandOf, AtHand
  <1>14. \A x \in User : HandUnderWay(x)' <=> \E q \in Proc : HandOf(q, x)'
    BY DEF HandUnderWay, HandOf, AtHand
  <1>15. HandsTell'
    <2> SUFFICES ASSUME NEW x \in User, x \notin doubled, x \notin tangled PROVE Told(x)'
      BY <1>2 DEF HandsTell
    <2>1. Told(x)
      BY DEF AudienceInv, HandsTell
    <2>2. CASE x = u
      <3>1. \A q \in Proc : ~HandOf(q, x)'
        BY <1>7, <1>8, <2>2 DEF AudienceInv, HandsAlone
      <3>2. HandOf(p, x)
        BY <1>8, <2>2
      <3>3. CASE seat[s].state = "in"
        <4>1. x \in asking <=> to = "up"
          BY <1>1, <2>1, <3>2, <3>3 DEF Told, HandTells
        <4>2. \A y \in Seat : seat'[y].state = "in" /\ seat'[y].u = x => y = s
          BY <1>3, <2>2, <3>3, <1>1, OneSeatOf DEF OneSeat, Here
        <4>3. Asks(x)' <=> to = "up"
          BY <1>6, <2>2, <3>3, <4>2 DEF Asks, Queue
        <4>4. QED
          BY <1>2, <3>1, <4>1, <4>3 DEF Told, HandTells
      <3>4. CASE seat[s].state # "in"
        <4>1. x \notin asking /\ ~Asks(x)
          BY <1>1, <2>1, <3>2, <3>4 DEF Told, HandTells
        <4>2. ~Asks(x)'
          BY <1>3, <1>5, <1>6, <3>4, <4>1 DEF Asks, Queue
        <4>3. QED
          BY <1>2, <3>1, <4>1, <4>2 DEF Told, HandTells
      <3>5. QED
        BY <3>3, <3>4
    <2>3. CASE x # u
      <3>1. HandTells(x)'
        <4> SUFFICES ASSUME NEW q \in Proc, HandOf(q, x)'
                     PROVE  (IF seat[seatCall[q].s].state = "in" THEN x \in asking <=> seatCall[q].at = "up"
                                                                 ELSE x \notin asking /\ ~Asks(x))'
          BY DEF HandTells
        <4>1. q # p /\ HandOf(q, x) /\ seatCall'[q] = seatCall[q] /\ seatCall[q].s \in Seat
          BY <1>0, <1>4, <1>7, <1>8, SeatKnown DEF HandOf
        <4>2. seatCall[q].s # s
          BY <1>1, <2>3, <4>1 DEF HandOf
        <4>3. QED
          BY <1>2, <1>3, <1>9, <2>1, <2>3, <4>1, <4>2 DEF Told, HandTells
      <3>2. HandUnderWay(x)' <=> HandUnderWay(x)
        BY <1>7, <1>8, <1>13, <1>14, <2>3
      <3>3. QED
        BY <1>2, <1>9, <2>1, <2>3, <3>1, <3>2 DEF Told
    <2>4. QED
      BY <2>2, <2>3
  <1>16. QED
    BY <1>10, <1>11, <1>12, <1>15 DEF AudienceInv

\* The host answers.
LEMMA HandIsResolved ==
  ASSUME AudienceInv, SeatTypeOK', NEW s \in Seat, ResolveHand(s)
  PROVE  AudienceInv'
  <1>0. SeatTypeOK /\ s \in Queue
    BY DEF AudienceInv, ResolveHand
  <1>1. PICK u \in User : u = seat[s].u
    BY <1>0 DEF SeatTypeOK, Seats
  <1>2. /\ seat' = [seat EXCEPT ![s].hand = "resolved"] /\ asking' = asking \ {u}
        /\ tangled' = (IF HandUnderWay(u) THEN tangled \cup {u} ELSE tangled)
        /\ UNCHANGED <<guests, seatCall, doubled>>
    BY <1>1 DEF ResolveHand
  <1>3. /\ seat'[s].hand = "resolved" /\ \A x \in Seat : x # s => seat'[x] = seat[x]
        /\ \A x \in Seat : seat'[x].state = seat[x].state /\ seat'[x].u = seat[x].u
    BY <1>0, <1>2 DEF SeatTypeOK, Seats
  <1>4. \A q \in Proc : seatCall[q].at \in AtHand => seatCall[q].s \in Seat
    BY <1>0, SeatKnown
  <1>5. \A q \in Proc, x \in User : HandOf(q, x)' <=> HandOf(q, x)
    BY <1>2, <1>3, <1>4 DEF HandOf
  <1>6. \A x \in User : /\ Here(x)' = Here(x) /\ Joining(x, "insert")' = Joining(x, "insert")
                        /\ x # u => (Asks(x)' <=> Asks(x))
    BY <1>1, <1>2, <1>3 DEF Here, Joining, Asks, Queue
  <1>7. PersonsAlone' /\ GuestsAlone'
    <2>1. guests \subseteq User /\ tangled \subseteq tangled'
      BY <1>0, <1>2 DEF SeatTypeOK
    <2>2. QED
      BY <1>2, <1>6, <2>1 DEF AudienceInv, PersonsAlone, Alone, GuestsAlone, OneSeat
  <1>8. HandsHold'
    BY <1>2, <1>3, <1>4 DEF AudienceInv, HandsHold
  <1>9. tangled \subseteq tangled'
    BY <1>2
  <1>10. HandsAlone'
    BY <1>5, <1>9 DEF AudienceInv, HandsAlone
  <1>11. \A x \in User : HandUnderWay(x) <=> \E q \in Proc : HandOf(q, x)
    BY DEF HandUnderWay, HandOf, AtHand
  <1>12. \A x \in User : HandUnderWay(x)' <=> \E q \in Proc : HandOf(q, x)'
    BY DEF HandUnderWay, HandOf, AtHand
  <1>13. HandsTell'
    <2> SUFFICES ASSUME NEW x \in User, x \notin doubled, x \notin tangled' PROVE Told(x)'
      BY <1>2 DEF HandsTell
    <2>1. Told(x) /\ x \notin tangled
      BY <1>9 DEF AudienceInv, HandsTell
    <2>2. CASE x = u
      <3>1. \A q \in Proc : ~HandOf(q, x) /\ ~HandOf(q, x)'
        BY <1>2, <1>5, <1>11, <2>2
      <3>2. \A y \in Seat : seat'[y].state = "in" /\ seat'[y].u = x => y = s
        BY <1>0, <1>1, <1>3, <2>1, <2>2, OneSeatOf DEF OneSeat, Here, Queue
      <3>3. ~Asks(x)' /\ x \notin asking'
        BY <1>2, <1>3, <2>2, <3>2 DEF Asks, Queue
      <3>4. QED
        BY <3>1, <3>3 DEF Told, HandTells
    <2>3. CASE x # u
      <3>1. HandTells(x)'
        <4> SUFFICES ASSUME NEW q \in Proc, HandOf(q, x)'
                     PROVE  (IF seat[seatCall[q].s].state = "in" THEN x \in asking <=> seatCall[q].at = "up"
                                                                 ELSE x \notin asking /\ ~Asks(x))'
          BY DEF HandTells
        <4>1. HandOf(q, x) /\ seatCall'[q] = seatCall[q] /\ seatCall[q].s \in Seat
          BY <1>2, <1>4, <1>5 DEF HandOf
        <4>2. QED
          BY <1>2, <1>3, <1>6, <2>1, <2>3, <4>1 DEF Told, HandTells
      <3>2. HandUnderWay(x)' <=> HandUnderWay(x)
        BY <1>5, <1>11, <1>12
      <3>3. QED
        BY <1>2, <1>6, <2>1, <2>3, <3>1, <3>2 DEF Told
    <2>4. QED
      BY <2>2, <2>3
  <1>14. QED
    BY <1>7, <1>8, <1>10, <1>13 DEF AudienceInv

LEMMA AudienceStarts == SeatInit => AudienceInv
  <1> SUFFICES ASSUME SeatInit PROVE AudienceInv
    OBVIOUS
  <1>1. /\ \A s \in Seat : seat[s].state = "free"
        /\ \A p \in Proc : seatCall[p].at = "idle"
        /\ asking = {}
    BY DEF SeatInit, NoSeat, SeatIdle
  <1>2. \A u \in User : Here(u) = {} /\ Joining(u, "insert") = {} /\ ~Asks(u) /\ ~HandUnderWay(u) /\ \A p \in Proc : ~HandOf(p, u)
    BY <1>1 DEF Here, Joining, Asks, Queue, HandUnderWay, HandOf, AtHand
  <1>3. guests \subseteq User
    BY DEF SeatInit
  <1>4. QED
    BY <1>1, <1>2, <1>3, TypeInit DEF AudienceInv, PersonsAlone, Alone, OneSeat, GuestsAlone, HandsHold, HandsAlone,
                                      HandsTell, Told, HandTells, AtHand

LEMMA AudienceStep == AudienceInv /\ [SeatNext]_SeatVars => AudienceInv'
  <1> SUFFICES ASSUME AudienceInv, [SeatNext]_SeatVars PROVE AudienceInv'
    OBVIOUS
  <1>1. SeatTypeOK'
    BY TypeStep DEF AudienceInv
  <1>2. CASE UNCHANGED SeatVars
    <2>1. \A q \in Proc : seatCall'[q] = seatCall[q]
      BY <1>2 DEF SeatVars
    <2>2. QED
      BY <1>1, <1>2, <2>1, SeatsRest, JoinersRest DEF SeatVars, AudienceInv
  <1>3. CASE SeatNext
    <2>1. CASE PresentationEnds \/ StartPresentation \/ \E c \in Caps : UpdatePresentation(c)
      <3>1. /\ UNCHANGED <<guests, seat, asking, doubled, tangled>>
            /\ seatCall' = seatCall
        BY <2>1 DEF PresentationEnds, StartPresentation, UpdatePresentation
      <3>2. QED
        BY <1>1, <3>1, SeatsRest, JoinersRest DEF AudienceInv
    <2>2. ASSUME NEW u \in User, LeavePresentation(u) PROVE AudienceInv'
      <3>1. PICK s \in Seat : TRUE
        BY <2>2 DEF LeavePresentation, Here
      <3>2. QED
        BY <1>1, <2>2, <3>1, AudienceShrinks
    <2>3. ASSUME NEW p \in Proc, NEW u \in User, JoinPresentation(p, u) \/ CountSeats(p) \/ Rejoin(p)
          PROVE  AudienceInv'
      BY <1>1, <2>3, AudienceWaits
    <2>4. ASSUME NEW p \in Proc, WriteHand(p) PROVE AudienceInv'
      BY <1>1, <2>4, HandIsWritten
    <2>5. ASSUME NEW s \in Seat, LeaveAsGuest(s) \/ ResolveHand(s) PROVE AudienceInv'
      BY <1>1, <2>5, AudienceShrinks, HandIsResolved, CallersAssumption
    <2>6. ASSUME NEW p \in Proc, NEW s \in Seat, InsertSeat(p, s) \/ RaiseHand(p, s) \/ LowerHand(p, s) PROVE AudienceInv'
      BY <1>1, <2>6, AudienceGrows, HandBegins
    <2>7. QED
      BY <1>3, <2>1, <2>2, <2>3, <2>4, <2>5, <2>6, CallersAssumption DEF SeatNext
  <1>4. QED
    BY <1>2, <1>3

LEMMA AudienceKeeps == AudienceInv => AudienceIsKept
  <1> SUFFICES ASSUME AudienceInv PROVE AudienceIsKept
    OBVIOUS
  <1>1. OneSeatPerPerson
    <2> SUFFICES ASSUME NEW u \in User, u \notin guests, u \notin doubled PROVE Cardinality(Here(u)) <= 1
      BY DEF OneSeatPerPerson
    <2>1. OneSeat(u)
      BY DEF AudienceInv, PersonsAlone, Alone
    <2>2. CASE Here(u) = {}
      BY <2>2, FS_EmptySet
    <2>3. CASE Here(u) # {}
      <3>1. PICK s \in Here(u) : TRUE
        BY <2>3
      <3>2. Here(u) = {s}
        BY <2>1, <3>1 DEF OneSeat
      <3>3. Cardinality({s}) = 1
        BY FS_Singleton
      <3>4. QED
        BY <3>2, <3>3
    <2>4. QED
      BY <2>2, <2>3
  <1>2. QueueIsWhoAsks
    BY DEF AudienceInv, HandsTell, Told, Asks, QueueIsWhoAsks
  <1>3. QED
    BY <1>1, <1>2 DEF AudienceIsKept

\* However joins, leaves, hands and answers interleave, a person has one seat and
\* the host's queue is who asks, but for the people of whom two joins or two
\* hands overlapped.
THEOREM AudienceIsKeptHolds == SeatSpec => []AudienceIsKept
  <1>1. QED
    BY AudienceStarts, AudienceStep, AudienceKeeps, PTL DEF SeatSpec

(***************************************************************************)
(* Sign-in.  The inductive invariant.  An unlink holds the row it was      *)
(* asked for until somebody deletes it; what it read of the other ways in  *)
(* stays true as long as no other unlink of the account is under way.      *)
(***************************************************************************)
AtUnlink == {"unlink_password", "unlink_count", "unlink_delete"}
AtLink == {"spend", "create", "enter"}

VisitForm(v) ==
  /\ v.at # "idle" => v.u \in Address
  /\ v.at \in {"sso_mail", "sso_insert", "link_insert"} => v.i \in Identity
  /\ v.at \in AtLink <=> v.t # "none"

SignInWellFormed == SignInTypeOK /\ \A p \in Proc : VisitForm(visit[p])

PasswordIsMade == \A u \in Address : account[u].password => account[u].made
UnlinksItsOwn ==
  \A p \in Proc : visit[p].at \in AtUnlink /\ visit[p].i # "none" => holder[visit[p].i] = visit[p].u
UnlinksAlone ==
  \A p, q \in Proc :
    visit[p].at \in AtUnlink /\ visit[q].at \in AtUnlink /\ visit[p].u = visit[q].u /\ visit[p].u \notin crossing => p = q
PasswordWasSeen ==
  \A p \in Proc : visit[p].at = "unlink_count" /\ visit[p].saw => account[visit[p].u].password
Other(u, i) == account[u].password \/ \E j \in Identity : j # i /\ holder[j] = u
AnotherRemains ==
  \A p \in Proc : visit[p].at = "unlink_delete" /\ visit[p].u \notin crossing => Other(visit[p].u, visit[p].i)
Way(u) == account[u].password \/ \E j \in Identity : holder[j] = u
WaysRemain == \A u \in armed \ crossing : Way(u)

MethodInv ==
  PasswordIsMade /\ UnlinksItsOwn /\ UnlinksAlone /\ PasswordWasSeen /\ AnotherRemains /\ WaysRemain

\* A link that is being used was sent, and its use goes on with what it was
\* sent with.  One spent for the account it was sent to, or for one it made,
\* has signed in or is about to.
Entering(t) == t \in entered \/ \E p \in Proc : visit[p].at = "enter" /\ visit[p].t = t
LinkIsUsed ==
  \A p \in Proc : visit[p].at \in AtLink =>
    /\ visit[p].t \in Ticket /\ ticket[visit[p].t].state # "none"
    /\ visit[p].u = ticket[visit[p].t].u /\ visit[p].saw = ticket[visit[p].t].bound
    /\ visit[p].at = "create" => ~visit[p].saw
SentToSomebody ==
  \A t \in Ticket : /\ ticket[t].state # "none" => ticket[t].u \in Address
                    /\ ticket[t].known => ticket[t].bound
BoundEnters == \A t \in Ticket : ticket[t].state = "spent" /\ ticket[t].bound => Entering(t)
MakerEnters == \A t \in Ticket, u \in Address : account[u].by = t => Entering(t)

LinksInv == LinkIsUsed /\ SentToSomebody /\ BoundEnters /\ MakerEnters

SignInInv == SignInWellFormed /\ MethodInv /\ LinksInv

VRecord(at, u, i, t, saw) == [at |-> at, u |-> u, i |-> i, t |-> t, saw |-> saw]
NotSeen == FALSE

LEMMA VisitBegins ==
  ASSUME NEW a, NEW u, NEW i
  PROVE  /\ [VisitIdle EXCEPT !.at = a, !.u = u] = VRecord(a, u, "none", "none", NotSeen)
         /\ [VisitIdle EXCEPT !.at = a, !.u = u, !.i = i] = VRecord(a, u, i, "none", NotSeen)
  <1> DEFINE d == [VisitIdle EXCEPT !.at = a]
  <1> DEFINE e == [d EXCEPT !.u = u]
  <1>0. VisitIdle = VRecord("idle", "none", "none", "none", NotSeen)
    BY Zenon DEF VisitIdle, VRecord, NotSeen
  <1>1. d = VRecord(a, "none", "none", "none", NotSeen)
    BY <1>0 DEF VRecord
  <1> HIDE DEF d
  <1>2. e = VRecord(a, u, "none", "none", NotSeen)
    BY <1>1 DEF VRecord
  <1> HIDE DEF e
  <1>3. [e EXCEPT !.i = i] = VRecord(a, u, i, "none", NotSeen)
    BY <1>2 DEF VRecord
  <1>4. QED
    BY <1>2, <1>3 DEF e, d

LEMMA RequestBegins ==
  ASSUME NEW a, NEW u, NEW s
  PROVE  [VisitIdle EXCEPT !.at = a, !.u = u, !.saw = s] = VRecord(a, u, "none", "none", s)
  <1> DEFINE d == [VisitIdle EXCEPT !.at = a, !.u = u]
  <1>1. d = VRecord(a, u, "none", "none", NotSeen)
    BY VisitBegins
  <1> HIDE DEF d
  <1>2. [d EXCEPT !.saw = s] = VRecord(a, u, "none", "none", s)
    BY <1>1 DEF VRecord
  <1>3. QED
    BY <1>2 DEF d

Opened(u, t, s) == [VisitIdle EXCEPT !.at = "spend", !.u = u, !.t = t, !.saw = s]

LEMMA LinkOpens ==
  ASSUME NEW u, NEW t, NEW s
  PROVE  Opened(u, t, s) = VRecord("spend", u, "none", t, s)
  <1> DEFINE d == [VisitIdle EXCEPT !.at = "spend", !.u = u]
  <1> DEFINE e == [d EXCEPT !.t = t]
  <1>1. d = VRecord("spend", u, "none", "none", NotSeen)
    BY VisitBegins
  <1> HIDE DEF d
  <1>2. e = VRecord("spend", u, "none", t, NotSeen)
    BY <1>1 DEF VRecord
  <1> HIDE DEF e
  <1>3. [e EXCEPT !.saw = s] = VRecord("spend", u, "none", t, s)
    BY <1>2 DEF VRecord
  <1>4. QED
    BY <1>3 DEF e, d, Opened

LEMMA VisitGoesOn ==
  ASSUME NEW v \in Visits, NEW a, NEW i
  PROVE  /\ v = VRecord(v.at, v.u, v.i, v.t, v.saw)
         /\ [v EXCEPT !.at = a] = VRecord(a, v.u, v.i, v.t, v.saw)
         /\ [v EXCEPT !.i = i] = VRecord(v.at, v.u, i, v.t, v.saw)
  BY DEF Visits, VRecord

LEMMA VisitReads ==
  ASSUME NEW v \in Visits, NEW a, NEW s
  PROVE  [v EXCEPT !.at = a, !.saw = s] = VRecord(a, v.u, v.i, v.t, s)
  <1> DEFINE d == [v EXCEPT !.at = a]
  <1>1. d = VRecord(a, v.u, v.i, v.t, v.saw)
    BY VisitGoesOn
  <1> HIDE DEF d
  <1>2. [d EXCEPT !.saw = s] = VRecord(a, v.u, v.i, v.t, s)
    BY <1>1 DEF VRecord
  <1>3. QED
    BY <1>2 DEF d

LEMMA IdleVisit ==
  /\ VisitIdle \in Visits /\ VisitForm(VisitIdle)
  /\ VisitIdle.at = "idle" /\ VisitIdle.at \notin AtUnlink \cup AtLink /\ VisitIdle.t = "none"
  BY DEF VisitIdle, Visits, VisitForm, AtUnlink, AtLink

USE SignInAssumption

LEMMA VisitMoved ==
  ASSUME visit \in [Proc -> Visits], NEW p \in Proc, NEW v, Visit(p, v)
  PROVE  visit'[p] = v /\ \A q \in Proc : q # p => visit'[q] = visit[q]
  BY DEF Visit

LEMMA FormStays ==
  ASSUME SignInWellFormed, NEW p \in Proc, NEW v \in Visits, VisitForm(v), Visit(p, v)
  PROVE  visit' \in [Proc -> Visits] /\ \A q \in Proc : VisitForm(visit'[q])
  <1>1. visit \in [Proc -> Visits] /\ \A q \in Proc : VisitForm(visit[q])
    BY DEF SignInWellFormed, SignInTypeOK
  <1>2. visit' \in [Proc -> Visits]
    BY <1>1 DEF Visit
  <1>3. QED
    BY <1>1, <1>2, VisitMoved

Accounts == [made : BOOLEAN, password : BOOLEAN, by : {"none", "other"} \cup Ticket]
Tickets == [u : Address \cup {"none"}, bound : BOOLEAN, known : BOOLEAN, state : {"none", "sent", "spent"}]

\* What Create does: an account that is there stays, a new one has what it is
\* made with.
LEMMA Created ==
  ASSUME account \in [Address -> Accounts], NEW u \in Address, NEW w \in BOOLEAN, NEW b \in {"other"} \cup Ticket,
         Create(u, w, b)
  PROVE  /\ account' \in [Address -> Accounts]
         /\ \A x \in Address : x # u \/ account[u].made => account'[x] = account[x]
         /\ ~account[u].made => account'[u].made /\ account'[u].password = w /\ account'[u].by = b
  <1> DEFINE r == [made |-> TRUE, password |-> w, by |-> b]
  <1>1. r \in Accounts /\ r.made /\ r.password = w /\ r.by = b
    BY DEF Accounts
  <1>2. account' = IF account[u].made THEN account ELSE [account EXCEPT ![u] = r]
    BY DEF Create
  <1> HIDE DEF r
  <1>3. QED
    BY <1>1, <1>2

LEMMA SignInStarts == SignInInit => SignInInv
  <1> SUFFICES ASSUME SignInInit PROVE SignInInv
    OBVIOUS
  <1>1. visit \in [Proc -> Visits] /\ \A p \in Proc : visit[p] = VisitIdle
    BY IdleVisit DEF SignInInit
  <1>2. account \in [Address -> Accounts] /\ \A u \in Address : ~account[u].made /\ ~account[u].password /\ account[u].by = "none"
    BY DEF SignInInit, NoAccount, Accounts
  <1>3. ticket \in [Ticket -> Tickets] /\ \A t \in Ticket : ticket[t].state = "none" /\ ~ticket[t].known /\ ~ticket[t].bound
    BY DEF SignInInit, NoTicket, Tickets
  <1>4. SignInWellFormed
    BY <1>1, <1>2, <1>3, IdleVisit DEF SignInInit, SignInWellFormed, SignInTypeOK, Accounts, Tickets
  <1>5. MethodInv
    BY <1>1, <1>2, IdleVisit DEF SignInInit, MethodInv, PasswordIsMade, UnlinksItsOwn, UnlinksAlone, PasswordWasSeen,
                                 AnotherRemains, WaysRemain, AtUnlink
  <1>6. LinksInv
    BY <1>1, <1>2, <1>3, IdleVisit DEF LinksInv, LinkIsUsed, SentToSomebody, BoundEnters, MakerEnters
  <1>7. QED
    BY <1>4, <1>5, <1>6 DEF SignInInv

(***************************************************************************)
(* Steps that leave the unlinks alone, take no way in away and give one to *)
(* every account that is new among the armed.                              *)
(***************************************************************************)
LEMMA MethodsKept ==
  ASSUME SignInWellFormed, MethodInv,
         \A q \in Proc : visit'[q].at \in AtUnlink => visit'[q] = visit[q],
         \A u \in Address : /\ account[u].password => account'[u].password
                            /\ account'[u].password => account'[u].made,
         \A i \in Identity : holder[i] # "none" => holder'[i] = holder[i],
         \A u \in armed' : u \in armed \/ Way(u)',
         crossing \subseteq crossing'
  PROVE  MethodInv'
  <1>0. \A p \in Proc : visit[p].at # "idle" => visit[p].u \in Address
    BY DEF SignInWellFormed, VisitForm
  <1>a. armed \subseteq Address /\ visit \in [Proc -> Visits]
    BY DEF SignInWellFormed, SignInTypeOK
  <1>1. \A u \in Address : /\ Way(u) => Way(u)'
                           /\ \A i \in Identity \cup {"none"} : Other(u, i) => Other(u, i)'
    <2>1. \A u \in Address, j \in Identity : holder[j] = u => holder'[j] = u
      OBVIOUS
    <2>2. QED
      BY <2>1 DEF Other, Way
  <1>2. PasswordIsMade'
    BY DEF PasswordIsMade
  <1>3. UnlinksItsOwn'
    <2> SUFFICES ASSUME NEW p \in Proc, visit'[p].at \in AtUnlink, visit'[p].i # "none"
                 PROVE  holder'[visit'[p].i] = visit'[p].u
      BY DEF UnlinksItsOwn
    <2>1. visit'[p] = visit[p] /\ holder[visit[p].i] = visit[p].u
      BY DEF MethodInv, UnlinksItsOwn
    <2>2. visit[p].u # "none" /\ visit[p].i \in Identity
      BY <1>0, <1>a, <2>1 DEF AtUnlink, Visits
    <2>3. QED
      BY <2>1, <2>2
  <1>4. UnlinksAlone'
    BY DEF MethodInv, UnlinksAlone
  <1>5. PasswordWasSeen'
    BY <1>0 DEF MethodInv, PasswordWasSeen, AtUnlink
  <1>6. AnotherRemains'
    <2> SUFFICES ASSUME NEW p \in Proc, visit'[p].at = "unlink_delete", visit'[p].u \notin crossing'
                 PROVE  Other(visit[p].u, visit[p].i)'
      BY DEF AnotherRemains
    <2>1. visit'[p] = visit[p]
      BY DEF AtUnlink
    <2>2. Other(visit[p].u, visit[p].i) /\ visit[p].u \in Address /\ visit[p].i \in Identity \cup {"none"}
      BY <1>0, <1>a, <2>1 DEF MethodInv, AnotherRemains, Visits
    <2>3. account[visit[p].u].password => account'[visit[p].u].password
      BY <2>2
    <2>4. \A j \in Identity : holder[j] = visit[p].u => holder'[j] = visit[p].u
      BY <2>2
    <2>5. QED
      BY <2>1, <2>2, <2>3, <2>4 DEF Other
  <1>7. WaysRemain'
    BY <1>1, <1>a DEF MethodInv, WaysRemain
  <1>8. QED
    BY <1>2, <1>3, <1>4, <1>5, <1>6, <1>7 DEF MethodInv

(***************************************************************************)
(* Steps that leave the links and their uses alone, and make no account by *)
(* a link.                                                                 *)
(***************************************************************************)
LEMMA LinksKept ==
  ASSUME LinksInv, UNCHANGED <<ticket, entered>>,
         \A q \in Proc : visit'[q].at \in AtLink \/ visit[q].at \in AtLink => visit'[q] = visit[q],
         \A t \in Ticket, u \in Address : account'[u].by = t => account[u].by = t
  PROVE  LinksInv'
  <1>1. LinkIsUsed'
    BY DEF LinksInv, LinkIsUsed
  <1>2. SentToSomebody'
    BY DEF LinksInv, SentToSomebody
  <1>3. \A t \in Ticket : Entering(t) => Entering(t)'
    BY DEF Entering, AtLink
  <1>4. BoundEnters' /\ MakerEnters'
    BY <1>3 DEF LinksInv, BoundEnters, MakerEnters
  <1>5. QED
    BY <1>1, <1>2, <1>4 DEF LinksInv

LEMMA Keeps ==
  ASSUME SignInInv, NEW p \in Proc, NEW v \in Visits, VisitForm(v), Visit(p, v),
         v.at \notin AtUnlink \cup AtLink, visit[p].at \notin AtLink,
         account' \in [Address -> Accounts], holder' \in [Identity -> Address \cup {"none"}], armed' \subseteq Address,
         UNCHANGED <<ticket, entered, crossing>>,
         \A u \in Address : /\ account[u].password => account'[u].password
                            /\ account'[u].password => account'[u].made,
         \A i \in Identity : holder[i] # "none" => holder'[i] = holder[i],
         \A u \in armed' : u \in armed \/ Way(u)',
         \A t \in Ticket, u \in Address : account'[u].by = t => account[u].by = t
  PROVE  SignInInv'
  <1>1. visit \in [Proc -> Visits] /\ SignInWellFormed
    BY DEF SignInInv, SignInWellFormed, SignInTypeOK
  <1>2. visit'[p] = v /\ \A q \in Proc : q # p => visit'[q] = visit[q]
    BY <1>1, VisitMoved
  <1>3. SignInWellFormed'
    BY <1>1, FormStays DEF SignInWellFormed, SignInTypeOK, Accounts
  <1>4. \A q \in Proc : visit'[q].at \in AtUnlink => visit'[q] = visit[q]
    BY <1>2
  <1>5. MethodInv'
    BY <1>1, <1>4, MethodsKept DEF SignInInv
  <1>6. \A q \in Proc : visit'[q].at \in AtLink \/ visit[q].at \in AtLink => visit'[q] = visit[q]
    BY <1>2
  <1>7. LinksInv'
    BY <1>6, LinksKept DEF SignInInv
  <1>8. QED
    BY <1>3, <1>5, <1>7 DEF SignInInv

\* A call that goes on, or ends, and writes nothing.
LEMMA Passes ==
  ASSUME SignInInv, NEW p \in Proc, NEW v \in Visits, VisitForm(v), Visit(p, v),
         v.at \notin AtUnlink \cup AtLink, visit[p].at \notin AtLink,
         UNCHANGED <<account, holder, ticket, entered, armed, crossing>>
  PROVE  SignInInv'
  <1>1. /\ account \in [Address -> Accounts] /\ holder \in [Identity -> Address \cup {"none"}] /\ armed \subseteq Address
        /\ \A u \in Address : account[u].password => account[u].made
    BY DEF SignInInv, SignInWellFormed, SignInTypeOK, MethodInv, PasswordIsMade, Accounts
  <1>2. QED
    BY <1>1, Keeps

LEMMA CallKnown ==
  ASSUME SignInInv, NEW p \in Proc
  PROVE  /\ visit[p] \in Visits /\ VisitForm(visit[p])
         /\ visit[p].u \in Address \cup {"none"} /\ visit[p].i \in Identity \cup {"none"} /\ visit[p].t \in Ticket \cup {"none"}
         /\ visit[p].saw \in BOOLEAN
         /\ account \in [Address -> Accounts] /\ holder \in [Identity -> Address \cup {"none"}]
         /\ ticket \in [Ticket -> Tickets] /\ visit \in [Proc -> Visits]
         /\ entered \subseteq Ticket /\ armed \subseteq Address /\ crossing \subseteq Address
         /\ \A u \in Address : account[u].password => account[u].made
  BY DEF SignInInv, SignInWellFormed, SignInTypeOK, Accounts, Tickets, Visits, MethodInv, PasswordIsMade

\* Any call with the fields of its kind.
LEMMA RecordIsVisit ==
  ASSUME NEW a \in {"idle", "provision", "sso_mail", "sso_insert", "link_insert", "unlink_password", "unlink_count",
                    "unlink_delete", "send", "spend", "create", "enter"},
         NEW u \in Address \cup {"none"}, NEW i \in Identity \cup {"none"}, NEW t \in Ticket \cup {"none"}, NEW s \in BOOLEAN
  PROVE  /\ VRecord(a, u, i, t, s) \in Visits
         /\ VRecord(a, u, i, t, s).at = a /\ VRecord(a, u, i, t, s).u = u /\ VRecord(a, u, i, t, s).i = i
         /\ VRecord(a, u, i, t, s).t = t /\ VRecord(a, u, i, t, s).saw = s
  BY DEF VRecord, Visits

\* The first statements, and the look-up of the mail address.
LEMMA VisitsBegin ==
  ASSUME SignInInv, NEW p \in Proc, NEW u \in Address, LookupByEmail(p, u) \/ RequestMagicLink(p, u)
  PROVE  SignInInv'
  <1>0. visit[p] = VisitIdle /\ NotSeen \in BOOLEAN /\ account[u].made \in BOOLEAN
    BY CallKnown DEF LookupByEmail, RequestMagicLink, Start, NotSeen, Accounts
  <1>1. CASE LookupByEmail(p, u)
    <2> DEFINE v == VRecord("provision", u, "none", "none", NotSeen)
    <2>1. Visit(p, v) /\ UNCHANGED <<account, holder, ticket, entered, armed, crossing>>
      BY <1>1, VisitBegins DEF LookupByEmail, Start
    <2>2. v \in Visits /\ VisitForm(v) /\ v.at \notin AtUnlink \cup AtLink
      BY <1>0, RecordIsVisit DEF VisitForm, AtUnlink, AtLink
    <2> HIDE DEF v
    <2>3. QED
      BY <1>0, <2>1, <2>2, Passes, IdleVisit
  <1>2. CASE RequestMagicLink(p, u)
    <2> DEFINE v == VRecord("send", u, "none", "none", account[u].made)
    <2>1. Visit(p, v) /\ UNCHANGED <<account, holder, ticket, entered, armed, crossing>>
      BY <1>2, RequestBegins DEF RequestMagicLink, Start
    <2>2. v \in Visits /\ VisitForm(v) /\ v.at \notin AtUnlink \cup AtLink
      BY <1>0, RecordIsVisit DEF VisitForm, AtUnlink, AtLink
    <2> HIDE DEF v
    <2>3. QED
      BY <1>0, <2>1, <2>2, Passes, IdleVisit
  <1>3. QED
    BY <1>1, <1>2

LEMMA CallsBegin ==
  ASSUME SignInInv, NEW p \in Proc, NEW u \in Address, NEW i \in Identity,
         SsoSignIn(p, i, u) \/ LinkSsoIdentity(p, u, i)
  PROVE  SignInInv'
  <1>0. visit[p] = VisitIdle /\ NotSeen \in BOOLEAN
    BY DEF SsoSignIn, LinkSsoIdentity, Start, NotSeen
  <1>1. ASSUME SsoSignIn(p, i, u) \/ LinkSsoIdentity(p, u, i), NEW a \in {"sso_mail", "link_insert"},
               Visit(p, [VisitIdle EXCEPT !.at = a, !.u = u, !.i = i])
        PROVE  SignInInv'
    <2> DEFINE v == VRecord(a, u, i, "none", NotSeen)
    <2>1. Visit(p, v) /\ UNCHANGED <<account, holder, ticket, entered, armed, crossing>>
      BY <1>1, VisitBegins DEF SsoSignIn, LinkSsoIdentity
    <2>2. v \in Visits /\ VisitForm(v) /\ v.at \notin AtUnlink \cup AtLink
      BY <1>0, RecordIsVisit DEF VisitForm, AtUnlink, AtLink
    <2> HIDE DEF v
    <2>3. QED
      BY <1>0, <2>1, <2>2, Passes, IdleVisit
  <1>2. QED
    BY <1>1 DEF SsoSignIn, LinkSsoIdentity, Start

LEMMA MailIsLookedUp ==
  ASSUME SignInInv, NEW p \in Proc, LookUpMail(p)
  PROVE  SignInInv'
  <1> DEFINE v == VRecord("sso_insert", visit[p].u, visit[p].i, visit[p].t, visit[p].saw)
  <1>1. visit[p].at = "sso_mail" /\ UNCHANGED <<account, holder, ticket, entered, armed, crossing>>
    BY DEF LookUpMail
  <1>2. Visit(p, VisitIdle) \/ Visit(p, v)
    <2>1. [visit[p] EXCEPT !.at = "sso_insert"] = v
      BY CallKnown, VisitGoesOn
    <2>2. Leave(p) \/ VisitAt(p, "sso_insert")
      BY DEF LookUpMail
    <2> HIDE DEF v
    <2>3. QED
      BY <2>1, <2>2 DEF Leave, VisitAt
  <1>3. v \in Visits /\ VisitForm(v) /\ v.at \notin AtUnlink \cup AtLink
    <2>1. /\ visit[p].u \in Address /\ visit[p].i \in Identity /\ visit[p].t = "none" /\ visit[p].saw \in BOOLEAN
      BY <1>1, CallKnown DEF VisitForm, AtLink
    <2>2. v \in Visits /\ v.at = "sso_insert" /\ v.u = visit[p].u /\ v.i = visit[p].i /\ v.t = visit[p].t
      BY <2>1, RecordIsVisit
    <2> HIDE DEF v
    <2>3. QED
      BY <2>1, <2>2 DEF VisitForm, AtUnlink, AtLink
  <1>4. visit[p].at \notin AtLink
    BY <1>1 DEF AtLink
  <1> HIDE DEF v
  <1>5. QED
    BY <1>1, <1>2, <1>3, <1>4, Passes, IdleVisit

\* The accounts that are made or armed.
LEMMA AccountsAreMade ==
  ASSUME SignInInv, NEW p \in Proc, Provision(p) \/ SsoProvision(p) \/ LinkInsert(p)
  PROVE  SignInInv'
  <1> DEFINE u == visit[p].u
  <1> DEFINE i == visit[p].i
  <1>1. /\ visit[p].at \in {"provision", "sso_insert", "link_insert"} /\ Visit(p, VisitIdle)
        /\ UNCHANGED <<ticket, entered, crossing>>
    BY DEF Provision, SsoProvision, LinkInsert, Leave
  <1>2. u \in Address /\ (visit[p].at # "provision" => i \in Identity) /\ visit[p].at \notin AtLink
    BY <1>1, CallKnown DEF VisitForm, AtLink
  <1>3. account \in [Address -> Accounts] /\ holder \in [Identity -> Address \cup {"none"}] /\ armed \subseteq Address
        /\ \A x \in Address : account[x].password => account[x].made
    BY CallKnown
  <1>4. CASE Provision(p)
    <2>1. Create(u, FALSE, "other") /\ UNCHANGED <<holder, armed>>
      BY <1>4 DEF Provision
    <2>2. /\ account' \in [Address -> Accounts]
          /\ \A x \in Address : x # u \/ account[u].made => account'[x] = account[x]
          /\ ~account[u].made => account'[u].made /\ account'[u].password = FALSE /\ account'[u].by = "other"
      BY <1>2, <1>3, <2>1, Created
    <2>3. /\ \A x \in Address : /\ account[x].password => account'[x].password
                                /\ account'[x].password => account'[x].made
          /\ \A t \in Ticket, x \in Address : account'[x].by = t => account[x].by = t
      BY <1>2, <1>3, <2>2
    <2>4. QED
      BY <1>1, <1>2, <1>3, <2>1, <2>2, <2>3, Keeps, IdleVisit
  <1>5. CASE SsoProvision(p)
    <2> DEFINE r == [made |-> TRUE, password |-> FALSE, by |-> "other"]
    <2> DEFINE free == ~account[u].made /\ holder[i] = "none"
    <2>0. i \in Identity
      BY <1>2, <1>5 DEF SsoProvision
    <2>1. r \in Accounts /\ r.made /\ ~r.password /\ r.by = "other"
      BY DEF Accounts
    <2>2. /\ account' = IF free THEN [account EXCEPT ![u] = r] ELSE account
          /\ holder' = IF free THEN [holder EXCEPT ![i] = u] ELSE holder
          /\ armed' = IF free THEN armed \cup {u} ELSE armed
      BY <1>5 DEF SsoProvision
    <2> HIDE DEF r
    <2>3. account' \in [Address -> Accounts] /\ holder' \in [Identity -> Address \cup {"none"}] /\ armed' \subseteq Address
      BY <1>2, <1>3, <2>1, <2>2
    <2>4. /\ \A x \in Address : /\ account[x].password => account'[x].password
                                /\ account'[x].password => account'[x].made
          /\ \A t \in Ticket, x \in Address : account'[x].by = t => account[x].by = t
      BY <1>2, <1>3, <2>1, <2>2
    <2>5. \A j \in Identity : holder[j] # "none" => holder'[j] = holder[j]
      BY <2>0, <1>3, <2>2
    <2>6. \A x \in armed' : x \in armed \/ Way(x)'
      BY <2>0, <1>2, <1>3, <2>2 DEF Way
    <2>7. QED
      BY <1>1, <1>2, <2>3, <2>4, <2>5, <2>6, Keeps, IdleVisit
  <1>6. CASE LinkInsert(p)
    <2>0. i \in Identity /\ account' = account
      BY <1>2, <1>6 DEF LinkInsert
    <2>1. \/ holder[i] = "none" /\ holder' = [holder EXCEPT ![i] = u] /\ armed' = armed \cup {u}
          \/ UNCHANGED <<holder, armed>>
      BY <1>6 DEF LinkInsert
    <2>2. holder' \in [Identity -> Address \cup {"none"}] /\ armed' \subseteq Address
      BY <1>2, <1>3, <2>1
    <2>3. /\ \A j \in Identity : holder[j] # "none" => holder'[j] = holder[j]
          /\ \A x \in armed' : x \in armed \/ Way(x)'
      BY <2>0, <1>2, <1>3, <2>1 DEF Way
    <2>4. QED
      BY <1>1, <1>2, <1>3, <2>0, <2>2, <2>3, Keeps, IdleVisit
  <1>7. QED
    BY <1>4, <1>5, <1>6

\* Signup and ResetPassword, each one transaction.
LEMMA PasswordsAreSet ==
  ASSUME SignInInv, NEW u \in Address, Signup(u) \/ ResetPassword(u)
  PROVE  SignInInv'
  <1>0. /\ account \in [Address -> Accounts] /\ armed \subseteq Address /\ SignInWellFormed
        /\ \A x \in Address : account[x].password => account[x].made
    BY DEF SignInInv, SignInWellFormed, SignInTypeOK, MethodInv, PasswordIsMade, Accounts
  <1>1. armed' = armed \cup {u} /\ UNCHANGED <<holder, ticket, visit, entered, crossing>>
    BY DEF Signup, ResetPassword
  <1>2. /\ account' \in [Address -> Accounts] /\ account'[u].made /\ account'[u].password
        /\ account'[u].by \in {account[u].by, "other"}
        /\ \A x \in Address : x # u => account'[x] = account[x]
    <2>1. CASE Signup(u)
      <3>1. ~account[u].made /\ Create(u, TRUE, "other")
        BY <2>1 DEF Signup
      <3>2. QED
        BY <1>0, <3>1, Created
    <2>2. CASE ResetPassword(u)
      BY <1>0, <2>2 DEF ResetPassword, Accounts
    <2>3. QED
      BY <2>1, <2>2
  <1>3. SignInWellFormed'
    BY <1>0, <1>1, <1>2 DEF SignInWellFormed, SignInTypeOK, VisitForm, Accounts
  <1>4. /\ \A x \in Address : /\ account[x].password => account'[x].password
                              /\ account'[x].password => account'[x].made
        /\ \A t \in Ticket, x \in Address : account'[x].by = t => account[x].by = t
    BY <1>0, <1>2
  <1>5. \A x \in armed' : x \in armed \/ Way(x)'
    BY <1>1, <1>2 DEF Way
  <1>6. MethodInv'
    BY <1>0, <1>1, <1>4, <1>5, MethodsKept DEF SignInInv
  <1>7. LinksInv'
    BY <1>1, <1>4, LinksKept DEF SignInInv
  <1>8. QED
    BY <1>3, <1>6, <1>7 DEF SignInInv

(***************************************************************************)
(* The unlinks.                                                            *)
(***************************************************************************)
LEMMA UnlinkStays ==
  ASSUME SignInInv, NEW p \in Proc, NEW v \in Visits, VisitForm(v), Visit(p, v),
         v.at \notin AtLink, visit[p].at \notin AtLink, crossing \subseteq crossing', crossing' \subseteq Address,
         UNCHANGED <<account, holder, ticket, entered, armed>>
  PROVE  SignInWellFormed' /\ LinksInv' /\ PasswordIsMade' /\ WaysRemain'
  <1>1. visit \in [Proc -> Visits] /\ SignInWellFormed
    BY DEF SignInInv, SignInWellFormed, SignInTypeOK
  <1>2. visit'[p] = v /\ \A q \in Proc : q # p => visit'[q] = visit[q]
    BY <1>1, VisitMoved
  <1>3. SignInWellFormed'
    BY <1>1, FormStays DEF SignInWellFormed, SignInTypeOK
  <1>4. \A q \in Proc : visit'[q].at \in AtLink \/ visit[q].at \in AtLink => visit'[q] = visit[q]
    BY <1>2
  <1>5. LinksInv'
    BY <1>4, LinksKept DEF SignInInv
  <1>6. PasswordIsMade' /\ WaysRemain'
    BY DEF SignInInv, MethodInv, PasswordIsMade, WaysRemain, Way
  <1>7. QED
    BY <1>3, <1>5, <1>6

LEMMA UnlinkBegins ==
  ASSUME SignInInv, NEW p \in Proc, NEW u \in Address, NEW i \in Identity, UnlinkSsoIdentity(p, u, i)
  PROVE  SignInInv'
  <1> DEFINE v == VRecord("unlink_password", u, i, "none", NotSeen)
  <1>0. visit[p] = VisitIdle /\ NotSeen \in BOOLEAN
    BY DEF UnlinkSsoIdentity, Start, NotSeen
  <1>1. Visit(p, v) /\ holder[i] = u /\ UNCHANGED <<account, holder, ticket, entered, armed>>
    BY VisitBegins DEF UnlinkSsoIdentity, Start
  <1>2. v \in Visits /\ VisitForm(v) /\ v.at = "unlink_password" /\ v.at \notin AtLink /\ v.u = u /\ v.i = i
    BY <1>0, RecordIsVisit DEF VisitForm, AtLink
  <1> HIDE DEF v
  <1>3. visit'[p] = v /\ \A q \in Proc : q # p => visit'[q] = visit[q]
    BY <1>1, CallKnown, VisitMoved
  <1>4. /\ crossing \subseteq crossing' /\ crossing' \subseteq Address
        /\ u \notin crossing' => \A q \in Proc : visit[q].at \in AtUnlink => visit[q].u # u
    BY CallKnown DEF UnlinkSsoIdentity, Unlinking, AtUnlink
  <1>5. SignInWellFormed' /\ LinksInv' /\ PasswordIsMade' /\ WaysRemain'
    BY <1>0, <1>1, <1>2, <1>4, UnlinkStays, IdleVisit
  <1>6. UnlinksItsOwn' /\ PasswordWasSeen'
    BY <1>1, <1>2, <1>3 DEF SignInInv, MethodInv, UnlinksItsOwn, PasswordWasSeen
  <1>7. UnlinksAlone'
    BY <1>2, <1>3, <1>4 DEF SignInInv, MethodInv, UnlinksAlone
  <1>8. AnotherRemains'
    <2> SUFFICES ASSUME NEW q \in Proc, visit'[q].at = "unlink_delete", visit'[q].u \notin crossing'
                 PROVE  Other(visit[q].u, visit[q].i)' /\ visit'[q] = visit[q]
      BY DEF AnotherRemains, Other
    <2>1. visit'[q] = visit[q]
      BY <1>2, <1>3
    <2>2. QED
      BY <1>1, <1>4, <2>1 DEF SignInInv, MethodInv, AnotherRemains, Other
  <1>9. QED
    BY <1>5, <1>6, <1>7, <1>8 DEF SignInInv, MethodInv

\* The password is read, then the other identities are counted.
LEMMA UnlinkReads ==
  ASSUME SignInInv, NEW p \in Proc, NEW v \in Visits, VisitForm(v), Visit(p, v), visit[p].at \in AtUnlink,
         v.at \in {"unlink_count", "unlink_delete"}, v.u = visit[p].u, v.i = visit[p].i,
         v.at = "unlink_count" /\ v.saw => account[v.u].password,
         v.at = "unlink_delete" => Other(v.u, v.i),
         UNCHANGED <<account, holder, ticket, entered, armed, crossing>>
  PROVE  SignInInv'
  <1>1. v.at \in AtUnlink /\ v.at \notin AtLink /\ visit[p].at \notin AtLink
    BY DEF AtUnlink, AtLink
  <1>2. visit'[p] = v /\ \A q \in Proc : q # p => visit'[q] = visit[q]
    BY CallKnown, VisitMoved
  <1>3. SignInWellFormed' /\ LinksInv' /\ PasswordIsMade' /\ WaysRemain'
    BY <1>1, CallKnown, UnlinkStays
  <1>4. UnlinksItsOwn' /\ PasswordWasSeen' /\ UnlinksAlone'
    BY <1>1, <1>2 DEF SignInInv, MethodInv, UnlinksItsOwn, PasswordWasSeen, UnlinksAlone
  <1>5. AnotherRemains'
    <2> SUFFICES ASSUME NEW q \in Proc, visit'[q].at = "unlink_delete", visit'[q].u \notin crossing'
                 PROVE  Other(visit[q].u, visit[q].i)' /\ visit'[q].u = visit[q].u /\ visit'[q].i = visit[q].i
      BY DEF AnotherRemains, Other
    <2>1. visit'[q].u = visit[q].u /\ visit'[q].i = visit[q].i
      BY <1>2
    <2>2. Other(visit[q].u, visit[q].i)
      BY <1>2, <2>1 DEF SignInInv, MethodInv, AnotherRemains
    <2>3. QED
      BY <2>1, <2>2 DEF Other
  <1>6. QED
    BY <1>3, <1>4, <1>5 DEF SignInInv, MethodInv

LEMMA UnlinkGoesOn ==
  ASSUME SignInInv, NEW p \in Proc, ReadPassword(p) \/ CountOthers(p)
  PROVE  SignInInv'
  <1> DEFINE c == visit[p]
  <1>0. c.at \in {"unlink_password", "unlink_count"} /\ UNCHANGED <<account, holder, ticket, entered, armed, crossing>>
    BY DEF ReadPassword, CountOthers
  <1>1. c.at \in AtUnlink /\ c.at \notin AtLink /\ c.u \in Address /\ c.t = "none"
    BY <1>0, CallKnown DEF VisitForm, AtUnlink, AtLink
  <1>2. CASE ReadPassword(p)
    <2> DEFINE s == account[c.u].password
    <2> DEFINE v == VRecord("unlink_count", c.u, c.i, c.t, s)
    <2>0. s \in BOOLEAN
      BY <1>1, CallKnown DEF Accounts
    <2>a. Visit(p, [visit[p] EXCEPT !.at = "unlink_count", !.saw = s])
      BY <1>2 DEF ReadPassword
    <2>b. (s => account[c.u].password) /\ c \in Visits
      BY CallKnown
    <2> HIDE DEF s
    <2>1. [visit[p] EXCEPT !.at = "unlink_count", !.saw = s] = v
      BY <2>b, VisitReads
    <2>2. Visit(p, v)
      BY <2>a, <2>1
    <2>3. v \in Visits /\ v.at = "unlink_count" /\ v.u = c.u /\ v.i = c.i /\ v.t = c.t /\ v.saw = s
      <3>1. c.u \in Address \cup {"none"} /\ c.i \in Identity \cup {"none"} /\ c.t \in Ticket \cup {"none"}
        BY CallKnown
      <3>2. QED
        BY <2>0, <3>1, RecordIsVisit
    <2> HIDE DEF v
    <2>4. VisitForm(v)
      BY <1>1, <2>3 DEF VisitForm, AtLink
    <2>5. QED
      BY <1>0, <1>1, <2>b, <2>2, <2>3, <2>4, UnlinkReads
  <1>3. CASE CountOthers(p) /\ (c.saw \/ Held(c.u) \ {c.i} # {})
    <2> DEFINE v == VRecord("unlink_delete", c.u, c.i, c.t, c.saw)
    <2>1. [visit[p] EXCEPT !.at = "unlink_delete"] = v
      BY CallKnown, VisitGoesOn
    <2>2. Visit(p, v) /\ c.at = "unlink_count"
      BY <1>3, <2>1 DEF CountOthers, VisitAt
    <2>3. v \in Visits /\ v.at = "unlink_delete" /\ v.u = c.u /\ v.i = c.i /\ v.t = c.t
      <3>1. c.u \in Address \cup {"none"} /\ c.i \in Identity \cup {"none"} /\ c.t \in Ticket \cup {"none"} /\ c.saw \in BOOLEAN
        BY CallKnown
      <3>2. QED
        BY <3>1, RecordIsVisit
    <2> HIDE DEF v
    <2>4. VisitForm(v)
      BY <1>1, <2>3 DEF VisitForm, AtLink
    <2>5. Other(c.u, c.i)
      BY <1>3, <2>2 DEF SignInInv, MethodInv, PasswordWasSeen, Other, Held
    <2>6. QED
      BY <1>0, <1>1, <2>2, <2>3, <2>4, <2>5, UnlinkReads
  <1>4. CASE CountOthers(p) /\ ~(c.saw \/ Held(c.u) \ {c.i} # {})
    <2>1. Visit(p, VisitIdle)
      BY <1>4 DEF CountOthers, Leave
    <2>2. QED
      BY <1>0, <1>1, <2>1, Passes, IdleVisit
  <1>5. QED
    BY <1>2, <1>3, <1>4

\* The row goes, and with it what the other unlinks of it hold.
LEMMA UnlinkDeletes ==
  ASSUME SignInInv, NEW p \in Proc, DeleteIdentity(p)
  PROVE  SignInInv'
  <1> DEFINE i == visit[p].i
  <1> DEFINE Stripped(q) == [visit[q] EXCEPT !.i = "none"]
  <1>0. /\ visit[p].at = "unlink_delete" /\ visit[p].at \in AtUnlink /\ visit[p].at \notin AtLink
        /\ UNCHANGED <<account, ticket, entered, armed, crossing>>
    BY DEF DeleteIdentity, AtUnlink, AtLink
  <1>1. visit'[p] = VisitIdle
    BY DEF DeleteIdentity
  <1>2. ASSUME NEW q \in Proc, q # p
        PROVE  \/ visit'[q] = visit[q] /\ ~(visit[q].i = i /\ visit[q].at \in AtUnlink)
               \/ visit'[q] = Stripped(q) /\ visit[q].i = i /\ visit[q].at \in AtUnlink
    <2> DEFINE hit == visit[q].i = i /\ q \in Unlinking(visit[q].u)
    <2>0. hit <=> visit[q].i = i /\ visit[q].at \in AtUnlink
      BY DEF Unlinking, AtUnlink
    <2>1. visit'[q] = [visit[q] EXCEPT !.i = IF hit THEN "none" ELSE @]
      BY <1>2 DEF DeleteIdentity
    <2> HIDE DEF hit
    <2>2. CASE hit
      BY <2>0, <2>1, <2>2
    <2>3. CASE ~hit
      <3>1. visit'[q] = [visit[q] EXCEPT !.i = visit[q].i]
        BY <2>1, <2>3
      <3>2. visit[q] \in Visits
        BY CallKnown
      <3>3. visit'[q] = visit[q]
        <4> DEFINE w == visit[q]
        <4>1. w \in Visits /\ visit'[q] = [w EXCEPT !.i = w.i]
          BY <3>1, <3>2
        <4> HIDE DEF w
        <4>2. visit'[q] = w
          BY <4>1 DEF Visits
        <4>3. QED
          BY <4>2 DEF w
      <3>4. QED
        BY <2>0, <2>3, <3>3
    <2>4. QED
      BY <2>2, <2>3
  <1>3. \A q \in Proc : LET s == Stripped(q) IN s.at = visit[q].at /\ s.u = visit[q].u /\ s.i = "none" /\ s.t = visit[q].t /\ s.saw = visit[q].saw /\ s \in Visits
    <2> SUFFICES ASSUME NEW q \in Proc
                 PROVE  LET s == Stripped(q) IN s.at = visit[q].at /\ s.u = visit[q].u /\ s.i = "none" /\ s.t = visit[q].t /\ s.saw = visit[q].saw /\ s \in Visits
      OBVIOUS
    <2>1. /\ visit[q].at \in {"idle", "provision", "sso_mail", "sso_insert", "link_insert", "unlink_password", "unlink_count",
                            "unlink_delete", "send", "spend", "create", "enter"}
          /\ visit[q] \in Visits
      BY CallKnown DEF Visits
    <2>2. Stripped(q) = VRecord(visit[q].at, visit[q].u, "none", visit[q].t, visit[q].saw)
      BY <2>1, VisitGoesOn
    <2>3. visit[q].u \in Address \cup {"none"} /\ visit[q].t \in Ticket \cup {"none"} /\ visit[q].saw \in BOOLEAN
      BY CallKnown
    <2> DEFINE s == VRecord(visit[q].at, visit[q].u, "none", visit[q].t, visit[q].saw)
    <2>4. s.at = visit[q].at /\ s.u = visit[q].u /\ s.i = "none" /\ s.t = visit[q].t /\ s.saw = visit[q].saw /\ s \in Visits
      BY <2>1, <2>3, RecordIsVisit
    <2> HIDE DEF s
    <2>5. QED
      BY <2>2, <2>4 DEF s
  <1> HIDE DEF Stripped
  <1>4. \A q \in Proc : q # p => /\ visit'[q].at = visit[q].at /\ visit'[q].u = visit[q].u
                                 /\ visit'[q].t = visit[q].t /\ visit'[q].saw = visit[q].saw /\ visit'[q] \in Visits
                                 /\ visit[q].at \notin AtUnlink => visit'[q] = visit[q]
                                 /\ visit[q].at \in AtUnlink => visit'[q].i = (IF visit[q].i = i THEN "none" ELSE visit[q].i)
    BY <1>2, <1>3, CallKnown
  <1>5. holder' = [j \in Identity |-> IF j = i THEN "none" ELSE holder[j]]
    BY DEF DeleteIdentity
  <1>6. SignInWellFormed'
    <2>1. visit' \in [Proc -> Visits]
      BY <1>1, <1>4, IdleVisit DEF DeleteIdentity
    <2>2. holder' \in [Identity -> Address \cup {"none"}]
      BY <1>5, CallKnown
    <2>3. \A q \in Proc : VisitForm(visit'[q])
      BY <1>1, <1>4, IdleVisit, CallKnown DEF VisitForm, AtLink, AtUnlink
    <2>4. QED
      BY <1>0, <2>1, <2>2, <2>3 DEF SignInInv, SignInWellFormed, SignInTypeOK
  <1>7. LinksInv'
    <2>1. \A q \in Proc : visit'[q].at \in AtLink \/ visit[q].at \in AtLink => visit'[q] = visit[q]
      BY <1>0, <1>1, <1>4, IdleVisit DEF AtUnlink, AtLink
    <2>2. QED
      BY <1>0, <2>1, LinksKept DEF SignInInv
  <1>8. PasswordIsMade'
    BY <1>0 DEF SignInInv, MethodInv, PasswordIsMade
  <1>9. UnlinksItsOwn'
    <2> SUFFICES ASSUME NEW q \in Proc, visit'[q].at \in AtUnlink, visit'[q].i # "none"
                 PROVE  holder'[visit'[q].i] = visit'[q].u
      BY DEF UnlinksItsOwn
    <2>1. q # p /\ visit[q].at \in AtUnlink /\ visit'[q].i = visit[q].i /\ visit[q].i # i /\ visit'[q].u = visit[q].u
      BY <1>1, <1>4, IdleVisit
    <2>2. holder[visit[q].i] = visit[q].u /\ visit[q].i \in Identity
      BY <2>1, CallKnown DEF SignInInv, MethodInv, UnlinksItsOwn
    <2>3. QED
      BY <1>5, <2>1, <2>2
  <1>10. UnlinksAlone' /\ PasswordWasSeen'
    BY <1>0, <1>1, <1>4, IdleVisit DEF SignInInv, MethodInv, UnlinksAlone, PasswordWasSeen
  <1>11. \A u \in Address : \/ u = visit[p].u
                            \/ \A j \in Identity : holder[j] = u => holder'[j] = u
    BY <1>0, <1>5, CallKnown DEF SignInInv, MethodInv, UnlinksItsOwn
  <1>12. AnotherRemains'
    <2> SUFFICES ASSUME NEW q \in Proc, visit'[q].at = "unlink_delete", visit'[q].u \notin crossing'
                 PROVE  account'[visit'[q].u].password \/ \E j \in Identity : j # visit'[q].i /\ holder'[j] = visit'[q].u
      BY DEF AnotherRemains, Other
    <2>1. q # p /\ visit[q].at = "unlink_delete" /\ visit'[q].u = visit[q].u /\ visit[q].u \in Address
      BY <1>1, <1>4, IdleVisit, CallKnown DEF VisitForm
    <2>2. visit[q].u # visit[p].u
      BY <1>0, <2>1 DEF SignInInv, MethodInv, UnlinksAlone, AtUnlink
    <2>3. visit'[q].i \in {visit[q].i, "none"}
      BY <1>4, <2>1 DEF AtUnlink
    <2>4. Other(visit[q].u, visit[q].i)
      BY <1>0, <2>1 DEF SignInInv, MethodInv, AnotherRemains
    <2>5. QED
      BY <1>0, <1>11, <2>1, <2>2, <2>3, <2>4 DEF Other
  <1>13. WaysRemain'
    <2> SUFFICES ASSUME NEW u \in armed, u \notin crossing
                 PROVE  Way(u)'
      BY <1>0 DEF WaysRemain
    <2>0. Way(u) /\ u \in Address
      BY CallKnown DEF SignInInv, MethodInv, WaysRemain
    <2>1. CASE u = visit[p].u
      <3>1. Other(u, i)
        BY <1>0, <2>1 DEF SignInInv, MethodInv, AnotherRemains
      <3>2. QED
        BY <1>0, <1>5, <3>1 DEF Other, Way
    <2>2. CASE u # visit[p].u
      BY <1>0, <1>11, <2>0, <2>2 DEF Way
    <2>3. QED
      BY <2>1, <2>2
  <1>14. QED
    BY <1>6, <1>7, <1>8, <1>9, <1>10, <1>12, <1>13 DEF SignInInv, MethodInv

(***************************************************************************)
(* The links sent by mail.                                                 *)
(***************************************************************************)
LEMMA LinkLeavesMethods ==
  ASSUME SignInInv, NEW p \in Proc, NEW v \in Visits, VisitForm(v), Visit(p, v), v.at \notin AtUnlink,
         ticket' \in [Ticket -> Tickets], entered' \subseteq Ticket, account' \in [Address -> Accounts],
         \A u \in Address : account'[u] = account[u] \/ (~account[u].made /\ account'[u].made),
         UNCHANGED <<holder, armed, crossing>>
  PROVE  SignInWellFormed' /\ MethodInv'
  <1>1. visit \in [Proc -> Visits] /\ SignInWellFormed /\ \A u \in Address : account[u].password => account[u].made
    BY CallKnown DEF SignInInv
  <1>2. visit'[p] = v /\ \A q \in Proc : q # p => visit'[q] = visit[q]
    BY <1>1, VisitMoved
  <1>3. SignInWellFormed'
    BY <1>1, FormStays DEF SignInWellFormed, SignInTypeOK, Accounts, Tickets
  <1>4. \A q \in Proc : visit'[q].at \in AtUnlink => visit'[q] = visit[q]
    BY <1>2
  <1>5. \A u \in Address : /\ account[u].password => account'[u].password
                           /\ account'[u].password => account'[u].made
    BY <1>1
  <1>6. MethodInv'
    BY <1>1, <1>4, <1>5, MethodsKept DEF SignInInv
  <1>7. QED
    BY <1>3, <1>6

LEMMA LinkIsSent ==
  ASSUME SignInInv, NEW p \in Proc, NEW t \in Ticket, SendLink(p, t)
  PROVE  SignInInv'
  <1> DEFINE c == visit[p]
  <1> DEFINE r == [u |-> c.u, bound |-> c.saw, known |-> c.saw, state |-> "sent"]
  <1>0. c.at = "send" /\ c.u \in Address /\ c.saw \in BOOLEAN
    BY CallKnown DEF SendLink, VisitForm
  <1>1. /\ ticket[t] = NoTicket /\ ticket' = [ticket EXCEPT ![t] = r] /\ Visit(p, VisitIdle)
        /\ UNCHANGED <<account, holder, entered, armed, crossing>>
    BY DEF SendLink, Leave
  <1>2. r \in Tickets /\ r.u = c.u /\ (r.known => r.bound) /\ r.state = "sent" /\ NoTicket.state = "none"
    BY <1>0 DEF Tickets, NoTicket
  <1> HIDE DEF r
  <1>3. ticket' \in [Ticket -> Tickets] /\ ticket'[t] = r /\ \A x \in Ticket : x # t => ticket'[x] = ticket[x]
    BY <1>1, <1>2, CallKnown
  <1>4. visit'[p] = VisitIdle /\ \A q \in Proc : q # p => visit'[q] = visit[q]
    BY <1>1, CallKnown, VisitMoved
  <1>5. SignInWellFormed' /\ MethodInv'
    BY <1>1, <1>3, CallKnown, IdleVisit, LinkLeavesMethods
  <1>6. \A q \in Proc : visit[q].at \in AtLink => visit[q].t # t
    BY <1>1, <1>2 DEF SignInInv, LinksInv, LinkIsUsed
  <1>7. LinkIsUsed'
    BY <1>3, <1>4, <1>6, IdleVisit DEF SignInInv, LinksInv, LinkIsUsed
  <1>8. SentToSomebody'
    BY <1>0, <1>2, <1>3 DEF SignInInv, LinksInv, SentToSomebody
  <1>9. \A x \in Ticket : Entering(x) => Entering(x)'
    BY <1>0, <1>1, <1>4 DEF Entering
  <1>10. BoundEnters' /\ MakerEnters'
    BY <1>1, <1>2, <1>3, <1>9 DEF SignInInv, LinksInv, BoundEnters, MakerEnters
  <1>11. QED
    BY <1>5, <1>7, <1>8, <1>10 DEF SignInInv, LinksInv

LEMMA LinkIsOpened ==
  ASSUME SignInInv, NEW p \in Proc, NEW t \in Ticket, ConsumeMagicLink(p, t)
  PROVE  SignInInv'
  <1> DEFINE b == ticket[t].bound
  <1> DEFINE v == VRecord("spend", ticket[t].u, "none", t, b)
  <1>0. /\ visit[p] = VisitIdle /\ ticket[t].state = "sent" /\ ticket[t].u \in Address /\ b \in BOOLEAN
        /\ UNCHANGED <<account, holder, ticket, entered, armed, crossing>>
    BY CallKnown DEF ConsumeMagicLink, Start, SignInInv, LinksInv, SentToSomebody, Tickets
  <1>1. Visit(p, Opened(ticket[t].u, t, b))
    BY DEF ConsumeMagicLink, Start, Opened
  <1>2. b = ticket[t].bound
    OBVIOUS
  <1> HIDE DEF b
  <1>3. Visit(p, v)
    BY <1>1, LinkOpens
  <1>4. v \in Visits /\ v.at = "spend" /\ v.u = ticket[t].u /\ v.t = t /\ v.saw = b
    BY <1>0, RecordIsVisit
  <1> HIDE DEF v
  <1>5. VisitForm(v) /\ v.at \notin AtUnlink
    BY <1>0, <1>4 DEF VisitForm, AtUnlink, AtLink
  <1>6. visit'[p] = v /\ \A q \in Proc : q # p => visit'[q] = visit[q]
    BY <1>3, CallKnown, VisitMoved
  <1>7. SignInWellFormed' /\ MethodInv'
    BY <1>0, <1>3, <1>4, <1>5, CallKnown, LinkLeavesMethods
  <1>8. LinkIsUsed'
    BY <1>0, <1>2, <1>4, <1>6 DEF SignInInv, LinksInv, LinkIsUsed
  <1>9. SentToSomebody'
    BY <1>0 DEF SignInInv, LinksInv, SentToSomebody
  <1>10. \A x \in Ticket : Entering(x) => Entering(x)'
    BY <1>0, <1>6, IdleVisit DEF Entering
  <1>11. BoundEnters' /\ MakerEnters'
    BY <1>0, <1>10 DEF SignInInv, LinksInv, BoundEnters, MakerEnters
  <1>12. QED
    BY <1>7, <1>8, <1>9, <1>11 DEF SignInInv, LinksInv

LEMMA LinkIsSpent ==
  ASSUME SignInInv, NEW p \in Proc, SpendLink(p)
  PROVE  SignInInv'
  <1> DEFINE c == visit[p]
  <1> DEFINE to == IF c.saw THEN "enter" ELSE "create"
  <1> DEFINE v == VRecord(to, c.u, c.i, c.t, c.saw)
  <1>0. /\ c.at = "spend" /\ c.t \in Ticket /\ c.u = ticket[c.t].u /\ c.saw = ticket[c.t].bound /\ ticket[c.t].state # "none"
        /\ c.u \in Address /\ c.i \in Identity \cup {"none"} /\ c.saw \in BOOLEAN /\ c.t # "none" /\ c \in Visits
    BY CallKnown DEF SpendLink, SignInInv, LinksInv, LinkIsUsed, AtLink, VisitForm
  <1>1. /\ ticket' = [ticket EXCEPT ![c.t].state = "spent"] /\ Visit(p, [visit[p] EXCEPT !.at = to])
        /\ UNCHANGED <<account, holder, entered, armed, crossing>>
    BY DEF SpendLink, VisitAt
  <1>2. to \in {"enter", "create"} /\ (to = "create" <=> ~c.saw)
    BY <1>0
  <1> HIDE DEF to
  <1>3. Visit(p, v)
    BY <1>0, <1>1, VisitGoesOn
  <1>4. v \in Visits /\ v.at = to /\ v.u = c.u /\ v.i = c.i /\ v.t = c.t /\ v.saw = c.saw
    BY <1>0, <1>2, RecordIsVisit
  <1> HIDE DEF v
  <1>5. VisitForm(v) /\ v.at \notin AtUnlink
    BY <1>0, <1>2, <1>4 DEF VisitForm, AtUnlink, AtLink
  <1>6. visit'[p] = v /\ \A q \in Proc : q # p => visit'[q] = visit[q]
    BY <1>3, CallKnown, VisitMoved
  <1>7. /\ ticket' \in [Ticket -> Tickets] /\ ticket'[c.t].state = "spent"
        /\ \A x \in Ticket : /\ x # c.t => ticket'[x] = ticket[x]
                             /\ ticket'[x].u = ticket[x].u /\ ticket'[x].bound = ticket[x].bound /\ ticket'[x].known = ticket[x].known
    BY <1>0, <1>1, CallKnown DEF Tickets
  <1>8. SignInWellFormed' /\ MethodInv'
    BY <1>1, <1>3, <1>4, <1>5, <1>7, CallKnown, LinkLeavesMethods
  <1>9. LinkIsUsed'
    BY <1>0, <1>2, <1>4, <1>6, <1>7 DEF SignInInv, LinksInv, LinkIsUsed
  <1>10. SentToSomebody'
    BY <1>0, <1>7 DEF SignInInv, LinksInv, SentToSomebody
  <1>11. \A x \in Ticket : Entering(x) => Entering(x)'
    BY <1>0, <1>1, <1>6 DEF Entering
  <1>12. BoundEnters' /\ MakerEnters'
    <2>1. MakerEnters'
      BY <1>1, <1>11 DEF SignInInv, LinksInv, MakerEnters
    <2>2. \A x \in Ticket : c.saw /\ x = c.t => Entering(x)'
      BY <1>2, <1>4, <1>6 DEF Entering
    <2>3. BoundEnters'
      <3> SUFFICES ASSUME NEW x \in Ticket, ticket'[x].state = "spent", ticket'[x].bound PROVE Entering(x)'
        BY DEF BoundEnters
      <3>1. CASE x = c.t
        <4>1. c.saw
          BY <1>0, <1>7, <3>1
        <4>2. QED
          BY <2>2, <3>1, <4>1
      <3>2. CASE x # c.t
        BY <1>7, <1>11, <3>2 DEF SignInInv, LinksInv, BoundEnters
      <3>3. QED
        BY <3>1, <3>2
    <2>4. QED
      BY <2>1, <2>3
  <1>13. QED
    BY <1>8, <1>9, <1>10, <1>12 DEF SignInInv, LinksInv

LEMMA LinkMakesAccount ==
  ASSUME SignInInv, NEW p \in Proc, CreateOnConsume(p)
  PROVE  SignInInv'
  <1> DEFINE c == visit[p]
  <1> DEFINE v == VRecord("enter", c.u, c.i, c.t, c.saw)
  <1>0. /\ c.at = "create" /\ c.t \in Ticket /\ c.u = ticket[c.t].u /\ c.saw = ticket[c.t].bound /\ ticket[c.t].state # "none"
        /\ c.u \in Address /\ c.i \in Identity \cup {"none"} /\ c.saw \in BOOLEAN /\ c.t # "none" /\ c \in Visits
    BY CallKnown DEF CreateOnConsume, SignInInv, LinksInv, LinkIsUsed, AtLink, VisitForm
  <1>1. Create(c.u, FALSE, c.t) /\ UNCHANGED <<holder, ticket, entered, armed, crossing>>
    BY DEF CreateOnConsume
  <1>2. /\ account' \in [Address -> Accounts]
        /\ \A x \in Address : x # c.u \/ account[c.u].made => account'[x] = account[x]
        /\ ~account[c.u].made => account'[c.u].made /\ account'[c.u].password = FALSE /\ account'[c.u].by = c.t
    BY <1>0, <1>1, CallKnown, Created
  <1>3. [visit[p] EXCEPT !.at = "enter"] = v
    BY <1>0, VisitGoesOn
  <1>4. v \in Visits /\ v.at = "enter" /\ v.u = c.u /\ v.i = c.i /\ v.t = c.t /\ v.saw = c.saw
    BY <1>0, RecordIsVisit
  <1>5. IF account[c.u].made THEN Leave(p) ELSE VisitAt(p, "enter")
    BY DEF CreateOnConsume
  <1> HIDE DEF v
  <1>6. PICK w \in {v, VisitIdle} : Visit(p, w) /\ (w = VisitIdle <=> account[c.u].made)
    <2>1. v # VisitIdle
      BY <1>4, IdleVisit
    <2>2. QED
      BY <1>3, <1>5, <2>1 DEF Leave, VisitAt
  <1>7. w \in Visits /\ VisitForm(w) /\ w.at \notin AtUnlink
    BY <1>0, <1>4, IdleVisit DEF VisitForm, AtUnlink, AtLink
  <1>8. visit'[p] = w /\ \A q \in Proc : q # p => visit'[q] = visit[q]
    BY <1>6, CallKnown, VisitMoved
  <1>9. \A x \in Address : account'[x] = account[x] \/ (~account[x].made /\ account'[x].made)
    BY <1>0, <1>2
  <1>10. SignInWellFormed' /\ MethodInv'
    BY <1>1, <1>2, <1>6, <1>7, <1>9, CallKnown, LinkLeavesMethods
  <1>11. LinkIsUsed'
    BY <1>0, <1>1, <1>4, <1>8, IdleVisit DEF SignInInv, LinksInv, LinkIsUsed
  <1>12. SentToSomebody'
    BY <1>1 DEF SignInInv, LinksInv, SentToSomebody
  <1>13. \A x \in Ticket : Entering(x) => Entering(x)'
    BY <1>0, <1>1, <1>8 DEF Entering
  <1>14. BoundEnters'
    BY <1>1, <1>13 DEF SignInInv, LinksInv, BoundEnters
  <1>15. MakerEnters'
    <2> SUFFICES ASSUME NEW x \in Ticket, NEW u \in Address, account'[u].by = x PROVE Entering(x)'
      BY DEF MakerEnters
    <2>1. CASE u = c.u /\ ~account[c.u].made
      <3>1. x = c.t
        BY <1>2, <2>1
      <3>2. visit'[p].at = "enter" /\ visit'[p].t = x
        BY <1>4, <1>6, <1>8, <2>1, <3>1
      <3>3. QED
        BY <3>2 DEF Entering
    <2>2. CASE ~(u = c.u /\ ~account[c.u].made)
      <3>1. account'[u] = account[u]
        BY <1>2, <2>2
      <3>2. QED
        BY <1>13, <3>1 DEF SignInInv, LinksInv, MakerEnters
    <2>3. QED
      BY <2>1, <2>2
  <1>16. QED
    BY <1>10, <1>11, <1>12, <1>14, <1>15 DEF SignInInv, LinksInv

LEMMA LinkEnters ==
  ASSUME SignInInv, NEW p \in Proc, EnterByLink(p)
  PROVE  SignInInv'
  <1>0. visit[p].at = "enter" /\ visit[p].t \in Ticket
    BY DEF EnterByLink, SignInInv, LinksInv, LinkIsUsed, AtLink
  <1>1. entered' = entered \cup {visit[p].t} /\ Visit(p, VisitIdle) /\ UNCHANGED <<account, holder, ticket, armed, crossing>>
    BY DEF EnterByLink, Leave
  <1>2. visit'[p] = VisitIdle /\ \A q \in Proc : q # p => visit'[q] = visit[q]
    BY <1>1, CallKnown, VisitMoved
  <1>3. SignInWellFormed' /\ MethodInv'
    BY <1>0, <1>1, CallKnown, IdleVisit, LinkLeavesMethods
  <1>4. LinkIsUsed' /\ SentToSomebody'
    BY <1>1, <1>2, IdleVisit DEF SignInInv, LinksInv, LinkIsUsed, SentToSomebody
  <1>5. \A x \in Ticket : Entering(x) => Entering(x)'
    BY <1>1, <1>2 DEF Entering
  <1>6. BoundEnters' /\ MakerEnters'
    BY <1>1, <1>5 DEF SignInInv, LinksInv, BoundEnters, MakerEnters
  <1>7. QED
    BY <1>3, <1>4, <1>6 DEF SignInInv, LinksInv

LEMMA SignInStep == SignInInv /\ [SignInNext]_SignInVars => SignInInv'
  <1> SUFFICES ASSUME SignInInv, [SignInNext]_SignInVars PROVE SignInInv'
    OBVIOUS
  <1>1. CASE UNCHANGED SignInVars
    <2>1. SignInWellFormed' /\ MethodInv'
      BY <1>1 DEF SignInVars, SignInInv, SignInWellFormed, SignInTypeOK, VisitForm, MethodInv, PasswordIsMade, UnlinksItsOwn,
                  UnlinksAlone, PasswordWasSeen, AnotherRemains, Other, WaysRemain, Way
    <2>2. LinksInv'
      BY <1>1 DEF SignInVars, SignInInv, LinksInv, LinkIsUsed, SentToSomebody, BoundEnters, MakerEnters, Entering
    <2>3. QED
      BY <2>1, <2>2 DEF SignInInv
  <1>2. CASE SignInNext
    <2>1. ASSUME NEW p \in Proc,
                 \/ LookUpMail(p) \/ Provision(p) \/ SsoProvision(p) \/ LinkInsert(p) \/ ReadPassword(p) \/ CountOthers(p)
                 \/ DeleteIdentity(p) \/ SpendLink(p) \/ CreateOnConsume(p) \/ EnterByLink(p)
          PROVE  SignInInv'
      BY <2>1, MailIsLookedUp, AccountsAreMade, UnlinkGoesOn, UnlinkDeletes, LinkIsSpent, LinkMakesAccount, LinkEnters
    <2>2. ASSUME NEW p \in Proc, NEW t \in Ticket, SendLink(p, t) \/ ConsumeMagicLink(p, t)
          PROVE  SignInInv'
      BY <2>2, LinkIsSent, LinkIsOpened
    <2>3. ASSUME NEW p \in Proc, NEW u \in Address, NEW i \in Identity,
                 SsoSignIn(p, i, u) \/ LinkSsoIdentity(p, u, i) \/ UnlinkSsoIdentity(p, u, i)
          PROVE  SignInInv'
      BY <2>3, CallsBegin, UnlinkBegins
    <2>4. ASSUME NEW p \in Proc, NEW u \in Address, LookupByEmail(p, u) \/ RequestMagicLink(p, u)
          PROVE  SignInInv'
      BY <2>4, VisitsBegin
    <2>5. QED
      BY <1>2, <2>1, <2>2, <2>3, <2>4, PasswordsAreSet DEF SignInNext
  <1>3. QED
    BY <1>1, <1>2

LEMMA SignInKeepsWays == SignInInv => NobodyIsLockedOut
  <1> SUFFICES ASSUME SignInInv PROVE NobodyIsLockedOut
    OBVIOUS
  <1>1. MethodRemainsAlone
    BY DEF SignInInv, MethodInv, WaysRemain, Way, MethodRemainsAlone, HasMethod, Held
  <1>2. SpentLinkSignedIn
    <2> SUFFICES ASSUME NEW t \in Ticket, ticket[t].state = "spent", \A p \in Proc : visit[p].t # t,
                        ~(~ticket[t].known /\ account[ticket[t].u].by # t)
                 PROVE  t \in entered
      BY DEF SpentLinkSignedIn
    <2>1. ticket[t].u \in Address /\ (ticket[t].known => ticket[t].bound)
      BY DEF SignInInv, LinksInv, SentToSomebody
    <2>2. Entering(t)
      BY <2>1 DEF SignInInv, LinksInv, BoundEnters, MakerEnters
    <2>3. QED
      BY <2>2 DEF Entering
  <1>3. QED
    BY <1>1, <1>2 DEF NobodyIsLockedOut

\* No sign-in ever ends with an account that had a way in and has none, or with
\* a link that was spent and opened nothing, but in the cases that the property
\* names: two unlinks at once, and an address that got its account elsewhere.
THEOREM NobodyIsLockedOutHolds == SignInSpec => []NobodyIsLockedOut
  <1>1. QED
    BY SignInStarts, SignInStep, SignInKeepsWays, PTL DEF SignInSpec

------------------------------------------------------------------------------
(***************************************************************************)
(* Types.                                                                  *)
(***************************************************************************)
LEMMA SessionsTypeCorrect == Spec => []TypeOK
<1>1. SessionInv /\ [Next]_vars => SessionInv'
  BY Step
<1>2. SessionInv => TypeOK
  BY DEF SessionInv, FormInv
<1> QED  BY Initial, <1>1, <1>2, PTL DEF Spec

LEMMA SeatTypeCorrect == SeatSpec => []SeatTypeOK
  BY TypeInit, TypeStep, PTL DEF SeatSpec

LEMMA SignInTypeCorrect == SignInSpec => []SignInTypeOK
<1>1. SignInInv => SignInTypeOK
  BY DEF SignInInv, SignInWellFormed
<1> QED  BY <1>1, SignInStarts, SignInStep, PTL DEF SignInSpec

(***************************************************************************)
(* The run.  A behaviour of all the parts together is one of each part, so *)
(* what is proved of a part alone holds beside the others.                 *)
(***************************************************************************)
\* Sessions, sign-in and attendance do not disturb one another: what they do
\* together each could do alone.
LEMMA AdmissionPartsStandAlone == AllSpec => Spec /\ SignInSpec /\ SeatSpec
<1>1. AllInit => Init /\ SignInInit /\ SeatInit
  BY DEF AllInit
<1>2. [AllNext]_AllVars => [Next]_vars /\ [SignInNext]_SignInVars /\ [SeatNext]_SeatVars
  BY DEF AllNext, AllVars
<1> QED  BY <1>1, <1>2, PTL DEF AllSpec, Spec, SignInSpec, SeatSpec

\* Every session, link, account, seat and call holds what the code can put there,
\* for any number of rows, families, identities, links, people and calls.
THEOREM AdmissionTypeCorrect == AllSpec => []AllTypeOK
  BY AdmissionPartsStandAlone, SessionsTypeCorrect, SignInTypeCorrect, SeatTypeCorrect, PTL DEF AllTypeOK

==============================================================================
