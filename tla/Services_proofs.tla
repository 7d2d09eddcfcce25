---------------------------- MODULE Services_proofs ----------------------------
(***************************************************************************)
(* Four services that share no variable: the flood guard, for any number   *)
(* of requests and any limit; skill versions, for any number of edits,     *)
(* schemas and versions; the seats of an organisation, for any number of   *)
(* people, seats and calls; the order of a course, for any number of items *)
(* and authors and pages however old.  Then the types of these, and of     *)
(* the communities, in the run that checks them together.                  *)
(***************************************************************************)
EXTENDS MCServices, Community_proofs, FiniteSetTheorems, SequenceTheorems,
        WellFoundedInduction, TLAPS

------------------------------------------------------------------------------
(***************************************************************************)
(* FloodGuard.                                                             *)
(***************************************************************************)
InGuard == {p \in Proc : guardAt[p] # "idle"}

\* The window counts nothing that the last unfreeze forgave, once the unfreeze
\* is complete; until then only a request that overlaps it is in the guard.
WindowIsNew ==
  ~overlapped => IF clearing THEN InGuard = {} ELSE bucket <= attempts

\* A request that was tripped is evidence of too many attempts.
TripIsEarned ==
  \A p \in Proc : guardAt[p] \in {"tripped", "insert"} => attempts > FloodLimit \/ overlapped

FloodInv == FloodTypeOK /\ WindowIsNew /\ TripIsEarned /\ FreezeIsEarned

USE FloodAssumption

LEMMA FloodInitial == FloodInit => FloodInv
  <1> SUFFICES ASSUME FloodInit PROVE FloodInv
    OBVIOUS
  <1>1. FloodTypeOK
    <2>1. bucket \in 0..FloodLimit /\ attempts \in 0..(FloodLimit + 1)
      BY DEF FloodInit
    <2>2. frozen \in BOOLEAN /\ clearing \in BOOLEAN /\ overlapped \in BOOLEAN
      BY Zenon DEF FloodInit
    <2>3. guardAt \in [Proc -> {"idle", "limiter", "tripped", "insert"}]
      BY DEF FloodInit
    <2>4. QED
      BY <2>1, <2>2, <2>3 DEF FloodTypeOK
  <1>2. WindowIsNew /\ FreezeIsEarned
    BY DEF FloodInit, WindowIsNew, FreezeIsEarned
  <1>3. TripIsEarned
    BY DEF FloodInit, TripIsEarned
  <1>4. QED
    BY <1>1, <1>2, <1>3 DEF FloodInv

LEMMA FloodStep == FloodInv /\ [FloodNext]_FloodVars => FloodInv'
  <1> SUFFICES ASSUME FloodInv, [FloodNext]_FloodVars PROVE FloodInv'
    OBVIOUS
  <1> USE DEF FloodInv, FloodTypeOK, WindowIsNew, TripIsEarned, FreezeIsEarned, InGuard, FloodGoto
  <1>1. ASSUME NEW p \in Proc, GuardContactFlood(p) PROVE FloodInv'
    BY <1>1 DEF GuardContactFlood
  <1>2. ASSUME NEW p \in Proc, RateLimit(p) PROVE FloodInv'
    <2>1. FloodTypeOK'
      BY <1>2 DEF RateLimit
    <2>2. p \in InGuard
      BY <1>2 DEF RateLimit
    <2>3. WindowIsNew'
      BY <1>2, <2>2 DEF RateLimit
    <2>4. TripIsEarned'
      <3>1. ASSUME NEW q \in Proc, q # p, guardAt'[q] \in {"tripped", "insert"}
            PROVE  attempts' > FloodLimit \/ overlapped'
        BY <1>2, <3>1 DEF RateLimit
      <3>2. ASSUME guardAt'[p] \in {"tripped", "insert"}
            PROVE  attempts' > FloodLimit \/ overlapped'
        BY <1>2, <2>2, <3>2 DEF RateLimit
      <3>3. QED
        BY <3>1, <3>2
    <2>5. FreezeIsEarned'
      BY <1>2 DEF RateLimit
    <2>6. QED
      BY <2>1, <2>3, <2>4, <2>5
  <1>3. ASSUME NEW p \in Proc, CheckFrozen(p) PROVE FloodInv'
    BY <1>3 DEF CheckFrozen
  <1>4. ASSUME NEW p \in Proc, InsertFreeze(p) PROVE FloodInv'
    BY <1>4 DEF InsertFreeze
  <1>5. CASE WindowEnds
    <2>1. FloodTypeOK' /\ WindowIsNew'
      BY <1>5 DEF WindowEnds
    <2>2. TripIsEarned' /\ FreezeIsEarned'
      BY <1>5 DEF WindowEnds
    <2>3. QED
      BY <2>1, <2>2
  <1>6. CASE Unfreeze
    <2>1. FloodTypeOK'
      <3>1. frozen' \in BOOLEAN /\ clearing' \in BOOLEAN /\ overlapped' \in BOOLEAN
        BY <1>6, Zenon DEF Unfreeze
      <3>2. attempts' \in 0..(FloodLimit + 1) /\ UNCHANGED <<bucket, guardAt>>
        BY <1>6 DEF Unfreeze
      <3>3. QED
        BY <3>1, <3>2
    <2>2. WindowIsNew' /\ TripIsEarned'
      <3>1. ~overlapped' => \A p \in Proc : guardAt[p] = "idle"
        BY <1>6 DEF Unfreeze
      <3>2. QED
        BY <1>6, <3>1 DEF Unfreeze
    <2>3. FreezeIsEarned'
      BY <1>6 DEF Unfreeze
    <2>4. QED
      BY <2>1, <2>2, <2>3
  <1>7. CASE ClearRateLimit
    <2>1. clearing' \in BOOLEAN
      BY <1>7, Zenon DEF ClearRateLimit
    <2>2. bucket' = 0 /\ UNCHANGED <<frozen, guardAt, attempts, overlapped>>
      BY <1>7 DEF ClearRateLimit
    <2>3. FloodTypeOK'
      BY <2>1, <2>2
    <2>4. WindowIsNew'
      BY <2>2, <2>3, <1>7 DEF ClearRateLimit
    <2>5. TripIsEarned' /\ FreezeIsEarned'
      BY <2>2
    <2>6. QED
      BY <2>3, <2>4, <2>5
  <1>8. CASE UNCHANGED FloodVars
    BY <1>8 DEF FloodVars
  <1>9. QED
    BY <1>1, <1>2, <1>3, <1>4, <1>5, <1>6, <1>7, <1>8 DEF FloodNext

LEMMA FloodInvariant == FloodSpec => []FloodInv
  BY FloodInitial, FloodStep, PTL DEF FloodSpec

\* Whoever is frozen has made more attempts than the limit since an
\* administrator last lifted a freeze.
THEOREM FreezeIsEarnedHolds == FloodSpec => []FreezeIsEarned
  <1>1. FloodInv => FreezeIsEarned
    BY DEF FloodInv
  <1>2. QED
    BY <1>1, FloodInvariant, PTL

------------------------------------------------------------------------------
(***************************************************************************)
(* SkillVersions.                                                          *)
(***************************************************************************)
\* What an edit read is in the history from then on, for versions are never
\* deleted; and an edit that makes no version keeps the schema it read.
EditIsRecorded(c) ==
  /\ c.read \in versions
  /\ ~c.versioned => c.schema = c.read.schema
  /\ c.versioned => c.read.version < MaxVersion

SkillInv ==
  /\ SkillTypeOK
  /\ SchemaIsRecorded
  /\ \A p \in Proc : editCall[p].at = "write" => EditIsRecorded(editCall[p])

USE SkillAssumption

LEMMA SkillInitial == SkillInit => SkillInv
  BY DEF SkillInit, SkillInv, SkillTypeOK, SchemaIsRecorded, SkillRows, NoEdit

LEMMA BeginEditStep ==
  ASSUME SkillInv, NEW p \in Proc, NEW s \in Schema, NEW v \in BOOLEAN,
         BeginEdit(p, s, v), v \/ s = skill.schema
  PROVE  SkillInv'
  <1> DEFINE c == [at |-> "write", read |-> skill, schema |-> s, versioned |-> v]
  <1>1. editCall' = [editCall EXCEPT ![p] = c] /\ UNCHANGED <<skill, versions>>
    BY DEF BeginEdit
  <1>2. c \in Edits
    BY DEF Edits, SkillInv, SkillTypeOK
  <1>3. SkillTypeOK'
    BY <1>1, <1>2 DEF SkillInv, SkillTypeOK
  <1>4. SchemaIsRecorded'
    BY <1>1 DEF SkillInv, SchemaIsRecorded
  <1>5. ASSUME NEW q \in Proc, editCall'[q].at = "write"
        PROVE  EditIsRecorded(editCall[q])'
    <2>1. CASE q = p
      <3>1. editCall'[q] = c
        BY <1>1, <2>1 DEF SkillInv, SkillTypeOK
      <3>2. v => skill.version < MaxVersion
        BY DEF BeginEdit
      <3>3. QED
        BY <3>1, <3>2, <1>1 DEF EditIsRecorded, SkillInv, SchemaIsRecorded
    <2>2. CASE q # p
      BY <1>1, <1>5, <2>2 DEF EditIsRecorded, SkillInv, SkillTypeOK
    <2>3. QED
      BY <2>1, <2>2
  <1>6. QED
    BY <1>3, <1>4, <1>5 DEF SkillInv

\* The row an edit writes: a new version, or the row as it was read.
LEMMA WrittenRow ==
  ASSUME NEW c \in Edits, EditIsRecorded(c), versions \subseteq SkillRows
  PROVE  /\ Written(c) \in SkillRows
         /\ ~c.versioned => Written(c) \in versions
  <1>1. CASE c.versioned
    BY <1>1 DEF Written, BumpVersion, Edits, SkillRows, EditIsRecorded
  <1>2. CASE ~c.versioned
    <2>1. Written(c) = [version |-> c.read.version, schema |-> c.read.schema]
      BY <1>2 DEF Written, EditIsRecorded
    <2>2. Written(c) = c.read
      BY <2>1 DEF Edits, SkillRows
    <2>3. QED
      BY <1>2, <2>2 DEF EditIsRecorded
  <1>3. QED
    BY <1>1, <1>2

LEMMA WriteSkillStep ==
  ASSUME SkillInv, NEW p \in Proc, WriteSkill(p)
  PROVE  SkillInv'
  <1> DEFINE c == editCall[p]
  <1>1. c \in Edits /\ EditIsRecorded(c) /\ versions \subseteq SkillRows
    BY DEF WriteSkill, SkillInv, SkillTypeOK, NoEdit
  <1>2. Written(c) \in SkillRows /\ (~c.versioned => Written(c) \in versions)
    BY <1>1, WrittenRow
  <1>3. /\ skill' = Written(c)
        /\ versions' = IF c.versioned THEN versions \cup {Written(c)} ELSE versions
        /\ editCall' = [editCall EXCEPT ![p] = NoEdit]
    BY DEF WriteSkill
  <1>4. SkillTypeOK'
    BY <1>2, <1>3 DEF SkillInv, SkillTypeOK
  <1>5. SchemaIsRecorded'
    BY <1>2, <1>3 DEF SchemaIsRecorded
  <1>6. ASSUME NEW q \in Proc, editCall'[q].at = "write"
        PROVE  EditIsRecorded(editCall[q])'
    <2>1. q # p /\ editCall'[q] = editCall[q]
      BY <1>3, <1>6 DEF SkillInv, SkillTypeOK, NoEdit
    <2>2. versions \subseteq versions'
      BY <1>3
    <2>3. QED
      BY <1>6, <2>1, <2>2 DEF EditIsRecorded, SkillInv
  <1>7. QED
    BY <1>4, <1>5, <1>6 DEF SkillInv

LEMMA SkillStep == SkillInv /\ [SkillNext]_SkillVars => SkillInv'
  <1> SUFFICES ASSUME SkillInv, [SkillNext]_SkillVars PROVE SkillInv'
    OBVIOUS
  <1>1. ASSUME NEW p \in Proc, NEW s \in Schema, NEW handler \in BOOLEAN, UpdateSkill(p, s, handler)
        PROVE  SkillInv'
    <2>1. BeginEdit(p, s, handler \/ s # skill.schema)
      BY <1>1 DEF UpdateSkill
    <2>2. QED
      BY <2>1, BeginEditStep
  <1>2. ASSUME NEW p \in Proc, NEW v \in versions, RollbackSkill(p, v)
        PROVE  SkillInv'
    <2>1. BeginEdit(p, v.schema, TRUE) /\ v.schema \in Schema
      BY <1>2 DEF RollbackSkill, SkillInv, SkillTypeOK, SkillRows
    <2>2. QED
      BY <2>1, BeginEditStep
  <1>3. ASSUME NEW p \in Proc, WriteSkill(p) PROVE SkillInv'
    BY <1>3, WriteSkillStep
  <1>4. CASE UNCHANGED SkillVars
    BY <1>4 DEF SkillVars, SkillInv, SkillTypeOK, SchemaIsRecorded, EditIsRecorded
  <1>5. QED
    BY <1>1, <1>2, <1>3, <1>4 DEF SkillNext

LEMMA SkillInvariant == SkillSpec => []SkillInv
  BY SkillInitial, SkillStep, PTL DEF SkillSpec

\* However edits and rollbacks overlap, the schema in force is recorded under
\* the version in force.
THEOREM SchemaIsRecordedHolds == SkillSpec => []SchemaIsRecorded
  <1>1. SkillInv => SchemaIsRecorded
    BY DEF SkillInv
  <1>2. QED
    BY <1>1, SkillInvariant, PTL

------------------------------------------------------------------------------
(***************************************************************************)
(* OrgSeats: the organisation keeps an owner, and its members stay within  *)
(* the limit, but where the code lets go of either.                        *)
(***************************************************************************)
OrgSteps == {"idle", "invite", "count", "join", "consume", "owners", "write", "limit", "put_insert", "put_role"}

OrgCalls == [at : OrgSteps, u : User, to : Roles \cup {"none"}, i : OrgInvite \cup {"none"}, n : Nat]

OrgForm ==
  /\ role \in [User -> Roles \cup {"none"}] /\ seatlimit \in Nat
  /\ orgCall \in [Proc -> OrgCalls]

InvitedAreUsers == invite \in [OrgInvite -> [u : User, state : {"none", "open", "expired", "consumed"}]]

\* A write that counted the owners found a second one, and no other write that
\* did has taken it since.
OwnerInv ==
  ownerRace \/
    /\ Owners # {}
    /\ \A p \in Proc : orgCall[p].at = "write" =>
         orgCall[p].n = 0 \/ (orgCall[p].n = 1 /\ \E a, b \in Owners : a # b)

\* A call about to take a seat has one left to take.
SeatInv ==
  overbooked \/
    /\ Cardinality(NonOwners) <= seatlimit
    /\ \A p \in Proc : orgCall[p].at = "count" => orgCall[p].n <= seatlimit
    /\ \A p \in Proc : orgCall[p].at \in {"join", "put_insert"} => Cardinality(NonOwners) < seatlimit

OrgInv == OrgForm /\ OwnerInv /\ SeatInv

LEMMA IdleIsCall == OrgIdle \in OrgCalls
BY CallersAssumption DEF OrgIdle, OrgCalls, OrgSteps

LEMMA OrgInitial == OrgInit => OrgInv
<1> SUFFICES ASSUME OrgInit PROVE OrgInv
  OBVIOUS
<1>1. OrgForm
  BY CallersAssumption, OrgAssumption, IdleIsCall DEF OrgInit, OrgForm, Roles
<1>2. \A p \in Proc : orgCall[p].at = "idle"
  BY DEF OrgInit, OrgIdle
<1>3. Founder \in Owners /\ NonOwners = {}
  BY CallersAssumption DEF OrgInit, Owners, NonOwners, Members
<1>4. OwnerInv
  BY <1>2, <1>3 DEF OwnerInv
<1>5. SeatInv
  BY <1>1, <1>2, <1>3, FS_EmptySet DEF SeatInv, OrgForm
<1> QED  BY <1>1, <1>4, <1>5 DEF OrgInv

LEMMA SeatsAreFinite ==
  ASSUME OrgForm
  PROVE  /\ IsFiniteSet(Members) /\ IsFiniteSet(Owners) /\ IsFiniteSet(NonOwners)
         /\ Cardinality(Members) \in Nat /\ Cardinality(Owners) \in Nat /\ Cardinality(NonOwners) \in Nat
         /\ Cardinality(NonOwners) <= Cardinality(Members)
<1>1. Members \subseteq User /\ Owners \subseteq User /\ NonOwners \subseteq Members
  BY DEF Members, Owners, NonOwners
<1>2. IsFiniteSet(Members) /\ IsFiniteSet(Owners)
  BY <1>1, CallersAssumption, FS_Subset
<1> QED  BY <1>1, <1>2, FS_Subset, FS_CardinalityType

LEMMA OneMore ==
  ASSUME NEW S, NEW T, NEW x, IsFiniteSet(S), T \subseteq S \cup {x}
  PROVE  Cardinality(T) \in Nat /\ Cardinality(T) <= Cardinality(S) + 1
<1>1. /\ IsFiniteSet(S \cup {x}) /\ Cardinality(S) \in Nat
      /\ Cardinality(S \cup {x}) = IF x \in S THEN Cardinality(S) ELSE Cardinality(S) + 1
  BY FS_AddElement, FS_CardinalityType
<1>2. IsFiniteSet(T) /\ Cardinality(T) <= Cardinality(S \cup {x})
  BY <1>1, FS_Subset
<1> QED  BY <1>1, <1>2, FS_CardinalityType

\* Call p moves on; nobody's role and no limit changes, and p neither gets past
\* a count without a seat nor past one without a second owner.
LEMMA NothingTaken ==
  ASSUME OrgInv, NEW p \in Proc, UNCHANGED <<role, seatlimit, overbooked, ownerRace>>,
         NEW c \in OrgCalls, OrgGoto(p, c),
         c.at = "write" => c.n = 0 \/ (c.n = 1 /\ Cardinality(Owners) > 1),
         c.at = "count" => c.n = seatlimit,
         c.at \in {"join", "put_insert"} => overbooked \/ Cardinality(NonOwners) < seatlimit
  PROVE  OrgInv'
<1>1. /\ OrgForm' /\ orgCall'[p] = c /\ \A q \in Proc \ {p} : orgCall'[q] = orgCall[q]
  BY DEF OrgInv, OrgForm, OrgGoto
<1>2. Owners' = Owners /\ NonOwners' = NonOwners
  BY DEF Owners, NonOwners, Members
<1>3. Cardinality(Owners) > 1 => \E a, b \in Owners : a # b
  <2> SUFFICES ASSUME Cardinality(Owners) > 1, \A a, b \in Owners : a = b PROVE FALSE
    OBVIOUS
  <2>1. CASE Owners = {}
    BY <2>1, FS_EmptySet
  <2>2. CASE Owners # {}
    <3>1. PICK a \in Owners : TRUE
      BY <2>2
    <3>2. Owners = {a}
      BY <3>1
    <3>3. Cardinality({a}) = 1
      BY FS_Singleton
    <3> QED  BY <3>2, <3>3
  <2> QED  BY <2>1, <2>2
<1>4. OwnerInv'
  BY <1>1, <1>2, <1>3 DEF OrgInv, OwnerInv
<1>5. SeatInv'
  BY <1>1, <1>2 DEF OrgInv, OrgForm, SeatInv
<1> QED  BY <1>1, <1>4, <1>5 DEF OrgInv

\* Call p takes a seat, or finds the user in one.
LEMMA SeatTaken ==
  ASSUME OrgInv, NEW p \in Proc, NEW u \in User, TakeSeat(p, u), UNCHANGED seatlimit,
         orgCall[p].at \in {"join", "put_insert"},
         NEW c \in OrgCalls, OrgGoto(p, c), c.at \in {"consume", "idle"}
  PROVE  OrgInv'
<1>1. /\ OrgForm' /\ orgCall'[p] = c /\ \A q \in Proc \ {p} : orgCall'[q] = orgCall[q]
  BY DEF OrgInv, OrgForm, OrgGoto, TakeSeat, Roles
<1>2. Owners' = Owners
  BY DEF OrgInv, OrgForm, TakeSeat, Owners
<1>3. OwnerInv'
  BY <1>1, <1>2 DEF OrgInv, OwnerInv, TakeSeat
<1>4. SeatInv'
  <2> SUFFICES ASSUME ~overbooked' PROVE SeatInv'
    BY DEF SeatInv
  <2>1. ~overbooked /\ \A q \in Proc \ {p} : orgCall[q].at \notin Counting
    BY DEF TakeSeat
  <2>2. NonOwners' \subseteq NonOwners \cup {u}
    BY <1>2 DEF OrgInv, OrgForm, TakeSeat, NonOwners, Owners, Members
  <2>3. Cardinality(NonOwners') \in Nat /\ Cardinality(NonOwners') <= Cardinality(NonOwners) + 1
    BY <2>2, SeatsAreFinite, OneMore DEF OrgInv
  <2>4. Cardinality(NonOwners) < seatlimit
    BY <2>1 DEF OrgInv, SeatInv
  <2>5. Cardinality(NonOwners)' <= seatlimit'
    BY <1>1, <2>3, <2>4, SeatsAreFinite DEF OrgInv, OrgForm
  <2>6. \A q \in Proc : orgCall'[q].at \notin Counting
    BY <1>1, <2>1 DEF Counting
  <2> QED  BY <2>5, <2>6 DEF SeatInv, Counting
<1> QED  BY <1>1, <1>3, <1>4 DEF OrgInv

\* Call p writes a role: an owner who becomes a member needs a seat.
LEMMA RoleWritten ==
  ASSUME OrgInv, NEW p \in Proc, orgCall[p].at \in {"write", "put_role"}, UNCHANGED seatlimit,
         role' = IF role[orgCall[p].u] = "none" THEN role ELSE [role EXCEPT ![orgCall[p].u] = orgCall[p].to],
         overbooked' = (overbooked \/ (role[orgCall[p].u] = "owner" /\ orgCall[p].to = "member" /\ NoSeatFor(p))),
         OrgGoto(p, OrgIdle)
  PROVE  OrgForm' /\ SeatInv'
<1> DEFINE u == orgCall[p].u
           to == orgCall[p].to
<1>1. orgCall[p] \in OrgCalls /\ u \in User /\ to \in Roles \cup {"none"}
  BY DEF OrgInv, OrgForm, OrgCalls
<1>2. OrgForm' /\ orgCall'[p] = OrgIdle /\ \A q \in Proc \ {p} : orgCall'[q] = orgCall[q]
  BY <1>1, IdleIsCall DEF OrgInv, OrgForm, OrgGoto
<1>3. SeatInv'
  <2> SUFFICES ASSUME ~overbooked' PROVE SeatInv'
    BY DEF SeatInv
  <2>1. ~overbooked /\ (role[u] = "owner" /\ to = "member" => ~NoSeatFor(p))
    OBVIOUS
  <2>2. orgCall'[p].at = "idle"
    BY <1>2 DEF OrgIdle
  <2>3. CASE role[u] = "owner" /\ to = "member"
    <3>1. \A q \in Proc : orgCall'[q].at \notin Counting
      BY <1>2, <2>1, <2>2, <2>3 DEF NoSeatFor, Counting
    <3>2. NonOwners' \subseteq NonOwners \cup {u}
      BY <1>1, <2>3 DEF OrgInv, OrgForm, NonOwners, Owners, Members
    <3>3. Cardinality(NonOwners') \in Nat /\ Cardinality(NonOwners') <= Cardinality(NonOwners) + 1
      BY <3>2, SeatsAreFinite, OneMore DEF OrgInv
    <3>4. ~(Cardinality(NonOwners) >= seatlimit)
      BY <2>1, <2>3 DEF NoSeatFor
    <3>5. Cardinality(NonOwners)' <= seatlimit'
      BY <1>2, <3>3, <3>4, SeatsAreFinite DEF OrgInv, OrgForm
    <3> QED  BY <3>1, <3>5 DEF SeatInv, Counting
  <2>4. CASE ~(role[u] = "owner" /\ to = "member")
    <3>1. NonOwners' \subseteq NonOwners
      BY <1>1, <2>4 DEF OrgInv, OrgForm, NonOwners, Owners, Members, Roles
    <3>2. Cardinality(NonOwners)' \in Nat /\ Cardinality(NonOwners)' <= Cardinality(NonOwners)
      BY <3>1, SeatsAreFinite, FS_Subset, FS_CardinalityType DEF OrgInv
    <3>3. seatlimit \in Nat /\ Cardinality(NonOwners) \in Nat /\ \A q \in Proc : orgCall[q].n \in Nat
      BY SeatsAreFinite DEF OrgInv, OrgForm, OrgCalls
    <3> QED  BY <1>2, <2>1, <2>2, <3>2, <3>3 DEF OrgInv, SeatInv
  <2> QED  BY <2>3, <2>4
<1> QED  BY <1>2, <1>3

LEMMA StepWriteMember ==
  ASSUME OrgInv, NEW p \in Proc, WriteMember(p)
  PROVE  OrgInv'
<1> DEFINE u == orgCall[p].u
           to == orgCall[p].to
<1>1. OrgForm' /\ SeatInv'
  BY RoleWritten DEF WriteMember
<1>2. orgCall'[p].at = "idle" /\ \A q \in Proc \ {p} : orgCall'[q] = orgCall[q]
  BY DEF WriteMember, OrgInv, OrgForm, OrgGoto, OrgIdle
<1>3. OwnerInv'
  <2> SUFFICES ASSUME ~ownerRace' PROVE OwnerInv'
    BY DEF OwnerInv
  <2>1. /\ ~ownerRace
        /\ role[u] = "owner" /\ to # "owner" =>
             orgCall[p].n # 0 /\ \A q \in Proc \ {p} : ~(orgCall[q].at = "write" /\ orgCall[q].n = 1)
    BY DEF WriteMember
  <2>2. \A q \in Proc : orgCall[q].at = "write" =>
          orgCall[q].n = 0 \/ (orgCall[q].n = 1 /\ \E a, b \in Owners : a # b)
    BY <2>1 DEF OrgInv, OwnerInv
  <2>3. Owners # {} /\ role \in [User -> Roles \cup {"none"}]
    BY <2>1 DEF OrgInv, OwnerInv, OrgForm
  <2>4. CASE role[u] = "owner" /\ to # "owner"
    <3>1. \E a, b \in Owners : a # b
      BY <2>1, <2>2, <2>4 DEF WriteMember
    <3>2. Owners \ {u} \subseteq Owners'
      BY <2>3 DEF WriteMember, Owners
    <3>3. Owners' # {}
      BY <3>1, <3>2
    <3>4. \A q \in Proc : orgCall'[q].at = "write" => orgCall'[q].n = 0
      BY <1>2, <2>1, <2>2, <2>4
    <3> QED  BY <3>3, <3>4 DEF OwnerInv
  <2>5. CASE ~(role[u] = "owner" /\ to # "owner")
    <3>1. Owners \subseteq Owners'
      BY <2>3, <2>5 DEF WriteMember, Owners
    <3> QED  BY <1>2, <2>2, <2>3, <3>1 DEF OwnerInv
  <2> QED  BY <2>4, <2>5
<1> QED  BY <1>1, <1>3 DEF OrgInv

LEMMA StepWriteGroupMember ==
  ASSUME OrgInv, NEW p \in Proc, WriteGroupMember(p)
  PROVE  OrgInv'
<1>1. OrgForm' /\ SeatInv'
  BY RoleWritten DEF WriteGroupMember, Commit
<1>2. orgCall'[p].at = "idle" /\ \A q \in Proc \ {p} : orgCall'[q] = orgCall[q]
  BY DEF WriteGroupMember, Commit, OrgInv, OrgForm, OrgGoto, OrgIdle
<1>3. OwnerInv'
  <2> SUFFICES ASSUME ~ownerRace' PROVE OwnerInv'
    BY DEF OwnerInv
  <2>1. ~ownerRace /\ role[orgCall[p].u] # "owner"
    BY DEF WriteGroupMember
  <2>2. Owners \subseteq Owners'
    BY <2>1 DEF WriteGroupMember, Owners, OrgInv, OrgForm
  <2> QED  BY <1>2, <2>1, <2>2 DEF OrgInv, OwnerInv
<1> QED  BY <1>1, <1>3 DEF OrgInv

LEMMA StepWriteSeatlimit ==
  ASSUME OrgInv, NEW p \in Proc, WriteSeatlimit(p)
  PROVE  OrgInv'
<1>1. OrgForm'
  BY IdleIsCall DEF WriteSeatlimit, Commit, OrgInv, OrgForm, OrgCalls, OrgGoto
<1>2. orgCall'[p].at = "idle" /\ \A q \in Proc \ {p} : orgCall'[q] = orgCall[q]
  BY DEF WriteSeatlimit, Commit, OrgInv, OrgForm, OrgGoto, OrgIdle
<1>3. Owners' = Owners /\ NonOwners' = NonOwners
  BY DEF WriteSeatlimit, Owners, NonOwners, Members
<1>4. OwnerInv'
  BY <1>2, <1>3 DEF WriteSeatlimit, OrgInv, OwnerInv
<1>5. SeatInv'
  <2> SUFFICES ASSUME ~overbooked' PROVE SeatInv'
    BY DEF SeatInv
  <2>1. /\ ~(Cardinality(NonOwners) > orgCall[p].n)
        /\ \A q \in Proc \ {p} : orgCall[q].at \notin Counting
    BY DEF WriteSeatlimit
  <2>2. Cardinality(NonOwners)' <= seatlimit'
    BY <1>3, <2>1, SeatsAreFinite DEF WriteSeatlimit, OrgInv, OrgForm, OrgCalls
  <2>3. \A q \in Proc : orgCall'[q].at \notin Counting
    BY <1>2, <2>1 DEF Counting
  <2> QED  BY <2>2, <2>3 DEF SeatInv, Counting
<1> QED  BY <1>1, <1>4, <1>5 DEF OrgInv

LEMMA OrgRest ==
  ASSUME OrgInv, UNCHANGED <<role, seatlimit, orgCall, overbooked, ownerRace>>
  PROVE  OrgInv'
BY DEF OrgInv, OrgForm, OwnerInv, SeatInv, Owners, NonOwners, Members

LEMMA StepInvitation ==
  ASSUME OrgInv, InvitedAreUsers, NEW p \in Proc,
         \/ InsertInvite(p) \/ AcceptCount(p) \/ AcceptConsume(p) \/ CountOwners(p)
         \/ \E u \in User : InviteOrgMember(p, u)
         \/ \E i \in OrgInvite : AcceptInvitation(p, i)
  PROVE  OrgInv'
<1>a. orgCall[p] \in OrgCalls /\ OrgIdle \in OrgCalls /\ seatlimit \in Nat
  BY IdleIsCall DEF OrgInv, OrgForm
<1>b. OrgIdle.at = "idle" /\ OrgIdle.n = 0
  BY DEF OrgIdle
<1> USE DEF OrgSteps
<1>1. CASE InsertInvite(p) \/ AcceptConsume(p)
  BY <1>1, <1>a, <1>b, NothingTaken DEF InsertInvite, AcceptConsume, NoOrgRace
<1>2. CASE AcceptCount(p)
  <2> DEFINE c == [orgCall[p] EXCEPT !.at = "join", !.n = 0]
  <2>1. c \in OrgCalls /\ c.at = "join"
    BY <1>a DEF OrgCalls
  <2>2. CASE Cardinality(Members) < orgCall[p].n
    <3>1. overbooked \/ Cardinality(NonOwners) < seatlimit
      <4> SUFFICES ASSUME ~overbooked PROVE Cardinality(NonOwners) < seatlimit
        OBVIOUS
      <4>1. orgCall[p].n <= seatlimit /\ orgCall[p].n \in Nat
        BY <1>2, <1>a DEF AcceptCount, OrgInv, SeatInv, OrgCalls
      <4> QED  BY <1>a, <2>2, <4>1, SeatsAreFinite DEF OrgInv
    <3>2. OrgGoto(p, c) /\ UNCHANGED <<role, seatlimit, overbooked, ownerRace>>
      BY <1>2, <2>2 DEF AcceptCount, NoOrgRace
    <3> HIDE DEF c
    <3> QED  BY <2>1, <3>1, <3>2, NothingTaken
  <2>3. CASE ~(Cardinality(Members) < orgCall[p].n)
    BY <1>2, <1>a, <1>b, <2>3, NothingTaken DEF AcceptCount, NoOrgRace
  <2> QED  BY <2>2, <2>3
<1>3. CASE CountOwners(p)
  <2> DEFINE c == [orgCall[p] EXCEPT !.at = "write", !.n = 1]
  <2>1. c \in OrgCalls /\ c.at = "write" /\ c.n = 1
    BY <1>a DEF OrgCalls
  <2>2. CASE Cardinality(Owners) > 1
    <3>1. OrgGoto(p, c) /\ UNCHANGED <<role, seatlimit, overbooked, ownerRace>>
      BY <1>3, <2>2 DEF CountOwners, NoOrgRace
    <3> HIDE DEF c
    <3> QED  BY <2>1, <2>2, <3>1, NothingTaken
  <2>3. CASE ~(Cardinality(Owners) > 1)
    BY <1>3, <1>a, <1>b, <2>3, NothingTaken DEF CountOwners, NoOrgRace
  <2> QED  BY <2>2, <2>3
<1>4. ASSUME NEW u \in User, InviteOrgMember(p, u) PROVE OrgInv'
  <2> DEFINE c == [OrgIdle EXCEPT !.at = "invite", !.u = u]
  <2>1. c \in OrgCalls /\ c.at = "invite"
    BY <1>a DEF OrgCalls
  <2>2. OrgGoto(p, c) /\ UNCHANGED <<role, seatlimit, overbooked, ownerRace>>
    BY <1>4 DEF InviteOrgMember, NoOrgRace
  <2> HIDE DEF c
  <2> QED  BY <2>1, <2>2, NothingTaken
<1>5. ASSUME NEW i \in OrgInvite, AcceptInvitation(p, i), invite[i].u \in User PROVE OrgInv'
  <2> DEFINE c == [OrgIdle EXCEPT !.at = "count", !.u = invite[i].u, !.i = i, !.n = seatlimit]
  <2>1. c \in OrgCalls /\ c.at = "count" /\ c.n = seatlimit
    BY <1>5, <1>a DEF OrgCalls
  <2>2. OrgGoto(p, c) /\ UNCHANGED <<role, seatlimit, overbooked, ownerRace>>
    BY <1>5 DEF AcceptInvitation, NoOrgRace
  <2> HIDE DEF c
  <2> QED  BY <2>1, <2>2, NothingTaken
<1>6. \A i \in OrgInvite : invite[i].u \in User
  BY DEF InvitedAreUsers
<1> QED  BY <1>1, <1>2, <1>3, <1>4, <1>5, <1>6

LEMMA StepChange ==
  ASSUME OrgInv, NEW p \in Proc, NEW u \in User,
         \/ PutGroupMember(p, u) \/ DeleteGroupMember(p, u)
         \/ \E r \in Roles \cup {"none"} : ChangeMember(p, u, r)
  PROVE  OrgInv'
<1>a. OrgIdle \in OrgCalls /\ seatlimit \in Nat
  BY IdleIsCall DEF OrgInv, OrgForm
<1>b. OrgIdle.at = "idle" /\ OrgIdle.n = 0
  BY DEF OrgIdle
<1>1. CASE PutGroupMember(p, u)
  <2> DEFINE c == [OrgIdle EXCEPT !.at = IF role[u] = "none" THEN "put_insert" ELSE "put_role", !.u = u, !.to = "member"]
  <2>1. c \in OrgCalls /\ c.at = IF role[u] = "none" THEN "put_insert" ELSE "put_role"
    BY <1>a DEF OrgCalls, OrgSteps, Roles
  <2>2. OrgGoto(p, c) /\ UNCHANGED <<role, seatlimit, overbooked, ownerRace>>
    BY <1>1 DEF PutGroupMember, Locked, NoOrgRace
  <2>3. c.at = "put_insert" => Cardinality(NonOwners) < seatlimit
    BY <1>1, <1>a, <2>1, SeatsAreFinite DEF PutGroupMember, OrgInv
  <2> HIDE DEF c
  <2> QED  BY <2>1, <2>2, <2>3, NothingTaken
<1>2. CASE DeleteGroupMember(p, u)
  <2> DEFINE c == [OrgIdle EXCEPT !.at = "put_role", !.u = u]
  <2>1. c \in OrgCalls /\ c.at = "put_role"
    BY <1>a DEF OrgCalls, OrgSteps
  <2>2. OrgGoto(p, c) /\ UNCHANGED <<role, seatlimit, overbooked, ownerRace>>
    BY <1>2 DEF DeleteGroupMember, Locked, NoOrgRace
  <2> HIDE DEF c
  <2> QED  BY <2>1, <2>2, NothingTaken
<1>3. ASSUME NEW r \in Roles \cup {"none"}, ChangeMember(p, u, r) PROVE OrgInv'
  <2> DEFINE at == IF role[u] = "owner" /\ r # "owner" THEN "owners" ELSE "write"
             c == [OrgIdle EXCEPT !.at = at, !.u = u, !.to = r]
  <2>1. c \in OrgCalls /\ c.at \in {"owners", "write"} /\ c.n = 0
    BY <1>a, <1>b DEF OrgCalls, OrgSteps
  <2>2. OrgGoto(p, c) /\ UNCHANGED <<role, seatlimit, overbooked, ownerRace>>
    BY <1>3 DEF ChangeMember, NoOrgRace
  <2> HIDE DEF c
  <2> QED  BY <2>1, <2>2, NothingTaken
<1> QED  BY <1>1, <1>2, <1>3

LEMMA StepSeat ==
  ASSUME OrgInv, NEW p \in Proc, AcceptJoin(p) \/ InsertGroupMember(p)
  PROVE  OrgInv'
<1>a. orgCall[p] \in OrgCalls /\ orgCall[p].u \in User
  BY DEF OrgInv, OrgForm, OrgCalls
<1>1. CASE AcceptJoin(p)
  <2> DEFINE c == [OrgIdle EXCEPT !.at = "consume", !.i = orgCall[p].i]
  <2>1. c \in OrgCalls /\ c.at = "consume"
    BY <1>a, IdleIsCall DEF OrgCalls, OrgSteps
  <2>2. OrgGoto(p, c) /\ TakeSeat(p, orgCall[p].u) /\ UNCHANGED seatlimit /\ orgCall[p].at = "join"
    BY <1>1 DEF AcceptJoin
  <2> HIDE DEF c
  <2> QED  BY <1>a, <2>1, <2>2, SeatTaken
<1>2. CASE InsertGroupMember(p)
  <2>1. OrgIdle.at = "idle"
    BY DEF OrgIdle
  <2> QED  BY <1>2, <1>a, <2>1, IdleIsCall, SeatTaken DEF InsertGroupMember, Commit
<1> QED  BY <1>1, <1>2

LEMMA StepGroupSeatlimit ==
  ASSUME OrgInv, NEW p \in Proc, NEW n \in 1..MaxSeats, UpdateGroupSeatlimit(p, n)
  PROVE  OrgInv'
<1> DEFINE c == [OrgIdle EXCEPT !.at = "limit", !.n = n]
<1>1. c \in OrgCalls /\ c.at = "limit"
  <2>1. n \in Nat
    BY OrgAssumption
  <2> QED  BY <2>1, IdleIsCall DEF OrgCalls, OrgSteps
<1>2. OrgGoto(p, c) /\ UNCHANGED <<role, seatlimit, overbooked, ownerRace>>
  BY DEF UpdateGroupSeatlimit, Locked, NoOrgRace
<1> HIDE DEF c
<1> QED  BY <1>1, <1>2, NothingTaken

LEMMA InvitedStep == OrgInv /\ InvitedAreUsers /\ [OrgNext]_OrgVars => InvitedAreUsers'
<1> SUFFICES ASSUME OrgInv, InvitedAreUsers, [OrgNext]_OrgVars PROVE InvitedAreUsers'
  OBVIOUS
<1> USE DEF InvitedAreUsers
<1>1. ASSUME NEW p \in Proc, InsertInvite(p) PROVE InvitedAreUsers'
  BY <1>1 DEF InsertInvite, OrgInv, OrgForm, OrgCalls
<1>2. ASSUME NEW p \in Proc, AcceptConsume(p) PROVE InvitedAreUsers'
  BY <1>2 DEF AcceptConsume
<1>3. ASSUME NEW i \in OrgInvite, ExpireInvite(i) \/ ResendOrgInvitation(i) \/ RevokeOrgInvite(i) PROVE InvitedAreUsers'
  BY <1>3, CallersAssumption DEF ExpireInvite, ResendOrgInvitation, RevokeOrgInvite, NoInvite
<1>4. CASE UNCHANGED invite
  BY <1>4
<1> QED  BY <1>1, <1>2, <1>3, <1>4 DEF OrgNext, OrgVars, InviteOrgMember, PutGroupMember, DeleteGroupMember, ChangeMember,
           AcceptInvitation, UpdateGroupSeatlimit, AcceptCount, AcceptJoin, CountOwners, WriteMember, WriteSeatlimit,
           InsertGroupMember, WriteGroupMember

LEMMA OrgStep == OrgInv /\ InvitedAreUsers /\ [OrgNext]_OrgVars => OrgInv'
<1> SUFFICES ASSUME OrgInv, InvitedAreUsers, [OrgNext]_OrgVars PROVE OrgInv'
  OBVIOUS
<1>1. ASSUME NEW p \in Proc, NEW u \in User,
             \/ InviteOrgMember(p, u) \/ PutGroupMember(p, u) \/ DeleteGroupMember(p, u)
             \/ \E r \in Roles \cup {"none"} : ChangeMember(p, u, r)
      PROVE  OrgInv'
  BY <1>1, StepInvitation, StepChange
<1>2. ASSUME NEW p \in Proc, NEW i \in OrgInvite, AcceptInvitation(p, i) PROVE OrgInv'
  BY <1>2, StepInvitation
<1>3. ASSUME NEW p \in Proc, NEW n \in 1..MaxSeats, UpdateGroupSeatlimit(p, n) PROVE OrgInv'
  BY <1>3, StepGroupSeatlimit
<1>4. ASSUME NEW p \in Proc, InsertInvite(p) \/ AcceptCount(p) \/ AcceptConsume(p) \/ CountOwners(p) PROVE OrgInv'
  BY <1>4, StepInvitation
<1>5. ASSUME NEW p \in Proc, AcceptJoin(p) \/ InsertGroupMember(p) PROVE OrgInv'
  BY <1>5, StepSeat
<1>6. ASSUME NEW p \in Proc, WriteMember(p) \/ WriteGroupMember(p) \/ WriteSeatlimit(p) PROVE OrgInv'
  BY <1>6, StepWriteMember, StepWriteGroupMember, StepWriteSeatlimit
<1>7. ASSUME NEW i \in OrgInvite, ExpireInvite(i) \/ ResendOrgInvitation(i) \/ RevokeOrgInvite(i) PROVE OrgInv'
  BY <1>7, OrgRest DEF ExpireInvite, ResendOrgInvitation, RevokeOrgInvite, NoOrgRace
<1>8. CASE UNCHANGED OrgVars
  BY <1>8, OrgRest DEF OrgVars
<1> QED  BY <1>1, <1>2, <1>3, <1>4, <1>5, <1>6, <1>7, <1>8 DEF OrgNext

LEMMA OrgInvariant == OrgSpec => []OrgInv
<1>1. OrgInit => OrgInv /\ InvitedAreUsers
  BY OrgInitial, CallersAssumption DEF OrgInit, InvitedAreUsers, NoInvite
<1> QED  BY <1>1, OrgStep, InvitedStep, PTL DEF OrgSpec

\* Whatever admins and the consumer API do at the same time, the organisation
\* keeps an owner, except where the code lets go.
THEOREM OwnerIsKeptHolds == OrgSpec => []OwnerIsKept
<1>1. OrgInv => OwnerIsKept
  BY DEF OrgInv, OwnerInv, OwnerIsKept
<1> QED  BY <1>1, OrgInvariant, PTL

\* Members other than owners stay within the limit, by whichever door they come
\* and however the limit moves, unless a count was stale when it was used.
THEOREM SeatsWithinLimitHolds == OrgSpec => []SeatsWithinLimit
<1>1. OrgInv => SeatsWithinLimit
  BY DEF OrgInv, SeatInv, SeatsWithinLimit
<1> QED  BY <1>1, OrgInvariant, PTL

------------------------------------------------------------------------------
(***************************************************************************)
(* CourseItems.                                                            *)
(***************************************************************************)
CourseCalls == [i : Item \cup {"none"}, n : Nat, todo : Seq(Item), seen : SUBSET Item]

CourseTypeInv ==
  /\ position \in [Item -> Int] /\ \A i \in Item : position[i] >= -1
  /\ born \in [Item -> Nat]
  /\ itemCall \in [Proc -> CourseCalls]
  /\ before \subseteq Existing \X Existing
  /\ \E n \in Nat : DOMAIN page = 1..n

\* An item about to be inserted is nowhere yet.
NewIsNowhere ==
  \A p \in Proc : itemCall[p].i # "none" =>
    /\ position[itemCall[p].i] = -1
    /\ \A q \in Proc : itemCall[p].i \notin itemCall[q].seen /\ (itemCall[q].i = itemCall[p].i => q = p)

\* It goes behind what its call saw.
GoesBehind == \A p \in Proc : itemCall[p].i # "none" => \A j \in itemCall[p].seen \cap Existing : position[j] < itemCall[p].n

Todo(p) == {itemCall[p].todo[k] : k \in DOMAIN itemCall[p].todo}
Reordering == {p \in Proc : itemCall[p].todo # <<>>}

\* A reorder has the course to itself.
ReorderIsAlone == \A p \in Reordering, q \in Proc : q # p => itemCall[q] = CourseIdle

\* It names each item once, and what it has written is before what it has not.
HalfWritten(p) ==
  /\ itemCall[p].i = "none"
  /\ \A k, l \in DOMAIN itemCall[p].todo : itemCall[p].todo[k] = itemCall[p].todo[l] => k = l
  /\ \A b \in before :
       /\ b[1] \notin Todo(p) /\ b[2] \notin Todo(p) => Behind(b[1], b[2])
       /\ b[1] \notin Todo(p) /\ b[2] \in Todo(p) => position[b[1]] < itemCall[p].n
       /\ b[1] \in Todo(p) => \E k, l \in DOMAIN itemCall[p].todo :
                                k < l /\ itemCall[p].todo[k] = b[1] /\ itemCall[p].todo[l] = b[2]

OrderInv ==
  ~mixed => /\ GoesBehind /\ ReorderIsAlone
            /\ \A p \in Reordering : HalfWritten(p)
            /\ Reordering = {} => \A b \in before : Behind(b[1], b[2])

CourseInv == CourseTypeInv /\ NewIsNowhere /\ OrderInv

\* The least-number principle.
LEMMA LeastOf ==
  ASSUME NEW T \in SUBSET Nat, T # {}
  PROVE  \E t \in T : \A y \in T : t <= y
<1> DEFINE R == OpToRel(<, Nat)
<1>1. R = {ss \in Nat \X Nat : ss[1] < ss[2]}
  BY DEF OpToRel
<1>2. IsWellFoundedOn(R, Nat)
  BY NatLessThanWellFounded
<1> HIDE DEF R
<1>3. PICK t \in T : \A y \in T : ~ (<<y, t>> \in R)
  BY <1>2, WFMin
<1>4. \A y \in T : ~ (y < t)
  BY <1>1, <1>3
<1> QED  BY <1>4

\* InOrder lists the members of a finite set that R orders strictly, each once.
LEMMA InOrderLists ==
  ASSUME NEW S, IsFiniteSet(S), NEW R,
         \A i \in S : <<i, i>> \notin R,
         \A i, j \in S : i # j => <<i, j>> \in R \/ <<j, i>> \in R,
         \A i, j, k \in S : <<i, j>> \in R /\ <<j, k>> \in R => <<i, k>> \in R
  PROVE  /\ InOrder(S, R) \in Seq(S)
         /\ \A k, l \in DOMAIN InOrder(S, R) : InOrder(S, R)[k] = InOrder(S, R)[l] => k = l
<1> DEFINE Below(i) == {j \in S : <<j, i>> \in R}
<1> DEFINE N == Cardinality(S)
<1> DEFINE rank == [i \in S |-> Cardinality(Below(i)) + 1]
<1>1. N \in Nat
  BY FS_CardinalityType
<1>2. ASSUME NEW i \in S
      PROVE  IsFiniteSet(Below(i)) /\ Cardinality(Below(i)) \in Nat /\ Cardinality(Below(i)) < N
  <2>1. Below(i) \in SUBSET S /\ Below(i) # S
    OBVIOUS
  <2>2. IsFiniteSet(Below(i)) /\ Cardinality(Below(i)) <= N /\ (N = Cardinality(Below(i)) => S = Below(i))
    BY <1>1, <2>1, FS_Subset
  <2>3. Cardinality(Below(i)) \in Nat
    BY <2>2, FS_CardinalityType
  <2> QED  BY <1>1, <2>1, <2>2, <2>3
<1>3. ASSUME NEW i \in S, NEW j \in S, <<i, j>> \in R
      PROVE  Cardinality(Below(i)) < Cardinality(Below(j))
  <2>1. \A k \in S : <<k, i>> \in R => <<k, j>> \in R
    BY <1>3
  <2>2. i \in Below(j) /\ i \notin Below(i)
    BY <1>3
  <2>3. Below(i) \in SUBSET Below(j) /\ Below(j) # Below(i)
    BY <2>1, <2>2
  <2>4. IsFiniteSet(Below(j)) /\ Cardinality(Below(j)) \in Nat /\ Cardinality(Below(i)) \in Nat
    BY <1>2
  <2> HIDE DEF Below
  <2>5. Cardinality(Below(i)) <= Cardinality(Below(j)) /\ (Cardinality(Below(j)) = Cardinality(Below(i)) => Below(j) = Below(i))
    BY <2>3, <2>4, FS_Subset
  <2> QED  BY <2>3, <2>4, <2>5
<1>4. rank \in [S -> 1..N] /\ \A i \in S : rank[i] = Cardinality(Below(i)) + 1
  <2> HIDE DEF Below, N
  <2>1. \A i \in S : Cardinality(Below(i)) + 1 \in 1..N
    BY <1>1, <1>2
  <2> QED  BY <2>1
<1> HIDE DEF Below, N, rank
<1>5. \A i, j \in S : rank[i] = rank[j] => i = j
  <2> SUFFICES ASSUME NEW i \in S, NEW j \in S, i # j PROVE rank[i] # rank[j]
    OBVIOUS
  <2>1. <<i, j>> \in R \/ <<j, i>> \in R
    OBVIOUS
  <2> QED  BY <1>2, <1>3, <1>4, <2>1
<1>6. rank \in Injection(S, 1..N)
  BY <1>4, <1>5 DEF Injection, IsInjective
<1>7. rank \in Surjection(S, 1..N)
  BY <1>1, <1>6, FS_Injection, FS_Interval DEF N
<1>8. \A k \in 1..N : \E i \in S : Cardinality(Below(i)) = k - 1
  <2> TAKE k \in 1..N
  <2>1. PICK i \in S : rank[i] = k
    BY <1>7 DEF Surjection
  <2>2. Cardinality(Below(i)) + 1 = k /\ Cardinality(Below(i)) \in Nat
    BY <1>2, <1>4, <2>1
  <2>3. Cardinality(Below(i)) = k - 1
    BY <2>2
  <2> QED  BY <2>3, Zenon
<1>9. InOrder(S, R) = [k \in 1..N |-> CHOOSE i \in S : Cardinality(Below(i)) = k - 1]
  BY DEF InOrder, Below, N
<1>10. \A k \in 1..N : InOrder(S, R)[k] \in S /\ Cardinality(Below(InOrder(S, R)[k])) = k - 1
  BY <1>8, <1>9
<1>11. InOrder(S, R) \in [1..N -> S]
  BY <1>9, <1>10
<1>12. InOrder(S, R) \in Seq(S) /\ DOMAIN InOrder(S, R) = 1..N
  BY <1>1, <1>11, SeqDef
<1>13. ASSUME NEW k \in 1..N, NEW l \in 1..N, InOrder(S, R)[k] = InOrder(S, R)[l] PROVE k = l
  <2>1. k - 1 = l - 1
    BY <1>10, <1>13
  <2> QED  BY <1>1, <2>1
<1> QED  BY <1>12, <1>13

\* What orderItems returns are items of the course, each once.
LEMMA OrderItemsLists ==
  ASSUME NEW s, NEW n \in Nat, DOMAIN s = 1..n
  PROVE  /\ OrderItems(s) \in Seq(Existing)
         /\ \A k, l \in DOMAIN OrderItems(s) : OrderItems(s)[k] = OrderItems(s)[l] => k = l
<1> DEFINE asked == {i \in Existing : \E k \in DOMAIN s : s[k] = i}
<1> DEFINE R == {b \in asked \X asked : FirstPlace(s, b[1]) < FirstPlace(s, b[2])}
<1>1. ASSUME NEW i \in asked
      PROVE  FirstPlace(s, i) \in 1..n /\ s[FirstPlace(s, i)] = i
  <2> DEFINE T == {k \in 1..n : s[k] = i}
  <2>1. T \in SUBSET Nat /\ T # {}
    BY <1>1
  <2>2. PICK t \in T : \A y \in T : t <= y
    BY <2>1, LeastOf
  <2>3. t \in DOMAIN s /\ s[t] = i /\ \A l \in DOMAIN s : s[l] = i => t <= l
    BY <2>2
  <2> QED  BY <2>3, Zenon DEF FirstPlace
<1>2. IsFiniteSet(asked)
  <2>1. asked \in SUBSET Item
    BY DEF Existing
  <2> QED  BY <2>1, FS_Subset, CourseAssumption
<1>3. \A i, j \in asked : <<i, j>> \in R <=> FirstPlace(s, i) < FirstPlace(s, j)
  OBVIOUS
<1>4. \A i, j \in asked : i # j => FirstPlace(s, i) # FirstPlace(s, j)
  BY <1>1
<1>5. OrderItems(s) = InOrder(asked, R)
  BY DEF OrderItems
<1>6. asked \subseteq Existing
  OBVIOUS
<1> HIDE DEF asked, R
<1>7. /\ \A i \in asked : <<i, i>> \notin R
      /\ \A i, j \in asked : i # j => <<i, j>> \in R \/ <<j, i>> \in R
      /\ \A i, j, k \in asked : <<i, j>> \in R /\ <<j, k>> \in R => <<i, k>> \in R
  BY <1>1, <1>3, <1>4
<1>8. /\ InOrder(asked, R) \in Seq(asked)
      /\ \A k, l \in DOMAIN InOrder(asked, R) : InOrder(asked, R)[k] = InOrder(asked, R)[l] => k = l
  BY <1>2, <1>7, InOrderLists
<1>9. InOrder(asked, R) \in Seq(Existing)
  BY <1>6, <1>8
<1> QED  BY <1>5, <1>8, <1>9

\* The position an item is added at is behind them all.
LEMMA GreatestIsGreatest ==
  ASSUME CourseTypeInv
  PROVE  Greatest \in Int /\ Greatest >= -1 /\ \A j \in Existing : position[j] <= Greatest
<1>1. IsFiniteSet(Existing) /\ Existing \subseteq Item
  <2>1. Existing \in SUBSET Item
    BY DEF Existing
  <2> QED  BY <2>1, FS_Subset, CourseAssumption
<1>2. \A i \in Existing : position[i] \in Nat
  BY DEF Existing, CourseTypeInv
<1>3. CASE Existing = {}
  BY <1>3 DEF Greatest
<1>4. CASE Existing # {}
  <2> DEFINE Above(i) == {j \in Existing : position[j] > position[i]}
  <2> DEFINE T == {Cardinality(Above(i)) : i \in Existing}
  <2>1. \A i \in Existing : IsFiniteSet(Above(i)) /\ Cardinality(Above(i)) \in Nat
    <3> TAKE i \in Existing
    <3>1. Above(i) \in SUBSET Existing
      OBVIOUS
    <3>2. IsFiniteSet(Above(i))
      BY <1>1, <3>1, FS_Subset
    <3> QED  BY <3>2, FS_CardinalityType
  <2>2. T \in SUBSET Nat /\ T # {}
    BY <1>4, <2>1
  <2>3. PICK t \in T : \A y \in T : t <= y
    BY <2>2, LeastOf
  <2>4. PICK i \in Existing : t = Cardinality(Above(i))
    BY <2>3
  <2>5. ASSUME NEW j \in Existing, position[j] > position[i] PROVE FALSE
    <3>1. Above(j) \in SUBSET Above(i)
      BY <1>2, <2>5
    <3>2. j \in Above(i) /\ j \notin Above(j)
      BY <1>2, <2>5
    <3>3. Cardinality(Above(i)) <= Cardinality(Above(j))
      BY <2>3, <2>4
    <3> HIDE DEF Above, T
    <3>4. Cardinality(Above(j)) <= Cardinality(Above(i)) /\ (Cardinality(Above(i)) = Cardinality(Above(j)) => Above(i) = Above(j))
      BY <2>1, <3>1, FS_Subset
    <3> QED  BY <2>1, <3>2, <3>3, <3>4
  <2>6. \A j \in Existing : position[j] <= position[i]
    BY <1>2, <2>5
  <2>7. PICK g \in Existing : g = (CHOOSE m \in Existing : \A j \in Existing : position[j] <= position[m])
                              /\ \A j \in Existing : position[j] <= position[g]
    BY <2>6
  <2>8. Greatest = position[g]
    BY <1>4, <2>7 DEF Greatest
  <2> QED  BY <1>2, <2>7, <2>8
<1> QED  BY <1>3, <1>4

LEMMA CourseIdleType ==
  CourseIdle \in CourseCalls /\ CourseIdle.i = "none" /\ CourseIdle.todo = <<>> /\ CourseIdle.seen = {}
  BY DEF CourseIdle, CourseCalls

CallTo(p, c) ==
  /\ itemCall' \in [Proc -> CourseCalls] /\ itemCall'[p] = c
  /\ \A q \in Proc : q # p => itemCall'[q] = itemCall[q]

LEMMA CallSet ==
  ASSUME CourseTypeInv, NEW p \in Proc, NEW c \in CourseCalls, itemCall' = [itemCall EXCEPT ![p] = c]
  PROVE  CallTo(p, c)
  BY DEF CourseTypeInv, CallTo

LEMMA CallKnown ==
  ASSUME CourseTypeInv, NEW p \in Proc
  PROVE  /\ itemCall[p] \in CourseCalls /\ itemCall[p].i \in Item \cup {"none"} /\ itemCall[p].n \in Nat
         /\ itemCall[p].todo \in Seq(Item) /\ itemCall[p].seen \subseteq Item
  BY DEF CourseTypeInv, CourseCalls

\* A call that is not idle is an addition or a reorder.
LEMMA AddItemMoves ==
  ASSUME CourseTypeInv, NEW p \in Proc, NEW i \in Item, AddItem(p, i)
  PROVE  /\ itemCall[p] = CourseIdle /\ position[i] = -1
         /\ \A q \in Proc : itemCall[q].i # i /\ i \notin itemCall[q].seen
         /\ \E c \in CourseCalls : /\ CallTo(p, c) /\ c.i = i /\ c.todo = <<>> /\ c.seen = Existing
                                   /\ \A j \in Existing : position[j] < c.n
         /\ UNCHANGED <<position, born, page, before>> /\ (mixed => mixed') /\ (~mixed' => Reordering = {})
<1>1. PICK n \in Nat : n = Greatest + 1
  BY GreatestIsGreatest
<1>2. Existing \subseteq Item /\ \A j \in Existing : position[j] \in Int
  BY DEF Existing, CourseTypeInv
<1>3. PICK seen \in SUBSET Item : seen = Existing
  BY <1>2
<1> DEFINE c1 == [CourseIdle EXCEPT !.i = i]
<1> DEFINE c2 == [c1 EXCEPT !.n = n]
<1> DEFINE c == [c2 EXCEPT !.seen = seen]
<1>4. itemCall' = [itemCall EXCEPT ![p] = c]
  BY <1>1, <1>3 DEF AddItem
<1>5. c \in CourseCalls /\ c.i = i /\ c.n = n /\ c.todo = <<>> /\ c.seen = seen
  <2>1. CourseIdle \in CourseCalls /\ CourseIdle.todo = <<>>
    BY CourseIdleType
  <2>2. c1 \in CourseCalls /\ c1.i = i /\ c1.todo = <<>>
    BY <2>1 DEF CourseCalls
  <2> HIDE DEF c1
  <2>3. c2 \in CourseCalls /\ c2.i = i /\ c2.n = n /\ c2.todo = <<>>
    BY <2>2 DEF CourseCalls
  <2> HIDE DEF c2
  <2> QED  BY <2>3 DEF CourseCalls
<1> HIDE DEF c
<1>6. \A j \in Existing : position[j] < n
  BY <1>1, <1>2, GreatestIsGreatest
<1>7. CallTo(p, c)
  BY <1>4, <1>5, CallSet
<1>8. itemCall[p] = CourseIdle /\ position[i] = -1 /\ \A q \in Proc : itemCall[q].i # i /\ i \notin itemCall[q].seen
  BY DEF AddItem, Unused
<1>9. UNCHANGED <<position, born, page, before>> /\ (mixed => mixed') /\ (~mixed' => Reordering = {})
  BY DEF AddItem, Reordering
<1> QED  BY <1>3, <1>5, <1>6, <1>7, <1>8, <1>9

LEMMA AddItemStep ==
  ASSUME CourseInv, NEW p \in Proc, NEW i \in Item, AddItem(p, i)
  PROVE  CourseInv'
<1>0. CourseTypeInv /\ NewIsNowhere /\ OrderInv
  BY DEF CourseInv
<1>1. PICK c \in CourseCalls : /\ CallTo(p, c) /\ c.i = i /\ c.todo = <<>> /\ c.seen = Existing
                               /\ \A j \in Existing : position[j] < c.n
  BY <1>0, AddItemMoves
<1>2. /\ itemCall[p] = CourseIdle /\ position[i] = -1
      /\ \A q \in Proc : itemCall[q].i # i /\ i \notin itemCall[q].seen
      /\ UNCHANGED <<position, born, page, before>> /\ (mixed => mixed') /\ (~mixed' => Reordering = {})
  BY <1>0, AddItemMoves
<1>3. Existing' = Existing /\ i \notin Existing
  BY <1>2 DEF Existing
<1>4. CourseTypeInv'
  BY <1>0, <1>1, <1>2, <1>3 DEF CourseTypeInv, CallTo
<1>5. ASSUME NEW x \in Item, position[x] = -1 PROVE x \notin Existing
  BY <1>5 DEF Existing
<1>6. NewIsNowhere'
  <2> SUFFICES ASSUME NEW r \in Proc, itemCall'[r].i # "none"
               PROVE  /\ position[itemCall'[r].i] = -1
                      /\ \A q \in Proc : itemCall'[r].i \notin itemCall'[q].seen /\ (itemCall'[q].i = itemCall'[r].i => q = r)
    BY <1>2 DEF NewIsNowhere
  <2>1. CASE r = p
    <3>1. itemCall'[r].i = i
      BY <1>1, <2>1 DEF CallTo
    <3>2. \A q \in Proc : i \notin itemCall'[q].seen /\ (itemCall'[q].i = i => q = p)
      BY <1>1, <1>2, <1>3 DEF CallTo
    <3> QED  BY <1>2, <2>1, <3>1, <3>2
  <2>2. CASE r # p
    <3>1. itemCall'[r] = itemCall[r] /\ itemCall[r].i \in Item
      BY <1>0, <1>1, <2>2, CallKnown DEF CallTo
    <3>2. position[itemCall[r].i] = -1 /\ \A q \in Proc : itemCall[r].i \notin itemCall[q].seen /\ (itemCall[q].i = itemCall[r].i => q = r)
      BY <1>0, <3>1 DEF NewIsNowhere
    <3>3. itemCall[r].i \notin Existing /\ itemCall[r].i # i
      BY <1>2, <1>5, <3>1, <3>2
    <3> QED  BY <1>1, <3>1, <3>2, <3>3 DEF CallTo
  <2> QED  BY <2>1, <2>2
<1>7. OrderInv'
  <2> SUFFICES ASSUME ~mixed'
               PROVE  GoesBehind' /\ ReorderIsAlone' /\ (\A r \in Reordering' : HalfWritten(r)') /\ \A b \in before' : Behind(b[1], b[2])'
    BY DEF OrderInv
  <2>1. Reordering = {} /\ GoesBehind /\ \A b \in before : Behind(b[1], b[2])
    BY <1>0, <1>2 DEF OrderInv
  <2>2. Reordering' = {}
    BY <1>1, <2>1 DEF CallTo, Reordering
  <2>3. GoesBehind'
    BY <1>1, <1>2, <1>3, <2>1 DEF CallTo, GoesBehind
  <2>4. \A b \in before' : Behind(b[1], b[2])'
    BY <1>2, <2>1 DEF Behind
  <2> QED  BY <2>2, <2>3, <2>4 DEF ReorderIsAlone
<1> QED  BY <1>4, <1>6, <1>7 DEF CourseInv

\* Where the items stand after an insertion.
LEMMA InsertItemMoves ==
  ASSUME CourseInv, NEW p \in Proc, InsertItem(p)
  PROVE  \E i \in Item :
           /\ i = itemCall[p].i /\ i \notin Existing /\ CallTo(p, CourseIdle)
           /\ position' \in [Item -> Int] /\ (\A j \in Item : position'[j] >= -1) /\ born' \in [Item -> Nat]
           /\ Existing' = Existing \cup {i} /\ position'[i] = itemCall[p].n
           /\ before' = before \cup ((itemCall[p].seen \cap Existing) \X {i})
           /\ \A j \in Existing : position'[j] = position[j]
           /\ \A j, k \in Existing : Behind(j, k) => Behind(j, k)'
           /\ UNCHANGED <<page, mixed>>
<1>0. CourseTypeInv /\ NewIsNowhere
  BY DEF CourseInv
<1>1. PICK i \in Item : i = itemCall[p].i
  BY <1>0, CallKnown DEF InsertItem
<1>2. position[i] = -1 /\ i \notin Existing
  BY <1>0, <1>1 DEF NewIsNowhere, InsertItem, Existing
<1>3. /\ position' = [position EXCEPT ![i] = itemCall[p].n]
      /\ before' = before \cup ((itemCall[p].seen \cap Existing) \X {i})
      /\ itemCall' = [itemCall EXCEPT ![p] = CourseIdle] /\ UNCHANGED <<page, mixed>>
  BY <1>1 DEF InsertItem
<1>4. born' = [j \in Item |-> IF j = i THEN Cardinality(Existing) + 1
                              ELSE IF j \in Existing THEN Cardinality({k \in Existing : born[k] <= born[j]}) ELSE 0]
  BY <1>1 DEF InsertItem
<1>5. itemCall[p].n \in Nat /\ position \in [Item -> Int] /\ born \in [Item -> Nat]
  BY <1>0, CallKnown DEF CourseTypeInv
<1>6. /\ position' \in [Item -> Int] /\ (\A j \in Item : position'[j] >= -1)
      /\ position'[i] = itemCall[p].n /\ \A j \in Item : j # i => position'[j] = position[j]
  BY <1>0, <1>3, <1>5 DEF CourseTypeInv
<1>7. Existing' = Existing \cup {i}
  BY <1>5, <1>6 DEF Existing
<1>8. IsFiniteSet(Existing) /\ Existing \subseteq Item
  <2>1. Existing \in SUBSET Item
    BY DEF Existing
  <2> QED  BY <2>1, FS_Subset, CourseAssumption
<1> DEFINE Upto(j) == {k \in Existing : born[k] <= born[j]}
<1>9. \A j \in Existing : IsFiniteSet(Upto(j)) /\ Cardinality(Upto(j)) \in Nat
  <2> TAKE j \in Existing
  <2>1. Upto(j) \in SUBSET Existing
    OBVIOUS
  <2>2. IsFiniteSet(Upto(j))
    BY <1>8, <2>1, FS_Subset
  <2> QED  BY <2>2, FS_CardinalityType
<1>10. ASSUME NEW j \in Existing, NEW k \in Existing, born[j] < born[k]
       PROVE  Cardinality(Upto(j)) < Cardinality(Upto(k))
  <2>0. \A x \in Existing : born[x] \in Nat
    BY <1>5, <1>8
  <2>1. Upto(j) \in SUBSET Upto(k)
    BY <1>10, <2>0
  <2>2. k \in Upto(k) /\ k \notin Upto(j)
    BY <1>10, <2>0
  <2> HIDE DEF Upto
  <2>3. Cardinality(Upto(j)) <= Cardinality(Upto(k)) /\ (Cardinality(Upto(k)) = Cardinality(Upto(j)) => Upto(k) = Upto(j))
    BY <1>9, <2>1, FS_Subset
  <2> QED  BY <1>9, <2>2, <2>3
<1>11. Cardinality(Existing) \in Nat
  BY <1>8, FS_CardinalityType
<1>12. \A j \in Existing : j # i /\ born'[j] = Cardinality(Upto(j))
  BY <1>2, <1>4, <1>8
<1>13. born' \in [Item -> Nat]
  BY <1>4, <1>9, <1>11
<1> HIDE DEF Upto
<1>14. ASSUME NEW j \in Existing, NEW k \in Existing, Behind(j, k) PROVE Behind(j, k)'
  <2>1. position'[j] = position[j] /\ position'[k] = position[k]
    BY <1>2, <1>6, <1>8
  <2>2. born[j] < born[k] => born'[j] < born'[k]
    BY <1>10, <1>12
  <2> QED  BY <1>14, <2>1, <2>2 DEF Behind
<1>15. \A j \in Existing : position'[j] = position[j]
  BY <1>2, <1>6, <1>8
<1>16. CallTo(p, CourseIdle)
  BY <1>0, <1>3, CallSet, CourseIdleType
<1> QED  BY <1>1, <1>2, <1>3, <1>6, <1>7, <1>13, <1>14, <1>15, <1>16

LEMMA InsertItemStep ==
  ASSUME CourseInv, NEW p \in Proc, InsertItem(p)
  PROVE  CourseInv'
<1>0. CourseTypeInv /\ NewIsNowhere /\ OrderInv
  BY DEF CourseInv
<1>1. PICK i \in Item :
           /\ i = itemCall[p].i /\ i \notin Existing /\ CallTo(p, CourseIdle)
           /\ position' \in [Item -> Int] /\ (\A j \in Item : position'[j] >= -1) /\ born' \in [Item -> Nat]
           /\ Existing' = Existing \cup {i} /\ position'[i] = itemCall[p].n
           /\ before' = before \cup ((itemCall[p].seen \cap Existing) \X {i})
           /\ \A j \in Existing : position'[j] = position[j]
           /\ \A j, k \in Existing : Behind(j, k) => Behind(j, k)'
           /\ UNCHANGED <<page, mixed>>
  BY InsertItemMoves
<1>2. CourseTypeInv'
  BY <1>0, <1>1 DEF CourseTypeInv, CallTo
<1>3. \A q \in Proc : q # p => /\ itemCall'[q] = itemCall[q] /\ itemCall[q].i # i
                               /\ i \notin itemCall[q].seen
  BY <1>0, <1>1, CourseAssumption DEF NewIsNowhere, CallTo
<1>4. itemCall'[p] = CourseIdle
  BY <1>1 DEF CallTo
<1>5. NewIsNowhere'
  <2> SUFFICES ASSUME NEW r \in Proc, itemCall'[r].i # "none"
               PROVE  /\ position'[itemCall'[r].i] = -1
                      /\ \A q \in Proc : itemCall'[r].i \notin itemCall'[q].seen /\ (itemCall'[q].i = itemCall'[r].i => q = r)
    BY DEF NewIsNowhere
  <2>1. r # p
    BY <1>4, CourseIdleType
  <2>2. itemCall'[r] = itemCall[r] /\ itemCall[r].i \in Item /\ itemCall[r].i # i
    BY <1>0, <1>3, <2>1, CallKnown
  <2>3. position[itemCall[r].i] = -1 /\ \A q \in Proc : itemCall[r].i \notin itemCall[q].seen /\ (itemCall[q].i = itemCall[r].i => q = r)
    BY <1>0, <2>2 DEF NewIsNowhere
  <2>4. position'[itemCall[r].i] = -1
    <3>1. position'[itemCall[r].i] \in Int /\ position'[itemCall[r].i] >= -1
      BY <1>1, <2>2
    <3>2. itemCall[r].i \notin Existing
      BY <2>3 DEF Existing
    <3>3. itemCall[r].i \notin Existing'
      BY <1>1, <2>2, <3>2
    <3>4. ~(position'[itemCall[r].i] >= 0)
      BY <2>2, <3>3 DEF Existing
    <3> QED  BY <3>1, <3>4
  <2> QED  BY <1>3, <1>4, <2>2, <2>3, <2>4, CourseAssumption, CourseIdleType
<1>6. OrderInv'
  <2> SUFFICES ASSUME ~mixed'
               PROVE  GoesBehind' /\ ReorderIsAlone' /\ (\A r \in Reordering' : HalfWritten(r)') /\ \A b \in before' : Behind(b[1], b[2])'
    BY DEF OrderInv
  <2>1. GoesBehind /\ ReorderIsAlone /\ (Reordering = {} => \A b \in before : Behind(b[1], b[2]))
        /\ \A r \in Reordering : HalfWritten(r)
    BY <1>0, <1>1 DEF OrderInv
  <2>2. Reordering = {}
    <3> SUFFICES ASSUME NEW r \in Reordering PROVE FALSE
      OBVIOUS
    <3>1. itemCall[p] # CourseIdle
      BY <1>1, CourseIdleType, CourseAssumption
    <3>2. r = p
      BY <2>1, <3>1 DEF ReorderIsAlone, Reordering
    <3> QED  BY <1>1, <2>1, <3>2, CourseAssumption DEF HalfWritten
  <2>3. Reordering' = {}
    BY <1>3, <1>4, <2>2, CourseIdleType DEF Reordering
  <2>4. GoesBehind'
    <3> SUFFICES ASSUME NEW r \in Proc, itemCall'[r].i # "none", NEW j \in itemCall'[r].seen, j \in Existing'
                 PROVE  position'[j] < itemCall'[r].n
      BY DEF GoesBehind
    <3>1. r # p
      BY <1>4, CourseIdleType
    <3>2. j \in Existing /\ itemCall'[r] = itemCall[r]
      BY <1>1, <1>3, <3>1
    <3>3. position[j] < itemCall[r].n
      BY <2>1, <3>2 DEF GoesBehind
    <3> QED  BY <1>1, <3>2, <3>3
  <2>5. ASSUME NEW b \in before' PROVE Behind(b[1], b[2])'
    <3>1. CASE b \in before
      <4>1. b[1] \in Existing /\ b[2] \in Existing /\ Behind(b[1], b[2])
        BY <1>0, <2>1, <2>2, <3>1 DEF CourseTypeInv
      <4> QED  BY <1>1, <4>1
    <3>2. CASE b \in (itemCall[p].seen \cap Existing) \X {i}
      <4>1. b[1] \in itemCall[p].seen /\ b[1] \in Existing /\ b[2] = i
        BY <3>2
      <4>2. position[b[1]] < itemCall[p].n
        BY <1>1, <2>1, <4>1, CourseAssumption DEF GoesBehind
      <4>3. position'[b[1]] < position'[b[2]]
        BY <1>1, <4>1, <4>2
      <4> QED  BY <4>3 DEF Behind
    <3> QED  BY <1>1, <2>5, <3>1, <3>2
  <2> QED  BY <2>3, <2>4, <2>5 DEF ReorderIsAlone
<1> QED  BY <1>2, <1>5, <1>6 DEF CourseInv

\* What a reorder sets out to write.
LEMMA ReorderMoves ==
  ASSUME CourseTypeInv, NEW p \in Proc, NEW k, Reorder(p, k)
  PROVE  \E s \in Seq(Item) :
           /\ s \in Seq(Existing) /\ s # <<>>
           /\ \A l, n \in DOMAIN s : s[l] = s[n] => l = n
           /\ itemCall[p] = CourseIdle
           /\ \E c \in CourseCalls : CallTo(p, c) /\ c.i = "none" /\ c.seen = {} /\ c.todo = s
           /\ before' \subseteq Existing \X Existing
           /\ \A b \in before' : \/ b \in before /\ \A l \in DOMAIN s : s[l] # b[1] /\ s[l] # b[2]
                                 \/ \E l, n \in DOMAIN s : l < n /\ s[l] = b[1] /\ s[n] = b[2]
           /\ UNCHANGED <<position, born, page>> /\ (~mixed' => ~mixed /\ Busy = {})
<1>1. PICK n \in Nat : DOMAIN page = 1..n
  BY DEF CourseTypeInv
<1>2. DOMAIN Exchange(page, k) = 1..n
  BY <1>1 DEF Exchange
<1>3. PICK s \in Seq(Existing) : /\ s = OrderItems(Exchange(page, k))
                                 /\ \A l, m \in DOMAIN s : s[l] = s[m] => l = m
  BY <1>2, OrderItemsLists
<1>4. Existing \subseteq Item
  BY DEF Existing
<1>5. s \in Seq(Item)
  BY <1>3, <1>4
<1> DEFINE c == [CourseIdle EXCEPT !.todo = s]
<1>6. itemCall' = [itemCall EXCEPT ![p] = c]
  BY <1>3 DEF Reorder
<1>7. c \in CourseCalls /\ c.i = "none" /\ c.seen = {} /\ c.todo = s
  BY <1>5, CourseIdleType DEF CourseCalls
<1> HIDE DEF c
<1>8. CallTo(p, c)
  BY <1>6, <1>7, CallSet
<1>9. /\ itemCall[p] = CourseIdle /\ s # <<>> /\ UNCHANGED <<position, born, page>>
      /\ (~mixed' => ~mixed /\ Busy = {})
  BY <1>3 DEF Reorder
<1> DEFINE named == {s[l] : l \in DOMAIN s}
<1>10. before' = {b \in before : named \cap {b[1], b[2]} = {}}
                 \cup {b \in named \X named : \E l, m \in DOMAIN s : l < m /\ b = <<s[l], s[m]>>}
  BY <1>3 DEF Reorder
<1>11. named \subseteq Existing
  BY <1>3
<1>12. before' \subseteq Existing \X Existing
  BY <1>10, <1>11 DEF CourseTypeInv
<1>13. ASSUME NEW b \in before'
       PROVE  \/ b \in before /\ \A l \in DOMAIN s : s[l] # b[1] /\ s[l] # b[2]
              \/ \E l, m \in DOMAIN s : l < m /\ s[l] = b[1] /\ s[m] = b[2]
  <2>1. CASE b \in before /\ named \cap {b[1], b[2]} = {}
    <3>1. \A l \in DOMAIN s : s[l] \in named
      OBVIOUS
    <3> QED  BY <2>1, <3>1, Zenon
  <2>2. CASE \E l, m \in DOMAIN s : l < m /\ b = <<s[l], s[m]>>
    BY <2>2
  <2> QED  BY <1>10, <2>1, <2>2
<1> QED  BY <1>3, <1>5, <1>7, <1>8, <1>9, <1>12, <1>13

LEMMA ReorderStep ==
  ASSUME CourseInv, NEW p \in Proc, NEW k, Reorder(p, k)
  PROVE  CourseInv'
<1>0. CourseTypeInv /\ NewIsNowhere /\ OrderInv
  BY DEF CourseInv
<1>1. PICK s \in Seq(Item) :
           /\ s \in Seq(Existing) /\ s # <<>>
           /\ \A l, n \in DOMAIN s : s[l] = s[n] => l = n
           /\ itemCall[p] = CourseIdle
           /\ \E c \in CourseCalls : CallTo(p, c) /\ c.i = "none" /\ c.seen = {} /\ c.todo = s
           /\ before' \subseteq Existing \X Existing
           /\ \A b \in before' : \/ b \in before /\ \A l \in DOMAIN s : s[l] # b[1] /\ s[l] # b[2]
                                 \/ \E l, n \in DOMAIN s : l < n /\ s[l] = b[1] /\ s[n] = b[2]
           /\ UNCHANGED <<position, born, page>> /\ (~mixed' => ~mixed /\ Busy = {})
  BY <1>0, ReorderMoves
<1>2. PICK c \in CourseCalls : CallTo(p, c) /\ c.i = "none" /\ c.seen = {} /\ c.todo = s
  BY <1>1
<1>3. Existing' = Existing
  BY <1>1 DEF Existing
<1>4. CourseTypeInv'
  BY <1>0, <1>1, <1>2, <1>3 DEF CourseTypeInv, CallTo
<1>5. NewIsNowhere'
  <2> SUFFICES ASSUME NEW r \in Proc, itemCall'[r].i # "none"
               PROVE  /\ position[itemCall'[r].i] = -1
                      /\ \A q \in Proc : itemCall'[r].i \notin itemCall'[q].seen /\ (itemCall'[q].i = itemCall'[r].i => q = r)
    BY <1>1 DEF NewIsNowhere
  <2>1. itemCall'[r] = itemCall[r]
    BY <1>2 DEF CallTo
  <2>2. position[itemCall[r].i] = -1 /\ \A q \in Proc : itemCall[r].i \notin itemCall[q].seen /\ (itemCall[q].i = itemCall[r].i => q = r)
    BY <1>0, <2>1 DEF NewIsNowhere
  <2> QED  BY <1>2, <2>1, <2>2 DEF CallTo
<1>6. OrderInv'
  <2> SUFFICES ASSUME ~mixed'
               PROVE  GoesBehind' /\ ReorderIsAlone' /\ (\A r \in Reordering' : HalfWritten(r)')
                      /\ (Reordering' = {} => \A b \in before' : Behind(b[1], b[2])')
    BY DEF OrderInv
  <2>1. ~mixed /\ \A q \in Proc : itemCall[q] = CourseIdle
    BY <1>1 DEF Busy
  <2>2. itemCall'[p].i = "none" /\ itemCall'[p].todo = s /\ \A q \in Proc : q # p => itemCall'[q] = CourseIdle
    BY <1>2, <2>1 DEF CallTo
  <2>3. Reordering' = {p}
    BY <1>1, <2>2, CourseIdleType DEF Reordering
  <2>4. Reordering = {}
    BY <2>1, CourseIdleType DEF Reordering
  <2>5. \A b \in before : Behind(b[1], b[2])
    BY <1>0, <2>1, <2>4 DEF OrderInv
  <2>6. GoesBehind'
    BY <2>2, CourseIdleType DEF GoesBehind
  <2>7. ReorderIsAlone'
    BY <2>2, <2>3 DEF ReorderIsAlone
  <2>8. \A x : x \in Todo(p)' <=> \E l \in DOMAIN s : s[l] = x
    BY <2>2 DEF Todo
  <2>9. HalfWritten(p)'
    <3> SUFFICES ASSUME NEW b \in before'
                 PROVE  /\ b[1] \notin Todo(p)' /\ b[2] \notin Todo(p)' => Behind(b[1], b[2])'
                        /\ b[1] \notin Todo(p)' /\ b[2] \in Todo(p)' => position'[b[1]] < itemCall'[p].n
                        /\ b[1] \in Todo(p)' => \E l, n \in DOMAIN s : l < n /\ s[l] = b[1] /\ s[n] = b[2]
      BY <1>1, <2>2 DEF HalfWritten
    <3>1. CASE b \in before /\ \A l \in DOMAIN s : s[l] # b[1] /\ s[l] # b[2]
      <4>1. Behind(b[1], b[2])'
        BY <1>1, <2>5, <3>1 DEF Behind
      <4> QED  BY <2>8, <3>1, <4>1
    <3>2. CASE \E l, n \in DOMAIN s : l < n /\ s[l] = b[1] /\ s[n] = b[2]
      BY <2>8, <3>2
    <3> QED  BY <1>1, <3>1, <3>2
  <2> QED  BY <2>3, <2>6, <2>7, <2>9
<1> QED  BY <1>4, <1>5, <1>6 DEF CourseInv

\* What one write of a reorder changes.
LEMMA WritePositionMoves ==
  ASSUME CourseTypeInv, NEW p \in Proc, WritePosition(p)
  PROVE  \E h \in Item, L \in Nat \ {0}, c \in CourseCalls :
           /\ DOMAIN itemCall[p].todo = 1..L /\ itemCall[p].todo # <<>> /\ h = itemCall[p].todo[1]
           /\ position' \in [Item -> Int] /\ (\A j \in Item : position'[j] >= -1) /\ Existing' = Existing
           /\ \A j \in Item : j # h => position'[j] = position[j]
           /\ h \in Existing => position'[h] = itemCall[p].n
           /\ h \notin Existing => position'[h] = position[h]
           /\ CallTo(p, c) /\ c.i \in {itemCall[p].i, "none"} /\ c.seen \subseteq itemCall[p].seen
           /\ L = 1 => c = CourseIdle
           /\ L # 1 => /\ c.n = itemCall[p].n + 1 /\ DOMAIN c.todo = 1..(L - 1) /\ c.i = itemCall[p].i
                       /\ \A k \in 1..(L - 1) : c.todo[k] = itemCall[p].todo[k + 1]
           /\ UNCHANGED <<born, page, before, mixed>>
<1>1. /\ itemCall[p] \in CourseCalls /\ itemCall[p].n \in Nat /\ itemCall[p].todo \in Seq(Item)
      /\ itemCall[p].i \in Item \cup {"none"} /\ itemCall[p].seen \subseteq Item
  BY CallKnown
<1>2. PICK t \in Seq(Item) : t = itemCall[p].todo
  BY <1>1
<1>3. t # <<>>
  BY <1>2 DEF WritePosition
<1>4. PICK L \in Nat \ {0} : L = Len(t) /\ DOMAIN t = 1..L
  BY <1>3
<1>5. PICK h \in Item : h = t[1] /\ h = Head(t)
  BY <1>3, <1>4
<1>6. /\ position' = IF h \in Existing THEN [position EXCEPT ![h] = itemCall[p].n] ELSE position
      /\ UNCHANGED <<born, page, before, mixed>>
  BY <1>2, <1>5 DEF WritePosition
<1>7. position \in [Item -> Int] /\ \A j \in Item : position[j] >= -1
  BY DEF CourseTypeInv
<1>8. /\ position' \in [Item -> Int] /\ (\A j \in Item : position'[j] >= -1)
      /\ \A j \in Item : j # h => position'[j] = position[j]
      /\ h \in Existing => position'[h] = itemCall[p].n
      /\ h \notin Existing => position'[h] = position[h]
  BY <1>1, <1>6, <1>7
<1>9. Existing' = Existing
  <2>1. \A j \in Item : position'[j] >= 0 <=> position[j] >= 0
    <3> TAKE j \in Item
    <3>1. CASE j = h /\ h \in Existing
      <4>1. position'[j] \in Nat /\ position[j] >= 0
        BY <1>1, <1>8, <3>1 DEF Existing
      <4> QED  BY <4>1
    <3>2. CASE ~(j = h /\ h \in Existing)
      <4>1. position'[j] = position[j]
        BY <1>8, <3>2
      <4> QED  BY <4>1
    <3> QED  BY <3>1, <3>2
  <2> QED  BY <2>1 DEF Existing
<1>10. CASE L = 1
  <2>1. itemCall' = [itemCall EXCEPT ![p] = CourseIdle]
    BY <1>2, <1>4, <1>10 DEF WritePosition
  <2>2. CallTo(p, CourseIdle) /\ CourseIdle \in CourseCalls
    BY <2>1, CallSet, CourseIdleType
  <2> QED  BY <1>2, <1>3, <1>4, <1>5, <1>6, <1>8, <1>9, <1>10, <2>2, CourseIdleType
<1>11. CASE L # 1
  <2> DEFINE old == itemCall[p]
  <2> DEFINE c1 == [old EXCEPT !.n = itemCall[p].n + 1]
  <2> DEFINE c == [c1 EXCEPT !.todo = Tail(@)]
  <2>1. itemCall' = [itemCall EXCEPT ![p] = c]
    BY <1>2, <1>4, <1>11 DEF WritePosition
  <2> HIDE DEF old
  <2>2. old \in CourseCalls /\ old = itemCall[p]
    BY <1>1 DEF old
  <2>10. PICK n \in Nat : n = itemCall[p].n + 1
    BY <1>1
  <2>3. c1 \in CourseCalls /\ c1.n = n /\ c1.i = old.i /\ c1.todo = old.todo /\ c1.seen = old.seen
    <3>1. c1 = [old EXCEPT !.n = n]
      BY <2>10
    <3> HIDE DEF c1
    <3> QED  BY <2>2, <3>1 DEF CourseCalls
  <2> HIDE DEF c1
  <2>4. Tail(t) \in Seq(Item) /\ Len(Tail(t)) = L - 1 /\ \A k \in 1..(L - 1) : Tail(t)[k] = t[k + 1]
    BY <1>3, <1>4, HeadTailProperties
  <2>5. DOMAIN Tail(t) = 1..(L - 1)
    BY <2>4
  <2>6. c1.todo = t
    BY <1>2, <2>2, <2>3
  <2>7. c \in CourseCalls /\ c.n = c1.n /\ c.i = c1.i /\ c.todo = Tail(t) /\ c.seen = c1.seen
    BY <2>3, <2>4, <2>6 DEF CourseCalls
  <2> HIDE DEF c
  <2>8. CallTo(p, c)
    BY <2>1, <2>7, CallSet
  <2>9. /\ c.i = itemCall[p].i /\ c.seen \subseteq itemCall[p].seen /\ c.n = itemCall[p].n + 1
        /\ DOMAIN c.todo = 1..(L - 1) /\ \A k \in 1..(L - 1) : c.todo[k] = itemCall[p].todo[k + 1]
    BY <1>2, <2>2, <2>10, <2>3, <2>4, <2>5, <2>7
  <2> QED  BY <1>2, <1>3, <1>4, <1>5, <1>6, <1>8, <1>9, <1>11, <2>7, <2>8, <2>9
<1> QED  BY <1>10, <1>11

\* The write of h, the first of the L items of t, at n: of what is before what, the
\* items already written stay right and the others are as before.
LEMMA OneMoreWritten ==
  ASSUME NEW h, NEW L \in Nat \ {0}, NEW t, NEW n \in Nat, NEW B, NEW W, NEW pos, NEW pos2,
         W = {t[k] : k \in 1..L}, h = t[1],
         \A k, l \in 1..L : t[k] = t[l] => k = l,
         NEW b1, NEW b2, pos[b1] \in Int, pos[b2] \in Int,
         b1 \notin W /\ b2 \notin W => B,
         b1 \notin W /\ b2 \in W => pos[b1] < n,
         b1 \in W => \E k, l \in 1..L : k < l /\ t[k] = b1 /\ t[l] = b2,
         b1 # h => pos2[b1] = pos[b1], b2 # h => pos2[b2] = pos[b2],
         b1 = h => pos2[b1] = n, b2 = h => pos2[b2] = n,
         NEW V, V = {t[k] : k \in 2..L}
  PROVE  /\ b1 \notin V /\ b2 \notin V => \/ pos2[b1] < pos2[b2]
                                          \/ B /\ pos2[b1] = pos[b1] /\ pos2[b2] = pos[b2]
         /\ b1 \notin V /\ b2 \in V => pos2[b1] < n + 1
         /\ b1 \in V => \E k, l \in 2..L : k < l /\ t[k] = b1 /\ t[l] = b2
<1>1. /\ \A x : x \in W <=> x = h \/ x \in V
      /\ h \notin V /\ h \in W
  <2>1. \A k \in 1..L : k = 1 \/ k \in 2..L
    OBVIOUS
  <2>2. 1 \in 1..L /\ \A k \in 2..L : k \in 1..L /\ k # 1
    OBVIOUS
  <2> QED  BY <2>1, <2>2
<1>2. ASSUME b1 \in W PROVE b2 \in V /\ \E k, l \in 1..L : k < l /\ t[k] = b1 /\ t[l] = b2 /\ l \in 2..L
  <2>1. PICK k \in 1..L, l \in 1..L : k < l /\ t[k] = b1 /\ t[l] = b2
    BY <1>2
  <2>2. l \in 2..L
    BY <2>1
  <2> QED  BY <2>1, <2>2
<1>3. ASSUME b1 \notin V, b2 \notin V
      PROVE  pos2[b1] < pos2[b2] \/ (B /\ pos2[b1] = pos[b1] /\ pos2[b2] = pos[b2])
  <2>1. b1 # h /\ b1 \notin W
    BY <1>1, <1>2, <1>3
  <2>2. CASE b2 = h
    BY <1>1, <2>1, <2>2
  <2>3. CASE b2 # h
    BY <1>1, <1>3, <2>1, <2>3
  <2> QED  BY <2>2, <2>3
<1>4. ASSUME b1 \notin V, b2 \in V PROVE pos2[b1] < n + 1
  <2>1. CASE b1 = h
    BY <2>1
  <2>2. CASE b1 # h
    BY <1>1, <1>4, <2>2
  <2> QED  BY <2>1, <2>2
<1>5. ASSUME b1 \in V PROVE \E k, l \in 2..L : k < l /\ t[k] = b1 /\ t[l] = b2
  <2>1. PICK k \in 1..L, l \in 2..L : k < l /\ t[k] = b1 /\ t[l] = b2
    BY <1>1, <1>2, <1>5
  <2>2. k # 1
    BY <1>1, <1>5, <2>1
  <2>3. k \in 2..L
    BY <2>1, <2>2
  <2> QED  BY <2>1, <2>3
<1> QED  BY <1>3, <1>4, <1>5

LEMMA WritePositionStep ==
  ASSUME CourseInv, NEW p \in Proc, WritePosition(p)
  PROVE  CourseInv'
<1>0. CourseTypeInv /\ NewIsNowhere /\ OrderInv
  BY DEF CourseInv
<1>1. PICK h \in Item, L \in Nat \ {0}, c \in CourseCalls :
           /\ DOMAIN itemCall[p].todo = 1..L /\ itemCall[p].todo # <<>> /\ h = itemCall[p].todo[1]
           /\ position' \in [Item -> Int] /\ (\A j \in Item : position'[j] >= -1) /\ Existing' = Existing
           /\ \A j \in Item : j # h => position'[j] = position[j]
           /\ h \in Existing => position'[h] = itemCall[p].n
           /\ h \notin Existing => position'[h] = position[h]
           /\ CallTo(p, c) /\ c.i \in {itemCall[p].i, "none"} /\ c.seen \subseteq itemCall[p].seen
           /\ L = 1 => c = CourseIdle
           /\ L # 1 => /\ c.n = itemCall[p].n + 1 /\ DOMAIN c.todo = 1..(L - 1) /\ c.i = itemCall[p].i
                       /\ \A k \in 1..(L - 1) : c.todo[k] = itemCall[p].todo[k + 1]
           /\ UNCHANGED <<born, page, before, mixed>>
  BY <1>0, WritePositionMoves
<1>2. CourseTypeInv'
  BY <1>0, <1>1 DEF CourseTypeInv, CallTo
<1>3. itemCall'[p] = c /\ \A q \in Proc : q # p => itemCall'[q] = itemCall[q]
  BY <1>1 DEF CallTo
<1>4. NewIsNowhere'
  <2> SUFFICES ASSUME NEW r \in Proc, itemCall'[r].i # "none"
               PROVE  /\ position'[itemCall'[r].i] = -1
                      /\ \A q \in Proc : itemCall'[r].i \notin itemCall'[q].seen /\ (itemCall'[q].i = itemCall'[r].i => q = r)
    BY DEF NewIsNowhere
  <2>1. itemCall'[r].i = itemCall[r].i /\ itemCall[r].i \in Item
    BY <1>0, <1>1, <1>3, CallKnown
  <2>2. position[itemCall[r].i] = -1 /\ \A q \in Proc : itemCall[r].i \notin itemCall[q].seen /\ (itemCall[q].i = itemCall[r].i => q = r)
    BY <1>0, <2>1 DEF NewIsNowhere
  <2>3. itemCall[r].i \notin Existing
    BY <2>2 DEF Existing
  <2>4. position'[itemCall[r].i] = -1
    BY <1>1, <2>1, <2>2, <2>3
  <2>5. ASSUME NEW q \in Proc
        PROVE  itemCall[r].i \notin itemCall'[q].seen /\ (itemCall'[q].i = itemCall[r].i => q = r)
    <3>1. itemCall'[q].seen \subseteq itemCall[q].seen /\ itemCall'[q].i \in {itemCall[q].i, "none"}
      BY <1>1, <1>3
    <3> QED  BY <2>1, <2>2, <3>1, CourseAssumption
  <2> QED  BY <2>1, <2>4, <2>5
<1>5. OrderInv'
  <2> SUFFICES ASSUME ~mixed'
               PROVE  GoesBehind' /\ ReorderIsAlone' /\ (\A r \in Reordering' : HalfWritten(r)')
                      /\ (Reordering' = {} => \A b \in before' : Behind(b[1], b[2])')
    BY DEF OrderInv
  <2>1. p \in Reordering /\ ReorderIsAlone /\ HalfWritten(p)
    BY <1>0, <1>1 DEF OrderInv, Reordering
  <2>2. itemCall[p].i = "none" /\ \A q \in Proc : q # p => itemCall'[q] = CourseIdle
    BY <1>3, <2>1 DEF ReorderIsAlone, HalfWritten
  <2>3. itemCall'[p].i = "none"
    BY <1>1, <1>3, <2>2
  <2>4. Reordering' \subseteq {p}
    BY <2>2, CourseIdleType DEF Reordering
  <2>5. GoesBehind'
    BY <2>2, <2>3, CourseIdleType DEF GoesBehind
  <2>6. ReorderIsAlone'
    BY <2>2, <2>4 DEF ReorderIsAlone
  <2>7. PICK n \in Nat, t \in Seq(Item) : t = itemCall[p].todo /\ n = itemCall[p].n
    BY <1>0, CallKnown
  <2>8. PICK V : V = {t[k] : k \in 2..L}
    OBVIOUS
  <2>9. ASSUME NEW b \in before
        PROVE  /\ b[1] \notin V /\ b[2] \notin V => Behind(b[1], b[2])'
               /\ b[1] \notin V /\ b[2] \in V => position'[b[1]] < n + 1
               /\ b[1] \in V => \E k, l \in 2..L : k < l /\ t[k] = b[1] /\ t[l] = b[2]
    <3>1. PICK b1 \in Existing, b2 \in Existing : b1 = b[1] /\ b2 = b[2]
      BY <1>0 DEF CourseTypeInv
    <3>2. b1 \in Item /\ b2 \in Item /\ position[b1] \in Int /\ position[b2] \in Int
      BY <1>0, <3>1 DEF Existing, CourseTypeInv
    <3>3. PICK W : W = {t[k] : k \in 1..L}
      OBVIOUS
    <3>4. Todo(p) = W
      BY <1>1, <2>7, <3>3 DEF Todo
    <3>5. /\ b1 \notin W /\ b2 \notin W => Behind(b1, b2)
          /\ b1 \notin W /\ b2 \in W => position[b1] < n
          /\ b1 \in W => \E k, l \in 1..L : k < l /\ t[k] = b1 /\ t[l] = b2
          /\ \A k, l \in 1..L : t[k] = t[l] => k = l
      <4>1. \A x \in before :
                /\ x[1] \notin W /\ x[2] \notin W => Behind(x[1], x[2])
                /\ x[1] \notin W /\ x[2] \in W => position[x[1]] < n
                /\ x[1] \in W => \E k, l \in 1..L : k < l /\ t[k] = x[1] /\ t[l] = x[2]
        <5>1. \A x \in before :
                /\ x[1] \notin Todo(p) /\ x[2] \notin Todo(p) => Behind(x[1], x[2])
                /\ x[1] \notin Todo(p) /\ x[2] \in Todo(p) => position[x[1]] < itemCall[p].n
                /\ x[1] \in Todo(p) => \E k, l \in DOMAIN itemCall[p].todo :
                                         k < l /\ itemCall[p].todo[k] = x[1] /\ itemCall[p].todo[l] = x[2]
          BY <2>1 DEF HalfWritten
        <5>2. DOMAIN t = 1..L
          BY <1>1, <2>7
        <5> QED  BY <2>7, <3>4, <5>1, <5>2
      <4>2. \A k, l \in 1..L : t[k] = t[l] => k = l
        BY <1>1, <2>1, <2>7 DEF HalfWritten
      <4> HIDE DEF Behind
      <4> QED  BY <3>1, <4>1, <4>2
    <3>6. /\ b1 # h => position'[b1] = position[b1]
          /\ b2 # h => position'[b2] = position[b2]
          /\ b1 = h => position'[b1] = n
          /\ b2 = h => position'[b2] = n
      BY <1>1, <2>7, <3>1, <3>2
    <3>7. h = t[1]
      BY <1>1, <2>7
    <3>8. PICK P : P = Behind(b1, b2)
      OBVIOUS
    <3>9. b1 \notin W /\ b2 \notin W => P
      BY <3>5, <3>8
    <3>10. /\ b1 \notin V /\ b2 \notin V => \/ position'[b1] < position'[b2]
                                            \/ P /\ position'[b1] = position[b1] /\ position'[b2] = position[b2]
           /\ b1 \notin V /\ b2 \in V => position'[b1] < n + 1
           /\ b1 \in V => \E k, l \in 2..L : k < l /\ t[k] = b1 /\ t[l] = b2
      BY <2>8, <3>2, <3>3, <3>5, <3>6, <3>7, <3>9, OneMoreWritten
    <3>11. P /\ position'[b1] = position[b1] /\ position'[b2] = position[b2] => Behind(b1, b2)'
      BY <1>1, <3>8 DEF Behind
    <3>12. position'[b1] < position'[b2] => Behind(b1, b2)'
      BY DEF Behind
    <3> QED  BY <3>1, <3>10, <3>11, <3>12
  <2>10. CASE L = 1
    <3>1. Reordering' = {}
      BY <1>1, <1>3, <2>4, <2>10, CourseIdleType DEF Reordering
    <3>2. V = {}
      BY <2>8, <2>10
    <3> QED  BY <1>1, <2>5, <2>6, <2>9, <3>1, <3>2
  <2>11. CASE L # 1
    <3>1. PICK t2 : t2 = itemCall'[p].todo /\ DOMAIN t2 = 1..(L - 1) /\ \A k \in 1..(L - 1) : t2[k] = t[k + 1]
      BY <1>1, <1>3, <2>7, <2>11
    <3>2. itemCall'[p].n = n + 1
      BY <1>1, <1>3, <2>7, <2>11
    <3>3. Todo(p)' = V
      <4>1. \A k \in 1..(L - 1) : k + 1 \in 2..L
        OBVIOUS
      <4>2. \A k \in 2..L : k - 1 \in 1..(L - 1) /\ t2[k - 1] = t[k]
        BY <3>1
      <4>3. Todo(p)' = {t2[k] : k \in 1..(L - 1)}
        BY <3>1 DEF Todo
      <4>4. ASSUME NEW x \in Todo(p)' PROVE x \in V
        BY <2>8, <3>1, <4>1, <4>3, <4>4
      <4>5. ASSUME NEW x \in V PROVE x \in Todo(p)'
        <5>1. PICK k \in 2..L : x = t[k]
          BY <2>8, <4>5
        <5> QED  BY <4>2, <4>3, <5>1
      <4> QED  BY <4>4, <4>5
    <3>4. \A k, l \in 1..(L - 1) : t2[k] = t2[l] => k = l
      <4> TAKE k, l \in 1..(L - 1)
      <4> HAVE t2[k] = t2[l]
      <4>1. k + 1 \in 1..L /\ l + 1 \in 1..L /\ t[k + 1] = t[l + 1]
        BY <3>1
      <4>2. k + 1 = l + 1
        BY <1>1, <2>1, <2>7, <4>1 DEF HalfWritten
      <4> QED  BY <4>2
    <3>5. ASSUME NEW b \in before', b[1] \in V
          PROVE  \E k, l \in DOMAIN t2 : k < l /\ t2[k] = b[1] /\ t2[l] = b[2]
      <4>1. PICK k \in 2..L, l \in 2..L : k < l /\ t[k] = b[1] /\ t[l] = b[2]
        BY <1>1, <2>9, <3>5
      <4>2. k - 1 \in 1..(L - 1) /\ l - 1 \in 1..(L - 1) /\ k - 1 < l - 1
        BY <4>1
      <4>3. t2[k - 1] = t[k] /\ t2[l - 1] = t[l]
        BY <3>1, <4>2
      <4> QED  BY <3>1, <4>1, <4>2, <4>3
    <3>6. HalfWritten(p)'
      <4>1. \A b \in before' : b \in before
        BY <1>1
      <4>2. \A b \in before' :
              /\ b[1] \notin V /\ b[2] \notin V => Behind(b[1], b[2])'
              /\ b[1] \notin V /\ b[2] \in V => position'[b[1]] < itemCall'[p].n
              /\ b[1] \in V => \E k, l \in DOMAIN t2 : k < l /\ t2[k] = b[1] /\ t2[l] = b[2]
        BY <2>9, <3>2, <3>5, <4>1
      <4>3. \A k, l \in DOMAIN t2 : t2[k] = t2[l] => k = l
        BY <3>1, <3>4
      <4> QED  BY <2>3, <3>1, <3>3, <4>2, <4>3 DEF HalfWritten
    <3>7. p \in Reordering'
      <4>1. 1 \in DOMAIN t2
        BY <2>11, <3>1
      <4>2. t2 # <<>>
        BY <4>1
      <4> QED  BY <3>1, <4>2 DEF Reordering
    <3> QED  BY <2>4, <2>5, <2>6, <3>6, <3>7
  <2> QED  BY <2>10, <2>11
<1> QED  BY <1>2, <1>4, <1>5 DEF CourseInv

LEMMA DeleteItemStep ==
  ASSUME CourseInv, NEW i \in Item, DeleteItem(i)
  PROVE  CourseInv'
<1>0. CourseTypeInv /\ NewIsNowhere /\ OrderInv
  BY DEF CourseInv
<1>1. /\ position' = [position EXCEPT ![i] = -1] /\ born' = [born EXCEPT ![i] = 0]
      /\ UNCHANGED <<itemCall, page, mixed>> /\ \A b \in before' : b \in before /\ b[1] # i /\ b[2] # i
  BY DEF DeleteItem
<1>2. /\ position \in [Item -> Int] /\ born \in [Item -> Nat] /\ before \subseteq Existing \X Existing
      /\ \A j \in Item : position[j] >= -1
  BY <1>0 DEF CourseTypeInv
<1>3. /\ position' \in [Item -> Int] /\ (\A j \in Item : position'[j] >= -1) /\ born' \in [Item -> Nat]
      /\ position'[i] = -1 /\ \A j \in Item : j # i => position'[j] = position[j] /\ born'[j] = born[j]
  BY <1>1, <1>2
<1>4. Existing' = Existing \ {i}
  BY <1>3 DEF Existing
<1>5. \A b \in before' : b \in Existing' \X Existing' /\ b[1] \in Item /\ b[2] \in Item
  BY <1>1, <1>2, <1>4 DEF Existing
<1>6. CourseTypeInv'
  BY <1>0, <1>1, <1>3, <1>5 DEF CourseTypeInv
<1>7. NewIsNowhere'
  <2> SUFFICES ASSUME NEW r \in Proc, itemCall[r].i # "none"
               PROVE  /\ position'[itemCall[r].i] = -1
                      /\ \A q \in Proc : itemCall[r].i \notin itemCall[q].seen /\ (itemCall[q].i = itemCall[r].i => q = r)
    BY <1>1 DEF NewIsNowhere
  <2>1. itemCall[r].i \in Item
    BY <1>0, CallKnown
  <2> QED  BY <1>0, <1>3, <2>1 DEF NewIsNowhere
<1>8. ASSUME NEW b \in before' PROVE (Behind(b[1], b[2]) => Behind(b[1], b[2])') /\ position'[b[1]] = position[b[1]]
  BY <1>1, <1>3, <1>5 DEF Behind
<1>9. OrderInv'
  <2> SUFFICES ASSUME ~mixed'
               PROVE  GoesBehind' /\ ReorderIsAlone' /\ (\A r \in Reordering' : HalfWritten(r)')
                      /\ (Reordering' = {} => \A b \in before' : Behind(b[1], b[2])')
    BY DEF OrderInv
  <2>1. GoesBehind /\ ReorderIsAlone /\ (Reordering = {} => \A b \in before : Behind(b[1], b[2]))
        /\ \A r \in Reordering : HalfWritten(r)
    BY <1>0, <1>1 DEF OrderInv
  <2>2. Reordering' = Reordering
    BY <1>1 DEF Reordering
  <2>3. GoesBehind'
    BY <1>1, <1>3, <1>4, <2>1 DEF GoesBehind, Existing
  <2>4. ReorderIsAlone'
    BY <1>1, <2>1, <2>2 DEF ReorderIsAlone
  <2>5. ASSUME NEW r \in Reordering PROVE HalfWritten(r)'
    <3>1. HalfWritten(r) /\ Todo(r)' = Todo(r)
      BY <1>1, <2>1 DEF Todo
    <3> QED  BY <1>1, <1>8, <3>1 DEF HalfWritten
  <2> QED  BY <1>1, <1>8, <2>1, <2>2, <2>3, <2>4, <2>5
<1> QED  BY <1>6, <1>7, <1>9 DEF CourseInv

LEMMA LoadCourseStep ==
  ASSUME CourseInv, LoadCourse
  PROVE  CourseInv'
<1>0. CourseTypeInv /\ NewIsNowhere /\ OrderInv
  BY DEF CourseInv
<1>1. Cardinality(Existing) \in Nat
  <2>1. Existing \in SUBSET Item
    BY DEF Existing
  <2> QED  BY <2>1, FS_Subset, FS_CardinalityType, CourseAssumption
<1>2. DOMAIN page' = 1..Cardinality(Existing)
  BY DEF LoadCourse, InOrder
<1>3. UNCHANGED <<position, born, itemCall, before, mixed>>
  BY DEF LoadCourse
<1>4. CourseTypeInv'
  BY <1>0, <1>1, <1>2, <1>3 DEF CourseTypeInv, Existing
<1>5. NewIsNowhere'
  BY <1>0, <1>3 DEF NewIsNowhere
<1>6. OrderInv'
  BY <1>0, <1>3 DEF OrderInv, GoesBehind, ReorderIsAlone, Reordering, HalfWritten, Todo, Existing, Behind
<1> QED  BY <1>4, <1>5, <1>6 DEF CourseInv

LEMMA CourseInvariant == CourseSpec => []CourseInv
<1>1. CourseInit => CourseInv
  <2> SUFFICES ASSUME CourseInit PROVE CourseInv
    OBVIOUS
  <2>1. Existing = {}
    BY DEF CourseInit, Existing
  <2>2. \A p \in Proc : itemCall[p] = CourseIdle
    BY DEF CourseInit
  <2>3. CourseTypeInv
    <3>1. DOMAIN page = 1..0 /\ 0 \in Nat
      BY DEF CourseInit
    <3>2. position \in [Item -> Int] /\ (\A i \in Item : position[i] >= -1) /\ born \in [Item -> Nat]
      BY DEF CourseInit
    <3>3. itemCall \in [Proc -> CourseCalls]
      BY CourseIdleType DEF CourseInit
    <3>4. before \subseteq Existing \X Existing
      BY DEF CourseInit
    <3> QED  BY <3>1, <3>2, <3>3, <3>4 DEF CourseTypeInv
  <2>4. NewIsNowhere /\ GoesBehind
    BY <2>2, CourseIdleType DEF NewIsNowhere, GoesBehind
  <2>5. Reordering = {} /\ before = {}
    BY <2>2, CourseIdleType DEF CourseInit, Reordering
  <2> QED  BY <2>3, <2>4, <2>5 DEF CourseInv, OrderInv, ReorderIsAlone
<1>2. CourseInv /\ [CourseNext]_CourseVars => CourseInv'
  <2> SUFFICES ASSUME CourseInv, [CourseNext]_CourseVars PROVE CourseInv'
    OBVIOUS
  <2>1. CASE LoadCourse
    BY <2>1, LoadCourseStep
  <2>2. ASSUME NEW i \in Item, DeleteItem(i) PROVE CourseInv'
    BY <2>2, DeleteItemStep
  <2>3. ASSUME NEW p \in Proc, NEW i \in Item, AddItem(p, i) PROVE CourseInv'
    BY <2>3, AddItemStep
  <2>4. ASSUME NEW p \in Proc, InsertItem(p) PROVE CourseInv'
    BY <2>4, InsertItemStep
  <2>5. ASSUME NEW p \in Proc, WritePosition(p) PROVE CourseInv'
    BY <2>5, WritePositionStep
  <2>6. ASSUME NEW p \in Proc, NEW k, Reorder(p, k) PROVE CourseInv'
    BY <2>6, ReorderStep
  <2>7. CASE UNCHANGED CourseVars
    <3>1. UNCHANGED <<position, born, itemCall, page, before, mixed>>
      BY <2>7 DEF CourseVars
    <3>2. CourseTypeInv'
      BY <3>1 DEF CourseInv, CourseTypeInv, Existing
    <3>3. NewIsNowhere'
      BY <3>1 DEF CourseInv, NewIsNowhere
    <3>4. OrderInv'
      BY <3>1 DEF CourseInv, OrderInv, GoesBehind, ReorderIsAlone, Reordering, HalfWritten, Todo, Existing, Behind
    <3> QED  BY <3>2, <3>3, <3>4 DEF CourseInv
  <2> QED  BY <2>1, <2>2, <2>3, <2>4, <2>5, <2>6, <2>7 DEF CourseNext
<1> QED  BY <1>1, <1>2, PTL DEF CourseSpec

\* The order authors gave a course (updateCourse, addItem) is the one it has once no
\* call is under way, for any number of items and authors and however old their
\* pages: unless a reorder overlapped another change of the order.
THEOREM OrderIsKeptHolds == CourseSpec => []OrderIsKept
<1>1. CourseInv => OrderIsKept
  <2> SUFFICES ASSUME CourseInv, ~mixed, Busy = {} PROVE \A b \in before : Behind(b[1], b[2])
    BY DEF OrderIsKept
  <2>1. Reordering = {}
    BY CourseIdleType DEF Busy, Reordering
  <2> QED  BY <2>1 DEF CourseInv, OrderInv
<1> QED  BY <1>1, CourseInvariant, PTL

------------------------------------------------------------------------------
(***************************************************************************)
(* Types.                                                                  *)
(***************************************************************************)
\* A limit about to be written is one an organisation may have.
OrgBounded ==
  /\ orgLock \subseteq Proc /\ seatlimit \in 1..MaxSeats
  /\ \A p \in Proc : orgCall[p].at = "limit" => orgCall[p].n \in 1..MaxSeats

LEMMA GotoBounded ==
  ASSUME OrgForm, OrgBounded, NEW p \in Proc, NEW c \in OrgCalls, OrgGoto(p, c),
         c.at = "limit" => c.n \in 1..MaxSeats,
         orgLock' \subseteq orgLock \cup {p}, seatlimit' \in {seatlimit, orgCall[p].n},
         seatlimit' # seatlimit => orgCall[p].at = "limit"
  PROVE  OrgBounded'
<1>1. \A q \in Proc : orgCall'[q] = IF q = p THEN c ELSE orgCall[q]
  BY DEF OrgForm, OrgGoto
<1>2. seatlimit' \in 1..MaxSeats
  BY DEF OrgBounded
<1> QED  BY <1>1, <1>2 DEF OrgBounded

LEMMA OrgBoundedStep == OrgForm /\ InvitedAreUsers /\ OrgBounded /\ [OrgNext]_OrgVars => OrgBounded'
<1> SUFFICES ASSUME OrgForm, InvitedAreUsers, OrgBounded, [OrgNext]_OrgVars PROVE OrgBounded'
  OBVIOUS
<1>0. OrgIdle \in OrgCalls /\ OrgIdle.at # "limit"
  BY IdleIsCall DEF OrgIdle
<1>a. ASSUME NEW p \in Proc, NEW c \in OrgCalls, c.at # "limit", OrgGoto(p, c), UNCHANGED <<orgLock, seatlimit>> PROVE OrgBounded'
  BY <1>a, GotoBounded
<1>b. ASSUME NEW p \in Proc, NEW c \in OrgCalls, c.at # "limit", Locked(p, c), UNCHANGED seatlimit PROVE OrgBounded'
  BY <1>b, GotoBounded DEF Locked
<1>c. ASSUME NEW p \in Proc, Commit(p), seatlimit' \in {seatlimit, orgCall[p].n}, seatlimit' # seatlimit => orgCall[p].at = "limit"
      PROVE  OrgBounded'
  BY <1>0, <1>c, GotoBounded DEF Commit
<1>1. ASSUME NEW p \in Proc, NEW u \in User, InviteOrgMember(p, u) PROVE OrgBounded'
  <2>1. [OrgIdle EXCEPT !.at = "invite", !.u = u] \in OrgCalls
    BY <1>0 DEF OrgCalls, OrgSteps
  <2>2. [OrgIdle EXCEPT !.at = "invite", !.u = u].at # "limit"
    BY <1>0 DEF OrgCalls
  <2> QED  BY <1>1, <1>a, <2>1, <2>2 DEF InviteOrgMember
<1>2. ASSUME NEW p \in Proc, NEW u \in User, PutGroupMember(p, u) \/ DeleteGroupMember(p, u) PROVE OrgBounded'
  <2>1. PICK c \in OrgCalls : c.at # "limit" /\ Locked(p, c)
    BY <1>0, <1>2 DEF PutGroupMember, DeleteGroupMember, OrgCalls, OrgSteps, Roles
  <2> QED  BY <1>2, <1>b, <2>1 DEF PutGroupMember, DeleteGroupMember
<1>3. ASSUME NEW p \in Proc, NEW u \in User, NEW r \in Roles \cup {"none"}, ChangeMember(p, u, r) PROVE OrgBounded'
  <2>0. ASSUME NEW s \in {"owners", "write"} PROVE [OrgIdle EXCEPT !.at = s, !.u = u, !.to = r] \in OrgCalls
    BY <1>0 DEF OrgCalls, OrgSteps
  <2>1. PICK s \in {"owners", "write"} : OrgGoto(p, [OrgIdle EXCEPT !.at = s, !.u = u, !.to = r])
    BY <1>3 DEF ChangeMember
  <2>2. [OrgIdle EXCEPT !.at = s, !.u = u, !.to = r].at # "limit"
    BY <1>0 DEF OrgCalls
  <2> QED  BY <1>3, <1>a, <2>0, <2>1, <2>2 DEF ChangeMember
<1>4. ASSUME NEW p \in Proc, NEW i \in OrgInvite, AcceptInvitation(p, i) PROVE OrgBounded'
  <2>1. PICK c \in OrgCalls : c.at # "limit" /\ OrgGoto(p, c)
    BY <1>0, <1>4 DEF AcceptInvitation, OrgCalls, OrgSteps, InvitedAreUsers, OrgForm
  <2> QED  BY <1>4, <1>a, <2>1 DEF AcceptInvitation
<1>5. ASSUME NEW p \in Proc, NEW n \in 1..MaxSeats, UpdateGroupSeatlimit(p, n) PROVE OrgBounded'
  <2> DEFINE c == [OrgIdle EXCEPT !.at = "limit", !.n = n]
  <2>1. n \in Nat
    BY OrgAssumption
  <2>2. c \in OrgCalls /\ c.n = n
    BY <1>0, <2>1 DEF OrgCalls, OrgSteps
  <2>3. Locked(p, c) /\ UNCHANGED seatlimit
    BY <1>5 DEF UpdateGroupSeatlimit
  <2> HIDE DEF c
  <2> QED  BY <2>2, <2>3, GotoBounded DEF Locked
<1>6. ASSUME NEW p \in Proc, InsertInvite(p) \/ AcceptCount(p) \/ AcceptJoin(p) \/ AcceptConsume(p) \/ CountOwners(p) \/ WriteMember(p)
      PROVE  OrgBounded'
  <2>1. orgCall[p] \in OrgCalls
    BY DEF OrgForm
  <2>2. PICK c \in OrgCalls : c.at # "limit" /\ OrgGoto(p, c)
    BY <1>0, <1>6, <2>1 DEF InsertInvite, AcceptCount, AcceptJoin, AcceptConsume, CountOwners, WriteMember, OrgCalls, OrgSteps
  <2> QED  BY <1>6, <1>a, <2>2 DEF InsertInvite, AcceptCount, AcceptJoin, AcceptConsume, CountOwners, WriteMember
<1>7. ASSUME NEW p \in Proc, WriteSeatlimit(p) \/ InsertGroupMember(p) \/ WriteGroupMember(p) PROVE OrgBounded'
  BY <1>7, <1>c DEF WriteSeatlimit, InsertGroupMember, WriteGroupMember
<1>8. CASE UNCHANGED <<orgLock, seatlimit, orgCall>>
  BY <1>8 DEF OrgBounded
<1> QED
  BY <1>1, <1>2, <1>3, <1>4, <1>5, <1>6, <1>7, <1>8
  DEF OrgNext, OrgVars, ExpireInvite, ResendOrgInvitation, RevokeOrgInvite

\* The rows and calls of an organisation are of the kinds the code knows, and its
\* limit is one it may have, for any number of people, invitations and calls.
LEMMA OrgTypeCorrect == OrgSpec => []OrgTypeOK
<1>1. OrgInit => OrgInv /\ InvitedAreUsers /\ OrgBounded
  BY OrgInitial, CallersAssumption DEF OrgInit, InvitedAreUsers, NoInvite, OrgBounded, OrgIdle
<1>2. OrgForm /\ InvitedAreUsers /\ OrgBounded => OrgTypeOK
  BY DEF OrgForm, InvitedAreUsers, OrgBounded, OrgTypeOK, OrgCalls
<1>3. OrgInv => OrgForm
  BY DEF OrgInv
<1> QED  BY <1>1, <1>2, <1>3, OrgStep, InvitedStep, OrgBoundedStep, PTL DEF OrgSpec

\* No two items of a course tie, and what a page shows is a list of items.
CourseRanked ==
  /\ \A i \in Item : born[i] <= Cardinality(Item)
  /\ \A i, j \in Existing : born[i] = born[j] => i = j
  /\ page \in Seq(Item)

LEMMA CourseRankedStep == CourseInv /\ CourseRanked /\ [CourseNext]_CourseVars => CourseRanked'
<1> SUFFICES ASSUME CourseInv, CourseRanked, [CourseNext]_CourseVars PROVE CourseRanked'
  OBVIOUS
<1>0. /\ CourseTypeInv /\ position \in [Item -> Int] /\ born \in [Item -> Nat] /\ Existing \subseteq Item
      /\ IsFiniteSet(Item) /\ IsFiniteSet(Existing) /\ Cardinality(Item) \in Nat /\ Cardinality(Existing) \in Nat
  BY FS_Subset, FS_CardinalityType, CourseAssumption DEF CourseInv, CourseTypeInv, Existing
<1>1. CASE LoadCourse
  <2> DEFINE R == {b \in Existing \X Existing : Behind(b[1], b[2])}
  <2>1. \A i, j \in Existing : <<i, j>> \in R <=> Behind(i, j)
    OBVIOUS
  <2>2. \A i \in Existing : position[i] \in Int /\ born[i] \in Nat
    BY <1>0
  <2> HIDE DEF R
  <2>3. \A i \in Existing : <<i, i>> \notin R
    BY <2>1, <2>2 DEF Behind
  <2>4. \A i, j \in Existing : i # j => <<i, j>> \in R \/ <<j, i>> \in R
    BY <2>1, <2>2 DEF Behind, CourseRanked
  <2>5. \A i, j, k \in Existing : <<i, j>> \in R /\ <<j, k>> \in R => <<i, k>> \in R
    BY <2>1, <2>2 DEF Behind
  <2>6. InOrder(Existing, R) \in Seq(Existing)
    BY <1>0, <2>3, <2>4, <2>5, InOrderLists
  <2>7. page' \in Seq(Item)
    BY <1>0, <1>1, <2>6 DEF LoadCourse, R
  <2> QED  BY <1>1, <2>7 DEF LoadCourse, CourseRanked, Existing
<1>2. ASSUME NEW i \in Item, DeleteItem(i) PROVE CourseRanked'
  <2>1. born' = [born EXCEPT ![i] = 0] /\ position' = [position EXCEPT ![i] = -1] /\ page' = page
    BY <1>2 DEF DeleteItem
  <2>2. Existing' = Existing \ {i}
    BY <1>0, <2>1 DEF Existing
  <2> QED  BY <1>0, <2>1, <2>2 DEF CourseRanked
<1>3. ASSUME NEW p \in Proc, InsertItem(p) PROVE CourseRanked'
  <2>1. PICK i \in Item : i = itemCall[p].i /\ i \notin Existing /\ Existing' = Existing \cup {i} /\ page' = page
    BY <1>3, InsertItemMoves
  <2> DEFINE Upto(j) == {k \in Existing : born[k] <= born[j]}
  <2>2. /\ born'[i] = Cardinality(Existing) + 1
        /\ \A j \in Existing : born'[j] = Cardinality(Upto(j))
        /\ \A j \in Item : j # i /\ j \notin Existing => born'[j] = 0
    BY <1>0, <1>3, <2>1 DEF InsertItem
  <2>3. \A j \in Existing : /\ Upto(j) \in SUBSET Existing /\ Cardinality(Upto(j)) \in Nat
                            /\ Cardinality(Upto(j)) <= Cardinality(Existing)
    BY <1>0, FS_Subset, FS_CardinalityType
  <2>4. \A j, k \in Existing : j # k => Upto(j) # Upto(k)
    <3> TAKE j, k \in Existing
    <3>1. j \in Upto(j) /\ k \in Upto(k) /\ (j \in Upto(k) /\ k \in Upto(j) => born[j] = born[k])
      BY <1>0
    <3> QED  BY <3>1 DEF CourseRanked
  <2>5. ASSUME NEW j \in Existing, NEW k \in Existing, Cardinality(Upto(j)) = Cardinality(Upto(k)) PROVE Upto(j) = Upto(k)
    <3>1. IsFiniteSet(Upto(j)) /\ IsFiniteSet(Upto(k))
      BY <1>0, <2>3, FS_Subset
    <3>2. Upto(j) \in SUBSET Upto(k) \/ Upto(k) \in SUBSET Upto(j)
      <4>1. \A l \in Existing : born[l] \in Nat
        BY <1>0
      <4> QED  BY <4>1
    <3> HIDE DEF Upto
    <3> QED  BY <2>3, <2>5, <3>1, <3>2, FS_Subset
  <2> HIDE DEF Upto
  <2>6. Cardinality(Existing) + 1 <= Cardinality(Item)
    <3>1. Existing \cup {i} \in SUBSET Item /\ Cardinality(Existing \cup {i}) = Cardinality(Existing) + 1
      BY <1>0, <2>1, FS_AddElement
    <3>2. Cardinality(Existing \cup {i}) <= Cardinality(Item)
      BY <1>0, <3>1, FS_Subset
    <3> QED  BY <3>1, <3>2
  <2>7. \A j \in Item : born'[j] <= Cardinality(Item)
    BY <1>0, <2>2, <2>3, <2>6
  <2>8. \A j, k \in Existing' : born'[j] = born'[k] => j = k
    BY <1>0, <2>1, <2>2, <2>3, <2>4, <2>5
  <2> QED  BY <2>1, <2>7, <2>8 DEF CourseRanked
<1>4. CASE UNCHANGED <<born, page>> /\ Existing' = Existing
  BY <1>4 DEF CourseRanked
<1>5. ASSUME NEW p \in Proc, WritePosition(p) PROVE Existing' = Existing /\ UNCHANGED <<born, page>>
  BY <1>0, <1>5, WritePositionMoves
<1>6. ASSUME NEW p \in Proc, NEW i \in Item, AddItem(p, i) PROVE Existing' = Existing /\ UNCHANGED <<born, page>>
  BY <1>6 DEF AddItem, Existing
<1>7. ASSUME NEW p \in Proc, NEW k, Reorder(p, k) PROVE Existing' = Existing /\ UNCHANGED <<born, page>>
  BY <1>7 DEF Reorder, Existing
<1>8. CASE UNCHANGED CourseVars
  BY <1>4, <1>8 DEF CourseVars, Existing
<1> QED  BY <1>1, <1>2, <1>3, <1>4, <1>5, <1>6, <1>7, <1>8 DEF CourseNext

LEMMA CourseTypeCorrect == CourseSpec => []CourseTypeOK
<1>1. CourseInit => CourseRanked
  <2>1. Cardinality(Item) \in Nat
    BY CourseAssumption, FS_CardinalityType
  <2> QED  BY <2>1, EmptySeq DEF CourseInit, CourseRanked, Existing
<1>2. CourseInv /\ CourseRanked => CourseTypeOK
  <2> SUFFICES ASSUME CourseTypeInv, CourseRanked PROVE CourseTypeOK
    BY DEF CourseInv
  <2>1. Cardinality(Item) \in Nat /\ \A i \in Item : born[i] \in 0..Cardinality(Item)
    BY CourseAssumption, FS_CardinalityType DEF CourseTypeInv, CourseRanked
  <2>2. \A p \in Proc : itemCall[p].i \in Item \cup {"none"} /\ itemCall[p].todo \in Seq(Item)
    BY CallKnown
  <2> QED  BY <2>1, <2>2 DEF CourseTypeInv, CourseRanked, CourseTypeOK, Existing
<1> QED  BY <1>1, <1>2, CourseInvariant, CourseRankedStep, PTL DEF CourseSpec

(***************************************************************************)
(* The run.  A behaviour of all the services together is one of each, so   *)
(* what is proved of a service alone holds beside the others.              *)
(***************************************************************************)
\* Organisations, communities, their entry, courses, skills and the flood guard
\* do not disturb one another: what they do together each could do alone.
LEMMA ServicesStandAlone ==
  Spec => OrgSpec /\ ComSpec /\ EntrySpec /\ CourseSpec /\ SkillSpec /\ FloodSpec
<1>1. Init => OrgInit /\ ComInit /\ EntryInit /\ CourseInit /\ SkillInit /\ FloodInit
  BY DEF Init
<1>2. [Next]_vars => [OrgNext]_OrgVars /\ [ComNext]_ComVars /\ [EntryNext]_EntryVars
                     /\ [CourseNext]_CourseVars /\ [SkillNext]_SkillVars /\ [FloodNext]_FloodVars
  BY DEF Next, vars
<1> QED  BY <1>1, <1>2, PTL DEF Spec, OrgSpec, ComSpec, EntrySpec, CourseSpec, SkillSpec, FloodSpec

\* Every row and every call of the services holds what the code can put there,
\* for any number of people, calls, links, requests, items and versions.
THEOREM ServicesTypeCorrect == Spec => []TypeOK
<1>1. SkillInv => SkillTypeOK
  BY DEF SkillInv
<1>2. FloodInv => FloodTypeOK
  BY DEF FloodInv
<1> QED
  BY <1>1, <1>2, ServicesStandAlone, OrgTypeCorrect, ComTypeCorrect, EntryTypeCorrect, CourseTypeCorrect,
     SkillInvariant, FloodInvariant, PTL DEF TypeOK

==============================================================================
