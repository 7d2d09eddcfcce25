------------------------------ MODULE Attendance ------------------------------
(***************************************************************************)
(* The audience of one presentation (lib/presentations/service.ts): who    *)
(* has joined, the cap on attendees, and the hands the host sees raised.   *)
(* A join counts the seats, looks for a seat the person has and inserts a  *)
(* row, in three statements.  The owner of a behaviour is the host, whom   *)
(* the cap does not count.  A join that may not enter does not happen.     *)
(* The host may change the cap of a scheduled presentation, which people   *)
(* can join already.  An edit and a start look at the status and then      *)
(* write by id, so that the write of one that looked early comes at any    *)
(* later time: after others have joined, or after the end.                 *)
(* PresentationRoom models the rest of the presentation's life.            *)
(***************************************************************************)
EXTENDS Callers

CONSTANTS
  Seat,   \* attendee rows
  Caps    \* values of maxattendees the host may set

ASSUME AttendanceAssumption ==
  /\ Caps \subseteq Nat \ {0}
  /\ IsFiniteSet(Seat) /\ IsFiniteSet(Proc) /\ Proc # {}

VARIABLES
  guests,     \* those who have no account, and join anew each time
  seat,       \* seat[s]: the row
  over,       \* the presentation has ended and is open for replay
  cap,        \* presentations.maxattendees
  seatCall,   \* seatCall[p]: where a join or a raised hand stands
  ceiling,    \* history: the greatest cap since one was set that all within kept to
  uncounted,  \* history: seats taken in a replay, which no cap limits
  asking,     \* history: whose last word was a raised hand
  doubled,    \* history: two joins of one person overlapped
  tangled     \* history: hands of a person overlapped, or a guest took a second seat

house == <<over, cap, ceiling, uncounted>>
SeatVars == <<guests, seat, house, seatCall, asking, doubled, tangled>>

NoSeat == [u |-> Founder, state |-> "free", hand |-> "down"]
Seats == [u : User, state : {"free", "in", "left"}, hand : {"down", "up", "resolved"}]
SeatIdle == [at |-> "idle"]
Joins == [at : {"count", "rejoin", "insert"}, u : User, cap : Caps \cup {0}]
Hands == [at : {"up", "down"}, s : Seat]

Here(u) == {s \in Seat : seat[s].state = "in" /\ seat[s].u = u}
Taken == {s \in Seat : seat[s].state = "in" /\ seat[s].u # Founder}
Counted == Taken \ uncounted
Queue == {s \in Seat : seat[s].state = "in" /\ seat[s].hand = "up"}
Joining(u, at) == {p \in Proc : seatCall[p].at = at /\ seatCall[p].u = u}
HandUnderWay(u) == \E p \in Proc : seatCall[p].at \in {"up", "down"} /\ seat[seatCall[p].s].u = u

SeatInit ==
  /\ guests \in SUBSET (User \ {Founder})
  /\ seat = [s \in Seat |-> NoSeat]
  /\ over = FALSE
  /\ cap \in Caps /\ ceiling = cap
  /\ uncounted = {}
  /\ seatCall = [p \in Proc |-> SeatIdle]
  /\ asking = {} /\ doubled = {} /\ tangled = {}

SeatGoto(p, c) == seatCall' = [seatCall EXCEPT ![p] = c]

(***************************************************************************)
(* The writes of updatePresentation, startPresentation, endPresentation.   *)
(***************************************************************************)
\* Nobody within looked at another cap, and no more are seated than it allows.
HoldsForAll(c) ==
  /\ \A p \in Proc : seatCall[p].at \notin {"count", "rejoin", "insert"}
  /\ Cardinality(Counted) <= c

UpdatePresentation(c) ==
  /\ cap' = c
  /\ ceiling' = IF HoldsForAll(c) \/ ceiling < c THEN c ELSE ceiling
  /\ UNCHANGED <<guests, seat, over, uncounted, seatCall, asking, doubled, tangled>>

StartPresentation ==
  /\ over /\ over' = FALSE
  /\ UNCHANGED <<guests, seat, cap, ceiling, uncounted, seatCall, asking, doubled, tangled>>

PresentationEnds ==
  /\ ~over /\ over' = TRUE
  /\ UNCHANGED <<guests, seat, cap, ceiling, uncounted, seatCall, asking, doubled, tangled>>

(***************************************************************************)
(* joinPresentation, leavePresentation.                                    *)
(***************************************************************************)
JoinPresentation(p, u) ==
  /\ seatCall[p] = SeatIdle
  /\ SeatGoto(p, IF u = Founder \/ over THEN [at |-> "rejoin", u |-> u, cap |-> 0]
                                        ELSE [at |-> "count", u |-> u, cap |-> cap])
  /\ UNCHANGED <<guests, seat, house, asking, doubled, tangled>>

\* Slip: the seat that is about to be taken is not counted.
CountOneTooMany(p) ==
  /\ seatCall[p].at = "count"
  /\ SeatGoto(p, IF Cardinality(Taken) <= seatCall[p].cap THEN [seatCall[p] EXCEPT !.at = "rejoin"] ELSE SeatIdle)
  /\ UNCHANGED <<guests, seat, house, asking, doubled, tangled>>

CountSeats(p) ==
  /\ seatCall[p].at = "count"
  /\ SeatGoto(p, IF Cardinality(Taken) < seatCall[p].cap THEN [seatCall[p] EXCEPT !.at = "rejoin"] ELSE SeatIdle)
  /\ UNCHANGED <<guests, seat, house, asking, doubled, tangled>>

Rejoin(p) ==
  LET u == seatCall[p].u IN
  /\ seatCall[p].at = "rejoin"
  /\ SeatGoto(p, IF u \notin guests /\ Here(u) # {} THEN SeatIdle ELSE [seatCall[p] EXCEPT !.at = "insert"])
  /\ doubled' = IF Joining(u, "insert") # {} THEN doubled \cup {u} ELSE doubled
  /\ UNCHANGED <<guests, seat, house, asking, tangled>>

InsertSeat(p, s) ==
  LET u == seatCall[p].u IN
  /\ seatCall[p].at = "insert" /\ seat[s] = NoSeat
  /\ seat' = [seat EXCEPT ![s] = [u |-> u, state |-> "in", hand |-> "down"]]
  /\ SeatGoto(p, SeatIdle)
  /\ tangled' = IF u \in guests /\ Here(u) # {} THEN tangled \cup {u} ELSE tangled
  /\ uncounted' = IF seatCall[p].cap = 0 THEN uncounted \cup {s} ELSE uncounted \ {s}
  /\ UNCHANGED <<guests, over, cap, ceiling, asking, doubled>>

\* A row that was left is not read again: it is kept while a hand refers to it.
Left(s) == IF \E p \in Proc : seatCall[p].at \in {"up", "down"} /\ seatCall[p].s = s
           THEN [seat[s] EXCEPT !.state = "left"] ELSE NoSeat

LeavePresentation(u) ==
  /\ u \notin guests /\ Here(u) # {}
  /\ seat' = [s \in Seat |-> IF s \in Here(u) THEN Left(s) ELSE seat[s]]
  /\ uncounted' = uncounted \ Here(u)
  /\ asking' = asking \ {u}
  /\ doubled' = IF Cardinality(Joining(u, "insert")) > 1 THEN doubled ELSE doubled \ {u}
  /\ tangled' = IF HandUnderWay(u) THEN tangled ELSE tangled \ {u}
  /\ UNCHANGED <<guests, over, cap, ceiling, seatCall>>

LeaveAsGuest(s) ==
  /\ seat[s].u \in guests /\ seat[s].state = "in"
  /\ seat' = [seat EXCEPT ![s] = Left(s)]
  /\ uncounted' = uncounted \ {s}
  /\ asking' = asking \ {seat[s].u}
  /\ tangled' = IF Here(seat[s].u) # {s} \/ HandUnderWay(seat[s].u) THEN tangled ELSE tangled \ {seat[s].u}
  /\ UNCHANGED <<guests, over, cap, ceiling, seatCall, doubled>>

(***************************************************************************)
(* raiseHand, lowerHand: a seat of the caller, then the update of its row. *)
(* resolveHand: the update.                                                *)
(***************************************************************************)
Hand(p, s, to) ==
  LET u == seat[s].u IN
  /\ seatCall[p] = SeatIdle /\ seat[s].state = "in" /\ u # Founder
  /\ SeatGoto(p, [at |-> to, s |-> s])
  /\ asking' = IF to = "up" THEN asking \cup {u} ELSE asking \ {u}
  /\ tangled' = IF HandUnderWay(u) THEN tangled \cup {u} ELSE tangled
  /\ UNCHANGED <<guests, seat, house, doubled>>

RaiseHand(p, s) == Hand(p, s, "up")
LowerHand(p, s) == Hand(p, s, "down")

\* What a hand of the call leaves of the row.
Handed(p, hand) ==
  LET s == seatCall[p].s IN
  IF seat[s].state = "left" /\ \A q \in Proc \ {p} : seatCall[q].at \in {"up", "down"} => seatCall[q].s # s
  THEN NoSeat ELSE [seat[s] EXCEPT !.hand = hand]

\* Slip: the mark of an answered question stays on the row.
WriteHandOnce(p) ==
  /\ seatCall[p].at \in {"up", "down"}
  /\ LET s == seatCall[p].s IN
     seat' = [seat EXCEPT ![s] = Handed(p, IF @.hand = "resolved" THEN @.hand ELSE seatCall[p].at)]
  /\ SeatGoto(p, SeatIdle)
  /\ UNCHANGED <<guests, house, asking, doubled, tangled>>

WriteHand(p) ==
  /\ seatCall[p].at \in {"up", "down"}
  /\ seat' = [seat EXCEPT ![seatCall[p].s] = Handed(p, seatCall[p].at)]
  /\ SeatGoto(p, SeatIdle)
  /\ UNCHANGED <<guests, house, asking, doubled, tangled>>

ResolveHand(s) ==
  LET u == seat[s].u IN
  /\ s \in Queue
  /\ seat' = [seat EXCEPT ![s].hand = "resolved"]
  /\ asking' = asking \ {u}
  /\ tangled' = IF HandUnderWay(u) THEN tangled \cup {u} ELSE tangled
  /\ UNCHANGED <<guests, house, seatCall, doubled>>

SeatNext ==
  \/ PresentationEnds \/ StartPresentation \/ \E c \in Caps : UpdatePresentation(c)
  \/ \E u \in User : LeavePresentation(u) \/ \E p \in Proc : JoinPresentation(p, u)
  \/ \E p \in Proc : CountSeats(p) \/ Rejoin(p) \/ WriteHand(p)
  \/ \E s \in Seat : \/ LeaveAsGuest(s) \/ ResolveHand(s)
                     \/ \E p \in Proc : InsertSeat(p, s) \/ RaiseHand(p, s) \/ LowerHand(p, s)

SeatSpec == SeatInit /\ [][SeatNext]_SeatVars

------------------------------------------------------------------------------
(***************************************************************************)
(* Properties.                                                             *)
(***************************************************************************)
\* Every variable holds a value of its kind.
SeatTypeOK ==
  /\ guests \subseteq User \ {Founder}
  /\ seat \in [Seat -> Seats]
  /\ over \in BOOLEAN /\ cap \in Caps /\ ceiling \in Caps
  /\ uncounted \subseteq Seat
  /\ seatCall \in [Proc -> Joins \cup Hands \cup {SeatIdle}]
  /\ asking \subseteq User /\ doubled \subseteq User /\ tangled \subseteq User

\* The cap is checked before a seat is taken and nothing holds the seat in
\* between, the host may lower it below the audience, and a presentation that has
\* ended may be started again by a late write.  Of those who were not let in to
\* watch a replay, there are fewer beyond the cap than calls that can be past the
\* check at once ("a small over-admit is tolerated"); a cap that was lowered
\* counts from when nobody is seated beyond it or on the way in.
OverAdmitIsSmall == Cardinality(Counted) <= ceiling + Cardinality(Proc) - 1

\* A person with an account has one seat, so that leaving frees what joining
\* took, unless two of their joins overlapped.
OneSeatPerPerson == \A u \in User \ (guests \cup doubled) : Cardinality(Here(u)) <= 1

\* The host's queue holds those who asked and were not answered since: a hand
\* raised again after an answer is in it, one lowered or left behind is not.
QueueIsWhoAsks ==
  \A u \in User \ (doubled \cup tangled) :
    HandUnderWay(u) \/ ((\E s \in Queue : seat[s].u = u) <=> u \in asking)

\* Both of them: what the host sees of the audience is the audience.
AudienceIsKept == OneSeatPerPerson /\ QueueIsWhoAsks

==============================================================================
