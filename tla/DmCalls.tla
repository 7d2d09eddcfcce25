-------------------------------- MODULE DmCalls --------------------------------
(***************************************************************************)
(* One-to-one calls: the call manager of every open page                   *)
(* (components/ws/DmCallManager.tsx), the signals between the two users    *)
(* (lib/dm/call.ts) and the media room DmCall.tsx joins.  A signal is a    *)
(* POST the server relays to every page of the peer; POSTs may overtake    *)
(* each other and failures are swallowed.  Signals name the conversation,  *)
(* not the call.                                                           *)
(***************************************************************************)
EXTENDS Naturals, Sequences

CONSTANTS
  Page,        \* open pages
  Owner,       \* Owner[t]: the user signed in on page t
  Dm,          \* conversations, each the set of its two users
  NoDm,
  MaxStarts    \* bound: calls started

\* A conversation is between two users.
ASSUME DmAssumption ==
  /\ NoDm \notin Dm /\ Owner \in [Page -> UNION Dm] /\ MaxStarts \in Nat
  /\ \A d \in Dm : \E u, v \in d : d = {u, v}

VARIABLES
  incoming,    \* incoming[t]: the conversation of the prompt, NoDm without one
  active,      \* active[t]: the conversation of the mounted call
  media,       \* media[t]: the page's connection to the room of its call
  leaving,     \* connects still under way when their call was closed: page, room
  signals,     \* signals[t]: signals on their way to page t, in sending order
  noticed,     \* pages about to hear that a participant left their room
  starts,      \* history: calls started
  crossed,     \* history: conversations both users called in at once
  excused      \* history: conversations the code loses track of, see NobodyWaitsAlone

CallVars == <<incoming, active, media, leaving, signals, noticed, starts, crossed, excused>>

CallsInit ==
  /\ incoming = [t \in Page |-> NoDm] /\ active = [t \in Page |-> NoDm]
  /\ media = [t \in Page |-> "out"] /\ leaving = {} /\ noticed = {}
  /\ signals = [t \in Page |-> <<>>]
  /\ starts = 0 /\ crossed = {} /\ excused = {}

PeerPages(t, d) == {q \in Page : Owner[q] \in d \ {Owner[t]}}
OtherPages(t) == {q \in Page \ {t} : Owner[q] = Owner[t]}

\* sendCallSignal: the event reaches every page of the peer.
Signal(t, d, type) ==
  [q \in Page |-> IF q \in PeerPages(t, d) THEN Append(signals[q], [dm |-> d, type |-> type]) ELSE signals[q]]

InRoom(d) == {q \in Page : media[q] = "in" /\ active[q] = d}

\* The call of page t is unmounted: it leaves the room, or will as soon as the
\* connect it awaits has returned.
Unmount(t) ==
  /\ active' = [active EXCEPT ![t] = NoDm]
  /\ media' = [media EXCEPT ![t] = "out"]
  /\ leaving' = IF media[t] = "joining" THEN leaving \cup {<<t, active[t]>>} ELSE leaving
  /\ noticed' = (noticed \cup (IF media[t] = "in" THEN InRoom(active[t]) ELSE {})) \ {t}

Mount(t, d) ==
  /\ active' = [active EXCEPT ![t] = d]
  /\ media' = [media EXCEPT ![t] = "joining"]

(***************************************************************************)
(* What users do.                                                          *)
(***************************************************************************)
InFlight(t, type, d) == \E k \in DOMAIN signals[t] : signals[t][k] = [dm |-> d, type |-> type]

\* Another call of the conversation is not over yet, or its ring not there.
Unfinished(t, d) ==
  \/ \E q \in Page : incoming[q] = d \/ \E ty \in {"accept", "decline", "end"} : InFlight(q, ty, d)
  \/ \E q \in OtherPages(t) : active[q] = d
  \/ \E q \in PeerPages(t, d) : InFlight(q, "ring", d)

\* The peer has called too, and its ring has not arrived.
Crosses(t, d) == \E q \in {t} \cup OtherPages(t) : InFlight(q, "ring", d)

Start(t, d) ==
  /\ starts < MaxStarts /\ Owner[t] \in d
  /\ active[t] = NoDm
  /\ Mount(t, d)
  /\ signals' = Signal(t, d, "ring")
  /\ starts' = starts + 1
  /\ crossed' = IF Crosses(t, d) THEN crossed \cup {d} ELSE crossed \ {d}
  /\ excused' = IF Unfinished(t, d) THEN excused \cup {d} ELSE excused
  /\ UNCHANGED <<incoming, leaving, noticed>>

\* The other pages of the user are told nothing of an answer, and may still be
\* ringing or about to.
Answered(t, d) ==
  IF \E q \in OtherPages(t) : d \in {incoming[q], active[q]} \/ InFlight(q, "ring", d)
    THEN excused \cup {d} ELSE excused

\* The prompt shows only while the page is in no call.
Accept(t) ==
  /\ incoming[t] # NoDm /\ active[t] = NoDm
  /\ Mount(t, incoming[t])
  /\ incoming' = [incoming EXCEPT ![t] = NoDm]
  /\ signals' = Signal(t, incoming[t], "accept")
  /\ excused' = Answered(t, incoming[t]) \cup ({incoming[t]} \cap crossed)
  /\ UNCHANGED <<leaving, noticed, starts, crossed>>

Decline(t) ==
  /\ incoming[t] # NoDm /\ active[t] = NoDm
  /\ incoming' = [incoming EXCEPT ![t] = NoDm]
  /\ signals' = Signal(t, incoming[t], "decline")
  /\ excused' = Answered(t, incoming[t])
  /\ UNCHANGED <<active, media, leaving, noticed, starts, crossed>>

\* Slip: hanging up tells nobody.
HangUpSilently(t) ==
  /\ active[t] # NoDm
  /\ Unmount(t)
  /\ UNCHANGED <<incoming, signals, starts, crossed, excused>>

\* The hang-up button, or the peer leaving the room.
EndCall(t) ==
  /\ active[t] # NoDm
  /\ Unmount(t)
  /\ signals' = Signal(t, active[t], "end")
  /\ UNCHANGED <<incoming, starts, crossed, excused>>

(***************************************************************************)
(* Signals arrive.  Taking the k-th ahead of an earlier one of the same    *)
(* conversation is an overtaking.                                          *)
(***************************************************************************)
Overtakes(t, k) == \E j \in 1..k-1 : signals[t][j].dm = signals[t][k].dm

Take(t, k) == [signals EXCEPT ![t] = SubSeq(@, 1, k - 1) \o SubSeq(@, k + 1, Len(@))]

Late(t, k) == IF Overtakes(t, k) THEN {signals[t][k].dm} ELSE {}

\* A ring becomes the prompt, in place of one that is showing, in a call too: the
\* page binds onRing once, so that onRing sees it as it was then, in no call.
OnRing(t, k) ==
  LET d == signals[t][k].dm IN
  /\ signals[t][k].type = "ring"
  /\ signals' = Take(t, k)
  /\ incoming' = [incoming EXCEPT ![t] = d]
  /\ excused' = excused \cup Late(t, k) \cup ({incoming[t]} \ {NoDm, d})
  /\ UNCHANGED <<active, media, leaving, noticed, starts, crossed>>

OnDeclined(t, k) ==
  LET d == signals[t][k].dm IN
  /\ signals[t][k].type = "decline"
  /\ signals' = Take(t, k)
  /\ excused' = excused \cup Late(t, k)
  /\ IF active[t] = d THEN Unmount(t) ELSE UNCHANGED <<active, media, leaving, noticed>>
  /\ UNCHANGED <<incoming, starts, crossed>>

OnEnded(t, k) ==
  LET d == signals[t][k].dm IN
  /\ signals[t][k].type = "end"
  /\ signals' = Take(t, k)
  /\ excused' = excused \cup Late(t, k)
  /\ IF active[t] = d THEN Unmount(t) ELSE UNCHANGED <<active, media, leaving, noticed>>
  /\ incoming' = [incoming EXCEPT ![t] = IF @ = d THEN NoDm ELSE @]
  /\ UNCHANGED <<starts, crossed>>

\* No page listens to the accept; and a signal may not arrive at all.
OnAccepted(t, k) ==
  /\ signals[t][k].type = "accept"
  /\ signals' = Take(t, k)
  /\ UNCHANGED <<incoming, active, media, leaving, noticed, starts, crossed, excused>>

Lose(t, k) ==
  /\ signals[t][k].type # "accept"
  /\ signals' = Take(t, k)
  /\ excused' = excused \cup {signals[t][k].dm}
  /\ UNCHANGED <<incoming, active, media, leaving, noticed, starts, crossed>>

(***************************************************************************)
(* The media room: a participant that disconnects makes the others hang    *)
(* up; a connect whose call was closed meanwhile joins and leaves at once. *)
(* A connect may fail, and the call then stays open without media.         *)
(***************************************************************************)
Join(t) ==
  /\ media[t] = "joining"
  /\ \E m \in {"in", "out"} : media' = [media EXCEPT ![t] = m]
  /\ UNCHANGED <<incoming, active, leaving, signals, noticed, starts, crossed, excused>>

JoinAndLeave(t, d) ==
  /\ <<t, d>> \in leaving
  /\ leaving' = leaving \ {<<t, d>>}
  /\ noticed' \in {noticed, noticed \cup (InRoom(d) \ {t})}
  /\ UNCHANGED <<incoming, active, media, signals, starts, crossed, excused>>

OnParticipantLeft(t) ==
  /\ t \in noticed
  /\ EndCall(t)

CallsNext ==
  \E t \in Page :
    \/ \E d \in Dm : Start(t, d) \/ JoinAndLeave(t, d)
    \/ Accept(t) \/ Decline(t) \/ EndCall(t)
    \/ Join(t) \/ OnParticipantLeft(t)
    \/ \E k \in DOMAIN signals[t] :
         OnRing(t, k) \/ OnDeclined(t, k) \/ OnEnded(t, k) \/ OnAccepted(t, k) \/ Lose(t, k)

CallsSpec == CallsInit /\ [][CallsNext]_CallVars

------------------------------------------------------------------------------
(***************************************************************************)
(* Properties.                                                             *)
(***************************************************************************)
CallsTypeOK ==
  /\ incoming \in [Page -> Dm \cup {NoDm}] /\ active \in [Page -> Dm \cup {NoDm}]
  /\ media \in [Page -> {"out", "joining", "in"}]
  /\ leaving \subseteq Page \X Dm /\ noticed \subseteq Page
  /\ signals \in [Page -> Seq([dm : Dm, type : {"ring", "accept", "decline", "end"}])]
  /\ starts \in 0..MaxStarts /\ crossed \subseteq Dm /\ excused \subseteq Dm

AllArrived ==
  /\ \A t \in Page : signals[t] = <<>> /\ media[t] # "joining"
  /\ leaving = {} /\ noticed = {}

\* Once every signal has arrived, no page waits in a call whose other side has a
\* page open and neither a call nor a prompt for it, and none rings for a caller
\* that is gone.  After both users called each other at once the first still holds,
\* also once one of them has hung up, but the second does not: each page took the
\* other's ring as a prompt behind its own call, and keeps it when it hangs up.
\* Excused are conversations where a signal was lost or overtaken, a call began
\* before an earlier one was over, a second ring replaced the prompt, one page of a
\* user answered for another, or such a prompt was accepted.
NobodyWaitsAlone ==
  AllArrived =>
    \A t \in Page :
      /\ \A d \in {active[t]} \ (excused \cup {NoDm}) :
           PeerPages(t, d) # {} => \E q \in PeerPages(t, d) : d \in {active[q], incoming[q]}
      /\ \A d \in {incoming[t]} \ (excused \cup crossed \cup {NoDm}) :
           PeerPages(t, d) # {} => \E q \in PeerPages(t, d) : active[q] = d

==============================================================================
