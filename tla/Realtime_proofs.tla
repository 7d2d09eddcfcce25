--------------------------- MODULE Realtime_proofs ---------------------------
(***************************************************************************)
(* Proofs about the components that answer a client over the               *)
(* WebSocket engine or beside it: EventReplay, for any number of events    *)
(* and of lost connections, Presence, for any set of connections,          *)
(* PresentationRoom, for any number of calls, SpaceKnowledge, for any      *)
(* number of calls, sources and batches, and ChatThread, for any number of *)
(* calls, messages and pages.  Then the types of these, and of DmCalls, in *)
(* the run that checks them together.                                      *)
(***************************************************************************)
EXTENDS MCRealtime, FiniteSetTheorems, SequenceTheorems, TLAPS

(***************************************************************************)
(* Replay                                                                  *)
(***************************************************************************)
(***************************************************************************)
(* What a replay sends is every row it selected, and nothing else.         *)
(***************************************************************************)
LEMMA SortedRows ==
  ASSUME NEW n \in Nat, NEW S \in SUBSET (1..n)
  PROVE  /\ Sorted(S) \in Seq(S)
         /\ \A e \in S : \E k \in 1..Len(Sorted(S)) : Sorted(S)[k] = e
  <1> DEFINE Below(e) == {f \in S : f < e}
  <1> DEFINE N == Cardinality(S)
  <1> DEFINE rank == [e \in S |-> Cardinality(Below(e)) + 1]
  <1>1. IsFiniteSet(S) /\ N \in Nat
    <2>1. IsFiniteSet(1..n)
      BY FS_Interval
    <2>2. IsFiniteSet(S)
      BY <2>1, FS_Subset
    <2>3. QED
      BY <2>2, FS_CardinalityType
  <1>2. ASSUME NEW e \in S
        PROVE  IsFiniteSet(Below(e)) /\ Cardinality(Below(e)) \in Nat /\ Cardinality(Below(e)) < N
    <2>1. Below(e) \in SUBSET S /\ Below(e) # S
      OBVIOUS
    <2>2. IsFiniteSet(Below(e)) /\ Cardinality(Below(e)) <= N /\ (N = Cardinality(Below(e)) => S = Below(e))
      BY <1>1, <2>1, FS_Subset
    <2>3. Cardinality(Below(e)) \in Nat
      BY <2>2, FS_CardinalityType
    <2>4. QED
      BY <1>1, <2>1, <2>2, <2>3
  <1>3. ASSUME NEW e \in S, NEW f \in S, e < f
        PROVE  Cardinality(Below(e)) < Cardinality(Below(f))
    <2>1. Below(e) \in SUBSET Below(f) /\ Below(f) # Below(e)
      <3>1. \A g \in S : g < e => g < f
        BY <1>3
      <3>2. e \in Below(f) /\ e \notin Below(e)
        BY <1>3
      <3>3. QED
        BY <3>1, <3>2
    <2>2. IsFiniteSet(Below(f)) /\ Cardinality(Below(f)) \in Nat /\ Cardinality(Below(e)) \in Nat
      BY <1>2
    <2>3. Cardinality(Below(e)) <= Cardinality(Below(f)) /\ (Cardinality(Below(f)) = Cardinality(Below(e)) => Below(f) = Below(e))
      BY <2>1, <2>2, FS_Subset
    <2>4. QED
      BY <2>1, <2>2, <2>3
  <1>4. rank \in [S -> 1..N]
    BY <1>1, <1>2
  <1>5. \A e, f \in S : rank[e] = rank[f] => e = f
    <2>1. ASSUME NEW e \in S, NEW f \in S, rank[e] = rank[f], e # f PROVE FALSE
      <3>1. Cardinality(Below(e)) = Cardinality(Below(f))
        BY <1>2, <2>1
      <3>2. e < f \/ f < e
        BY <2>1
      <3>3. QED
        BY <1>2, <1>3, <3>1, <3>2
    <2>2. QED
      BY <2>1
  <1>6. rank \in Injection(S, 1..N)
    BY <1>4, <1>5 DEF Injection, IsInjective
  <1>7. rank \in Surjection(S, 1..N)
    BY <1>1, <1>6, FS_Injection, FS_Interval
  <1>8. \A k \in 1..N : \E e \in S : Cardinality(Below(e)) = k - 1
    <2>1. ASSUME NEW k \in 1..N PROVE \E e \in S : Cardinality(Below(e)) = k - 1
      <3>1. PICK e \in S : rank[e] = k
        BY <1>7 DEF Surjection
      <3>2. Cardinality(Below(e)) + 1 = k /\ Cardinality(Below(e)) \in Nat
        BY <1>2, <3>1
      <3>3. Cardinality(Below(e)) = k - 1
        BY <3>2
      <3>4. QED
        BY <3>3, Zenon
    <2>2. QED
      BY <2>1
  <1>9. \A k \in 1..N : Sorted(S)[k] \in S /\ Cardinality(Below(Sorted(S)[k])) = k - 1
    BY <1>8 DEF Sorted
  <1>10. Sorted(S) \in [1..N -> S]
    BY <1>9 DEF Sorted
  <1>11. Sorted(S) \in Seq(S) /\ Len(Sorted(S)) = N
    BY <1>1, <1>10, SeqDef, LenProperties
  <1>12. ASSUME NEW e \in S PROVE Sorted(S)[rank[e]] = e
    <2>1. rank[e] \in 1..N /\ Cardinality(Below(e)) = rank[e] - 1
      BY <1>2, <1>4
    <2>2. Sorted(S)[rank[e]] \in S /\ Cardinality(Below(Sorted(S)[rank[e]])) = rank[e] - 1
      BY <1>9, <2>1
    <2>3. rank[Sorted(S)[rank[e]]] = rank[e]
      BY <1>2, <2>1, <2>2
    <2>4. QED
      BY <1>5, <2>2, <2>3
  <1>13. QED
    BY <1>4, <1>11, <1>12

(***************************************************************************)
(* The inductive invariant.                                                *)
(***************************************************************************)
Phases == {<<>>, <<"subscribe">>, <<"subscribe", "resume">>, <<"resume">>, <<"answer">>}

Connections ==
  [up : BOOLEAN, subs : SUBSET Scopes, inbox : Phases,
   resume : [cursor : Nat, rows : SUBSET Nat, horizon : Nat], unanswered : BOOLEAN]

WireTypeOK ==
  /\ events \in Seq(Scopes)
  /\ stage \in Seq({"persisting", "routing", "routed"}) /\ Len(stage) = Len(events)
  /\ log \subseteq Ids /\ expired \in Nat
  /\ wire \in Seq(Nat)
  /\ link \in Connections
  /\ client \in [cursor : Nat, hadConnection : BOOLEAN, seen : SUBSET Nat]

\* The connection and the client's memory: frames only travel on a connection
\* that is up, and the cursor, and the one a resume carries, are of events the
\* client has seen.
LinkOK ==
  /\ ~link.up => link = Down /\ wire = <<>>
  /\ link.up => client.hadConnection
  /\ client.cursor # 0 => client.hadConnection /\ client.cursor \in client.seen
  /\ link.resume.cursor # 0 => link.resume.cursor \in client.seen
  /\ link.resume.rows \subseteq Ids
  /\ link.inbox = <<"subscribe">> => link.resume.cursor = 0

\* An event that has been stored is in the log until it has expired.
LogOK ==
  \A e \in Ids : stage[e] # "persisting" => e \in log \cup waived \/ e <= expired

\* What the client has, or will have when the wire is empty: 0 is the answer
\* that makes it refresh.
OnWire(e) == \E k \in 1..Len(wire) : wire[k] = e
Covered(e) == e \in client.seen \cup waived \/ OnWire(e) \/ OnWire(0)

\* Of the scopes granted, nothing is missing once the connection's frames are
\* handled and its resume was answered; while the answer is on its way, nothing but
\* what it brings or passes over.
AnswerOK ==
  link.up /\ link.inbox = <<"answer">> =>
    \A e \in Ids : stage[e] = "routed" /\ events[e] \in link.subs =>
      \/ Covered(e)
      \/ e \in link.resume.rows \/ e < link.resume.cursor \/ e <= link.resume.horizon

QuietOK ==
  link.up /\ link.inbox = <<>> /\ ~link.unanswered =>
    \A e \in Ids : stage[e] = "routed" /\ events[e] \in link.subs => Covered(e)

ReplayInv == WireTypeOK /\ LinkOK /\ LogOK /\ AnswerOK /\ QuietOK

USE DEF Connections

\* Frames as sequences.
LEMMA Frames ==
  /\ Tail(<<"subscribe">>) = <<>> /\ Tail(<<"subscribe", "resume">>) = <<"resume">>
  /\ Tail(<<"resume">>) = <<>> /\ Tail(<<"answer">>) = <<>>
  /\ Head(<<"subscribe">>) = "subscribe" /\ Head(<<"subscribe", "resume">>) = "subscribe"
  /\ Head(<<"resume">>) = "resume" /\ Head(<<"answer">>) = "answer"
  /\ <<"subscribe">> # <<>> /\ <<"subscribe", "resume">> # <<>> /\ <<"resume">> # <<>> /\ <<"answer">> # <<>>
  /\ <<"subscribe", "resume">> # <<"subscribe">> /\ <<"subscribe", "resume">> # <<"resume">>
  /\ <<"subscribe", "resume">> # <<"answer">> /\ <<"subscribe">> # <<"resume">>
  /\ <<"subscribe">> # <<"answer">> /\ <<"resume">> # <<"answer">>
  /\ [<<"resume">> EXCEPT ![1] = "answer"] = <<"answer">>
  <1>1. Tail(<<"subscribe">>) = <<>> /\ Tail(<<"resume">>) = <<>> /\ Tail(<<"answer">>) = <<>>
    OBVIOUS
  <1>2. Tail(<<"subscribe", "resume">>) = <<"resume">>
    OBVIOUS
  <1>3. /\ Head(<<"subscribe">>) = "subscribe" /\ Head(<<"subscribe", "resume">>) = "subscribe"
        /\ Head(<<"resume">>) = "resume" /\ Head(<<"answer">>) = "answer"
    OBVIOUS
  <1>4. <<"subscribe">> # <<>> /\ <<"subscribe", "resume">> # <<>> /\ <<"resume">> # <<>> /\ <<"answer">> # <<>>
    OBVIOUS
  <1>5. /\ <<"subscribe", "resume">> # <<"subscribe">> /\ <<"subscribe", "resume">> # <<"resume">>
        /\ <<"subscribe", "resume">> # <<"answer">>
    OBVIOUS
  <1>6. <<"subscribe">> # <<"resume">> /\ <<"subscribe">> # <<"answer">> /\ <<"resume">> # <<"answer">>
    OBVIOUS
  <1>7. [<<"resume">> EXCEPT ![1] = "answer"] = <<"answer">>
    OBVIOUS
  <1>8. QED
    BY <1>1, <1>2, <1>3, <1>4, <1>5, <1>6, <1>7

\* The connection as a record.
LEMMA LinkType ==
  ASSUME WireTypeOK
  PROVE  /\ link.up \in BOOLEAN /\ link.subs \subseteq Scopes /\ link.inbox \in Phases
         /\ link.resume.cursor \in Nat /\ link.resume.rows \subseteq Nat /\ link.resume.horizon \in Nat
         /\ link.unanswered \in BOOLEAN
         /\ link.resume = [cursor |-> link.resume.cursor, rows |-> link.resume.rows, horizon |-> link.resume.horizon]
  <1>1. /\ link.subs \subseteq Scopes /\ link.inbox \in Phases
        /\ link.resume.cursor \in Nat /\ link.resume.rows \subseteq Nat /\ link.resume.horizon \in Nat
    BY DEF WireTypeOK
  <1>2. link.up \in BOOLEAN
    BY DEF WireTypeOK
  <1>3. link.unanswered \in BOOLEAN
    BY DEF WireTypeOK
  <1>4. link.resume = [cursor |-> link.resume.cursor, rows |-> link.resume.rows, horizon |-> link.resume.horizon]
    BY DEF WireTypeOK
  <1>5. QED
    BY <1>1, <1>2, <1>3, <1>4

LEMMA ReplayInitial == ReplayInit => ReplayInv
  <1> SUFFICES ASSUME ReplayInit PROVE ReplayInv
    OBVIOUS
  <1>1. WireTypeOK
    BY DEF ReplayInit, WireTypeOK, Down, NoResume, Phases, Ids
  <1>2. LinkOK
    BY DEF ReplayInit, LinkOK, Down, NoResume, Ids
  <1>3. LogOK /\ AnswerOK /\ QuietOK
    BY DEF ReplayInit, LogOK, AnswerOK, QuietOK, Down, Ids
  <1>4. QED
    BY <1>1, <1>2, <1>3 DEF ReplayInv

LEMMA ReplayGapless == ReplayInv => NoSilentGap
  <1> SUFFICES ASSUME ReplayInv, Caught, ~link.unanswered, NEW e \in Ids, stage[e] = "routed", events[e] \in link.subs
               PROVE  e \in client.seen \cup waived
    BY DEF NoSilentGap
  <1>1. Covered(e)
    BY DEF ReplayInv, QuietOK, Caught
  <1>2. ~OnWire(e) /\ ~OnWire(0)
    BY DEF OnWire, Caught
  <1>3. QED
    BY <1>1, <1>2 DEF Covered

(***************************************************************************)
(* Publishing.                                                             *)
(***************************************************************************)
LEMMA PublishStep ==
  ASSUME ReplayInv, NEW s \in Scopes, Publish(s)
  PROVE  ReplayInv'
  <1>1. /\ events' = Append(events, s) /\ stage' = Append(stage, "persisting")
        /\ UNCHANGED <<log, expired, link, wire, client, drops, waived>>
    BY DEF Publish
  <1>2. /\ events' \in Seq(Scopes) /\ Len(events') = Len(events) + 1
        /\ stage' \in Seq({"persisting", "routing", "routed"}) /\ Len(stage') = Len(stage) + 1
        /\ \A e \in Ids : stage'[e] = stage[e]
        /\ stage'[Len(stage) + 1] = "persisting" /\ \A e \in Ids : events'[e] = events[e]
    BY <1>1, AppendProperties DEF ReplayInv, WireTypeOK, Ids
  <1>3. Len(events) \in Nat /\ Len(stage) = Len(events)
    BY DEF ReplayInv, WireTypeOK
  <1>4. Ids \subseteq Ids' /\ \A e \in Ids' : e \in Ids \/ stage'[e] = "persisting"
    BY <1>2, <1>3 DEF Ids
  <1>5. WireTypeOK'
    BY <1>1, <1>2, <1>4 DEF ReplayInv, WireTypeOK
  <1>6. LinkOK'
    BY <1>1, <1>4 DEF ReplayInv, LinkOK
  <1>7. LogOK'
    BY <1>1, <1>2, <1>4 DEF ReplayInv, LogOK
  <1>8. \A e \in Ids' : stage'[e] = "routed" => e \in Ids /\ stage[e] = "routed" /\ events'[e] = events[e]
    BY <1>2, <1>4
  <1>9. \A e : Covered(e)' <=> Covered(e)
    BY <1>1 DEF Covered, OnWire
  <1>10. AnswerOK' /\ QuietOK'
    BY <1>1, <1>8, <1>9 DEF ReplayInv, AnswerOK, QuietOK
  <1>11. QED
    BY <1>5, <1>6, <1>7, <1>10 DEF ReplayInv

LEMMA PersistStep ==
  ASSUME ReplayInv, NEW e \in Ids, PersistEvent(e)
  PROVE  ReplayInv'
  <1>1. /\ stage[e] = "persisting" /\ stage' = [stage EXCEPT ![e] = "routing"]
        /\ \/ log' = log \cup {e} /\ UNCHANGED waived
           \/ waived' = waived \cup {e} /\ UNCHANGED log
        /\ UNCHANGED <<events, expired, link, wire, client, drops>>
    BY DEF PersistEvent
  <1>2. Len(stage) \in Nat /\ Ids = 1..Len(stage) /\ Ids' = Ids
    BY <1>1 DEF ReplayInv, WireTypeOK, Ids
  <1>3. /\ stage' \in Seq({"persisting", "routing", "routed"}) /\ Len(stage') = Len(stage)
        /\ \A f \in Ids : stage'[f] = IF f = e THEN "routing" ELSE stage[f]
    BY <1>1, <1>2, ExceptSeq DEF ReplayInv, WireTypeOK
  <1>4. WireTypeOK'
    BY <1>1, <1>2, <1>3 DEF ReplayInv, WireTypeOK
  <1>5. LinkOK'
    BY <1>1, <1>2 DEF ReplayInv, LinkOK
  <1>6. LogOK'
    BY <1>1, <1>2, <1>3 DEF ReplayInv, LogOK
  <1>7. \A f : Covered(f) => Covered(f)'
    BY <1>1 DEF Covered, OnWire
  <1>8. \A f \in Ids : stage'[f] = "routed" => stage[f] = "routed"
    BY <1>3
  <1>9. AnswerOK' /\ QuietOK'
    BY <1>1, <1>2, <1>7, <1>8 DEF ReplayInv, AnswerOK, QuietOK
  <1>10. QED
    BY <1>4, <1>5, <1>6, <1>9 DEF ReplayInv

LEMMA RouteStep ==
  ASSUME ReplayInv, NEW e \in Ids, RouteEvent(e)
  PROVE  ReplayInv'
  <1>1. /\ stage[e] = "routing" /\ stage' = [stage EXCEPT ![e] = "routed"]
        /\ wire' = IF link.up /\ events[e] \in link.subs THEN Append(wire, e) ELSE wire
        /\ UNCHANGED <<events, log, expired, link, client, drops, waived>>
    BY DEF RouteEvent
  <1>2. Len(stage) \in Nat /\ Ids = 1..Len(stage) /\ Ids' = Ids /\ e \in Nat /\ events[e] \in Scopes
    BY <1>1, ElementOfSeq DEF ReplayInv, WireTypeOK, Ids
  <1>3. /\ stage' \in Seq({"persisting", "routing", "routed"}) /\ Len(stage') = Len(stage)
        /\ \A f \in Ids : stage'[f] = IF f = e THEN "routed" ELSE stage[f]
    BY <1>1, <1>2, ExceptSeq DEF ReplayInv, WireTypeOK
  <1>4. wire' \in Seq(Nat) /\ (\A f : OnWire(f) => OnWire(f)')
    <2>1. CASE wire' = wire
      BY <2>1 DEF ReplayInv, WireTypeOK, OnWire
    <2>2. CASE wire' = Append(wire, e)
      <3>1. /\ wire' \in Seq(Nat) /\ Len(wire') = Len(wire) + 1 /\ Len(wire) \in Nat
            /\ \A k \in 1..Len(wire) : wire'[k] = wire[k]
        BY <1>2, <2>2, AppendProperties, LenProperties DEF ReplayInv, WireTypeOK
      <3>2. QED
        BY <3>1 DEF OnWire
    <2>3. QED
      BY <1>1, <2>1, <2>2
  <1>5. link.up /\ events[e] \in link.subs => OnWire(e)'
    <2>1. SUFFICES ASSUME link.up, events[e] \in link.subs PROVE OnWire(e)'
      OBVIOUS
    <2>2. wire' = Append(wire, e)
      BY <1>1, <1>2, <2>1
    <2>3. Len(wire') = Len(wire) + 1 /\ wire'[Len(wire) + 1] = e /\ Len(wire) \in Nat
      BY <1>2, <2>2, AppendProperties, LenProperties DEF ReplayInv, WireTypeOK
    <2>4. QED
      BY <2>3 DEF OnWire
  <1>6. WireTypeOK'
    BY <1>1, <1>2, <1>3, <1>4 DEF ReplayInv, WireTypeOK
  <1>7. LinkOK'
    BY <1>1, <1>2 DEF ReplayInv, LinkOK
  <1>8. LogOK'
    BY <1>1, <1>2, <1>3 DEF ReplayInv, LogOK
  <1>9. \A f : Covered(f) => Covered(f)'
    BY <1>1, <1>4 DEF Covered
  <1>10. \A f \in Ids : stage'[f] = "routed" => f = e \/ stage[f] = "routed"
    BY <1>3
  <1>11. link.up /\ events[e] \in link.subs => Covered(e)'
    BY <1>5 DEF Covered
  <1>12. AnswerOK'
    BY <1>1, <1>2, <1>9, <1>10, <1>11 DEF ReplayInv, AnswerOK, LinkOK
  <1>13. QuietOK'
    BY <1>1, <1>2, <1>9, <1>10, <1>11 DEF ReplayInv, QuietOK, LinkOK
  <1>14. QED
    BY <1>6, <1>7, <1>8, <1>12, <1>13 DEF ReplayInv

\* Expiry only ever excuses more events, and only expired rows are deleted.
LEMMA AgeStep ==
  ASSUME ReplayInv, Expire \/ Cleanup
  PROVE  ReplayInv'
  <1>1. /\ UNCHANGED <<events, stage, link, wire, client, drops, waived>>
        /\ expired' \in Nat /\ expired <= expired' /\ log' \subseteq log
        /\ \A e \in log : e \in log' \/ e <= expired'
    BY DEF Expire, Cleanup, ReplayInv, WireTypeOK
  <1>2. Ids' = Ids /\ Ids \subseteq Nat /\ expired \in Nat
    BY <1>1 DEF ReplayInv, WireTypeOK, Ids
  <1>3. WireTypeOK' /\ LinkOK'
    BY <1>1, <1>2 DEF ReplayInv, WireTypeOK, LinkOK
  <1>4. LogOK'
    BY <1>1, <1>2 DEF ReplayInv, LogOK
  <1>5. AnswerOK' /\ QuietOK'
    BY <1>1, <1>2 DEF ReplayInv, AnswerOK, QuietOK, Covered, OnWire
  <1>6. QED
    BY <1>3, <1>4, <1>5 DEF ReplayInv

(***************************************************************************)
(* The connection.                                                         *)
(***************************************************************************)
LEMMA ConnectStep ==
  ASSUME ReplayInv, Connect
  PROVE  ReplayInv'
  <1>1. /\ link' = [Down EXCEPT !.up = TRUE, !.subs = {"user"}, !.inbox = Opening, !.resume.cursor = client.cursor]
        /\ client' = [client EXCEPT !.hadConnection = TRUE]
        /\ UNCHANGED <<events, stage, log, expired, wire, drops, waived>>
    BY DEF Connect
  <1>2. /\ Opening \in {<<"subscribe">>, <<"subscribe", "resume">>}
        /\ Opening = <<"subscribe">> => client.cursor = 0
    BY Frames DEF Opening, ReplayInv, LinkOK
  <1>3. link' = [up |-> TRUE, subs |-> {"user"}, inbox |-> Opening,
                 resume |-> [cursor |-> client.cursor, rows |-> {}, horizon |-> 0], unanswered |-> FALSE]
    BY <1>1 DEF Down, NoResume
  <1>4. client'.cursor = client.cursor /\ client'.seen = client.seen /\ client'.hadConnection
    BY <1>1 DEF ReplayInv, WireTypeOK
  <1>5. WireTypeOK'
    <2>1. client.cursor \in Nat /\ client' \in [cursor : Nat, hadConnection : BOOLEAN, seen : SUBSET Nat]
      BY <1>1 DEF ReplayInv, WireTypeOK
    <2>2. Opening \in Phases /\ {"user"} \in SUBSET Scopes
      BY <1>2 DEF Phases, Scopes
    <2>3. link' \in Connections
      BY <1>3, <2>1, <2>2
    <2>4. QED
      BY <1>1, <2>1, <2>3 DEF ReplayInv, WireTypeOK, Ids
  <1>6. LinkOK'
    <2>1. link'.up /\ link'.resume.cursor = client.cursor /\ link'.resume.rows = {} /\ link'.inbox = Opening
      BY <1>3
    <2>2. Opening \notin {<<>>, <<"resume">>, <<"answer">>}
      BY <1>2, Frames
    <2>3. QED
      BY <1>2, <1>4, <2>1, <2>2 DEF ReplayInv, LinkOK
  <1>7. LogOK'
    BY <1>1 DEF ReplayInv, LogOK, Ids
  <1>8. AnswerOK' /\ QuietOK'
    BY <1>2, <1>3 DEF AnswerOK, QuietOK
  <1>9. QED
    BY <1>5, <1>6, <1>7, <1>8 DEF ReplayInv

LEMMA DropStep ==
  ASSUME ReplayInv, Drop
  PROVE  ReplayInv'
  <1>1. link' = Down /\ wire' = <<>> /\ UNCHANGED <<events, stage, log, expired, client, waived>>
    BY DEF Drop
  <1>2. WireTypeOK'
    BY <1>1 DEF ReplayInv, WireTypeOK, Down, NoResume, Phases, Ids
  <1>3. LinkOK' /\ LogOK'
    BY <1>1 DEF ReplayInv, LinkOK, LogOK, Down, NoResume, Ids
  <1>4. AnswerOK' /\ QuietOK'
    BY <1>1 DEF AnswerOK, QuietOK, Down
  <1>5. QED
    BY <1>2, <1>3, <1>4 DEF ReplayInv

LEMMA SubscribeStep ==
  ASSUME ReplayInv, HandleSubscribe
  PROVE  ReplayInv'
  <1>1. /\ link.inbox \in {<<"subscribe">>, <<"subscribe", "resume">>}
        /\ \E subs \in {link.subs, Scopes} : link' = [link EXCEPT !.subs = subs, !.inbox = Tail(link.inbox)]
        /\ waived' = IF link.resume.cursor = 0 THEN waived \cup Ids ELSE waived
        /\ UNCHANGED <<events, stage, log, expired, wire, client, drops>>
    BY Frames, LinkType DEF HandleSubscribe, ReplayInv, Phases
  <1>2. /\ link.inbox = <<"subscribe">> => Tail(link.inbox) = <<>>
        /\ link.inbox = <<"subscribe", "resume">> => Tail(link.inbox) = <<"resume">>
    BY Frames
  <1>3. /\ link'.subs \subseteq Scopes /\ link'.inbox = Tail(link.inbox) /\ link'.unanswered = link.unanswered
        /\ link'.up = link.up /\ link'.resume = link.resume
    BY <1>1 DEF ReplayInv, WireTypeOK
  <1>4. WireTypeOK'
    BY <1>1, <1>2 DEF ReplayInv, WireTypeOK, Phases, Ids
  <1>5. LinkOK'
    <2>1. link.up
      BY <1>1, Frames DEF ReplayInv, LinkOK, Down
    <2>2. link'.inbox # <<"subscribe">>
      BY <1>1, <1>2, <1>3, Frames
    <2>3. Ids' = Ids /\ wire' = wire /\ client' = client
      BY <1>1 DEF Ids
    <2>4. QED
      BY <1>3, <2>1, <2>2, <2>3, Zenon DEF ReplayInv, LinkOK
  <1>6. LogOK'
    BY <1>1 DEF ReplayInv, LogOK, Ids
  <1>7. AnswerOK'
    BY <1>1, <1>2, <1>3 DEF AnswerOK
  <1>8. QuietOK'
    <2>1. link'.inbox = <<>> => link.resume.cursor = 0
      BY <1>1, <1>2, <1>3, Frames DEF ReplayInv, LinkOK
    <2>2. QED
      BY <1>1, <2>1 DEF QuietOK, Covered, Ids
  <1>9. QED
    BY <1>4, <1>5, <1>6, <1>7, <1>8 DEF ReplayInv

\* What the selection leaves out is older than the cursor, expired, or not yet
\* stored and then still to be routed to the subscriptions, which are in place.
LEMMA SelectStep ==
  ASSUME ReplayInv, ResumeSelect
  PROVE  ReplayInv'
  <1> DEFINE cursor == link.resume.cursor
  <1> DEFINE chosen == NewerThan(cursor)
  <1>1. /\ link.inbox = <<"resume">>
        /\ link' = [link EXCEPT !.inbox = <<"answer">>, !.resume.rows = chosen, !.resume.horizon = expired]
        /\ UNCHANGED <<events, stage, log, expired, wire, client, drops, waived>>
    <2>1. link.inbox = <<"resume">>
      BY Frames, LinkType DEF ResumeSelect, ReplayInv, Phases
    <2>2. /\ link' = [link EXCEPT !.inbox = [@ EXCEPT ![1] = "answer"], !.resume.rows = chosen, !.resume.horizon = expired]
          /\ UNCHANGED <<events, stage, log, expired, wire, client, drops, waived>>
      BY DEF ResumeSelect
    <2>3. QED
      BY <2>1, <2>2, Frames
  <1>2. /\ link'.inbox = <<"answer">> /\ link'.up = link.up /\ link'.subs = link.subs
        /\ link'.resume = [cursor |-> cursor, rows |-> chosen, horizon |-> expired]
    BY <1>1 DEF ReplayInv, WireTypeOK
  <1>3. chosen \subseteq Ids /\ Ids \subseteq Nat /\ cursor \in Nat /\ expired \in Nat
    <2>1. chosen \subseteq log
      BY DEF NewerThan
    <2>2. log \subseteq Ids /\ expired \in Nat
      BY DEF ReplayInv, WireTypeOK
    <2>3. Ids \subseteq Nat
      BY DEF Ids
    <2>4. QED
      BY <2>1, <2>2, <2>3, LinkType DEF ReplayInv
  <1>4. link.up
    <2>1. Down.inbox = <<>>
      BY DEF Down
    <2>2. link.inbox # <<>>
      BY <1>1, Frames
    <2>3. QED
      BY <2>1, <2>2 DEF ReplayInv, LinkOK
  <1>5. WireTypeOK'
    <2>1. link' \in Connections
      <3>1. <<"answer">> \in Phases
        BY DEF Phases
      <3>2. chosen \in SUBSET Nat
        BY <1>3
      <3>3. link \in Connections
        BY DEF ReplayInv, WireTypeOK
      <3> HIDE DEF chosen
      <3>4. QED
        BY <1>1, <1>3, <3>1, <3>2, <3>3
    <2>2. QED
      BY <1>1, <2>1 DEF ReplayInv, WireTypeOK, Ids
  <1>6. LinkOK'
    <2>1. link'.resume.cursor = cursor /\ link'.resume.rows = chosen
      BY <1>2
    <2>2. Ids' = Ids
      BY <1>1 DEF Ids
    <2>3. link'.inbox # <<"subscribe">>
      BY <1>2, Frames
    <2>4. QED
      BY <1>1, <1>2, <1>3, <1>4, <2>1, <2>2, <2>3 DEF ReplayInv, LinkOK
  <1>7. LogOK'
    BY <1>1 DEF ReplayInv, LogOK, Ids
  <1>8. AnswerOK'
    <2>1. ASSUME NEW e \in Ids, stage[e] = "routed", events[e] \in link.subs
          PROVE  \/ Covered(e)
                 \/ e \in chosen \/ e < cursor \/ e <= expired
      <3>1. CASE e \in waived \/ e <= expired
        BY <3>1 DEF Covered
      <3>2. CASE e \in log /\ ~(e <= expired) /\ e > cursor
        <4>1. e \in log /\ e > cursor /\ e > expired /\ events[e] \in link.subs
          BY <1>3, <2>1, <3>2
        <4>2. e \in chosen
          BY <4>1, Zenon DEF NewerThan
        <4>3. QED
          BY <4>2
      <3>3. CASE e = cursor
        <4>1. e # 0
          BY DEF Ids
        <4>2. QED
          BY <3>3, <4>1 DEF ReplayInv, LinkOK, Covered
      <3>4. QED
        BY <1>3, <2>1, <3>1, <3>2, <3>3 DEF ReplayInv, LogOK
    <2>2. \A e : Covered(e)' <=> Covered(e)
      BY <1>1 DEF Covered, OnWire
    <2>3. link'.resume.rows = chosen /\ link'.resume.cursor = cursor /\ link'.resume.horizon = expired
      BY <1>2
    <2>4. Ids' = Ids /\ stage' = stage /\ events' = events /\ link'.subs = link.subs
      BY <1>1, <1>2 DEF Ids
    <2> HIDE DEF chosen
    <2>5. ASSUME NEW e \in Ids', stage'[e] = "routed", events'[e] \in link'.subs
          PROVE  \/ Covered(e)'
                 \/ e \in link'.resume.rows \/ e < link'.resume.cursor \/ e <= link'.resume.horizon
      <3>1. e \in Ids /\ stage[e] = "routed" /\ events[e] \in link.subs
        BY <2>4, <2>5
      <3>2. Covered(e) \/ e \in chosen \/ e < cursor \/ e <= expired
        BY <2>1, <3>1
      <3>3. QED
        BY <2>2, <2>3, <3>2
    <2>6. QED
      BY <2>5, Zenon DEF AnswerOK
  <1>9. QuietOK'
    <2>1. link'.inbox = <<"answer">>
      BY <1>2, Zenon
    <2>2. link'.inbox # <<>>
      BY <2>1, Frames, Zenon
    <2>3. QED
      BY <2>2, Zenon DEF QuietOK
  <1>10. QED
    BY <1>5, <1>6, <1>7, <1>8, <1>9 DEF ReplayInv

\* A resume is off the queue.
LEMMA HandledType ==
  ASSUME WireTypeOK, link.inbox \in {<<"resume">>, <<"answer">>}
  PROVE  /\ Handled.up = link.up /\ Handled.subs = link.subs /\ Handled.inbox = <<>>
         /\ Handled.unanswered = link.unanswered /\ Handled \in Connections
         /\ Handled.resume = [cursor |-> link.resume.cursor, rows |-> {}, horizon |-> 0]
  <1>1. Tail(link.inbox) = <<>> /\ <<>> \in Phases
    BY Frames DEF Phases
  <1>2. [NoResume EXCEPT !.cursor = link.resume.cursor] = [cursor |-> link.resume.cursor, rows |-> {}, horizon |-> 0]
    BY DEF NoResume
  <1>3. [NoResume EXCEPT !.cursor = link.resume.cursor] \in [cursor : Nat, rows : SUBSET Nat, horizon : Nat]
    BY <1>2, LinkType
  <1>4. link \in Connections
    BY DEF WireTypeOK
  <1>5. QED
    BY <1>1, <1>2, <1>3, <1>4 DEF Handled

\* The answer: a refresh, or the rows and a farewell to what they leave out.
LEMMA AnswerStep ==
  ASSUME ReplayInv, ResumeAnswer
  PROVE  ReplayInv'
  <1> DEFINE r == link.resume
  <1>1. /\ link.inbox = <<"answer">>
        /\ link' = Handled
        /\ UNCHANGED <<events, stage, log, expired, client, drops>>
    BY Frames, LinkType DEF ResumeAnswer, ReplayInv, Phases
  <1>2. \/ wire' = Append(wire, 0) /\ waived' = waived
        \/ /\ wire' = wire \o Sorted(r.rows)
           /\ waived' = waived \cup {e \in Ids : e < r.cursor \/ e <= r.horizon}
    BY DEF ResumeAnswer
  <1>3. /\ Handled.up = link.up /\ Handled.subs = link.subs /\ Handled.inbox = <<>>
        /\ Handled.unanswered = link.unanswered /\ Handled \in Connections
        /\ Handled.resume = [cursor |-> r.cursor, rows |-> {}, horizon |-> 0]
    BY <1>1, HandledType DEF ReplayInv
  <1>4. /\ link'.up = link.up /\ link'.subs = link.subs /\ link'.inbox = <<>> /\ link' \in Connections
        /\ link'.unanswered = link.unanswered /\ link'.resume = [cursor |-> r.cursor, rows |-> {}, horizon |-> 0]
    BY <1>1, <1>3
  <1>5. link.up /\ r.rows \in SUBSET Ids
    BY <1>1, Frames DEF ReplayInv, LinkOK, Down
  <1>6. Ids' = Ids /\ Ids = 1..Len(events) /\ Len(events) \in Nat /\ wire \in Seq(Nat) /\ Len(wire) \in Nat
    BY <1>1, LenProperties DEF ReplayInv, WireTypeOK, Ids
  <1>7. /\ wire' \in Seq(Nat)
        /\ \A e : OnWire(e) => OnWire(e)'
        /\ OnWire(0)' \/ \A e \in r.rows : OnWire(e)'
    <2>1. CASE wire' = Append(wire, 0)
      <3>1. /\ wire' \in Seq(Nat) /\ Len(wire') = Len(wire) + 1
            /\ \A k \in 1..Len(wire) : wire'[k] = wire[k]
            /\ wire'[Len(wire) + 1] = 0
        BY <1>6, <2>1, AppendProperties
      <3>2. ASSUME NEW e, OnWire(e) PROVE OnWire(e)'
        <4>1. PICK k \in 1..Len(wire) : wire[k] = e
          BY <3>2 DEF OnWire
        <4>2. k \in 1..Len(wire') /\ wire'[k] = e
          BY <1>6, <3>1, <4>1
        <4>3. QED
          BY <4>2 DEF OnWire
      <3>3. Len(wire) + 1 \in 1..Len(wire')
        BY <1>6, <3>1
      <3>4. OnWire(0)'
        BY <3>1, <3>3 DEF OnWire
      <3>5. QED
        BY <3>1, <3>2, <3>4
    <2>2. CASE wire' = wire \o Sorted(r.rows)
      <3>1. /\ Sorted(r.rows) \in Seq(r.rows)
            /\ \A e \in r.rows : \E k \in 1..Len(Sorted(r.rows)) : Sorted(r.rows)[k] = e
        BY <1>5, <1>6, SortedRows
      <3>2. Sorted(r.rows) \in Seq(Nat) /\ Len(Sorted(r.rows)) \in Nat
        <4>1. r.rows \subseteq Nat
          BY <1>5, <1>6
        <4>2. QED
          BY <3>1, <4>1, SeqMonotonic, LenProperties
      <3>3. /\ wire' \in Seq(Nat) /\ Len(wire') = Len(wire) + Len(Sorted(r.rows))
            /\ \A k \in 1..Len(wire') :
                 wire'[k] = IF k <= Len(wire) THEN wire[k] ELSE Sorted(r.rows)[k - Len(wire)]
        BY <1>6, <2>2, <3>2, ConcatProperties
      <3>4. ASSUME NEW e, OnWire(e) PROVE OnWire(e)'
        <4>1. PICK k \in 1..Len(wire) : wire[k] = e
          BY <3>4 DEF OnWire
        <4>2. k \in 1..Len(wire') /\ k <= Len(wire)
          BY <1>6, <3>2, <3>3, <4>1
        <4>3. wire'[k] = e
          BY <3>3, <4>1, <4>2
        <4>4. QED
          BY <4>2, <4>3 DEF OnWire
      <3>5. ASSUME NEW e \in r.rows PROVE OnWire(e)'
        <4>1. PICK k \in 1..Len(Sorted(r.rows)) : Sorted(r.rows)[k] = e
          BY <3>1
        <4>2. k \in Nat /\ 1 <= k /\ k <= Len(Sorted(r.rows))
          BY <3>2, <4>1
        <4> HIDE DEF r
        <4>3. Len(wire) + k \in 1..Len(wire') /\ ~(Len(wire) + k <= Len(wire)) /\ (Len(wire) + k) - Len(wire) = k
          BY <1>6, <3>2, <3>3, <4>2
        <4>4. wire'[Len(wire) + k] = Sorted(r.rows)[(Len(wire) + k) - Len(wire)]
          BY <3>3, <4>3, Zenon
        <4>5. wire'[Len(wire) + k] = e
          BY <4>1, <4>3, <4>4
        <4>6. QED
          BY <4>3, <4>5 DEF OnWire
      <3>6. QED
        BY <3>3, <3>4, <3>5
    <2>3. QED
      BY <1>2, <2>1, <2>2
  <1>8. WireTypeOK'
    BY <1>1, <1>4, <1>6, <1>7 DEF ReplayInv, WireTypeOK
  <1>9. LinkOK'
    BY <1>1, <1>4, <1>5, <1>6, Frames DEF ReplayInv, LinkOK
  <1>10. waived \subseteq waived'
    BY <1>2
  <1>11. LogOK'
    BY <1>1, <1>6, <1>10 DEF ReplayInv, LogOK
  <1>12. AnswerOK'
    BY <1>4, Frames DEF AnswerOK
  <1>13. ASSUME NEW e \in Ids, stage[e] = "routed", events[e] \in link.subs PROVE Covered(e)'
    <2>1. CASE Covered(e)
      BY <1>1, <1>7, <1>10, <2>1 DEF Covered
    <2>2. CASE e \in r.rows
      BY <1>7, <2>2 DEF Covered
    <2>3. CASE e < r.cursor \/ e <= r.horizon
      <3>1. CASE wire' = Append(wire, 0)
        <4>1. Len(wire') = Len(wire) + 1 /\ wire'[Len(wire) + 1] = 0
          BY <1>6, <3>1, AppendProperties
        <4>2. QED
          BY <1>6, <4>1 DEF Covered, OnWire
      <3>2. CASE waived' = waived \cup {f \in Ids : f < r.cursor \/ f <= r.horizon}
        BY <1>13, <2>3, <3>2 DEF Covered
      <3>3. QED
        BY <1>2, <3>1, <3>2
    <2>4. QED
      BY <1>1, <1>5, <1>13, <2>1, <2>2, <2>3 DEF ReplayInv, AnswerOK
  <1>14. QuietOK'
    BY <1>1, <1>4, <1>6, <1>13 DEF QuietOK
  <1>15. QED
    BY <1>8, <1>9, <1>11, <1>12, <1>14 DEF ReplayInv

\* Without an answer, nothing is promised on this connection.
LEMMA FailStep ==
  ASSUME ReplayInv, ResumeFails
  PROVE  ReplayInv'
  <1>1. /\ link.inbox \in {<<"resume">>, <<"answer">>} /\ link' = [Handled EXCEPT !.unanswered = TRUE]
        /\ UNCHANGED <<events, stage, log, expired, wire, client, drops, waived>>
    BY Frames, LinkType DEF ResumeFails, ReplayInv, Phases
  <1>2. /\ Handled.up = link.up /\ Handled.inbox = <<>> /\ Handled \in Connections
        /\ Handled.resume = [cursor |-> link.resume.cursor, rows |-> {}, horizon |-> 0]
    BY <1>1, HandledType DEF ReplayInv
  <1>3. /\ link'.up = link.up /\ link'.inbox = <<>> /\ link' \in Connections /\ link'.unanswered
        /\ link'.resume = [cursor |-> link.resume.cursor, rows |-> {}, horizon |-> 0]
    BY <1>1, <1>2
  <1>4. WireTypeOK'
    BY <1>1, <1>3 DEF ReplayInv, WireTypeOK, Ids
  <1>5. LinkOK'
    <2>1. link.up
      BY <1>1, Frames DEF ReplayInv, LinkOK, Down
    <2>2. link'.inbox # <<"subscribe">> /\ {} \subseteq Ids'
      BY <1>3, Frames
    <2>3. link'.resume.cursor = link.resume.cursor /\ link'.resume.rows = {}
      BY <1>3
    <2>4. QED
      BY <1>1, <1>3, <2>1, <2>2, <2>3 DEF ReplayInv, LinkOK
  <1>6. LogOK' /\ AnswerOK' /\ QuietOK'
    BY <1>1, <1>3, Frames DEF ReplayInv, LogOK, AnswerOK, QuietOK, Ids
  <1>7. QED
    BY <1>4, <1>5, <1>6 DEF ReplayInv

\* The client takes a frame off the wire: it has seen the event, or refreshes.
LEMMA ReceiveStep ==
  ASSUME ReplayInv, Receive
  PROVE  ReplayInv'
  <1> DEFINE h == Head(wire)
  <1>1. /\ wire # <<>> /\ wire' = Tail(wire)
        /\ UNCHANGED <<events, stage, log, expired, link, drops>>
        /\ \/ h = 0 /\ waived' = waived \cup Ids /\ UNCHANGED client
           \/ h # 0 /\ client' = [client EXCEPT !.cursor = h, !.seen = @ \cup {h}] /\ UNCHANGED waived
    BY DEF Receive
  <1>2. wire \in Seq(Nat) /\ Ids' = Ids /\ client \in [cursor : Nat, hadConnection : BOOLEAN, seen : SUBSET Nat]
    BY <1>1 DEF ReplayInv, WireTypeOK, Ids
  <1>3. /\ h \in Nat /\ h = wire[1] /\ wire' \in Seq(Nat) /\ Len(wire') = Len(wire) - 1 /\ Len(wire) \in Nat \ {0}
        /\ \A k \in 1..Len(wire') : wire'[k] = wire[k + 1]
    BY <1>1, <1>2, HeadTailProperties, EmptySeq
  <1>4. \A e : OnWire(e) => e = h \/ OnWire(e)'
    <2>1. ASSUME NEW e, OnWire(e), e # h PROVE OnWire(e)'
      <3>1. PICK k \in 1..Len(wire) : wire[k] = e
        BY <2>1 DEF OnWire
      <3>2. k # 1 /\ k - 1 \in 1..Len(wire')
        BY <1>3, <2>1, <3>1
      <3>3. wire'[k - 1] = e
        BY <1>3, <3>1, <3>2
      <3>4. QED
        BY <3>2, <3>3 DEF OnWire
    <2>2. QED
      BY <2>1
  <1>5. /\ client' \in [cursor : Nat, hadConnection : BOOLEAN, seen : SUBSET Nat]
        /\ client'.hadConnection = client.hadConnection /\ client.seen \subseteq client'.seen
        /\ client'.cursor = client.cursor \/ (client'.cursor = h /\ h \in client'.seen)
        /\ h # 0 => h \in client'.seen
    <2>1. CASE h = 0
      <3>1. client' = client
        BY <1>1, <2>1
      <3>2. QED
        BY <1>2, <2>1, <3>1
    <2>2. CASE h # 0
      <3>1. client' = [client EXCEPT !.cursor = h, !.seen = client.seen \cup {h}]
        BY <1>1, <2>2
      <3>2. client.seen \cup {h} \in SUBSET Nat /\ h \in Nat
        BY <1>2, <1>3
      <3> HIDE DEF h
      <3>3. QED
        BY <1>2, <3>1, <3>2
    <2>3. QED
      BY <2>1, <2>2
  <1>6. link.up /\ client.hadConnection
    BY <1>1 DEF ReplayInv, LinkOK
  <1>7. WireTypeOK'
    BY <1>1, <1>2, <1>3, <1>5 DEF ReplayInv, WireTypeOK
  <1>8. LinkOK'
    BY <1>1, <1>2, <1>5, <1>6 DEF ReplayInv, LinkOK
  <1>9. LogOK'
    BY <1>1, <1>2 DEF ReplayInv, LogOK
  <1>10. ASSUME NEW e \in Ids, Covered(e) PROVE Covered(e)'
    <2>1. CASE h = 0
      BY <1>1, <1>2, <1>10, <2>1 DEF Covered
    <2>2. CASE h # 0
      BY <1>1, <1>4, <1>5, <1>10, <2>2 DEF Covered
    <2>3. QED
      BY <2>1, <2>2
  <1>11. AnswerOK' /\ QuietOK'
    BY <1>1, <1>2, <1>10 DEF ReplayInv, AnswerOK, QuietOK
  <1>12. QED
    BY <1>7, <1>8, <1>9, <1>11 DEF ReplayInv

LEMMA ReplayStep == ReplayInv /\ [ReplayNext]_ReplayVars => ReplayInv'
  <1> SUFFICES ASSUME ReplayInv, [ReplayNext]_ReplayVars PROVE ReplayInv'
    OBVIOUS
  <1>1. CASE UNCHANGED ReplayVars
    <2>1. UNCHANGED <<events, stage, log, expired, link, wire, client, waived>> /\ Ids' = Ids
      BY <1>1 DEF ReplayVars, Ids
    <2>2. WireTypeOK' /\ LinkOK' /\ LogOK'
      BY <2>1 DEF ReplayInv, WireTypeOK, LinkOK, LogOK
    <2>3. \A e : Covered(e)' <=> Covered(e)
      BY <2>1 DEF Covered, OnWire
    <2>4. AnswerOK' /\ QuietOK'
      BY <2>1, <2>3 DEF ReplayInv, AnswerOK, QuietOK
    <2>5. QED
      BY <2>2, <2>4 DEF ReplayInv
  <1>2. QED
    BY <1>1, PublishStep, PersistStep, RouteStep, AgeStep, ConnectStep, DropStep, SubscribeStep,
       SelectStep, FailStep, AnswerStep, ReceiveStep
    DEF ReplayNext

LEMMA ReplayInvariant == ReplaySpec => []ReplayInv
  BY ReplayInitial, ReplayStep, PTL DEF ReplaySpec

\* No silent gap, whatever is published, lost, expired or replayed, and in
\* whatever order the publishes end: a connected client that has handled all it
\* was sent, and whose resume, if there was one, handleResume could answer, has
\* seen every event of the scopes granted that the code does not give up on.
THEOREM NoSilentGapHolds == ReplaySpec => []NoSilentGap
  BY ReplayInvariant, ReplayGapless, PTL

(***************************************************************************)
(* Presence                                                                *)
(***************************************************************************)

CountTypeOK ==
  /\ setup \in [Conn -> {"none", "inserting", "counting", "done"}]
  /\ teardown \in [Conn -> {"none", "deleting", "uncounting", "done"}]

\* A connection in the table has been accepted and not yet removed, one that
\* was never accepted is not torn down, and one that was removed before its
\* setup was done is remembered.
SetupPrecedesTeardown ==
  \A c \in Conn :
    /\ c \in clients => setup[c] # "none" /\ teardown[c] = "none"
    /\ setup[c] = "none" => teardown[c] = "none"
    /\ setup[c] # "done" /\ teardown[c] # "none" => c \in early

CountInv == CountTypeOK /\ SetupPrecedesTeardown /\ CountsTheConnected

LEMMA CountInitial == PresenceInit => CountInv
  BY DEF PresenceInit, CountInv, CountTypeOK, SetupPrecedesTeardown, CountsTheConnected

\* What an announcement or the watching page does leaves the count alone.
LEMMA CountUnchanged ==
  ASSUME CountInv, UNCHANGED <<clients, counted, setup, teardown, early>>
  PROVE  CountInv'
  BY DEF CountInv, CountTypeOK, SetupPrecedesTeardown, CountsTheConnected

PageStep == ReadPresence \/ ShowFetched \/ FetchFails \/ SubscribeToOrg

LEMMA CountStep == CountInv /\ [PresenceNext]_PresenceVars => CountInv'
  <1> SUFFICES ASSUME CountInv, [PresenceNext]_PresenceVars PROVE CountInv'
    OBVIOUS
  <1> USE DEF CountInv, CountTypeOK, SetupPrecedesTeardown, CountsTheConnected
  <1>1. ASSUME NEW c \in Conn, AcceptConnection(c) PROVE CountInv'
    BY <1>1 DEF AcceptConnection
  <1>2. ASSUME NEW c \in Conn, InsertRow(c) PROVE CountInv'
    BY <1>2 DEF InsertRow
  <1>3. ASSUME NEW c \in Conn, OnClientOnline(c) PROVE CountInv'
    BY <1>3 DEF OnClientOnline
  <1>4. ASSUME NEW c \in Conn, RemoveClient(c) PROVE CountInv'
    BY <1>4 DEF RemoveClient
  <1>5. ASSUME NEW c \in Conn, DeleteRow(c) PROVE CountInv'
    BY <1>5 DEF DeleteRow
  <1>6. ASSUME NEW c \in Conn, OnClientOffline(c) PROVE CountInv'
    BY <1>6 DEF OnClientOffline
  <1>7. ASSUME NEW c \in Conn, NEW k \in Kinds, Emit(c, k) \/ Route(c, k) PROVE CountInv'
    BY <1>7, CountUnchanged DEF Emit, Route
  <1>8. CASE PageStep
    BY <1>8, CountUnchanged DEF PageStep, ReadPresence, ShowFetched, FetchFails, SubscribeToOrg, ConnectionVars
  <1>9. CASE UNCHANGED PresenceVars
    BY <1>9, CountUnchanged DEF PresenceVars
  <1>10. QED
    BY <1>1, <1>2, <1>3, <1>4, <1>5, <1>6, <1>7, <1>8, <1>9 DEF PresenceNext, PageStep

LEMMA CountInvariant == PresenceSpec => []CountInv
  BY CountInitial, CountStep, PTL DEF PresenceSpec

\* However many connections open and close, and in whatever order their awaited
\* steps end, the user is counted by exactly those that are set up and not torn
\* down, except that one which closed during its setup may stay counted.
THEOREM CountsTheConnectedHolds == PresenceSpec => []CountsTheConnected
  <1>1. CountInv => CountsTheConnected
    BY DEF CountInv
  <1>2. QED
    BY <1>1, CountInvariant, PTL


------------------------------------------------------------------------------
(***************************************************************************)
(* What the members see of a user                                          *)
(***************************************************************************)
Outstanding(c, k) == announcing[c][k] # "none"
NoneOutstanding == \A c \in Conn : \A k \in Kinds : ~Outstanding(c, k)

\* A connection is in the client table from its accept to the start of its teardown.
Opened ==
  /\ \A c \in Conn : c \in clients <=> setup[c] # "none" /\ teardown[c] = "none"
  /\ \A c \in Conn : setup[c] = "none" => teardown[c] = "none"

\* While no connection has closed during its setup, a teardown follows a setup
\* that is done, and the user is counted by what is between the two.
SetUpFirst ==
  early = {} =>
    /\ \A c \in Conn : teardown[c] # "none" => setup[c] = "done"
    /\ \A c \in Conn : c \in counted <=> setup[c] = "done" /\ teardown[c] # "done"

RowsFollow ==
  early = {} /\ ~disturbed =>
    \A c \in Conn : c \in rows <=> setup[c] \in {"counting", "done"} /\ teardown[c] \in {"none", "deleting"}

\* While nothing has been disturbed: the map says whether the user is counted;
\* at most one announcement is under way, of what the map says; and without one a
\* page that is not stale shows what the map says, or has it in its answer.
MapTells ==
  ~disturbed =>
    /\ presence = (IF counted = {} THEN "offline" ELSE "online")
    /\ \A c \in Conn : \A k \in Kinds : Outstanding(c, k) => k = presence
    /\ \A c, d \in Conn : \A k, l \in Kinds : Outstanding(c, k) /\ Outstanding(d, l) => c = d
    /\ NoneOutstanding /\ ~stale =>
         (fetch \in Kinds => fetch = presence) /\ (fetch = "done" => watcher = presence)

AgreeInv == PresenceTypeOK /\ Opened /\ SetUpFirst /\ RowsFollow /\ MapTells

LEMMA BeginMoves ==
  ASSUME PresenceTypeOK, NEW c \in Conn, NEW k \in Kinds, Begin(c, k)
  PROVE  /\ announcing' \in [Conn -> [Kinds -> {"none", "lookup", "storing"}]]
         /\ \A d \in Conn : \A l \in Kinds : Outstanding(d, l)' <=> Outstanding(d, l) \/ (d = c /\ l = k)
         /\ presence' = k /\ disturbed' \in BOOLEAN
         /\ ~disturbed' => ~disturbed /\ NoneOutstanding
  BY DEF PresenceTypeOK, Begin, Outstanding, NoneOutstanding, Silent

LEMMA AnnouncedMoves ==
  ASSUME PresenceTypeOK, NEW c \in Conn, NEW k \in Kinds,
         NEW x \in {"none", "storing"}, announcing' = [announcing EXCEPT ![c][k] = x]
  PROVE  /\ announcing' \in [Conn -> [Kinds -> {"none", "lookup", "storing"}]]
         /\ \A d \in Conn : \A l \in Kinds : d # c \/ l # k => (Outstanding(d, l)' <=> Outstanding(d, l))
         /\ Outstanding(c, k)' <=> x = "storing"
  BY DEF PresenceTypeOK, Outstanding

LEMMA EmitMoves ==
  ASSUME PresenceTypeOK, NEW c \in Conn, NEW k \in Kinds, Emit(c, k)
  PROVE  \E x \in {"none", "storing"} :
           /\ Outstanding(c, k) /\ announcing' = [announcing EXCEPT ![c][k] = x] /\ disturbed' \in BOOLEAN
           /\ ~disturbed' => ~disturbed /\ x = "storing" /\ presence' = k
           /\ presence' \in Kinds
           /\ UNCHANGED <<clients, rows, counted, setup, teardown, watcher, fetch, listening, early, stale>>
  BY DEF PresenceTypeOK, Emit, Outstanding, PageVars

LEMMA RouteMoves ==
  ASSUME PresenceTypeOK, NEW c \in Conn, NEW k \in Kinds, Route(c, k)
  PROVE  /\ Outstanding(c, k) /\ announcing' = [announcing EXCEPT ![c][k] = "none"]
         /\ watcher' = (IF listening THEN k ELSE watcher) /\ watcher' \in Kinds /\ stale' \in BOOLEAN
         /\ ~stale' => (fetch \in Kinds => fetch = k) /\ (fetch = "done" => watcher' = k)
         /\ UNCHANGED <<clients, rows, counted, presence, setup, teardown, fetch, listening, early, disturbed>>
  BY DEF PresenceTypeOK, Route, Outstanding

LEMMA QuietlyMoves ==
  ASSUME PresenceTypeOK, Quietly
  PROVE  /\ announcing' = announcing /\ presence' = presence /\ disturbed' = disturbed
         /\ NoneOutstanding' <=> NoneOutstanding
         /\ \A d \in Conn : \A l \in Kinds : Outstanding(d, l)' <=> Outstanding(d, l)
  BY DEF Quietly, Outstanding, NoneOutstanding

LEMMA AgreeInitial == PresenceInit => AgreeInv
<1> SUFFICES ASSUME PresenceInit PROVE AgreeInv
  OBVIOUS
<1>1. PresenceTypeOK
  BY DEF PresenceInit, PresenceTypeOK, Kinds, Silent
<1>2. Opened /\ SetUpFirst /\ RowsFollow
  BY DEF PresenceInit, Opened, SetUpFirst, RowsFollow
<1>3. \A c \in Conn : \A k \in Kinds : ~Outstanding(c, k)
  BY DEF PresenceInit, Outstanding, Silent
<1>4. MapTells
  BY <1>3 DEF PresenceInit, MapTells, Kinds
<1> QED  BY <1>1, <1>2, <1>4 DEF AgreeInv

LEMMA AgreeTypes == PresenceTypeOK /\ [PresenceNext]_PresenceVars => PresenceTypeOK'
<1> SUFFICES ASSUME PresenceTypeOK, [PresenceNext]_PresenceVars PROVE PresenceTypeOK'
  OBVIOUS
<1>1. CASE UNCHANGED PresenceVars
  BY <1>1 DEF PresenceTypeOK, PresenceVars
<1>2. ASSUME NEW c \in Conn, AcceptConnection(c) \/ InsertRow(c) \/ RemoveClient(c) \/ DeleteRow(c)
      PROVE  PresenceTypeOK'
  BY <1>2 DEF PresenceTypeOK, AcceptConnection, InsertRow, RemoveClient, DeleteRow, PageVars
<1>3. ASSUME NEW c \in Conn, OnClientOnline(c) PROVE PresenceTypeOK'
  <2>1. CASE Begin(c, "online")
    BY <1>3, <2>1, BeginMoves DEF PresenceTypeOK, OnClientOnline, Kinds, PageVars
  <2>2. CASE Quietly
    BY <1>3, <2>2 DEF PresenceTypeOK, OnClientOnline, Quietly, PageVars
  <2> QED  BY <1>3, <2>1, <2>2 DEF OnClientOnline
<1>4. ASSUME NEW c \in Conn, OnClientOffline(c) PROVE PresenceTypeOK'
  <2>1. CASE Begin(c, "offline")
    BY <1>4, <2>1, BeginMoves DEF PresenceTypeOK, OnClientOffline, Kinds, PageVars
  <2>2. CASE Quietly
    BY <1>4, <2>2 DEF PresenceTypeOK, OnClientOffline, Quietly, PageVars
  <2> QED  BY <1>4, <2>1, <2>2 DEF OnClientOffline
<1>5. ASSUME NEW c \in Conn, NEW k \in Kinds, Emit(c, k) PROVE PresenceTypeOK'
  BY <1>5, EmitMoves, AnnouncedMoves DEF PresenceTypeOK
<1>7. ASSUME NEW c \in Conn, NEW k \in Kinds, Route(c, k) PROVE PresenceTypeOK'
  BY <1>7, RouteMoves, AnnouncedMoves DEF PresenceTypeOK
<1>6. CASE PageStep
  BY <1>6 DEF PresenceTypeOK, PageStep, ReadPresence, ShowFetched, FetchFails, SubscribeToOrg, ConnectionVars, Kinds
<1> QED  BY <1>1, <1>2, <1>3, <1>4, <1>5, <1>6, <1>7 DEF PresenceNext, PageStep

LEMMA OpenedStep == PresenceTypeOK /\ Opened /\ SetUpFirst /\ [PresenceNext]_PresenceVars => Opened' /\ SetUpFirst'
<1> SUFFICES ASSUME PresenceTypeOK, Opened, SetUpFirst, [PresenceNext]_PresenceVars
             PROVE  Opened' /\ SetUpFirst'
  OBVIOUS
<1>1. CASE UNCHANGED PresenceVars
  BY <1>1 DEF Opened, SetUpFirst, PresenceVars
<1>2. ASSUME NEW c \in Conn, AcceptConnection(c) \/ InsertRow(c) PROVE Opened' /\ SetUpFirst'
  BY <1>2 DEF PresenceTypeOK, Opened, SetUpFirst, AcceptConnection, InsertRow
<1>3. ASSUME NEW c \in Conn, RemoveClient(c) PROVE Opened' /\ SetUpFirst'
  BY <1>3 DEF PresenceTypeOK, Opened, SetUpFirst, RemoveClient
<1>4. ASSUME NEW c \in Conn, DeleteRow(c) PROVE Opened' /\ SetUpFirst'
  BY <1>4 DEF PresenceTypeOK, Opened, SetUpFirst, DeleteRow
<1>5. ASSUME NEW c \in Conn, OnClientOnline(c) PROVE Opened' /\ SetUpFirst'
  BY <1>5 DEF PresenceTypeOK, Opened, SetUpFirst, OnClientOnline
<1>6. ASSUME NEW c \in Conn, OnClientOffline(c) PROVE Opened' /\ SetUpFirst'
  BY <1>6 DEF PresenceTypeOK, Opened, SetUpFirst, OnClientOffline
<1>7. ASSUME NEW c \in Conn, NEW k \in Kinds, Emit(c, k) \/ Route(c, k) PROVE Opened' /\ SetUpFirst'
  BY <1>7 DEF Opened, SetUpFirst, Emit, Route
<1>8. CASE PageStep
  BY <1>8 DEF Opened, SetUpFirst, PageStep, ReadPresence, ShowFetched, FetchFails, SubscribeToOrg, ConnectionVars
<1> QED  BY <1>1, <1>2, <1>3, <1>4, <1>5, <1>6, <1>7, <1>8 DEF PresenceNext, PageStep

LEMMA RowsStep ==
  PresenceTypeOK /\ Opened /\ SetUpFirst /\ RowsFollow /\ [PresenceNext]_PresenceVars => RowsFollow'
<1> SUFFICES ASSUME PresenceTypeOK, Opened, SetUpFirst, RowsFollow, [PresenceNext]_PresenceVars
             PROVE  RowsFollow'
  OBVIOUS
<1>1. CASE UNCHANGED PresenceVars
  BY <1>1 DEF RowsFollow, PresenceVars
<1>2. ASSUME NEW c \in Conn, AcceptConnection(c) \/ InsertRow(c) PROVE RowsFollow'
  BY <1>2 DEF PresenceTypeOK, Opened, SetUpFirst, RowsFollow, AcceptConnection, InsertRow
<1>3. ASSUME NEW c \in Conn, RemoveClient(c) PROVE RowsFollow'
  BY <1>3 DEF PresenceTypeOK, Opened, RowsFollow, RemoveClient
<1>4. ASSUME NEW c \in Conn, DeleteRow(c) PROVE RowsFollow'
  BY <1>4 DEF PresenceTypeOK, RowsFollow, DeleteRow
<1>5. ASSUME NEW c \in Conn, OnClientOnline(c) \/ OnClientOffline(c) PROVE RowsFollow'
  <2>1. ~disturbed' => ~disturbed
    BY <1>5 DEF OnClientOnline, OnClientOffline, Begin, Quietly
  <2> QED  BY <1>5, <2>1 DEF PresenceTypeOK, RowsFollow, OnClientOnline, OnClientOffline
<1>6. ASSUME NEW c \in Conn, NEW k \in Kinds, Emit(c, k) \/ Route(c, k) PROVE RowsFollow'
  BY <1>6 DEF RowsFollow, Emit, Route
<1>7. CASE PageStep
  BY <1>7 DEF RowsFollow, PageStep, ReadPresence, ShowFetched, FetchFails, SubscribeToOrg, ConnectionVars
<1> QED  BY <1>1, <1>2, <1>3, <1>4, <1>5, <1>6, <1>7 DEF PresenceNext, PageStep

LEMMA TellsUnchanged ==
  ASSUME MapTells, UNCHANGED <<presence, counted, announcing>>, UNCHANGED PageVars, ~disturbed' => ~disturbed
  PROVE  MapTells'
<1>1. \A c \in Conn : \A k \in Kinds : Outstanding(c, k)' <=> Outstanding(c, k)
  BY DEF Outstanding
<1> QED  BY <1>1 DEF MapTells, NoneOutstanding, PageVars

\* An announcement begins when there is none, as the user's count leaves or reaches none.
LEMMA TellsBegins ==
  ASSUME PresenceTypeOK, MapTells, NEW c \in Conn, NEW k \in Kinds, Begin(c, k),
         k = IF counted' = {} THEN "offline" ELSE "online"
  PROVE  MapTells'
<1>1. /\ \A d \in Conn : \A l \in Kinds : Outstanding(d, l)' <=> Outstanding(d, l) \/ (d = c /\ l = k)
      /\ presence' = k /\ (~disturbed' => NoneOutstanding)
  BY BeginMoves
<1>2. ~NoneOutstanding'
  BY <1>1 DEF NoneOutstanding
<1> QED  BY <1>1, <1>2 DEF MapTells, NoneOutstanding

LEMMA TellsStep == PresenceTypeOK /\ MapTells /\ [PresenceNext]_PresenceVars => MapTells'
<1> SUFFICES ASSUME PresenceTypeOK, MapTells, [PresenceNext]_PresenceVars PROVE MapTells'
  OBVIOUS
<1>1. CASE UNCHANGED PresenceVars
  BY <1>1, TellsUnchanged DEF PresenceVars, PageVars
<1>2. ASSUME NEW c \in Conn, AcceptConnection(c) \/ InsertRow(c) \/ RemoveClient(c) \/ DeleteRow(c)
      PROVE  MapTells'
  BY <1>2, TellsUnchanged DEF AcceptConnection, InsertRow, RemoveClient, DeleteRow
<1>3. ASSUME NEW c \in Conn, OnClientOnline(c) PROVE MapTells'
  <2>1. counted' = counted \cup {c} /\ UNCHANGED <<watcher, fetch, stale>>
    BY <1>3 DEF OnClientOnline, PageVars
  <2>2. CASE counted = {}
    <3>1. Begin(c, "online") /\ "online" \in Kinds /\ counted' # {}
      BY <1>3, <2>1, <2>2 DEF OnClientOnline, Kinds
    <3> QED  BY <3>1, TellsBegins
  <2>3. CASE counted # {}
    <3>1. Quietly /\ counted' # {}
      BY <1>3, <2>1, <2>3 DEF OnClientOnline
    <3> QED  BY <2>1, <2>3, <3>1, QuietlyMoves DEF MapTells
  <2> QED  BY <2>2, <2>3
<1>4. ASSUME NEW c \in Conn, OnClientOffline(c) PROVE MapTells'
  <2>1. counted' = counted \ {c} /\ UNCHANGED <<watcher, fetch, stale>>
    BY <1>4 DEF OnClientOffline, PageVars
  <2>2. CASE counted = {c}
    <3>1. Begin(c, "offline") /\ "offline" \in Kinds /\ counted' = {}
      BY <1>4, <2>1, <2>2 DEF OnClientOffline, Kinds
    <3> QED  BY <3>1, TellsBegins
  <2>3. CASE counted # {c}
    <3>1. Quietly /\ (counted' = {} <=> counted = {})
      BY <1>4, <2>1, <2>3 DEF OnClientOffline
    <3> QED  BY <2>1, <3>1, QuietlyMoves DEF MapTells
  <2> QED  BY <2>2, <2>3
<1>5. ASSUME NEW c \in Conn, NEW k \in Kinds, Emit(c, k) \/ Route(c, k) PROVE MapTells'
  <2>0. ~disturbed /\ Outstanding(c, k) =>
          k = presence /\ \A d \in Conn : \A l \in Kinds : Outstanding(d, l) => d = c /\ l = k
    BY DEF MapTells
  <2>1. CASE Emit(c, k)
    <3>1. PICK x \in {"none", "storing"} :
           /\ Outstanding(c, k) /\ announcing' = [announcing EXCEPT ![c][k] = x]
           /\ ~disturbed' => ~disturbed /\ x = "storing" /\ presence' = k
           /\ UNCHANGED <<counted, watcher, fetch, stale>>
      BY <2>1, EmitMoves
    <3>2. ~disturbed' => /\ ~NoneOutstanding'
                         /\ \A d \in Conn : \A l \in Kinds : Outstanding(d, l)' => Outstanding(d, l)
      BY <3>1, AnnouncedMoves DEF NoneOutstanding
    <3> QED  BY <2>0, <3>1, <3>2 DEF MapTells
  <2>2. CASE Route(c, k)
    <3>1. /\ Outstanding(c, k) /\ announcing' = [announcing EXCEPT ![c][k] = "none"]
          /\ ~stale' => (fetch \in Kinds => fetch = k) /\ (fetch = "done" => watcher' = k)
          /\ UNCHANGED <<counted, presence, fetch, disturbed>>
      BY <2>2, RouteMoves
    <3>2. \A d \in Conn : \A l \in Kinds : Outstanding(d, l)' => Outstanding(d, l)
      BY <3>1, AnnouncedMoves
    <3>3. ~disturbed' /\ ~stale' =>
            (fetch' \in Kinds => fetch' = presence') /\ (fetch' = "done" => watcher' = presence')
      BY <2>0, <3>1
    <3>4. ~disturbed' =>
            /\ presence' = (IF counted' = {} THEN "offline" ELSE "online")
            /\ \A d \in Conn : \A l \in Kinds : Outstanding(d, l)' => l = presence'
            /\ \A d, e \in Conn : \A l, m \in Kinds : Outstanding(d, l)' /\ Outstanding(e, m)' => d = e
      BY <3>1, <3>2 DEF MapTells
    <3> QED  BY <3>3, <3>4, Zenon DEF MapTells
  <2> QED  BY <1>5, <2>1, <2>2
<1>6. CASE PageStep
  <2>1. UNCHANGED <<presence, counted, announcing, disturbed>>
    BY <1>6 DEF PageStep, ReadPresence, ShowFetched, FetchFails, SubscribeToOrg, ConnectionVars
  <2>2. (\A c \in Conn : \A k \in Kinds : Outstanding(c, k)' <=> Outstanding(c, k)) /\ NoneOutstanding' = NoneOutstanding
    BY <2>1 DEF Outstanding, NoneOutstanding
  <2>3. ~disturbed /\ NoneOutstanding /\ ~stale' =>
          (fetch' \in Kinds => fetch' = presence) /\ (fetch' = "done" => watcher' = presence)
    <3>1. CASE ReadPresence
      BY <3>1 DEF ReadPresence, PresenceTypeOK, Kinds
    <3>2. CASE ShowFetched
      BY <3>2 DEF MapTells, ShowFetched, Kinds
    <3>3. CASE FetchFails
      BY <3>3 DEF FetchFails
    <3>4. CASE SubscribeToOrg
      BY <3>4 DEF MapTells, SubscribeToOrg
    <3> QED  BY <1>6, <3>1, <3>2, <3>3, <3>4 DEF PageStep
  <2> QED  BY <2>1, <2>2, <2>3 DEF MapTells
<1> QED  BY <1>1, <1>2, <1>3, <1>4, <1>5, <1>6 DEF PresenceNext, PageStep

LEMMA AgreeInvariant == PresenceSpec => []AgreeInv
<1>1. AgreeInv /\ [PresenceNext]_PresenceVars => AgreeInv'
  BY AgreeTypes, OpenedStep, RowsStep, TellsStep DEF AgreeInv
<1> QED  BY <1>1, AgreeInitial, PTL DEF PresenceSpec

\* Once everything has settled, for any number of tabs opened and closed in any
\* order: the engine's map and the session rows agree with the open connections,
\* unless a connection closed during its setup, announcements overlapped, or the
\* database failed; and so does the page that has fetched, unless it was given the
\* last announcement neither by event nor by its fetch.
THEOREM PresenceAgreesWhenQuietHolds == PresenceSpec => []PresenceAgreesWhenQuiet
<1>1. AgreeInv => PresenceAgreesWhenQuiet
  <2> SUFFICES ASSUME AgreeInv,
                      clients = {c \in Conn : setup[c] = "done" /\ teardown[c] = "none"},
                      \A c \in Conn : announcing[c] = Silent /\ teardown[c] \in {"none", "done"},
                      early = {}, ~disturbed
               PROVE  /\ presence = (IF clients = {} THEN "offline" ELSE "online")
                      /\ rows = clients
                      /\ fetch = "done" /\ ~stale => watcher = presence
    BY DEF PresenceAgreesWhenQuiet
  <2>1. counted = clients
    BY DEF AgreeInv, PresenceTypeOK, SetUpFirst
  <2>2. rows = clients
    BY DEF AgreeInv, PresenceTypeOK, Opened, RowsFollow
  <2>3. NoneOutstanding
    BY DEF NoneOutstanding, Outstanding, Silent
  <2>4. MapTells
    BY DEF AgreeInv
  <2>5. presence = (IF counted = {} THEN "offline" ELSE "online")
    BY <2>4, Zenon DEF MapTells
  <2>6. fetch = "done" /\ ~stale => watcher = presence
    BY <2>3, <2>4, Zenon DEF MapTells
  <2> QED  BY <2>1, <2>2, <2>5, <2>6
<1> QED  BY <1>1, AgreeInvariant, PTL

(***************************************************************************)
(* Presentations                                                           *)
(***************************************************************************)
PresCalls ==
  [at : {"idle", "start_write", "egress", "start_store", "cancel_write", "end_write", "close",
         "pull", "register", "insert", "settle"},
   e : Egress \cup {"none"}, keyed : BOOLEAN, settled : {"none", "active", "ended", "failed"}]

PresTypeInv ==
  /\ PresTypeOK /\ IsFiniteSet(recordings)
  /\ presCall \in [Proc -> PresCalls]
  /\ \A p \in Proc : presCall[p].at \in {"register", "insert"} => presCall[p].e \in Egress

\* Call p is now at c, the others are where they were.
PresMoved(p, c) ==
  /\ presCall' \in [Proc -> PresCalls]
  /\ \A q \in Proc : presCall'[q] = IF q = p THEN c ELSE presCall[q]

LEMMA PresMove ==
  ASSUME PresTypeInv, NEW p \in Proc, NEW c \in PresCalls, presCall' = [presCall EXCEPT ![p] = c]
  PROVE  PresMoved(p, c)
  BY DEF PresTypeInv, PresMoved

LEMMA PresIdleType ==
  PresIdle \in PresCalls /\ PresIdle.at = "idle" /\ PresIdle.e = "none" /\ PresIdle.settled = "none"
  BY DEF PresIdle, PresCalls

LEMMA PresGotoMoves ==
  ASSUME PresTypeInv, NEW p \in Proc,
         NEW at \in {"start_write", "egress", "start_store", "cancel_write", "end_write", "close", "pull"},
         PresGoto(p, at)
  PROVE  \E c \in PresCalls : PresMoved(p, c) /\ c.at = at /\ c.e = presCall[p].e
                                /\ c.keyed = presCall[p].keyed /\ c.settled = presCall[p].settled
  <1> DEFINE c == [presCall[p] EXCEPT !.at = at]
  <1>1. presCall[p] \in PresCalls
    BY DEF PresTypeInv
  <1>2. c \in PresCalls /\ c.at = at /\ c.e = presCall[p].e
        /\ c.keyed = presCall[p].keyed /\ c.settled = presCall[p].settled
    BY <1>1 DEF PresCalls
  <1>3. presCall' = [presCall EXCEPT ![p] = c]
    BY DEF PresGoto
  <1> HIDE DEF c
  <1>4. QED
    BY <1>2, <1>3, PresMove

LEMMA PresReturnMoves ==
  ASSUME PresTypeInv, NEW p \in Proc, PresReturn(p)
  PROVE  PresMoved(p, PresIdle)
  BY PresIdleType, PresMove DEF PresReturn

\* The call that goes on to settle the recording's status.
LEMMA SettlingType ==
  ASSUME NEW st \in {"none", "active", "ended", "failed"}
  PROVE  Settling(st) \in PresCalls /\ Settling(st).at = "settle" /\ Settling(st).settled = st
  BY DEF Settling, PresIdle, PresCalls

\* startRoomEgress leaves the call with the egress it was told of, if any.
LEMMA StartRoomEgressMoves ==
  ASSUME PresTypeInv, NEW p \in Proc, StartRoomEgress(p)
  PROVE  /\ presCall[p].at = "egress"
         /\ \E c \in PresCalls :
              /\ PresMoved(p, c) /\ c.at = "start_store" /\ c.settled = presCall[p].settled
              /\ \/ \E e \in Egress :
                      /\ egress[e] = "none"
                      /\ egress' = [egress EXCEPT ![e] = "active"]
                      /\ ~blind' => c.e = e
                      /\ blind => blind'
                 \/ UNCHANGED <<egress, blind>>
         /\ UNCHANGED <<status, egressRow, recordings, twice, deleted>>
  <1>1. presCall[p] \in PresCalls
    BY DEF PresTypeInv
  <1>2. CASE PresGoto(p, "start_store") /\ UNCHANGED <<egress, blind>>
    BY <1>2, PresGotoMoves DEF StartRoomEgress
  <1>3. ASSUME NEW e \in Egress, NEW answered \in BOOLEAN, egress[e] = "none",
               egress' = [egress EXCEPT ![e] = "active"],
               presCall' = [presCall EXCEPT ![p].at = "start_store",
                                            ![p].e = IF answered THEN e ELSE "none"],
               blind' = (blind \/ ~answered)
        PROVE  \E c \in PresCalls :
                 /\ PresMoved(p, c) /\ c.at = "start_store" /\ c.settled = presCall[p].settled
                 /\ ~blind' => c.e = e
                 /\ blind => blind'
    <2> DEFINE d == IF answered THEN e ELSE "none"
    <2>1. d \in Egress \cup {"none"} /\ (answered => d = e)
      OBVIOUS
    <2>2. presCall' = [presCall EXCEPT ![p].at = "start_store", ![p].e = d]
      BY <1>3
    <2> HIDE DEF d
    <2> DEFINE c1 == [presCall[p] EXCEPT !.at = "start_store"]
    <2> DEFINE c == [c1 EXCEPT !.e = d]
    <2>3. c1 \in PresCalls /\ c1.at = "start_store" /\ c1.settled = presCall[p].settled
      BY <1>1 DEF PresCalls
    <2>4. presCall' = [presCall EXCEPT ![p] = c]
      BY <2>2 DEF PresTypeInv
    <2> HIDE DEF c1
    <2>5. c \in PresCalls /\ c.at = "start_store" /\ c.settled = presCall[p].settled /\ c.e = d
      BY <2>1, <2>3 DEF PresCalls
    <2> HIDE DEF c
    <2>6. PresMoved(p, c)
      BY <2>4, <2>5, PresMove
    <2>7. ~blind' => answered
      BY <1>3
    <2>8. (~blind' => c.e = e) /\ (blind => blind')
      BY <1>3, <2>1, <2>5, <2>7
    <2>9. QED
      BY <2>5, <2>6, <2>8
  <1>4. presCall[p].at = "egress" /\ UNCHANGED <<status, egressRow, recordings, twice, deleted>>
    BY DEF StartRoomEgress
  <1>5. QED
    BY <1>2, <1>3, <1>4 DEF StartRoomEgress

\* What PullRecording goes on with: nothing, a settlement, or the file to register.
LEMMA PullRecordingMoves ==
  ASSUME PresTypeInv, NEW p \in Proc, PullRecording(p)
  PROVE  /\ presCall[p].at = "pull"
         /\ \E c \in PresCalls :
              /\ PresMoved(p, c)
              /\ \/ c = PresIdle /\ UNCHANGED twice
                 \/ c.at = "settle" /\ c.settled = egressRow.st /\ (twice => twice')
                 \/ \E e \in Egress :
                      /\ egress[e] # "none" /\ c.settled = Settlement(e)
                      /\ twice => twice'
                      /\ \/ c.at = "settle"
                         \/ c.at = "register" /\ c.e = e /\ (~twice' => c.keyed)
         /\ UNCHANGED <<status, egressRow, egress, recordings, blind, deleted>>
  <1>0. /\ presCall[p].at = "pull"
        /\ UNCHANGED <<status, egressRow, egress, recordings, blind, deleted>>
    BY DEF PullRecording
  <1>1. CASE PresReturn(p) /\ UNCHANGED twice
    BY <1>0, <1>1, PresReturnMoves, PresIdleType
  <1>2. CASE presCall' = [presCall EXCEPT ![p] = Settling(egressRow.st)] /\ UNCHANGED twice
    <2>1. egressRow.st \in {"none", "active", "ended", "failed"}
      BY DEF PresTypeInv, PresTypeOK
    <2>2. QED
      BY <1>0, <1>2, <2>1, SettlingType, PresMove
  <1>3. ASSUME NEW e \in Egress, egress[e] # "none", egressRow.id \in {e, "none"},
               presCall' = [presCall EXCEPT ![p] =
                 IF egress[e] = "complete"
                   THEN [at |-> "register", e |-> e, keyed |-> egressRow.id = e, settled |-> Settlement(e)]
                   ELSE Settling(Settlement(e))],
               twice' = (twice \/ (egressRow.id = "none" /\ egress[e] = "complete"))
        PROVE  \E c \in PresCalls :
                 /\ PresMoved(p, c) /\ c.settled = Settlement(e) /\ (twice => twice')
                 /\ \/ c.at = "settle"
                    \/ c.at = "register" /\ c.e = e /\ (~twice' => c.keyed)
    <2>1. Settlement(e) \in {"none", "active", "ended", "failed"}
      BY DEF Settlement, PresTypeInv, PresTypeOK
    <2>2. CASE egress[e] = "complete"
      <3>1. PICK k \in BOOLEAN : k = (egressRow.id = e)
        OBVIOUS
      <3> DEFINE c == [at |-> "register", e |-> e, keyed |-> k, settled |-> Settlement(e)]
      <3>2. c \in PresCalls /\ c.settled = Settlement(e) /\ c.at = "register" /\ c.e = e /\ c.keyed = k
        BY <2>1 DEF PresCalls
      <3>3. presCall' = [presCall EXCEPT ![p] = c]
        BY <1>3, <2>2, <3>1
      <3>4. ~twice' => k
        BY <1>3, <2>2, <3>1
      <3> HIDE DEF c
      <3>5. PresMoved(p, c)
        BY <3>2, <3>3, PresMove
      <3>6. twice => twice'
        BY <1>3
      <3>7. QED
        BY <3>2, <3>4, <3>5, <3>6
    <2>3. CASE egress[e] # "complete"
      <3>1. presCall' = [presCall EXCEPT ![p] = Settling(Settlement(e))] /\ (twice => twice')
        BY <1>3, <2>3
      <3>2. Settling(Settlement(e)) \in PresCalls /\ Settling(Settlement(e)).at = "settle"
            /\ Settling(Settlement(e)).settled = Settlement(e)
        BY <2>1, SettlingType
      <3>3. PresMoved(p, Settling(Settlement(e)))
        BY <3>1, <3>2, PresMove
      <3>4. QED
        BY <3>1, <3>2, <3>3
    <2>4. QED
      BY <2>2, <2>3
  <1>4. QED
    BY <1>0, <1>1, <1>2, <1>3 DEF PullRecording

LEMMA WebhookMoves ==
  ASSUME PresTypeInv, NEW p \in Proc, NEW e \in Egress, LivekitWebhook(p, e)
  PROVE  /\ presCall[p] = PresIdle
         /\ \E c \in PresCalls : /\ PresMoved(p, c) /\ c.at = "register" /\ c.e = e
                                 /\ c.keyed = TRUE /\ c.settled = "none"
         /\ UNCHANGED <<status, egressRow, egress, recordings, blind, twice, deleted>>
  <1> DEFINE c == [at |-> "register", e |-> e, keyed |-> TRUE, settled |-> "none"]
  <1>1. c \in PresCalls /\ c.at = "register" /\ c.e = e /\ c.keyed = TRUE /\ c.settled = "none"
    BY DEF PresCalls
  <1>2. presCall' = [presCall EXCEPT ![p] = c]
    BY DEF LivekitWebhook
  <1> HIDE DEF c
  <1>3. PresMoved(p, c)
    BY <1>1, <1>2, PresMove
  <1>4. QED
    BY <1>1, <1>3 DEF LivekitWebhook

\* What a call does when its file is registered.
LEMMA AfterRegisterType ==
  ASSUME NEW c \in PresCalls
  PROVE  /\ AfterRegister(c) \in PresCalls
         /\ AfterRegister(c).at \in {"idle", "settle"}
         /\ AfterRegister(c).settled = c.settled
  <1>1. c.settled \in {"none", "active", "ended", "failed"}
    BY DEF PresCalls
  <1>2. QED
    BY <1>1, SettlingType, PresIdleType DEF AfterRegister

LEMMA FindRecordingMoves ==
  ASSUME PresTypeInv, NEW p \in Proc, FindRecording(p)
  PROVE  /\ presCall[p].at = "register" /\ presCall[p].e \in Egress
         /\ \E c \in PresCalls :
              /\ PresMoved(p, c) /\ c.settled = presCall[p].settled
              /\ \/ c.at \in {"idle", "settle"}
                 \/ /\ c.at = "insert" /\ c.e = presCall[p].e /\ c.keyed = presCall[p].keyed
                    /\ ~Registered(presCall[p])
         /\ UNCHANGED <<status, egressRow, egress, recordings, blind, deleted>>
         /\ twice' = (twice \/ \E q \in Proc \ {p} :
                                 presCall[q].at = "insert" /\ presCall[q].e = presCall[p].e)
  <1>0. presCall[p] \in PresCalls /\ presCall[p].at = "register" /\ presCall[p].e \in Egress
    BY DEF PresTypeInv, FindRecording
  <1>1. CASE Registered(presCall[p])
    <2>1. presCall' = [presCall EXCEPT ![p] = AfterRegister(presCall[p])]
      BY <1>1 DEF FindRecording
    <2>2. PresMoved(p, AfterRegister(presCall[p]))
      BY <1>0, <2>1, PresMove, AfterRegisterType
    <2>3. QED
      BY <1>0, <2>2, AfterRegisterType DEF FindRecording
  <1>2. CASE ~Registered(presCall[p])
    <2> DEFINE c == [presCall[p] EXCEPT !.at = "insert"]
    <2>1. c \in PresCalls /\ c.at = "insert" /\ c.e = presCall[p].e
          /\ c.keyed = presCall[p].keyed /\ c.settled = presCall[p].settled
      BY <1>0 DEF PresCalls
    <2>2. presCall' = [presCall EXCEPT ![p] = c]
      BY <1>2 DEF FindRecording
    <2> HIDE DEF c
    <2>3. PresMoved(p, c)
      BY <2>1, <2>2, PresMove
    <2>4. QED
      BY <1>0, <1>2, <2>1, <2>3 DEF FindRecording
  <1>3. QED
    BY <1>1, <1>2

LEMMA InsertRecordingMoves ==
  ASSUME PresTypeInv, NEW p \in Proc, InsertRecording(p)
  PROVE  /\ presCall[p].at = "insert" /\ presCall[p].e \in Egress
         /\ \E r \in [e : Egress, keyed : BOOLEAN, n : 1..MaxRecordings, deleted : BOOLEAN] :
              /\ recordings' = recordings \cup {r}
              /\ r.e = presCall[p].e /\ r.keyed = presCall[p].keyed /\ r.deleted = FALSE
         /\ \E c \in PresCalls : /\ PresMoved(p, c) /\ c.at \in {"idle", "settle"}
                                 /\ c.settled = presCall[p].settled
         /\ UNCHANGED <<status, egressRow, egress, blind, twice, deleted>>
  <1>0. presCall[p] \in PresCalls /\ presCall[p].at = "insert" /\ presCall[p].e \in Egress
    BY DEF PresTypeInv, InsertRecording
  <1>1. PICK k \in BOOLEAN, no \in BOOLEAN : k = presCall[p].keyed /\ no = FALSE
    BY <1>0 DEF PresCalls
  <1>2. PICK n \in 1..MaxRecordings : n = Cardinality(recordings) + 1
    <2>1. Cardinality(recordings) \in Nat
      BY FS_CardinalityType DEF PresTypeInv
    <2>2. QED
      BY <2>1, PresentationAssumption DEF InsertRecording
  <1>3. PICK e \in Egress : e = presCall[p].e
    BY <1>0
  <1> DEFINE r == [n |-> n, e |-> e, keyed |-> k, deleted |-> no]
  <1>4. /\ r \in [e : Egress, keyed : BOOLEAN, n : 1..MaxRecordings, deleted : BOOLEAN]
        /\ r.e = e /\ r.keyed = k /\ r.deleted = no
    OBVIOUS
  <1>5. recordings' = recordings \cup {r}
    BY <1>1, <1>2, <1>3 DEF InsertRecording
  <1> HIDE DEF r
  <1>6. PresMoved(p, AfterRegister(presCall[p]))
    BY <1>0, PresMove, AfterRegisterType DEF InsertRecording
  <1>7. QED
    BY <1>0, <1>1, <1>3, <1>4, <1>5, <1>6, AfterRegisterType DEF InsertRecording

LEMMA SettleMoves ==
  ASSUME PresTypeInv, NEW p \in Proc, Settle(p)
  PROVE  /\ presCall[p].at = "settle" /\ PresMoved(p, PresIdle)
         /\ egressRow'.id = egressRow.id /\ egressRow'.st = presCall[p].settled
         /\ egressRow' \in [id : Egress \cup {"none"}, st : {"none", "active", "ended", "failed"}]
         /\ UNCHANGED <<status, egress, recordings, blind, twice, deleted>>
  <1>1. presCall[p].settled \in {"none", "active", "ended", "failed"}
    BY DEF PresTypeInv, PresCalls
  <1>2. egressRow \in [id : Egress \cup {"none"}, st : {"none", "active", "ended", "failed"}]
    BY DEF PresTypeInv, PresTypeOK
  <1>3. PICK st \in {"none", "active", "ended", "failed"} : st = presCall[p].settled
    BY <1>1
  <1>4. egressRow' = [egressRow EXCEPT !.st = st]
    BY <1>3 DEF Settle
  <1>5. QED
    BY <1>2, <1>3, <1>4, PresReturnMoves DEF Settle

LEMMA StoreEgressMoves ==
  ASSUME PresTypeInv, NEW p \in Proc, StoreEgress(p)
  PROVE  /\ presCall[p].at = "start_store" /\ PresMoved(p, PresIdle)
         /\ egressRow'.id = presCall[p].e
         /\ egressRow'.st = IF presCall[p].e = "none" THEN "failed" ELSE "active"
         /\ egressRow' \in [id : Egress \cup {"none"}, st : {"none", "active", "ended", "failed"}]
         /\ UNCHANGED <<status, egress, recordings, blind, twice, deleted>>
  <1>1. PICK e \in Egress \cup {"none"} : e = presCall[p].e
    BY DEF PresTypeInv, PresCalls
  <1>2. egressRow' = [id |-> e, st |-> IF e = "none" THEN "failed" ELSE "active"]
    BY <1>1 DEF StoreEgress
  <1>3. QED
    BY <1>1, <1>2, PresReturnMoves DEF StoreEgress

LEMMA DeleteRecordingMoves ==
  ASSUME PresTypeInv, NEW r \in Playable, DeleteRecording(r)
  PROVE  /\ r \in recordings
         /\ \E d \in [e : Egress, keyed : BOOLEAN, n : 1..MaxRecordings, deleted : BOOLEAN] :
              /\ recordings' = (recordings \ {r}) \cup {d}
              /\ d.e = r.e /\ d.keyed = r.keyed /\ d.deleted = TRUE
         /\ deleted' = deleted \cup {r.e}
         /\ UNCHANGED <<status, egressRow, egress, presCall, blind, twice>>
  <1>1. r \in recordings /\ r \in [e : Egress, keyed : BOOLEAN, n : 1..MaxRecordings, deleted : BOOLEAN]
    BY DEF Playable, PresTypeInv, PresTypeOK
  <1>2. PICK yes \in BOOLEAN : yes = TRUE
    OBVIOUS
  <1> DEFINE d == [r EXCEPT !.deleted = yes]
  <1>3. /\ d \in [e : Egress, keyed : BOOLEAN, n : 1..MaxRecordings, deleted : BOOLEAN]
        /\ d.e = r.e /\ d.keyed = r.keyed /\ d.deleted = yes
    BY <1>1
  <1>4. recordings' = (recordings \ {r}) \cup {d}
    BY <1>2 DEF DeleteRecording
  <1> HIDE DEF d
  <1>5. QED
    BY <1>1, <1>2, <1>3, <1>4 DEF DeleteRecording

\* Types survive a move of a call when the other variables keep theirs.
LEMMA PresTypeMove ==
  ASSUME PresTypeInv, NEW p \in Proc, NEW c \in PresCalls, PresMoved(p, c),
         c.at \in {"register", "insert"} => c.e \in Egress,
         status' \in {"scheduled", "live", "ended", "canceled"},
         egressRow' \in [id : Egress \cup {"none"}, st : {"none", "active", "ended", "failed"}],
         egress' \in [Egress -> {"none", "active", "ending", "complete", "failed"}],
         recordings' \subseteq [e : Egress, keyed : BOOLEAN, n : 1..MaxRecordings, deleted : BOOLEAN],
         IsFiniteSet(recordings'), deleted' \subseteq Egress
  PROVE  PresTypeInv'
  <1>1. ASSUME NEW q \in Proc
        PROVE  /\ presCall'[q].e \in Egress \cup {"none"}
               /\ presCall'[q].at \in {"register", "insert"} => presCall'[q].e \in Egress
    <2>1. presCall'[q] \in PresCalls
      BY DEF PresMoved
    <2>2. CASE q = p
      BY <2>1, <2>2 DEF PresMoved, PresCalls
    <2>3. CASE q # p
      BY <2>1, <2>3 DEF PresMoved, PresCalls, PresTypeInv
    <2>4. QED
      BY <2>2, <2>3
  <1>2. QED
    BY <1>1 DEF PresTypeInv, PresTypeOK, PresMoved

LEMMA PresTypeInitial == PresInit => PresTypeInv
  BY PresIdleType, FS_EmptySet DEF PresInit, PresTypeInv, PresTypeOK, NoRow

LEMMA PresTypeStep == PresTypeInv /\ [PresNext]_PresVars => PresTypeInv'
  <1> SUFFICES ASSUME PresTypeInv, [PresNext]_PresVars PROVE PresTypeInv'
    OBVIOUS
  <1>0. /\ status \in {"scheduled", "live", "ended", "canceled"}
        /\ egressRow \in [id : Egress \cup {"none"}, st : {"none", "active", "ended", "failed"}]
        /\ egress \in [Egress -> {"none", "active", "ending", "complete", "failed"}]
        /\ recordings \subseteq [e : Egress, keyed : BOOLEAN, n : 1..MaxRecordings, deleted : BOOLEAN]
        /\ IsFiniteSet(recordings) /\ deleted \subseteq Egress
    BY DEF PresTypeInv, PresTypeOK
  <1>1. ASSUME NEW p \in Proc,
               \/ StartPresentation(p) \/ WriteLive(p) \/ CancelPresentation(p)
               \/ EndPresentation(p) \/ WriteOver(p) \/ CloseRoom(p) \/ GetReplay(p)
        PROVE PresTypeInv'
    <2>1. \E c \in PresCalls : PresMoved(p, c) /\ c.at \notin {"register", "insert"}
      BY <1>1, PresGotoMoves, PresReturnMoves, PresIdleType
      DEF StartPresentation, WriteLive, CancelPresentation, EndPresentation, WriteOver, CloseRoom, GetReplay
    <2>2. /\ status' \in {"scheduled", "live", "ended", "canceled"}
          /\ egress' \in [Egress -> {"none", "active", "ending", "complete", "failed"}]
          /\ UNCHANGED <<egressRow, recordings, deleted>>
      BY <1>0, <1>1
      DEF StartPresentation, WriteLive, CancelPresentation, EndPresentation, WriteOver, CloseRoom, GetReplay
    <2>3. QED
      BY <1>0, <2>1, <2>2, PresTypeMove
  <1>2. ASSUME NEW p \in Proc, StartRoomEgress(p) PROVE PresTypeInv'
    <2>1. egress' \in [Egress -> {"none", "active", "ending", "complete", "failed"}]
      BY <1>0, <1>2, StartRoomEgressMoves
    <2>2. QED
      BY <1>0, <1>2, <2>1, StartRoomEgressMoves, PresTypeMove
  <1>3. ASSUME NEW p \in Proc, StoreEgress(p) PROVE PresTypeInv'
    BY <1>0, <1>3, StoreEgressMoves, PresIdleType, PresTypeMove
  <1>4. ASSUME NEW p \in Proc, PullRecording(p) PROVE PresTypeInv'
    <2>1. \E c \in PresCalls : PresMoved(p, c) /\ (c.at \in {"register", "insert"} => c.e \in Egress)
      BY <1>4, PullRecordingMoves, PresIdleType
    <2>2. UNCHANGED <<status, egressRow, egress, recordings, blind, deleted>>
      BY <1>4, PullRecordingMoves
    <2>3. QED
      BY <1>0, <2>1, <2>2, PresTypeMove
  <1>5. ASSUME NEW p \in Proc, NEW e \in Egress, LivekitWebhook(p, e) PROVE PresTypeInv'
    <2>1. \E c \in PresCalls : PresMoved(p, c) /\ c.e = e
      BY <1>5, WebhookMoves
    <2>2. UNCHANGED <<status, egressRow, egress, recordings, deleted>>
      BY <1>5, WebhookMoves
    <2>3. QED
      BY <1>0, <2>1, <2>2, PresTypeMove
  <1>6. ASSUME NEW p \in Proc, FindRecording(p) PROVE PresTypeInv'
    <2>1. \E c \in PresCalls : PresMoved(p, c) /\ (c.at \in {"register", "insert"} => c.e \in Egress)
      BY <1>6, FindRecordingMoves
    <2>2. UNCHANGED <<status, egressRow, egress, recordings, deleted>>
      BY <1>6, FindRecordingMoves
    <2>3. QED
      BY <1>0, <2>1, <2>2, PresTypeMove
  <1>7. ASSUME NEW p \in Proc, InsertRecording(p) PROVE PresTypeInv'
    <2>1. PICK r \in [e : Egress, keyed : BOOLEAN, n : 1..MaxRecordings, deleted : BOOLEAN] :
            recordings' = recordings \cup {r}
      BY <1>7, InsertRecordingMoves
    <2>2. IsFiniteSet(recordings')
      BY <1>0, <2>1, FS_AddElement
    <2>3. \E c \in PresCalls : PresMoved(p, c) /\ c.at \in {"idle", "settle"}
      BY <1>7, InsertRecordingMoves
    <2>4. UNCHANGED <<status, egressRow, egress, deleted>>
      BY <1>7, InsertRecordingMoves
    <2>5. QED
      BY <1>0, <2>1, <2>2, <2>3, <2>4, PresTypeMove
  <1>8. ASSUME NEW p \in Proc, Settle(p) PROVE PresTypeInv'
    BY <1>0, <1>8, SettleMoves, PresIdleType, PresTypeMove
  <1>9. ASSUME NEW e \in Egress, NEW how \in {"complete", "failed"}, EgressSettles(e, how)
        PROVE PresTypeInv'
    BY <1>0, <1>9 DEF EgressSettles, PresTypeInv, PresTypeOK
  <1>10. ASSUME NEW r \in Playable, DeleteRecording(r) PROVE PresTypeInv'
    <2>1. PICK d \in [e : Egress, keyed : BOOLEAN, n : 1..MaxRecordings, deleted : BOOLEAN] :
            recordings' = (recordings \ {r}) \cup {d} /\ r \in recordings
      BY <1>10, DeleteRecordingMoves
    <2>2. IsFiniteSet(recordings')
      <3>1. IsFiniteSet(recordings \ {r})
        BY <1>0, <2>1, FS_RemoveElement
      <3>2. QED
        BY <2>1, <3>1, FS_AddElement
    <2>3. deleted' \subseteq Egress /\ UNCHANGED <<status, egressRow, egress, presCall>>
      <3>1. r.e \in Egress
        BY <1>0, <2>1
      <3>2. deleted' = deleted \cup {r.e} /\ UNCHANGED <<status, egressRow, egress, presCall>>
        BY <1>10 DEF DeleteRecording
      <3>3. QED
        BY <1>0, <3>1, <3>2
    <2>4. recordings' \subseteq [e : Egress, keyed : BOOLEAN, n : 1..MaxRecordings, deleted : BOOLEAN]
      BY <1>0, <2>1
    <2>5. QED
      BY <1>0, <2>2, <2>3, <2>4 DEF PresTypeInv, PresTypeOK
  <1>11. CASE UNCHANGED PresVars
    BY <1>11 DEF PresVars, PresTypeInv, PresTypeOK
  <1>12. QED
    BY <1>1, <1>2, <1>3, <1>4, <1>5, <1>6, <1>7, <1>8, <1>9, <1>10, <1>11 DEF PresNext

\* Every variable of a presentation holds a value of its kind.
THEOREM PresTypeCorrect == PresSpec => []PresTypeOK
  <1>1. PresTypeInv => PresTypeOK
    BY DEF PresTypeInv
  <1>2. QED
    BY <1>1, PresTypeInitial, PresTypeStep, PTL DEF PresSpec

(***************************************************************************)
(* The egress is known.  The invariant follows the one start there can be: *)
(* before it nothing is recorded and nothing is said to have failed, while *)
(* it runs its call holds what LiveKit answered, after it the row does;    *)
(* and nothing says "failed", the row or a call about to settle it, while  *)
(* LiveKit records or has a file.                                          *)
(***************************************************************************)
Early == {p \in Proc : presCall[p].at \in {"start_write", "egress"}}

SaysFailed == egressRow.st = "failed" \/ \E p \in Proc : presCall[p].settled = "failed"

OneStarts == \A p, q \in Starting : p = q

NothingBefore ==
  status = "scheduled" \/ Early # {} =>
    /\ egressRow.id = "none" /\ ~SaysFailed
    /\ \A e \in Egress : egress[e] = "none"

StartsOnce == status = "scheduled" => \A p \in Proc : presCall[p].at \notin {"egress", "start_store"}

AnswerIsHeld ==
  \A p \in Proc : presCall[p].at = "start_store" =>
    \A e \in Egress : egress[e] # "none" => presCall[p].e = e

KnownAfter == Starting = {} => \A e \in Egress : egress[e] # "none" => egressRow.id = e

FailedIsFailed == SaysFailed => \A e \in Egress : egress[e] \in {"none", "failed"}

EgressInv == ~blind => /\ OneStarts /\ NothingBefore /\ StartsOnce /\ AnswerIsHeld
                       /\ KnownAfter /\ FailedIsFailed

StartSteps == {"start_write", "egress", "start_store"}

LEMMA EgressInitial == PresInit => EgressInv
  BY PresIdleType DEF PresInit, EgressInv, OneStarts, NothingBefore, StartsOnce, AnswerIsHeld,
     KnownAfter, FailedIsFailed, Starting, Early, SaysFailed, NoRow

\* LiveKit makes one recording at most.
LEMMA OneEgress ==
  ASSUME PresTypeInv, EgressInv, ~blind, NEW e \in Egress, NEW f \in Egress,
         egress[e] # "none", egress[f] # "none"
  PROVE  e = f
  <1>1. CASE Starting = {}
    BY <1>1 DEF EgressInv, KnownAfter
  <1>2. ASSUME NEW p \in Starting PROVE e = f
    <2>1. p \notin Early
      BY DEF EgressInv, NothingBefore
    <2>2. p \in Proc /\ presCall[p].at = "start_store"
      BY <1>2, <2>1 DEF Starting, Early
    <2>3. QED
      BY <2>2 DEF EgressInv, AnswerIsHeld
  <1>3. QED
    BY <1>1, <1>2

\* A step of a call that is not starting and does not start, and that does not
\* come to say that the recording failed.
LEMMA EgressFrame ==
  ASSUME PresTypeInv, EgressInv, NEW p \in Proc, NEW c \in PresCalls, PresMoved(p, c),
         presCall[p].at \notin StartSteps, c.at \notin StartSteps,
         ~blind' => ~blind,
         status' = "scheduled" => status = "scheduled",
         egressRow'.id = egressRow.id,
         egressRow'.st = "failed" => SaysFailed,
         c.settled = "failed" /\ ~blind => SaysFailed \/ \E e \in Egress : egress[e] = "failed",
         \A e \in Egress : egress'[e] = "none" <=> egress[e] = "none",
         \A e \in Egress : egress[e] = "failed" => egress'[e] = "failed"
  PROVE  EgressInv'
  <1> SUFFICES ASSUME ~blind, ~blind'
               PROVE  (OneStarts /\ NothingBefore /\ StartsOnce /\ AnswerIsHeld
                        /\ KnownAfter /\ FailedIsFailed)'
    BY DEF EgressInv
  <1>0. \A q \in Proc : presCall'[q] = IF q = p THEN c ELSE presCall[q]
    BY DEF PresMoved
  <1>1. Starting' = Starting /\ Early' = Early
    BY <1>0 DEF Starting, Early, StartSteps
  <1>2. SaysFailed' => SaysFailed \/ \E e \in Egress : egress[e] = "failed"
    BY <1>0 DEF SaysFailed
  <1>4. ASSUME SaysFailed' PROVE \A e \in Egress : egress'[e] \in {"none", "failed"}
    <2>1. CASE SaysFailed
      BY <2>1 DEF EgressInv, FailedIsFailed
    <2>2. CASE \E e \in Egress : egress[e] = "failed"
      <3>1. PICK e \in Egress : egress[e] = "failed"
        BY <2>2
      <3>2. \A f \in Egress : f = e \/ egress[f] = "none"
        BY <3>1, OneEgress
      <3>3. QED
        BY <3>1, <3>2
    <2>3. QED
      BY <1>2, <1>4, <2>1, <2>2
  <1>5. NothingBefore'
    <2> SUFFICES ASSUME status' = "scheduled" \/ Early' # {}
                 PROVE  /\ egressRow'.id = "none" /\ ~SaysFailed'
                        /\ \A e \in Egress : egress'[e] = "none"
      BY DEF NothingBefore
    <2>1. /\ egressRow.id = "none" /\ ~SaysFailed
          /\ \A e \in Egress : egress[e] = "none"
      BY <1>1 DEF EgressInv, NothingBefore
    <2>2. QED
      BY <1>2, <2>1
  <1>6. OneStarts' /\ StartsOnce'
    BY <1>0, <1>1 DEF EgressInv, OneStarts, StartsOnce, StartSteps
  <1>7. AnswerIsHeld' /\ KnownAfter'
    BY <1>0, <1>1 DEF EgressInv, AnswerIsHeld, KnownAfter, StartSteps
  <1>8. QED
    BY <1>4, <1>5, <1>6, <1>7 DEF FailedIsFailed

LEMMA EgressStep == PresTypeInv /\ EgressInv /\ [PresNext]_PresVars => EgressInv'
  <1> SUFFICES ASSUME PresTypeInv, EgressInv, [PresNext]_PresVars PROVE EgressInv'
    OBVIOUS
  <1>0. \A p \in Proc : presCall[p] = PresIdle =>
          presCall[p].at = "idle" /\ presCall[p].settled = "none"
    BY PresIdleType
  <1>1. ASSUME NEW p \in Proc,
               CancelPresentation(p) \/ EndPresentation(p) \/ WriteOver(p) \/ CloseRoom(p) \/ GetReplay(p)
        PROVE EgressInv'
    <2>1. presCall[p].at \notin StartSteps
      BY <1>0, <1>1 DEF CancelPresentation, EndPresentation, WriteOver, CloseRoom, GetReplay, StartSteps
    <2>2. PICK c \in PresCalls : /\ PresMoved(p, c) /\ c.at \notin StartSteps
                                 /\ c.settled \in {"none", presCall[p].settled}
      BY <1>1, PresGotoMoves, PresReturnMoves, PresIdleType
      DEF CancelPresentation, EndPresentation, WriteOver, CloseRoom, GetReplay, StartSteps
    <2>3. /\ UNCHANGED <<egressRow, blind>> /\ (status' = "scheduled" => status = "scheduled")
          /\ \A e \in Egress : egress'[e] = "none" <=> egress[e] = "none"
          /\ \A e \in Egress : egress[e] = "failed" => egress'[e] = "failed"
      BY <1>1 DEF CancelPresentation, EndPresentation, WriteOver, CloseRoom, GetReplay
    <2>4. c.settled = "failed" => SaysFailed
      BY <2>2 DEF SaysFailed
    <2>5. egressRow'.st = "failed" => SaysFailed
      BY <2>3 DEF SaysFailed
    <2>6. QED
      BY <2>1, <2>2, <2>3, <2>4, <2>5, EgressFrame
  <1>2. ASSUME NEW p \in Proc, StartPresentation(p) PROVE EgressInv'
    <2>1. PICK c \in PresCalls : PresMoved(p, c) /\ c.at = "start_write" /\ c.settled = presCall[p].settled
      BY <1>2, PresGotoMoves DEF StartPresentation
    <2>2. /\ presCall[p].at = "idle" /\ presCall[p].settled = "none"
          /\ status = "scheduled" /\ UNCHANGED <<status, egressRow, egress>>
          /\ ~blind' => ~blind /\ Starting = {}
      BY <1>0, <1>2 DEF StartPresentation
    <2>3. \A q \in Proc : presCall'[q] = IF q = p THEN c ELSE presCall[q]
      BY <2>1 DEF PresMoved
    <2> SUFFICES ASSUME ~blind, ~blind', Starting = {}
                 PROVE  (OneStarts /\ NothingBefore /\ StartsOnce /\ AnswerIsHeld
                          /\ KnownAfter /\ FailedIsFailed)'
      BY <2>2 DEF EgressInv
    <2>4. Starting' = {p}
      BY <2>1, <2>3 DEF Starting
    <2>5. egressRow.id = "none" /\ ~SaysFailed /\ \A e \in Egress : egress[e] = "none"
      BY <2>2 DEF EgressInv, NothingBefore
    <2>6. ~SaysFailed'
      BY <2>1, <2>2, <2>3, <2>5 DEF SaysFailed
    <2>7. OneStarts' /\ NothingBefore' /\ KnownAfter' /\ FailedIsFailed'
      BY <2>2, <2>4, <2>5, <2>6 DEF OneStarts, NothingBefore, KnownAfter, FailedIsFailed
    <2>8. StartsOnce' /\ AnswerIsHeld'
      BY <2>1, <2>2, <2>3 DEF EgressInv, StartsOnce, AnswerIsHeld
    <2>9. QED
      BY <2>7, <2>8
  <1>3. ASSUME NEW p \in Proc, WriteLive(p) PROVE EgressInv'
    <2>1. PICK c \in PresCalls : PresMoved(p, c) /\ c.at = "egress" /\ c.settled = presCall[p].settled
      BY <1>3, PresGotoMoves DEF WriteLive
    <2>2. /\ presCall[p].at = "start_write" /\ status' = "live"
          /\ UNCHANGED <<egressRow, egress, blind>>
      BY <1>3 DEF WriteLive
    <2>3. \A q \in Proc : presCall'[q] = IF q = p THEN c ELSE presCall[q]
      BY <2>1 DEF PresMoved
    <2> SUFFICES ASSUME ~blind
                 PROVE  (OneStarts /\ NothingBefore /\ StartsOnce /\ AnswerIsHeld
                          /\ KnownAfter /\ FailedIsFailed)'
      BY <2>2 DEF EgressInv
    <2>4. Starting' = Starting /\ Early' = Early
      BY <2>1, <2>2, <2>3 DEF Starting, Early
    <2>5. SaysFailed' <=> SaysFailed
      BY <2>1, <2>2, <2>3 DEF SaysFailed
    <2>6. QED
      BY <2>1, <2>2, <2>3, <2>4, <2>5 DEF EgressInv, OneStarts, NothingBefore, StartsOnce,
         AnswerIsHeld, KnownAfter, FailedIsFailed
  <1>4. ASSUME NEW p \in Proc, StartRoomEgress(p) PROVE EgressInv'
    <2>1. presCall[p].at = "egress" /\ UNCHANGED <<status, egressRow>>
      BY <1>4, StartRoomEgressMoves
    <2>2. PICK c \in PresCalls :
            /\ PresMoved(p, c) /\ c.at = "start_store" /\ c.settled = presCall[p].settled
            /\ \/ \E e \in Egress :
                    /\ egress' = [egress EXCEPT ![e] = "active"]
                    /\ ~blind' => c.e = e
                    /\ blind => blind'
               \/ UNCHANGED <<egress, blind>>
      BY <1>4, StartRoomEgressMoves
    <2>3. \A q \in Proc : presCall'[q] = IF q = p THEN c ELSE presCall[q]
      BY <2>2 DEF PresMoved
    <2> SUFFICES ASSUME ~blind, ~blind'
                 PROVE  (OneStarts /\ NothingBefore /\ StartsOnce /\ AnswerIsHeld
                          /\ KnownAfter /\ FailedIsFailed)'
      BY <2>2 DEF EgressInv
    <2>4. p \in Starting /\ p \in Early /\ status # "scheduled"
      BY <2>1 DEF Starting, Early, EgressInv, StartsOnce
    <2>5. \A q \in Proc : presCall[q].at \in StartSteps => q = p
      BY <2>4 DEF EgressInv, OneStarts, Starting, StartSteps
    <2>6. Starting' = {p} /\ Early' = {}
      BY <2>2, <2>3, <2>5 DEF Starting, Early, StartSteps
    <2>7. ~SaysFailed /\ \A e \in Egress : egress[e] = "none"
      BY <2>4 DEF EgressInv, NothingBefore
    <2>8. ~SaysFailed'
      BY <2>1, <2>2, <2>3, <2>7 DEF SaysFailed
    <2>9. \A e \in Egress : egress'[e] # "none" => c.e = e
      BY <2>2, <2>7 DEF PresTypeInv, PresTypeOK
    <2>10. AnswerIsHeld'
      BY <2>3, <2>5, <2>9 DEF AnswerIsHeld, StartSteps
    <2>11. QED
      BY <2>1, <2>4, <2>6, <2>8, <2>10 DEF OneStarts, NothingBefore, StartsOnce, KnownAfter, FailedIsFailed
  <1>5. ASSUME NEW p \in Proc, StoreEgress(p) PROVE EgressInv'
    <2>1. /\ presCall[p].at = "start_store" /\ PresMoved(p, PresIdle)
          /\ egressRow'.id = presCall[p].e
          /\ egressRow'.st = IF presCall[p].e = "none" THEN "failed" ELSE "active"
          /\ UNCHANGED <<status, egress, blind>>
      BY <1>5, StoreEgressMoves
    <2>2. \A q \in Proc : presCall'[q] = IF q = p THEN PresIdle ELSE presCall[q]
      BY <2>1 DEF PresMoved
    <2> SUFFICES ASSUME ~blind
                 PROVE  (OneStarts /\ NothingBefore /\ StartsOnce /\ AnswerIsHeld
                          /\ KnownAfter /\ FailedIsFailed)'
      BY <2>1 DEF EgressInv
    <2>3. status # "scheduled" /\ \A q \in Proc : presCall[q].at \in StartSteps => q = p
      BY <2>1 DEF EgressInv, OneStarts, Starting, StartSteps, StartsOnce
    <2>4. Starting' = {} /\ Early' = {}
      BY <2>2, <2>3, PresIdleType DEF Starting, Early, StartSteps
    <2>5. \A e \in Egress : egress[e] # "none" => presCall[p].e = e
      BY <2>1 DEF EgressInv, AnswerIsHeld
    <2>6. SaysFailed' => SaysFailed \/ \A e \in Egress : egress[e] = "none"
      BY <2>1, <2>2, <2>5, PresIdleType, PresentationAssumption DEF SaysFailed
    <2>7. FailedIsFailed'
      BY <2>1, <2>6 DEF FailedIsFailed, EgressInv
    <2>8. AnswerIsHeld'
      BY <2>2, <2>3, PresIdleType DEF AnswerIsHeld, StartSteps
    <2>9. QED
      BY <2>1, <2>3, <2>4, <2>5, <2>7, <2>8 DEF OneStarts, NothingBefore, StartsOnce, KnownAfter
  <1>6. ASSUME NEW p \in Proc, PullRecording(p) PROVE EgressInv'
    <2>1. presCall[p].at = "pull" /\ UNCHANGED <<status, egressRow, egress, blind>>
      BY <1>6, PullRecordingMoves
    <2>2. PICK c \in PresCalls :
            /\ PresMoved(p, c) /\ c.at \in {"idle", "settle", "register"}
            /\ \/ c.settled \in {"none", egressRow.st}
               \/ \E e \in Egress : c.settled = Settlement(e)
      BY <1>6, PullRecordingMoves, PresIdleType
    <2>3. c.settled = "failed" => SaysFailed \/ \E e \in Egress : egress[e] = "failed"
      BY <2>2 DEF SaysFailed, Settlement
    <2>4. QED
      BY <2>1, <2>2, <2>3, EgressFrame DEF StartSteps, SaysFailed
  <1>7. ASSUME NEW p \in Proc, NEW e \in Egress, LivekitWebhook(p, e) PROVE EgressInv'
    <2>1. presCall[p].at = "idle" /\ UNCHANGED <<status, egressRow, egress, blind>>
      BY <1>0, <1>7, WebhookMoves
    <2>2. PICK c \in PresCalls : PresMoved(p, c) /\ c.at = "register" /\ c.settled = "none"
      BY <1>7, WebhookMoves
    <2>3. QED
      BY <2>1, <2>2, EgressFrame DEF StartSteps, SaysFailed
  <1>8. ASSUME NEW p \in Proc, FindRecording(p) \/ InsertRecording(p) PROVE EgressInv'
    <2>1. presCall[p].at \in {"register", "insert"} /\ UNCHANGED <<status, egressRow, egress, blind>>
      BY <1>8, FindRecordingMoves, InsertRecordingMoves
    <2>2. PICK c \in PresCalls : /\ PresMoved(p, c) /\ c.at \in {"idle", "settle", "insert"}
                                 /\ c.settled = presCall[p].settled
      BY <1>8, FindRecordingMoves, InsertRecordingMoves
    <2>3. QED
      BY <2>1, <2>2, EgressFrame DEF StartSteps, SaysFailed
  <1>9. ASSUME NEW p \in Proc, Settle(p) PROVE EgressInv'
    <2>1. /\ presCall[p].at = "settle" /\ PresMoved(p, PresIdle)
          /\ egressRow'.id = egressRow.id /\ egressRow'.st = presCall[p].settled
          /\ UNCHANGED <<status, egress, blind>>
      BY <1>9, SettleMoves
    <2>2. QED
      BY <2>1, PresIdleType, EgressFrame DEF StartSteps, SaysFailed
  <1>10. ASSUME NEW e \in Egress, NEW how \in {"complete", "failed"}, EgressSettles(e, how)
         PROVE EgressInv'
    <2>1. /\ egress[e] \in {"active", "ending"} /\ UNCHANGED <<status, egressRow, presCall, blind>>
          /\ \A f \in Egress : egress'[f] = "none" <=> egress[f] = "none"
      BY <1>10 DEF EgressSettles, PresTypeInv, PresTypeOK
    <2>2. Starting' = Starting /\ Early' = Early /\ (SaysFailed' <=> SaysFailed)
      BY <2>1 DEF Starting, Early, SaysFailed
    <2>3. ~blind => ~SaysFailed
      BY <2>1 DEF EgressInv, FailedIsFailed
    <2>4. QED
      BY <2>1, <2>2, <2>3 DEF EgressInv, OneStarts, NothingBefore, StartsOnce, AnswerIsHeld,
         KnownAfter, FailedIsFailed
  <1>11. CASE UNCHANGED <<status, egressRow, egress, presCall, blind>>
    BY <1>11 DEF EgressInv, OneStarts, NothingBefore, StartsOnce, AnswerIsHeld,
         KnownAfter, FailedIsFailed, Starting, Early, SaysFailed
  <1>12. ASSUME NEW r \in Playable, DeleteRecording(r) PROVE EgressInv'
    BY <1>11, <1>12, DeleteRecordingMoves
  <1>13. CASE UNCHANGED PresVars
    BY <1>11, <1>13 DEF PresVars
  <1>14. QED
    BY <1>1, <1>2, <1>3, <1>4, <1>5, <1>6, <1>7, <1>8, <1>9, <1>10, <1>12, <1>13 DEF PresNext

(***************************************************************************)
(* One row per file.  A call between its look-up and its insert is the     *)
(* only one for its file and no row has the file yet; a deleted row stays. *)
(***************************************************************************)
RegisterKeyed ==
  /\ \A p \in Proc : presCall[p].at \in {"register", "insert"} => presCall[p].keyed
  /\ \A r \in recordings : r.keyed

OneRow == \A r, s \in recordings : r.e = s.e => r = s

InsertIsNew ==
  \A p \in Proc : presCall[p].at = "insert" =>
    /\ \A r \in recordings : r.e # presCall[p].e
    /\ \A q \in Proc \ {p} : presCall[q].at = "insert" => presCall[q].e # presCall[p].e

DeletedStays == \A e \in deleted : \E r \in recordings : r.e = e /\ r.deleted

RowInv == ~twice => RegisterKeyed /\ OneRow /\ InsertIsNew /\ DeletedStays

LEMMA RowInitial == PresInit => RowInv
  BY PresIdleType DEF PresInit, RowInv, RegisterKeyed, OneRow, InsertIsNew, DeletedStays

\* A step that leaves the rows alone, and whose call does not come to an insert.
LEMMA RowFrame ==
  ASSUME RowInv, NEW p \in Proc, NEW c \in PresCalls, PresMoved(p, c), twice => twice',
         UNCHANGED <<recordings, deleted>>, c.at # "insert",
         c.at = "register" /\ ~twice' => c.keyed
  PROVE  RowInv'
  <1>1. \A q \in Proc : presCall'[q] = IF q = p THEN c ELSE presCall[q]
    BY DEF PresMoved
  <1> SUFFICES ASSUME ~twice, ~twice'
               PROVE  RegisterKeyed' /\ OneRow' /\ InsertIsNew' /\ DeletedStays'
    BY DEF RowInv
  <1>2. RegisterKeyed'
    BY <1>1 DEF RowInv, RegisterKeyed
  <1>3. InsertIsNew'
    BY <1>1 DEF RowInv, InsertIsNew
  <1>4. QED
    BY <1>2, <1>3 DEF RowInv, OneRow, DeletedStays

LEMMA RowStep == PresTypeInv /\ RowInv /\ [PresNext]_PresVars => RowInv'
  <1> SUFFICES ASSUME PresTypeInv, RowInv, [PresNext]_PresVars PROVE RowInv'
    OBVIOUS
  <1>1. ASSUME NEW p \in Proc,
               \/ StartPresentation(p) \/ WriteLive(p) \/ CancelPresentation(p)
               \/ EndPresentation(p) \/ WriteOver(p) \/ CloseRoom(p) \/ GetReplay(p)
        PROVE RowInv'
    <2>1. \E c \in PresCalls : PresMoved(p, c) /\ c.at \notin {"register", "insert"}
      BY <1>1, PresGotoMoves, PresReturnMoves, PresIdleType
      DEF StartPresentation, WriteLive, CancelPresentation, EndPresentation, WriteOver, CloseRoom, GetReplay
    <2>2. UNCHANGED <<recordings, deleted, twice>>
      BY <1>1
      DEF StartPresentation, WriteLive, CancelPresentation, EndPresentation, WriteOver, CloseRoom, GetReplay
    <2>3. QED
      BY <2>1, <2>2, RowFrame
  <1>2. ASSUME NEW p \in Proc, StartRoomEgress(p) PROVE RowInv'
    BY <1>2, StartRoomEgressMoves, RowFrame
  <1>3. ASSUME NEW p \in Proc, StoreEgress(p) \/ Settle(p) PROVE RowInv'
    BY <1>3, StoreEgressMoves, SettleMoves, PresIdleType, RowFrame
  <1>4. ASSUME NEW p \in Proc, PullRecording(p) PROVE RowInv'
    <2>1. \E c \in PresCalls : /\ PresMoved(p, c) /\ (twice => twice') /\ c.at # "insert"
                               /\ c.at = "register" /\ ~twice' => c.keyed
      BY <1>4, PullRecordingMoves, PresIdleType
    <2>2. UNCHANGED <<recordings, deleted>>
      BY <1>4, PullRecordingMoves
    <2>3. QED
      BY <2>1, <2>2, RowFrame
  <1>5. ASSUME NEW p \in Proc, NEW e \in Egress, LivekitWebhook(p, e) PROVE RowInv'
    <2>1. \E c \in PresCalls : PresMoved(p, c) /\ c.at = "register" /\ c.keyed
      BY <1>5, WebhookMoves
    <2>2. UNCHANGED <<recordings, deleted, twice>>
      BY <1>5, WebhookMoves
    <2>3. QED
      BY <2>1, <2>2, RowFrame
  <1>6. ASSUME NEW p \in Proc, FindRecording(p) PROVE RowInv'
    <2>1. /\ presCall[p].at = "register" /\ UNCHANGED <<recordings, deleted>>
          /\ twice' = (twice \/ \E q \in Proc \ {p} :
                                  presCall[q].at = "insert" /\ presCall[q].e = presCall[p].e)
      BY <1>6, FindRecordingMoves
    <2>2. PICK c \in PresCalls :
            /\ PresMoved(p, c)
            /\ \/ c.at \in {"idle", "settle"}
               \/ /\ c.at = "insert" /\ c.e = presCall[p].e /\ c.keyed = presCall[p].keyed
                  /\ ~Registered(presCall[p])
      BY <1>6, FindRecordingMoves
    <2>3. CASE c.at \in {"idle", "settle"}
      BY <2>1, <2>2, <2>3, RowFrame
    <2>4. CASE /\ c.at = "insert" /\ c.e = presCall[p].e /\ c.keyed = presCall[p].keyed
               /\ ~Registered(presCall[p])
      <3> SUFFICES ASSUME ~twice'
                   PROVE  RegisterKeyed' /\ OneRow' /\ InsertIsNew' /\ DeletedStays'
        BY DEF RowInv
      <3>1. \A q \in Proc : presCall'[q] = IF q = p THEN c ELSE presCall[q]
        BY <2>2 DEF PresMoved
      <3>2. ~twice /\ \A q \in Proc \ {p} : presCall[q].at = "insert" => presCall[q].e # presCall[p].e
        BY <2>1
      <3>3. presCall[p].keyed /\ \A r \in recordings : r.keyed
        BY <2>1, <3>2 DEF RowInv, RegisterKeyed
      <3>4. \A r \in recordings : r.e # presCall[p].e
        BY <2>4, <3>3 DEF Registered
      <3>5. RegisterKeyed'
        BY <2>1, <2>4, <3>1, <3>2, <3>3 DEF RowInv, RegisterKeyed
      <3>6. InsertIsNew'
        BY <2>1, <2>4, <3>1, <3>2, <3>4 DEF RowInv, InsertIsNew
      <3>7. QED
        BY <2>1, <3>2, <3>5, <3>6 DEF RowInv, OneRow, DeletedStays
    <2>5. QED
      BY <2>2, <2>3, <2>4
  <1>7. ASSUME NEW p \in Proc, InsertRecording(p) PROVE RowInv'
    <2>1. presCall[p].at = "insert" /\ UNCHANGED <<twice, deleted>>
      BY <1>7, InsertRecordingMoves
    <2>2. PICK r : /\ recordings' = recordings \cup {r}
                   /\ r.e = presCall[p].e /\ r.keyed = presCall[p].keyed
      BY <1>7, InsertRecordingMoves
    <2>3. PICK c \in PresCalls : PresMoved(p, c) /\ c.at \in {"idle", "settle"}
      BY <1>7, InsertRecordingMoves
    <2>4. \A q \in Proc : presCall'[q] = IF q = p THEN c ELSE presCall[q]
      BY <2>3 DEF PresMoved
    <2> SUFFICES ASSUME ~twice
                 PROVE  RegisterKeyed' /\ OneRow' /\ InsertIsNew' /\ DeletedStays'
      BY <2>1 DEF RowInv
    <2>5. RegisterKeyed'
      BY <2>1, <2>2, <2>3, <2>4 DEF RowInv, RegisterKeyed
    <2>6. OneRow'
      BY <2>1, <2>2 DEF RowInv, OneRow, InsertIsNew
    <2>7. InsertIsNew'
      BY <2>1, <2>2, <2>3, <2>4 DEF RowInv, InsertIsNew
    <2>8. DeletedStays'
      BY <2>1, <2>2 DEF RowInv, DeletedStays
    <2>9. QED
      BY <2>5, <2>6, <2>7, <2>8
  <1>8. ASSUME NEW r \in Playable, DeleteRecording(r) PROVE RowInv'
    <2>1. r \in recordings /\ deleted' = deleted \cup {r.e} /\ UNCHANGED <<presCall, twice>>
      BY <1>8, DeleteRecordingMoves
    <2>2. PICK d : /\ recordings' = (recordings \ {r}) \cup {d}
                   /\ d.e = r.e /\ d.keyed = r.keyed /\ d.deleted = TRUE
      BY <1>8, DeleteRecordingMoves
    <2> SUFFICES ASSUME ~twice
                 PROVE  RegisterKeyed' /\ OneRow' /\ InsertIsNew' /\ DeletedStays'
      BY <2>1 DEF RowInv
    <2>3. RegisterKeyed' /\ InsertIsNew'
      BY <2>1, <2>2 DEF RowInv, RegisterKeyed, InsertIsNew
    <2>4. OneRow'
      BY <2>1, <2>2 DEF RowInv, OneRow
    <2>5. DeletedStays'
      BY <2>1, <2>2 DEF RowInv, DeletedStays
    <2>6. QED
      BY <2>3, <2>4, <2>5
  <1>9. CASE UNCHANGED <<recordings, deleted, presCall, twice>>
    BY <1>9 DEF RowInv, RegisterKeyed, OneRow, InsertIsNew, DeletedStays
  <1>10. ASSUME NEW e \in Egress, NEW how \in {"complete", "failed"}, EgressSettles(e, how)
         PROVE RowInv'
    BY <1>9, <1>10 DEF EgressSettles
  <1>11. CASE UNCHANGED PresVars
    BY <1>9, <1>11 DEF PresVars
  <1>12. QED
    BY <1>1, <1>2, <1>3, <1>4, <1>5, <1>6, <1>7, <1>8, <1>10, <1>11 DEF PresNext

\* However End, replays, the webhook, cancellations and deletions interleave, the
\* recording LiveKit makes is named by the row once Start is over, its file has
\* one row, a deleted one does not come back, and a replay never denies a
\* recording that runs or is complete; with the exceptions the property states.
THEOREM RecordingsAreAccountedHolds == PresSpec => []RecordingsAreAccounted
  <1>1. PresTypeInv /\ EgressInv /\ RowInv => RecordingsAreAccounted
    <2> SUFFICES ASSUME PresTypeInv, EgressInv, RowInv
                 PROVE  TheEgressIsKnown /\ RecordingRegisteredOnce /\ NoneMeansNone
      BY DEF RecordingsAreAccounted
    <2>1. TheEgressIsKnown
      BY DEF TheEgressIsKnown, EgressInv, KnownAfter
    <2>2. RecordingRegisteredOnce
      BY DEF RecordingRegisteredOnce, RowInv, OneRow, DeletedStays, Playable
    <2>3. NoneMeansNone
      BY PresentationAssumption DEF NoneMeansNone, EgressInv, KnownAfter, FailedIsFailed, SaysFailed
    <2>4. QED
      BY <2>1, <2>2, <2>3
  <1>2. QED
    BY <1>1, PresTypeInitial, PresTypeStep, EgressInitial, EgressStep, RowInitial, RowStep, PTL
    DEF PresSpec

(***************************************************************************)
(* The knowledge of a space's assistant                                    *)
(***************************************************************************)
Working == {"clear", "insert", "finish", "fail"}
Written == {"add_source", "read_history", "write_history"}

\* Calls that found no history row and have not written one yet.
Newcomers == {p \in Proc : task[p].at = "write_history" /\ task[p].row = 0}

\* Besides the types: there is a number left for every newcomer's history row.
KnowTypeInv ==
  /\ KnowTypeOK
  /\ Cardinality(history) + Cardinality(Newcomers) <= Cardinality(Proc)
  /\ \A p \in Proc :
       /\ task[p].at \in Working => task[p].cur \in Source
       /\ task[p].at = "insert" => task[p].batch \in 1..Batches

\* Process p is now at t, the others are where they were.
KnowMoved(p, t) ==
  /\ task' \in [Proc -> Tasks]
  /\ \A q \in Proc : task'[q] = IF q = p THEN t ELSE task[q]

\* t differs from u in where it stands.
SameWork(t, u) ==
  /\ t.enable = u.enable /\ t.say = u.say /\ t.row = u.row
  /\ t.todo = u.todo /\ t.cur = u.cur /\ t.batch = u.batch

LEMMA KnowMove ==
  ASSUME KnowTypeInv, NEW p \in Proc, NEW t \in Tasks, Work(p, t)
  PROVE  KnowMoved(p, t)
  BY DEF KnowTypeInv, KnowTypeOK, KnowMoved, Work

LEMMA TaskShape ==
  ASSUME NEW t \in Tasks
  PROVE  /\ t.at \in {"idle", "write_config", "add_source", "read_history", "write_history",
                      "read_config", "read_sources", "next", "mark", "clear", "insert", "finish", "fail"}
         /\ t.enable \in BOOLEAN /\ t.say \in Flags /\ t.row \in HistoryRows \cup {0}
         /\ t.todo \subseteq Source /\ t.cur \in Source \cup {"none"} /\ t.batch \in 0..Batches
  BY DEF Tasks

LEMMA KnowIdleType ==
  /\ KnowIdle \in Tasks /\ KnowIdle.at = "idle" /\ KnowIdle.todo = {} /\ KnowIdle.cur = "none"
  /\ KnowIdle.row = 0 /\ KnowIdle.batch = 0
  BY KnowledgeAssumption DEF KnowIdle, Tasks, Flags

LEMMA ProcsCounted == IsFiniteSet(Proc) /\ Cardinality(Proc) \in Nat /\ (Proc # {} => Cardinality(Proc) >= 1)
  <1>1. IsFiniteSet(Proc) /\ Cardinality(Proc) \in Nat
    BY KnowledgeAssumption, FS_CardinalityType
  <1>2. Cardinality(Proc) = 0 => Proc = {}
    BY <1>1, FS_EmptySet
  <1>3. QED
    BY <1>1, <1>2

LEMMA WorkAtMoves ==
  ASSUME KnowTypeInv, NEW p \in Proc,
         NEW at \in {"read_history", "write_history", "read_sources", "finish", "fail"}, WorkAt(p, at)
  PROVE  \E t \in Tasks : KnowMoved(p, t) /\ t.at = at /\ SameWork(t, task[p])
  <1> DEFINE t == [task[p] EXCEPT !.at = at]
  <1>1. task[p] \in Tasks
    BY DEF KnowTypeInv, KnowTypeOK
  <1>2. t \in Tasks /\ t.at = at /\ SameWork(t, task[p])
    BY <1>1 DEF Tasks, SameWork
  <1>3. Work(p, t)
    BY DEF WorkAt
  <1> HIDE DEF t
  <1>4. QED
    BY <1>2, <1>3, KnowMove

LEMMA RestMoves ==
  ASSUME KnowTypeInv, NEW p \in Proc, Rest(p)
  PROVE  KnowMoved(p, KnowIdle)
  BY KnowIdleType, KnowMove DEF Rest

\* A job starts with nothing but where it stands.
LEMMA JobMoves ==
  ASSUME KnowTypeInv, NEW p \in Proc, Work(p, [KnowIdle EXCEPT !.at = "read_config"])
  PROVE  \E t \in Tasks : KnowMoved(p, t) /\ t.at = "read_config"
  <1> DEFINE t == [KnowIdle EXCEPT !.at = "read_config"]
  <1>1. t \in Tasks /\ t.at = "read_config"
    BY KnowIdleType DEF Tasks
  <1>2. Work(p, t)
    OBVIOUS
  <1> HIDE DEF t
  <1>3. QED
    BY <1>1, <1>2, KnowMove

LEMMA ConfigureMoves ==
  ASSUME KnowTypeInv, NEW p \in Proc, NEW enable \in BOOLEAN, NEW say \in Flags,
         ConfigureSpaceAi(p, enable, say)
  PROVE  /\ task[p] = KnowIdle
         /\ \E t \in Tasks : KnowMoved(p, t) /\ t.at = "write_config" /\ t.say \in {"on", "off"} /\ t.row = 0
         /\ mixed' = (mixed \/ Configuring # {})
         /\ UNCHANGED <<config, history, source, chunks, doubly, lost>>
  <1>1. PICK saw \in BOOLEAN : saw = config.made
    BY DEF KnowTypeInv, KnowTypeOK
  <1>2. PICK what \in {"on", "off"} :
          what = (IF say # "unsaid" THEN say ELSE IF config.history THEN "on" ELSE "off")
    BY DEF Flags
  <1> DEFINE u == [KnowIdle EXCEPT !.at = "write_config"]
  <1> DEFINE v == [u EXCEPT !.enable = enable]
  <1> DEFINE w == [v EXCEPT !.saw = saw]
  <1> DEFINE t == [w EXCEPT !.say = what]
  <1>4. Work(p, t)
    BY <1>1, <1>2 DEF ConfigureSpaceAi
  <1>a. u \in Tasks /\ u.at = "write_config" /\ u.row = 0
    BY KnowIdleType DEF Tasks
  <1> HIDE DEF u
  <1>b. v \in Tasks /\ v.at = "write_config" /\ v.row = 0
    BY <1>a DEF Tasks
  <1> HIDE DEF v
  <1>c. w \in Tasks /\ w.at = "write_config" /\ w.row = 0
    BY <1>b DEF Tasks
  <1> HIDE DEF w
  <1>3. t \in Tasks /\ t.at = "write_config" /\ t.say = what /\ t.row = 0
    BY <1>c DEF Tasks, Flags
  <1> HIDE DEF t
  <1>5. KnowMoved(p, t)
    BY <1>3, <1>4, KnowMove
  <1>6. QED
    BY <1>2, <1>3, <1>5 DEF ConfigureSpaceAi

LEMMA WriteConfigMoves ==
  ASSUME KnowTypeInv, NEW p \in Proc, WriteConfig(p)
  PROVE  /\ task[p].at = "write_config"
         /\ \/ KnowMoved(p, KnowIdle) /\ UNCHANGED config
            \/ \E t \in Tasks :
                 /\ KnowMoved(p, t) /\ t.at = "add_source" /\ SameWork(t, task[p])
                 /\ config'.enabled = t.enable /\ (config'.history <=> t.say = "on")
                 /\ config' \in [made : BOOLEAN, enabled : BOOLEAN, history : BOOLEAN]
         /\ UNCHANGED <<history, source, chunks, KnowNotes>>
  <1>0. task[p] \in Tasks /\ task[p].at = "write_config" /\ UNCHANGED <<history, source, chunks, KnowNotes>>
    BY DEF KnowTypeInv, KnowTypeOK, WriteConfig
  <1>1. CASE config.made /\ ~task[p].saw
    <2>1. Rest(p) /\ UNCHANGED config
      BY <1>1 DEF WriteConfig
    <2>2. QED
      BY <1>0, <2>1, RestMoves
  <1>2. CASE ~(config.made /\ ~task[p].saw)
    <2>1. PICK no \in BOOLEAN, yes \in BOOLEAN, on \in BOOLEAN, enable \in BOOLEAN :
            no = FALSE /\ yes = TRUE /\ (on <=> task[p].say = "on") /\ enable = task[p].enable
      BY <1>0, TaskShape
    <2> DEFINE u == [task[p] EXCEPT !.at = "add_source"]
    <2> DEFINE t == [u EXCEPT !.saw = no]
    <2>2. u \in Tasks /\ u.at = "add_source" /\ SameWork(u, task[p])
      BY <1>0 DEF Tasks, SameWork
    <2>3. Work(p, t)
      <3>1. Work(p, [task[p] EXCEPT !.at = "add_source", !.saw = FALSE])
        BY <1>2 DEF WriteConfig
      <3>2. QED
        BY <2>1, <3>1
    <2> HIDE DEF u
    <2>4. t \in Tasks /\ t.at = "add_source" /\ SameWork(t, u)
      BY <2>2 DEF Tasks, SameWork
    <2> HIDE DEF t
    <2>5. KnowMoved(p, t) /\ SameWork(t, task[p])
      BY <2>2, <2>3, <2>4, KnowMove DEF SameWork
    <2>6. config' = [made |-> yes, enabled |-> enable, history |-> on]
      <3>1. config' = [made |-> TRUE, enabled |-> task[p].enable, history |-> task[p].say = "on"]
        BY <1>2 DEF WriteConfig
      <3>2. on = (task[p].say = "on")
        BY <2>1
      <3>3. QED
        BY <2>1, <3>1, <3>2
    <2>7. /\ config'.enabled = enable /\ config'.history = on
          /\ config' \in [made : BOOLEAN, enabled : BOOLEAN, history : BOOLEAN]
      BY <2>6
    <2>8. t.enable = enable /\ (on <=> t.say = "on")
      BY <2>1, <2>5 DEF SameWork
    <2>9. QED
      BY <1>0, <2>4, <2>5, <2>7, <2>8
  <1>3. QED
    BY <1>1, <1>2

LEMMA ReadHistoryMoves ==
  ASSUME KnowTypeInv, NEW p \in Proc, ReadHistory(p)
  PROVE  /\ task[p].at = "read_history"
         /\ \E t \in Tasks :
              /\ KnowMoved(p, t) /\ t.at = "write_history" /\ t.enable = task[p].enable /\ t.say = task[p].say
              /\ \/ history = {} /\ t.row = task[p].row
                 \/ t.row \in history /\ t.row # 0
         /\ UNCHANGED <<config, history, source, chunks, doubly, lost, mixed>>
  <1>0. task[p] \in Tasks /\ task[p].at = "read_history"
        /\ UNCHANGED <<config, history, source, chunks, doubly, lost, mixed>>
    BY DEF KnowTypeInv, KnowTypeOK, ReadHistory, KnowNotes
  <1>1. CASE history = {} /\ WorkAt(p, "write_history")
    BY <1>0, <1>1, WorkAtMoves DEF SameWork
  <1>2. ASSUME NEW row \in history, Work(p, [task[p] EXCEPT !.at = "write_history", !.row = row])
        PROVE  \E t \in Tasks :
                 /\ KnowMoved(p, t) /\ t.at = "write_history" /\ t.enable = task[p].enable /\ t.say = task[p].say
                 /\ t.row = row
    <2> DEFINE t == [task[p] EXCEPT !.at = "write_history", !.row = row]
    <2>0. row \in HistoryRows
      BY DEF KnowTypeInv, KnowTypeOK
    <2>1. t \in Tasks /\ t.at = "write_history" /\ t.enable = task[p].enable /\ t.say = task[p].say /\ t.row = row
      BY <1>0, <2>0 DEF Tasks
    <2>2. Work(p, t)
      BY <1>2
    <2> HIDE DEF t
    <2>3. QED
      BY <2>1, <2>2, KnowMove
  <1>3. \A row \in history : row # 0
    BY ProcsCounted DEF KnowTypeInv, KnowTypeOK, HistoryRows
  <1>4. CASE \E row \in history : Work(p, [task[p] EXCEPT !.at = "write_history", !.row = row])
    <2>1. PICK row \in history : Work(p, [task[p] EXCEPT !.at = "write_history", !.row = row])
      BY <1>4
    <2>2. PICK t \in Tasks :
            /\ KnowMoved(p, t) /\ t.at = "write_history" /\ t.enable = task[p].enable /\ t.say = task[p].say
            /\ t.row = row
      BY <1>2, <2>1
    <2>3. QED
      BY <1>0, <1>3, <2>2
  <1>5. QED
    BY <1>1, <1>4 DEF ReadHistory

LEMMA WriteHistoryMoves ==
  ASSUME KnowTypeInv, NEW p \in Proc, WriteHistory(p)
  PROVE  /\ task[p].at = "write_history"
         /\ \/ task[p].enable /\ \E t \in Tasks : KnowMoved(p, t) /\ t.at = "read_config"
            \/ ~task[p].enable /\ KnowMoved(p, KnowIdle)
         /\ \/ /\ task[p].say = "on" /\ task[p].row = 0
               /\ \E r \in HistoryRows : r \notin history /\ history' = history \cup {r}
            \/ task[p].say = "on" /\ task[p].row # 0 /\ UNCHANGED history
            \/ task[p].say = "off" /\ history' = history \ {task[p].row}
            \/ task[p].say = "unsaid" /\ UNCHANGED history
         /\ UNCHANGED <<config, source, chunks, doubly, lost, mixed>>
  <1>0. task[p] \in Tasks /\ task[p].at = "write_history"
        /\ UNCHANGED <<config, source, chunks, doubly, lost, mixed>>
    BY DEF KnowTypeInv, KnowTypeOK, WriteHistory, KnowNotes
  <1>1. \/ task[p].enable /\ \E t \in Tasks : KnowMoved(p, t) /\ t.at = "read_config"
        \/ ~task[p].enable /\ KnowMoved(p, KnowIdle)
    BY JobMoves, RestMoves DEF WriteHistory, StartJob
  <1>2. ASSUME task[p].row = 0 PROVE \E r \in HistoryRows : r \notin history
    <2>1. p \in Newcomers /\ Newcomers \subseteq Proc
      BY <1>0, <1>2 DEF Newcomers
    <2>2. IsFiniteSet(Newcomers) /\ Cardinality(Newcomers) \in Nat
      BY <2>1, ProcsCounted, FS_Subset, FS_CardinalityType
    <2>3. Cardinality(Newcomers) # 0
      BY <2>1, <2>2, FS_EmptySet
    <2>4. history \subseteq HistoryRows
      BY DEF KnowTypeInv, KnowTypeOK
    <2>5. Cardinality(HistoryRows) = Cardinality(Proc) /\ IsFiniteSet(HistoryRows)
      BY ProcsCounted, FS_Interval DEF HistoryRows
    <2>6. Cardinality(history) \in Nat
      BY <2>4, <2>5, FS_Subset, FS_CardinalityType
    <2>7. history # HistoryRows
      BY <2>2, <2>3, <2>5, <2>6, ProcsCounted DEF KnowTypeInv
    <2>8. QED
      BY <2>4, <2>7
  <1>3. CASE task[p].say = "on" /\ task[p].row = 0
    <2>1. PICK r : r = CHOOSE h \in HistoryRows : h \notin history
      OBVIOUS
    <2>2. r \in HistoryRows /\ r \notin history
      BY <1>2, <1>3, <2>1
    <2>3. history' = history \cup {r}
      BY <1>3, <2>1 DEF WriteHistory
    <2>4. QED
      BY <1>0, <1>1, <1>3, <2>2, <2>3
  <1>4. CASE task[p].say = "off"
    BY <1>0, <1>1, <1>4 DEF WriteHistory
  <1>5. CASE ~(task[p].say = "on" /\ task[p].row = 0) /\ task[p].say # "off"
    <2>1. UNCHANGED history
      BY <1>5 DEF WriteHistory
    <2>2. task[p].say \in {"on", "off", "unsaid"}
      BY <1>0, TaskShape DEF Flags
    <2>3. QED
      BY <1>0, <1>1, <1>5, <2>1, <2>2
  <1>6. QED
    BY <1>3, <1>4, <1>5

LEMMA ReadSourcesMoves ==
  ASSUME KnowTypeInv, NEW p \in Proc, ReadSources(p)
  PROVE  /\ task[p].at = "read_sources"
         /\ \/ KnowMoved(p, KnowIdle) /\ \A s \in Source : source[s] \in {"none", "ready"}
            \/ \E t \in Tasks : /\ KnowMoved(p, t) /\ t.at = "next"
                                /\ \A s \in Source : source[s] \notin {"none", "ready"} => s \in t.todo
         /\ lost' = {} /\ UNCHANGED <<config, history, source, chunks, doubly, mixed>>
  <1> DEFINE todo == {s \in Source : source[s] \notin {"none", "ready"}}
  <1>0. task[p] \in Tasks /\ task[p].at = "read_sources" /\ lost' = {}
        /\ UNCHANGED <<config, history, source, chunks, doubly, mixed>>
    BY DEF KnowTypeInv, KnowTypeOK, ReadSources
  <1>1. CASE todo = {}
    <2>1. Rest(p)
      BY <1>1 DEF ReadSources
    <2>2. QED
      BY <1>0, <1>1, <2>1, RestMoves
  <1>2. CASE todo # {}
    <2>1. PICK todos \in SUBSET Source : todos = todo
      OBVIOUS
    <2> DEFINE t == [task[p] EXCEPT !.at = "next", !.todo = todos]
    <2>2. t \in Tasks /\ t.at = "next" /\ t.todo = todos
      BY <1>0 DEF Tasks
    <2>3. Work(p, t)
      BY <1>2, <2>1 DEF ReadSources
    <2> HIDE DEF t
    <2>4. KnowMoved(p, t)
      BY <2>2, <2>3, KnowMove
    <2>5. QED
      BY <1>0, <2>1, <2>2, <2>4
  <1>3. QED
    BY <1>1, <1>2

LEMMA MarkMoves ==
  ASSUME KnowTypeInv, NEW p \in Proc, NEW s \in Source, MarkIndexing(p, s)
  PROVE  /\ task[p].at = "next"
         /\ \E t \in Tasks : KnowMoved(p, t) /\ t.at = "clear" /\ t.cur = s /\ t.todo = task[p].todo \ {s}
         /\ source' = [source EXCEPT ![s] = "indexing"]
         /\ doubly' = IF Indexing(s) # {} THEN doubly \cup {s} ELSE doubly \ {s}
         /\ UNCHANGED <<config, history, chunks, lost, mixed>>
  <1>0. task[p] \in Tasks
    BY DEF KnowTypeInv, KnowTypeOK
  <1>1. PICK rest \in SUBSET Source : rest = task[p].todo \ {s}
    BY <1>0, TaskShape
  <1> DEFINE u == [task[p] EXCEPT !.at = "clear"]
  <1> DEFINE v == [u EXCEPT !.cur = s]
  <1> DEFINE t == [v EXCEPT !.todo = rest]
  <1>2. u \in Tasks /\ u.at = "clear" /\ u.todo = task[p].todo
    BY <1>0 DEF Tasks
  <1>3. Work(p, t)
    <2>1. Work(p, [task[p] EXCEPT !.at = "clear", !.cur = s, !.todo = @ \ {s}])
      BY DEF MarkIndexing
    <2>2. [task[p] EXCEPT !.at = "clear", !.cur = s, !.todo = @ \ {s}] = t
      BY <1>0, <1>1 DEF Tasks
    <2>3. QED
      BY <2>1, <2>2
  <1> HIDE DEF u
  <1>4. v \in Tasks /\ v.at = "clear" /\ v.cur = s
    BY <1>2 DEF Tasks
  <1> HIDE DEF v
  <1>5. t \in Tasks /\ t.at = "clear" /\ t.cur = s /\ t.todo = rest
    BY <1>4 DEF Tasks
  <1> HIDE DEF t
  <1>6. KnowMoved(p, t)
    BY <1>3, <1>5, KnowMove
  <1>7. QED
    BY <1>1, <1>5, <1>6 DEF MarkIndexing

LEMMA ClearMoves ==
  ASSUME KnowTypeInv, NEW p \in Proc, ClearChunks(p)
  PROVE  /\ task[p].at = "clear" /\ task[p].cur \in Source
         /\ \E t \in Tasks : /\ KnowMoved(p, t) /\ t.at = "insert" /\ t.batch = 1
                             /\ t.cur = task[p].cur /\ t.todo = task[p].todo
         /\ chunks' = [chunks EXCEPT ![task[p].cur] = [b \in 1..Batches |-> 0]]
         /\ UNCHANGED <<config, history, source, doubly, lost, mixed>>
  <1>0. task[p] \in Tasks /\ task[p].at = "clear" /\ task[p].cur \in Source
    BY DEF KnowTypeInv, KnowTypeOK, ClearChunks, Working
  <1> DEFINE u == [task[p] EXCEPT !.at = "insert"]
  <1> DEFINE t == [u EXCEPT !.batch = 1]
  <1>2. Work(p, t)
    BY DEF ClearChunks
  <1>a. u \in Tasks /\ u.at = "insert" /\ u.cur = task[p].cur /\ u.todo = task[p].todo
    BY <1>0 DEF Tasks
  <1> HIDE DEF u
  <1>b. 1 \in 0..Batches
    BY KnowledgeAssumption
  <1>1. t \in Tasks /\ t.at = "insert" /\ t.batch = 1 /\ t.cur = task[p].cur /\ t.todo = task[p].todo
    BY <1>a, <1>b DEF Tasks
  <1> HIDE DEF t
  <1>3. KnowMoved(p, t)
    BY <1>1, <1>2, KnowMove
  <1>4. QED
    BY <1>0, <1>1, <1>3 DEF ClearChunks

LEMMA InsertMoves ==
  ASSUME KnowTypeInv, NEW p \in Proc, InsertBatch(p)
  PROVE  /\ task[p].at = "insert" /\ task[p].cur \in Source /\ task[p].batch \in 1..Batches
         /\ \E t \in Tasks :
              /\ KnowMoved(p, t) /\ t.cur = task[p].cur /\ t.todo = task[p].todo
              /\ \/ t.at = "finish" /\ task[p].batch = Batches
                 \/ t.at = "insert" /\ task[p].batch # Batches /\ t.batch = task[p].batch + 1
         /\ \A s \in Source : \A b \in 1..Batches :
              chunks'[s][b] = IF s = task[p].cur /\ b = task[p].batch /\ chunks[s][b] # Cardinality(Proc)
                              THEN chunks[s][b] + 1 ELSE chunks[s][b]
         /\ \A s \in Source \ {task[p].cur} : chunks'[s] = chunks[s]
         /\ chunks' \in [Source -> [1..Batches -> Copies]]
         /\ UNCHANGED <<config, history, source, doubly, lost, mixed>>
  <1>0. /\ task[p] \in Tasks /\ task[p].at = "insert" /\ task[p].cur \in Source
        /\ task[p].batch \in 1..Batches
        /\ UNCHANGED <<config, history, source, doubly, lost, mixed>>
    BY DEF KnowTypeInv, KnowTypeOK, InsertBatch, Working, KnowNotes
  <1>1. \E t \in Tasks :
              /\ KnowMoved(p, t) /\ t.cur = task[p].cur /\ t.todo = task[p].todo
              /\ \/ t.at = "finish" /\ task[p].batch = Batches
                 \/ t.at = "insert" /\ task[p].batch # Batches /\ t.batch = task[p].batch + 1
    <2>1. CASE task[p].batch = Batches
      BY <2>1, WorkAtMoves DEF InsertBatch, SameWork
    <2>2. CASE task[p].batch # Batches
      <3>1. PICK n \in 1..Batches : n = task[p].batch + 1
        BY <1>0, <2>2, KnowledgeAssumption
      <3> DEFINE t == [task[p] EXCEPT !.batch = n]
      <3>2. t \in Tasks /\ t.at = "insert" /\ t.batch = n /\ t.cur = task[p].cur /\ t.todo = task[p].todo
        BY <1>0 DEF Tasks
      <3>3. Work(p, t)
        BY <2>2, <3>1 DEF InsertBatch
      <3> HIDE DEF t
      <3>4. QED
        BY <2>2, <3>1, <3>2, <3>3, KnowMove
    <2>3. QED
      BY <2>1, <2>2
  <1>2. PICK s \in Source, k \in 1..Batches : s = task[p].cur /\ k = task[p].batch
    BY <1>0
  <1>3. chunks \in [Source -> [1..Batches -> Copies]]
    BY DEF KnowTypeInv, KnowTypeOK
  <1>4. PICK x : x = IF chunks[s][k] = Cardinality(Proc) THEN chunks[s][k] ELSE chunks[s][k] + 1
    OBVIOUS
  <1>5. chunks' = [chunks EXCEPT ![s] = [chunks[s] EXCEPT ![k] = x]]
    BY <1>2, <1>3, <1>4 DEF InsertBatch
  <1>6. x \in Copies
    <2>1. chunks[s][k] \in Copies
      BY <1>3
    <2>2. QED
      BY <1>4, <2>1, ProcsCounted DEF Copies
  <1>7. chunks' \in [Source -> [1..Batches -> Copies]]
    BY <1>3, <1>5, <1>6
  <1>8. \A s2 \in Source : \A b \in 1..Batches :
          chunks'[s2][b] = IF s2 = s /\ b = k /\ chunks[s2][b] # Cardinality(Proc)
                           THEN chunks[s2][b] + 1 ELSE chunks[s2][b]
    BY <1>3, <1>4, <1>5
  <1>9. \A s2 \in Source \ {s} : chunks'[s2] = chunks[s2]
    BY <1>3, <1>5
  <1>10. QED
    BY <1>0, <1>1, <1>2, <1>7, <1>8, <1>9

LEMMA StatusMoves ==
  ASSUME KnowTypeInv, NEW p \in Proc, SetSourceStatus(p)
  PROVE  /\ task[p].at \in {"finish", "fail"} /\ task[p].cur \in Source
         /\ source' = [source EXCEPT ![task[p].cur] = IF task[p].at = "finish" THEN "ready" ELSE "error"]
         /\ \/ KnowMoved(p, KnowIdle) /\ task[p].todo = {}
            \/ \E t \in Tasks : KnowMoved(p, t) /\ t.at = "next" /\ t.todo = task[p].todo
         /\ UNCHANGED <<config, history, chunks, doubly, lost, mixed>>
  <1>0. /\ task[p] \in Tasks /\ task[p].at \in {"finish", "fail"} /\ task[p].cur \in Source
        /\ source' = [source EXCEPT ![task[p].cur] = IF task[p].at = "finish" THEN "ready" ELSE "error"]
        /\ UNCHANGED <<config, history, chunks, doubly, lost, mixed>>
    BY DEF KnowTypeInv, KnowTypeOK, SetSourceStatus, Working, KnowNotes
  <1>1. CASE task[p].todo = {}
    <2>1. Rest(p)
      BY <1>1 DEF SetSourceStatus
    <2>2. QED
      BY <1>0, <1>1, <2>1, RestMoves
  <1>2. CASE task[p].todo # {}
    <2> DEFINE u == [task[p] EXCEPT !.at = "next"]
    <2> DEFINE v == [u EXCEPT !.cur = "none"]
    <2> DEFINE t == [v EXCEPT !.batch = 0]
    <2>1. Work(p, t)
      BY <1>2 DEF SetSourceStatus
    <2>2. u \in Tasks /\ u.at = "next" /\ u.todo = task[p].todo
      BY <1>0 DEF Tasks
    <2> HIDE DEF u
    <2>3. v \in Tasks /\ v.at = "next" /\ v.todo = task[p].todo
      BY <2>2 DEF Tasks
    <2> HIDE DEF v
    <2>4. t \in Tasks /\ t.at = "next" /\ t.todo = task[p].todo
      BY <2>3, KnowledgeAssumption DEF Tasks
    <2> HIDE DEF t
    <2>5. KnowMoved(p, t)
      BY <2>1, <2>4, KnowMove
    <2>6. QED
      BY <1>0, <2>4, <2>5
  <1>3. QED
    BY <1>1, <1>2

\* Types survive a move of a process that makes it no newcomer, when the other
\* variables keep theirs.
LEMMA KnowTypeMove ==
  ASSUME KnowTypeInv, NEW p \in Proc, NEW t \in Tasks, KnowMoved(p, t),
         t.at \in Working => t.cur \in Source,
         t.at = "insert" => t.batch \in 1..Batches,
         t.at = "write_history" => history = {} \/ t.row # 0,
         config' \in [made : BOOLEAN, enabled : BOOLEAN, history : BOOLEAN],
         history' = history,
         source' \in [Source -> {"none", "pending", "indexing", "ready", "error"}],
         chunks' \in [Source -> [1..Batches -> Copies]],
         doubly' \subseteq Source, lost' \subseteq Source, mixed' \in BOOLEAN
  PROVE  KnowTypeInv'
  <1>1. \A q \in Proc : task'[q] = IF q = p THEN t ELSE task[q]
    BY DEF KnowMoved
  <1>2. Newcomers \subseteq Proc /\ Newcomers' \subseteq Proc
    BY DEF Newcomers
  <1>3. Cardinality(history) + Cardinality(Newcomers') <= Cardinality(Proc)
    <2>1. CASE history = {}
      BY <1>2, <2>1, ProcsCounted, FS_Subset, FS_EmptySet, FS_CardinalityType
    <2>2. CASE history # {}
      <3>1. Newcomers' \subseteq Newcomers
        BY <1>1, <2>2 DEF Newcomers
      <3>2. IsFiniteSet(Newcomers)
        BY <1>2, ProcsCounted, FS_Subset
      <3>3. Cardinality(Newcomers') <= Cardinality(Newcomers)
            /\ Cardinality(Newcomers) \in Nat /\ Cardinality(Newcomers') \in Nat
        BY <3>1, <3>2, FS_Subset, FS_CardinalityType
      <3>4. history \subseteq HistoryRows /\ IsFiniteSet(HistoryRows)
        BY ProcsCounted, FS_Interval DEF HistoryRows, KnowTypeInv, KnowTypeOK
      <3>5. Cardinality(history) \in Nat
        BY <3>4, FS_Subset, FS_CardinalityType
      <3>6. QED
        BY <3>3, <3>5, ProcsCounted DEF KnowTypeInv
    <2>3. QED
      BY <2>1, <2>2
  <1>4. ASSUME NEW q \in Proc
        PROVE  /\ task'[q].at \in Working => task'[q].cur \in Source
               /\ task'[q].at = "insert" => task'[q].batch \in 1..Batches
    BY <1>1 DEF KnowTypeInv
  <1>5. task' \in [Proc -> Tasks] /\ history' \subseteq HistoryRows
    BY DEF KnowMoved, KnowTypeInv, KnowTypeOK
  <1>6. QED
    BY <1>3, <1>4, <1>5 DEF KnowTypeInv, KnowTypeOK

LEMMA KnowTypeInitial == KnowInit => KnowTypeInv
  <1> SUFFICES ASSUME KnowInit PROVE KnowTypeInv
    OBVIOUS
  <1>1. Newcomers = {}
    BY KnowIdleType DEF KnowInit, Newcomers
  <1>2. Cardinality(history) + Cardinality(Newcomers) <= Cardinality(Proc)
    BY <1>1, ProcsCounted, FS_EmptySet DEF KnowInit
  <1>3. 0 \in Copies
    BY ProcsCounted DEF Copies
  <1>4. KnowTypeOK
    BY <1>3, KnowIdleType DEF KnowInit, KnowTypeOK
  <1>5. QED
    BY <1>2, <1>4, KnowIdleType DEF KnowInit, KnowTypeInv, Working

LEMMA KnowTypeStep == KnowTypeInv /\ [KnowNext]_KnowVars => KnowTypeInv'
  <1> SUFFICES ASSUME KnowTypeInv, [KnowNext]_KnowVars PROVE KnowTypeInv'
    OBVIOUS
  <1>0. /\ config \in [made : BOOLEAN, enabled : BOOLEAN, history : BOOLEAN]
        /\ source \in [Source -> {"none", "pending", "indexing", "ready", "error"}]
        /\ chunks \in [Source -> [1..Batches -> Copies]]
        /\ doubly \subseteq Source /\ lost \subseteq Source /\ mixed \in BOOLEAN
        /\ \A p \in Proc : task[p] \in Tasks
    BY DEF KnowTypeInv, KnowTypeOK
  <1>1. ASSUME NEW p \in Proc, NEW enable \in BOOLEAN, NEW say \in Flags, ConfigureSpaceAi(p, enable, say)
        PROVE KnowTypeInv'
    <2>1. PICK t \in Tasks : KnowMoved(p, t) /\ t.at = "write_config"
      BY <1>1, ConfigureMoves
    <2>2. mixed' \in BOOLEAN /\ UNCHANGED <<config, history, source, chunks, doubly, lost>>
      BY <1>1, ConfigureMoves
    <2>3. QED
      BY <1>0, <2>1, <2>2, KnowTypeMove DEF Working
  <1>2. ASSUME NEW p \in Proc, WriteConfig(p) PROVE KnowTypeInv'
    <2>1. \E t \in Tasks : KnowMoved(p, t) /\ t.at \in {"idle", "add_source"}
      BY <1>2, WriteConfigMoves, KnowIdleType
    <2>2. /\ config' \in [made : BOOLEAN, enabled : BOOLEAN, history : BOOLEAN]
          /\ UNCHANGED <<history, source, chunks, doubly, lost, mixed>>
      BY <1>0, <1>2, WriteConfigMoves DEF KnowNotes
    <2>3. QED
      BY <1>0, <2>1, <2>2, KnowTypeMove DEF Working
  <1>3. ASSUME NEW p \in Proc, NoNewSource(p) \/ \E s \in Source : AddSource(p, s) PROVE KnowTypeInv'
    <2>1. PICK t \in Tasks : KnowMoved(p, t) /\ t.at = "read_history"
      BY <1>3, WorkAtMoves DEF NoNewSource, AddSource
    <2>2. /\ source' \in [Source -> {"none", "pending", "indexing", "ready", "error"}]
          /\ UNCHANGED <<config, history, chunks, doubly, lost, mixed>>
      BY <1>0, <1>3 DEF NoNewSource, AddSource, KnowNotes
    <2>3. QED
      BY <1>0, <2>1, <2>2, KnowTypeMove DEF Working
  <1>4. ASSUME NEW p \in Proc, ReadHistory(p) PROVE KnowTypeInv'
    <2>1. PICK t \in Tasks : KnowMoved(p, t) /\ t.at = "write_history" /\ (history = {} \/ t.row # 0)
      BY <1>4, ReadHistoryMoves
    <2>2. UNCHANGED <<config, history, source, chunks, doubly, lost, mixed>>
      BY <1>4, ReadHistoryMoves
    <2>3. QED
      BY <1>0, <2>1, <2>2, KnowTypeMove DEF Working
  <1>5. ASSUME NEW p \in Proc, WriteHistory(p) PROVE KnowTypeInv'
    <2>1. task[p].at = "write_history" /\ UNCHANGED <<config, source, chunks, doubly, lost, mixed>>
      BY <1>5, WriteHistoryMoves
    <2>2. PICK t \in Tasks : KnowMoved(p, t) /\ t.at \in {"idle", "read_config"}
      BY <1>5, WriteHistoryMoves, KnowIdleType
    <2>3. \A q \in Proc : task'[q] = IF q = p THEN t ELSE task[q]
      BY <2>2 DEF KnowMoved
    <2>4. Newcomers' = Newcomers \ {p} /\ (p \in Newcomers <=> task[p].row = 0)
      BY <2>1, <2>2, <2>3 DEF Newcomers
    <2>5. IsFiniteSet(Newcomers) /\ Newcomers \subseteq Proc
      BY ProcsCounted, FS_Subset DEF Newcomers
    <2>6. IsFiniteSet(history) /\ history \subseteq HistoryRows
      <3>1. IsFiniteSet(HistoryRows) /\ history \subseteq HistoryRows
        BY ProcsCounted, FS_Interval DEF HistoryRows, KnowTypeInv, KnowTypeOK
      <3>2. QED
        BY <3>1, FS_Subset
    <2>7. /\ Cardinality(history) \in Nat /\ Cardinality(Newcomers) \in Nat
          /\ Cardinality(history) + Cardinality(Newcomers) <= Cardinality(Proc)
      BY <2>5, <2>6, FS_CardinalityType DEF KnowTypeInv
    <2>8. Cardinality(Newcomers') = IF task[p].row = 0 THEN Cardinality(Newcomers) - 1 ELSE Cardinality(Newcomers)
      BY <2>4, <2>5, FS_RemoveElement
    <2>9. /\ history' \subseteq HistoryRows
          /\ Cardinality(history') + Cardinality(Newcomers') <= Cardinality(Proc)
      <3>1. CASE task[p].row = 0 /\ \E r \in HistoryRows : history' = history \cup {r}
        <4>1. PICK r \in HistoryRows : history' = history \cup {r}
          BY <3>1
        <4>2. Cardinality(history') \in Nat /\ Cardinality(history') <= Cardinality(history) + 1
          <5>1. Cardinality(history \cup {r}) \in {Cardinality(history), Cardinality(history) + 1}
            BY <2>6, FS_AddElement
          <5>2. QED
            BY <2>7, <4>1, <5>1
        <4>3. QED
          BY <2>6, <2>7, <2>8, <3>1, <4>1, <4>2, ProcsCounted
      <3>2. CASE history' \subseteq history
        <4>1. Cardinality(history') <= Cardinality(history) /\ Cardinality(history') \in Nat
          BY <2>6, <3>2, FS_Subset, FS_CardinalityType
        <4>2. QED
          BY <2>6, <2>7, <2>8, <3>2, <4>1, ProcsCounted
      <3>3. QED
        BY <1>5, <3>1, <3>2, WriteHistoryMoves
    <2>10. task' \in [Proc -> Tasks]
      BY <2>2 DEF KnowMoved
    <2>11. KnowTypeOK'
      BY <1>0, <2>1, <2>9, <2>10 DEF KnowTypeOK
    <2>12. QED
      BY <2>2, <2>3, <2>9, <2>11 DEF KnowTypeInv, Working
  <1>6. ASSUME NEW p \in Proc, RefreshSpaceAi(p) \/ \E s \in Source : AddDocumentSource(p, s)
        PROVE KnowTypeInv'
    <2>1. PICK t \in Tasks : KnowMoved(p, t) /\ t.at = "read_config"
      BY <1>6, JobMoves DEF RefreshSpaceAi, AddDocumentSource
    <2>2. /\ source' \in [Source -> {"none", "pending", "indexing", "ready", "error"}]
          /\ UNCHANGED <<config, history, chunks, doubly, lost, mixed>>
      BY <1>0, <1>6 DEF RefreshSpaceAi, AddDocumentSource, KnowNotes
    <2>3. QED
      BY <1>0, <2>1, <2>2, KnowTypeMove DEF Working
  <1>7. ASSUME NEW p \in Proc, ReadConfig(p) PROVE KnowTypeInv'
    <2>1. \E t \in Tasks : KnowMoved(p, t) /\ t.at \in {"idle", "read_sources"}
      BY <1>7, WorkAtMoves, RestMoves, KnowIdleType DEF ReadConfig
    <2>2. UNCHANGED <<config, history, source, chunks, doubly, lost, mixed>>
      BY <1>7 DEF ReadConfig, KnowNotes
    <2>3. QED
      BY <1>0, <2>1, <2>2, KnowTypeMove DEF Working
  <1>8. ASSUME NEW p \in Proc, ReadSources(p) PROVE KnowTypeInv'
    <2>1. \E t \in Tasks : KnowMoved(p, t) /\ t.at \in {"idle", "next"}
      BY <1>8, ReadSourcesMoves, KnowIdleType
    <2>2. lost' = {} /\ UNCHANGED <<config, history, source, chunks, doubly, mixed>>
      BY <1>8, ReadSourcesMoves
    <2>3. QED
      BY <1>0, <2>1, <2>2, KnowTypeMove DEF Working
  <1>9. ASSUME NEW p \in Proc, NEW s \in Source, MarkIndexing(p, s) PROVE KnowTypeInv'
    <2>1. \E t \in Tasks : KnowMoved(p, t) /\ t.at = "clear" /\ t.cur = s
      BY <1>9, MarkMoves
    <2>2. source' = [source EXCEPT ![s] = "indexing"] /\ doubly' \subseteq Source
          /\ UNCHANGED <<config, history, chunks, lost, mixed>>
      BY <1>0, <1>9, MarkMoves
    <2>3. source' \in [Source -> {"none", "pending", "indexing", "ready", "error"}]
      BY <1>0, <2>2
    <2>4. QED
      BY <1>0, <2>1, <2>2, <2>3, KnowTypeMove DEF Working
  <1>10. ASSUME NEW p \in Proc, ClearChunks(p) PROVE KnowTypeInv'
    <2>1. \E t \in Tasks : KnowMoved(p, t) /\ t.at = "insert" /\ t.batch = 1 /\ t.cur \in Source
      BY <1>10, ClearMoves
    <2>2. PICK s \in Source : chunks' = [chunks EXCEPT ![s] = [b \in 1..Batches |-> 0]]
      BY <1>10, ClearMoves
    <2>3. UNCHANGED <<config, history, source, doubly, lost, mixed>>
      BY <1>10, ClearMoves
    <2>4. 0 \in Copies /\ 1 \in 1..Batches
      BY ProcsCounted, KnowledgeAssumption DEF Copies
    <2>5. chunks' \in [Source -> [1..Batches -> Copies]]
      BY <1>0, <2>2, <2>4
    <2>6. QED
      BY <1>0, <2>1, <2>3, <2>4, <2>5, KnowTypeMove
  <1>11. ASSUME NEW p \in Proc, InsertBatch(p) PROVE KnowTypeInv'
    <2>1. PICK t \in Tasks : /\ KnowMoved(p, t) /\ t.cur \in Source
                             /\ \/ t.at = "finish"
                                \/ t.at = "insert" /\ task[p].batch # Batches /\ t.batch = task[p].batch + 1
      BY <1>11, InsertMoves
    <2>2. t.at = "insert" => t.batch \in 1..Batches
      BY <1>11, <2>1, InsertMoves, KnowledgeAssumption
    <2>3. chunks' \in [Source -> [1..Batches -> Copies]]
          /\ UNCHANGED <<config, history, source, doubly, lost, mixed>>
      BY <1>11, InsertMoves
    <2>4. QED
      BY <1>0, <2>1, <2>2, <2>3, KnowTypeMove
  <1>12. ASSUME NEW p \in Proc, SourceFails(p) PROVE KnowTypeInv'
    <2>1. task[p].cur \in Source
      BY <1>12 DEF SourceFails, KnowTypeInv, Working
    <2>2. PICK t \in Tasks : KnowMoved(p, t) /\ t.at = "fail" /\ t.cur = task[p].cur
      BY <1>12, WorkAtMoves DEF SourceFails, SameWork
    <2>3. UNCHANGED <<config, history, source, chunks, doubly, lost, mixed>>
      BY <1>12 DEF SourceFails, KnowNotes
    <2>4. QED
      BY <1>0, <2>1, <2>2, <2>3, KnowTypeMove
  <1>13. ASSUME NEW p \in Proc, SetSourceStatus(p) PROVE KnowTypeInv'
    <2>1. \E t \in Tasks : KnowMoved(p, t) /\ t.at \in {"idle", "next"}
      BY <1>13, StatusMoves, KnowIdleType
    <2>2. PICK s \in Source, st \in {"ready", "error"} : source' = [source EXCEPT ![s] = st]
      BY <1>13, StatusMoves
    <2>3. UNCHANGED <<config, history, chunks, doubly, lost, mixed>>
      BY <1>13, StatusMoves
    <2>4. source' \in [Source -> {"none", "pending", "indexing", "ready", "error"}]
      BY <1>0, <2>2
    <2>5. QED
      BY <1>0, <2>1, <2>3, <2>4, KnowTypeMove DEF Working
  <1>14. ASSUME NEW p \in Proc, JobDies(p) PROVE KnowTypeInv'
    <2>1. KnowMoved(p, KnowIdle)
      BY <1>14, RestMoves DEF JobDies
    <2>2. lost' \subseteq Source
      <3>1. task[p].todo \subseteq Source /\ Added \subseteq Source
        BY <1>0, TaskShape DEF Added
      <3>2. QED
        BY <1>0, <1>14, <3>1 DEF JobDies
    <2>3. UNCHANGED <<config, history, source, chunks, doubly, mixed>>
      BY <1>14 DEF JobDies
    <2>4. QED
      BY <1>0, <2>1, <2>2, <2>3, KnowIdleType, KnowTypeMove DEF Working
  <1>15. CASE UNCHANGED KnowVars
    BY <1>15 DEF KnowVars, KnowTypeInv, KnowTypeOK, Newcomers
  <1>16. QED
    BY <1>1, <1>2, <1>3, <1>4, <1>5, <1>6, <1>7, <1>8, <1>9, <1>10, <1>11, <1>12, <1>13,
       <1>14, <1>15 DEF KnowNext

\* Every variable of a space's assistant holds a value of its kind; in particular
\* there is a number for every history row that overlapping requests insert.
THEOREM KnowTypeCorrect == KnowSpec => []KnowTypeOK
  <1>1. KnowTypeInv => KnowTypeOK
    BY DEF KnowTypeInv
  <1>2. QED
    BY <1>1, KnowTypeInitial, KnowTypeStep, PTL DEF KnowSpec

(***************************************************************************)
(* Chunks.  A source that no two jobs indexed together has one worker at   *)
(* most, whose batch says how far its chunks are inserted, and it is not   *)
(* called ready while it has one.                                          *)
(***************************************************************************)
Inserted(p, s) ==
  /\ task[p].at = "insert" =>
       \A b \in 1..Batches : chunks[s][b] = IF b < task[p].batch THEN 1 ELSE 0
  /\ task[p].at = "finish" => \A b \in 1..Batches : chunks[s][b] = 1

ChunkInv ==
  \A s \in Source \ doubly :
    /\ \A p, q \in Indexing(s) : p = q
    /\ \A p \in Indexing(s) : Inserted(p, s) /\ source[s] # "ready"
    /\ source[s] = "ready" => \A b \in 1..Batches : chunks[s][b] = 1

LEMMA ChunkInitial == KnowInit => ChunkInv
  BY KnowIdleType DEF KnowInit, ChunkInv, Indexing

\* A process that does not come to index a source, and leaves the chunks alone.
LEMMA ChunkFrame ==
  ASSUME ChunkInv, NEW p \in Proc, NEW t \in Tasks, KnowMoved(p, t), UNCHANGED <<chunks, doubly>>,
         t.at \in Working => t.at = "fail" /\ task[p].at \in Working /\ t.cur = task[p].cur,
         \A s \in Source : source'[s] = "ready" => source[s] = "ready"
  PROVE  ChunkInv'
  <1>1. \A q \in Proc : task'[q] = IF q = p THEN t ELSE task[q]
    BY DEF KnowMoved
  <1>2. ASSUME NEW s \in Source \ doubly
        PROVE  /\ \A q, r \in Indexing(s)' : q = r
               /\ \A q \in Indexing(s)' : Inserted(q, s)' /\ source'[s] # "ready"
    <2>1. Indexing(s)' \subseteq Indexing(s)
      BY <1>1 DEF Indexing, Working
    <2>2. ASSUME NEW q \in Indexing(s)' PROVE Inserted(q, s)'
      <3>1. q \in Proc /\ q \in Indexing(s)
        BY <2>1 DEF Indexing
      <3>2. CASE q = p
        <4>1. task'[q] = t /\ t.at = "fail"
          BY <1>1, <2>2, <3>2 DEF Indexing, Working
        <4>2. QED
          BY <4>1 DEF Inserted
      <3>3. CASE q # p
        <4>1. task'[q] = task[q]
          BY <1>1, <3>1, <3>3
        <4>2. QED
          BY <3>1, <4>1 DEF ChunkInv, Inserted
      <3>4. QED
        BY <3>2, <3>3
    <2>3. QED
      BY <2>1, <2>2 DEF ChunkInv
  <1>3. QED
    BY <1>2 DEF ChunkInv

LEMMA ChunkStep == KnowTypeInv /\ ChunkInv /\ [KnowNext]_KnowVars => ChunkInv'
  <1> SUFFICES ASSUME KnowTypeInv, ChunkInv, [KnowNext]_KnowVars PROVE ChunkInv'
    OBVIOUS
  <1>0. /\ source \in [Source -> {"none", "pending", "indexing", "ready", "error"}]
        /\ chunks \in [Source -> [1..Batches -> Copies]]
        /\ \A p \in Proc : task[p] \in Tasks
    BY DEF KnowTypeInv, KnowTypeOK
  <1>1. ASSUME NEW p \in Proc,
               \/ \E enable \in BOOLEAN, say \in Flags : ConfigureSpaceAi(p, enable, say)
               \/ WriteConfig(p) \/ ReadHistory(p) \/ WriteHistory(p) \/ ReadSources(p)
        PROVE ChunkInv'
    <2>1. \E t \in Tasks : KnowMoved(p, t) /\ t.at \notin Working
      BY <1>1, ConfigureMoves, WriteConfigMoves, ReadHistoryMoves, WriteHistoryMoves, ReadSourcesMoves,
         KnowIdleType DEF Working
    <2>2. UNCHANGED <<source, chunks, doubly>>
      BY <1>1, ConfigureMoves, WriteConfigMoves, ReadHistoryMoves, WriteHistoryMoves, ReadSourcesMoves
      DEF KnowNotes
    <2>3. QED
      BY <2>1, <2>2, ChunkFrame
  <1>2. ASSUME NEW p \in Proc, NoNewSource(p) \/ \E s \in Source : AddSource(p, s) PROVE ChunkInv'
    <2>1. PICK t \in Tasks : KnowMoved(p, t) /\ t.at = "read_history"
      BY <1>2, WorkAtMoves DEF NoNewSource, AddSource
    <2>2. /\ UNCHANGED <<chunks, doubly>>
          /\ \A s \in Source : source'[s] = "ready" => source[s] = "ready"
      BY <1>0, <1>2 DEF NoNewSource, AddSource, KnowNotes
    <2>3. QED
      BY <2>1, <2>2, ChunkFrame DEF Working
  <1>3. ASSUME NEW p \in Proc, RefreshSpaceAi(p) \/ \E s \in Source : AddDocumentSource(p, s)
        PROVE ChunkInv'
    <2>1. PICK t \in Tasks : KnowMoved(p, t) /\ t.at = "read_config"
      BY <1>3, JobMoves DEF RefreshSpaceAi, AddDocumentSource
    <2>2. /\ UNCHANGED <<chunks, doubly>>
          /\ \A s \in Source : source'[s] = "ready" => source[s] = "ready"
      BY <1>0, <1>3 DEF RefreshSpaceAi, AddDocumentSource, KnowNotes
    <2>3. QED
      BY <2>1, <2>2, ChunkFrame DEF Working
  <1>4. ASSUME NEW p \in Proc, ReadConfig(p) \/ JobDies(p) PROVE ChunkInv'
    <2>1. \E t \in Tasks : KnowMoved(p, t) /\ t.at \in {"idle", "read_sources"}
      BY <1>4, WorkAtMoves, RestMoves, KnowIdleType DEF ReadConfig, JobDies
    <2>2. UNCHANGED <<source, chunks, doubly>>
      BY <1>4 DEF ReadConfig, JobDies, KnowNotes
    <2>3. QED
      BY <2>1, <2>2, ChunkFrame DEF Working
  <1>5. ASSUME NEW p \in Proc, SourceFails(p) PROVE ChunkInv'
    <2>1. PICK t \in Tasks : KnowMoved(p, t) /\ t.at = "fail" /\ t.cur = task[p].cur
      BY <1>5, WorkAtMoves DEF SourceFails, SameWork
    <2>2. UNCHANGED <<source, chunks, doubly>> /\ task[p].at \in Working
      BY <1>5 DEF SourceFails, KnowNotes, Working
    <2>3. QED
      BY <2>1, <2>2, ChunkFrame
  <1>6. ASSUME NEW p \in Proc, NEW s \in Source, MarkIndexing(p, s) PROVE ChunkInv'
    <2>1. /\ task[p].at = "next" /\ UNCHANGED chunks
          /\ source' = [source EXCEPT ![s] = "indexing"]
          /\ doubly' = IF Indexing(s) # {} THEN doubly \cup {s} ELSE doubly \ {s}
      BY <1>6, MarkMoves
    <2>2. PICK t \in Tasks : KnowMoved(p, t) /\ t.at = "clear" /\ t.cur = s
      BY <1>6, MarkMoves
    <2>3. \A q \in Proc : task'[q] = IF q = p THEN t ELSE task[q]
      BY <2>2 DEF KnowMoved
    <2>4. ASSUME NEW x \in Source \ doubly'
          PROVE  /\ \A q, r \in Indexing(x)' : q = r
                 /\ \A q \in Indexing(x)' : Inserted(q, x)' /\ source'[x] # "ready"
                 /\ source'[x] = "ready" => \A b \in 1..Batches : chunks'[x][b] = 1
      <3>1. CASE x = s
        <4>1. Indexing(s) = {}
          BY <2>1, <2>4, <3>1
        <4>2. \A q \in Indexing(x)' : q = p
          BY <2>3, <3>1, <4>1 DEF Indexing
        <4>3. Inserted(p, x)'
          BY <2>2, <2>3 DEF Inserted
        <4>4. source'[x] = "indexing"
          BY <1>0, <2>1, <3>1
        <4>5. QED
          BY <4>2, <4>3, <4>4
      <3>2. CASE x # s
        <4>1. x \notin doubly /\ source'[x] = source[x]
          BY <1>0, <2>1, <2>4, <3>2
        <4>2. Indexing(x)' = Indexing(x) /\ p \notin Indexing(x)
          BY <2>1, <2>2, <2>3, <3>2 DEF Indexing
        <4>3. \A q \in Indexing(x) : q \in Proc /\ task'[q] = task[q]
          BY <2>3, <4>2 DEF Indexing
        <4>4. \A q \in Indexing(x) : Inserted(q, x)'
          BY <2>1, <4>1, <4>3 DEF ChunkInv, Inserted
        <4>5. QED
          BY <2>1, <4>1, <4>2, <4>4 DEF ChunkInv
      <3>3. QED
        BY <3>1, <3>2
    <2>5. QED
      BY <2>4 DEF ChunkInv
  <1>7. ASSUME NEW p \in Proc, NEW t \in Tasks, KnowMoved(p, t), NEW s \in Source,
               task[p].cur = s, task[p].at \in Working, t.at \in Working => t.cur = s,
               doubly' = doubly,
               \A x \in Source \ {s} : chunks'[x] = chunks[x] /\ source'[x] = source[x],
               s \notin doubly =>
                 /\ t.at = "insert" =>
                      \A b \in 1..Batches : chunks'[s][b] = IF b < t.batch THEN 1 ELSE 0
                 /\ t.at = "finish" => \A b \in 1..Batches : chunks'[s][b] = 1
                 /\ t.at \in Working => source'[s] # "ready"
                 /\ source'[s] = "ready" => \A b \in 1..Batches : chunks'[s][b] = 1
        PROVE ChunkInv'
    <2>1. \A q \in Proc : task'[q] = IF q = p THEN t ELSE task[q]
      BY <1>7 DEF KnowMoved
    <2>2. ASSUME NEW x \in Source \ doubly
          PROVE  /\ \A q, r \in Indexing(x)' : q = r
                 /\ \A q \in Indexing(x)' : Inserted(q, x)' /\ source'[x] # "ready"
                 /\ source'[x] = "ready" => \A b \in 1..Batches : chunks'[x][b] = 1
      <3>1. CASE x = s
        <4>1. \A q \in Indexing(s) : q = p
          BY <1>7, <2>2, <3>1 DEF ChunkInv, Indexing, Working
        <4>2. \A q \in Indexing(s)' : q = p /\ t.at \in Working
          BY <2>1, <4>1 DEF Indexing, Working
        <4>3. Inserted(p, s)'
          BY <1>7, <2>1, <2>2, <3>1 DEF Inserted
        <4>4. QED
          BY <1>7, <2>2, <3>1, <4>2, <4>3
      <3>2. CASE x # s
        <4>1. Indexing(x)' = Indexing(x) /\ p \notin Indexing(x)
          BY <1>7, <2>1, <3>2 DEF Indexing, Working
        <4>2. \A q \in Indexing(x) : q \in Proc /\ task'[q] = task[q]
          BY <2>1, <4>1 DEF Indexing
        <4>3. chunks'[x] = chunks[x] /\ source'[x] = source[x]
          BY <1>7, <3>2
        <4>4. \A q \in Indexing(x) : Inserted(q, x)'
          BY <4>2, <4>3 DEF ChunkInv, Inserted
        <4>5. QED
          BY <4>1, <4>3, <4>4 DEF ChunkInv
      <3>3. QED
        BY <3>1, <3>2
    <2>3. QED
      BY <1>7, <2>2 DEF ChunkInv
  <1>8. ASSUME NEW p \in Proc, task[p].at \in Working, task[p].cur \in Source, task[p].cur \notin doubly
        PROVE  /\ Inserted(p, task[p].cur)
               /\ source[task[p].cur] # "ready"
    BY <1>8 DEF ChunkInv, Indexing, Working
  <1>9. ASSUME NEW p \in Proc, ClearChunks(p) PROVE ChunkInv'
    <2>1. /\ task[p].at = "clear" /\ UNCHANGED <<source, doubly>>
          /\ chunks' = [chunks EXCEPT ![task[p].cur] = [b \in 1..Batches |-> 0]]
      BY <1>9, ClearMoves
    <2>2. PICK s \in Source : s = task[p].cur
      BY <1>9, ClearMoves
    <2>3. PICK t \in Tasks : KnowMoved(p, t) /\ t.at = "insert" /\ t.batch = 1 /\ t.cur = s
      BY <1>9, <2>2, ClearMoves
    <2>4. s \notin doubly => source[s] # "ready"
      BY <1>8, <2>1, <2>2 DEF Working
    <2>5. \A b \in 1..Batches : chunks'[s][b] = IF b < t.batch THEN 1 ELSE 0
      BY <1>0, <2>1, <2>2, <2>3
    <2>6. \A x \in Source \ {s} : chunks'[x] = chunks[x] /\ source'[x] = source[x]
      BY <1>0, <2>1, <2>2
    <2>7. QED
      BY <1>7, <2>1, <2>2, <2>3, <2>4, <2>5, <2>6 DEF Working
  <1>10. ASSUME NEW p \in Proc, InsertBatch(p) PROVE ChunkInv'
    <2>1. /\ task[p].at = "insert" /\ task[p].batch \in 1..Batches /\ UNCHANGED <<source, doubly>>
          /\ chunks' \in [Source -> [1..Batches -> Copies]]
      BY <1>10, InsertMoves
    <2>2. PICK s \in Source : s = task[p].cur
      BY <1>10, InsertMoves
    <2>3. PICK t \in Tasks :
              /\ KnowMoved(p, t) /\ t.cur = s
              /\ \/ t.at = "finish" /\ task[p].batch = Batches
                 \/ t.at = "insert" /\ task[p].batch # Batches /\ t.batch = task[p].batch + 1
      BY <1>10, <2>2, InsertMoves
    <2>4. \A x \in Source : \A b \in 1..Batches :
              chunks'[x][b] = IF x = s /\ b = task[p].batch /\ chunks[x][b] # Cardinality(Proc)
                              THEN chunks[x][b] + 1 ELSE chunks[x][b]
      BY <1>10, <2>2, InsertMoves
    <2>5. \A x \in Source \ {s} : chunks'[x] = chunks[x]
      BY <1>10, <2>2, InsertMoves
    <2>6. ASSUME s \notin doubly
          PROVE  /\ source[s] # "ready"
                 /\ \A b \in 1..Batches : chunks'[s][b] = IF b < task[p].batch + 1 THEN 1 ELSE 0
      <3>1. /\ \A b \in 1..Batches : chunks[s][b] = IF b < task[p].batch THEN 1 ELSE 0
            /\ source[s] # "ready"
        BY <1>8, <2>1, <2>2, <2>6 DEF Working, Inserted
      <3>2. Cardinality(Proc) # 0
        BY ProcsCounted
      <3>3. QED
        BY <2>1, <2>4, <3>1, <3>2, KnowledgeAssumption
    <2>7. s \notin doubly =>
            /\ t.at = "insert" => \A b \in 1..Batches : chunks'[s][b] = IF b < t.batch THEN 1 ELSE 0
            /\ t.at = "finish" => \A b \in 1..Batches : chunks'[s][b] = 1
      BY <2>3, <2>6, KnowledgeAssumption
    <2>8. QED
      BY <1>7, <2>1, <2>2, <2>3, <2>5, <2>6, <2>7 DEF Working
  <1>11. ASSUME NEW p \in Proc, SetSourceStatus(p) PROVE ChunkInv'
    <2>1. /\ task[p].at \in {"finish", "fail"} /\ UNCHANGED <<chunks, doubly>>
          /\ source' = [source EXCEPT ![task[p].cur] = IF task[p].at = "finish" THEN "ready" ELSE "error"]
      BY <1>11, StatusMoves
    <2>2. PICK s \in Source : s = task[p].cur
      BY <1>11, StatusMoves
    <2>3. PICK t \in Tasks : KnowMoved(p, t) /\ t.at \in {"idle", "next"}
      BY <1>11, StatusMoves, KnowIdleType
    <2>4. source'[s] = "ready" => task[p].at = "finish"
      BY <1>0, <2>1, <2>2
    <2>5. s \notin doubly /\ task[p].at = "finish" => \A b \in 1..Batches : chunks[s][b] = 1
      BY <1>8, <2>1, <2>2 DEF Working, Inserted
    <2>6. \A x \in Source \ {s} : chunks'[x] = chunks[x] /\ source'[x] = source[x]
      BY <1>0, <2>1, <2>2
    <2>7. QED
      BY <1>7, <2>1, <2>2, <2>3, <2>4, <2>5, <2>6 DEF Working
  <1>12. CASE UNCHANGED KnowVars
    BY <1>12 DEF KnowVars, ChunkInv, Indexing, Inserted
  <1>13. QED
    BY <1>1, <1>2, <1>3, <1>4, <1>5, <1>6, <1>9, <1>10, <1>11, <1>12 DEF KnowNext

(***************************************************************************)
(* The configuration.  As long as none overlapped, the one that runs knows *)
(* what the row says, and which history row there is before it writes one. *)
(***************************************************************************)
HistoryKnown(p) ==
  /\ task[p].say \in {"on", "off"}
  /\ task[p].at \in Written => /\ config.enabled = task[p].enable
                               /\ config.history <=> (task[p].say = "on")
  /\ task[p].at # "write_history" => task[p].row = 0
  /\ task[p].at = "write_history" =>
       IF task[p].row = 0 THEN history = {} ELSE history = {task[p].row}

MirrorInv ==
  ~mixed =>
    /\ \A p, q \in Configuring : p = q
    /\ \A r1, r2 \in history : r1 = r2
    /\ (\A p \in Proc : task[p].at \notin Written) => ((history # {}) <=> config.history)
    /\ \A p \in Configuring : HistoryKnown(p)

LEMMA MirrorInitial == KnowInit => MirrorInv
  BY KnowIdleType DEF KnowInit, MirrorInv, Configuring

\* A step of a process that serves no configuration.
LEMMA MirrorFrame ==
  ASSUME MirrorInv, NEW p \in Proc, NEW t \in Tasks, KnowMoved(p, t),
         task[p].at \notin Written \cup {"write_config"}, t.at \notin Written \cup {"write_config"},
         UNCHANGED <<config, history, mixed>>
  PROVE  MirrorInv'
  <1>1. \A q \in Proc : task'[q] = IF q = p THEN t ELSE task[q]
    BY DEF KnowMoved
  <1>2. Configuring' = Configuring /\ \A q \in Configuring : q \in Proc /\ task'[q] = task[q]
    BY <1>1 DEF Configuring, Written
  <1>3. (\A q \in Proc : task'[q].at \notin Written) <=> (\A q \in Proc : task[q].at \notin Written)
    BY <1>1
  <1>4. ~mixed => \A q \in Configuring : HistoryKnown(q)'
    BY <1>2 DEF MirrorInv, HistoryKnown
  <1>5. QED
    BY <1>2, <1>3, <1>4 DEF MirrorInv

\* A step of the one configuration that runs.
LEMMA MirrorOwn ==
  ASSUME MirrorInv, ~mixed, NEW p \in Configuring, NEW t \in Tasks, KnowMoved(p, t),
         \A r1, r2 \in history' : r1 = r2,
         t.at \notin Written => ((history' # {}) <=> config'.history),
         t.at \in Written \cup {"write_config"} =>
           /\ t.say \in {"on", "off"}
           /\ t.at \in Written => /\ config'.enabled = t.enable
                                  /\ config'.history <=> (t.say = "on")
           /\ t.at # "write_history" => t.row = 0
           /\ t.at = "write_history" => IF t.row = 0 THEN history' = {} ELSE history' = {t.row}
  PROVE  MirrorInv'
  <1>1. p \in Proc /\ \A q \in Proc : task'[q] = IF q = p THEN t ELSE task[q]
    BY DEF KnowMoved, Configuring
  <1>2. \A q \in Configuring : q = p
    BY DEF MirrorInv
  <1>3. \A q \in Configuring' : q = p /\ t.at \in Written \cup {"write_config"}
    BY <1>1, <1>2 DEF Configuring, Written
  <1>4. \A q \in Configuring' : HistoryKnown(q)'
    BY <1>1, <1>3 DEF HistoryKnown
  <1>5. QED
    BY <1>1, <1>3, <1>4 DEF MirrorInv

LEMMA MirrorStep == KnowTypeInv /\ MirrorInv /\ [KnowNext]_KnowVars => MirrorInv'
  <1> SUFFICES ASSUME KnowTypeInv, MirrorInv, [KnowNext]_KnowVars PROVE MirrorInv'
    OBVIOUS
  <1>0. /\ \A p \in Proc : task[p] \in Tasks
        /\ \A p \in Proc : task[p] = KnowIdle => task[p].at = "idle"
    BY KnowIdleType DEF KnowTypeInv, KnowTypeOK
  <1>1. ASSUME NEW p \in Proc, NEW enable \in BOOLEAN, NEW say \in Flags, ConfigureSpaceAi(p, enable, say)
        PROVE MirrorInv'
    <2>1. PICK t \in Tasks : KnowMoved(p, t) /\ t.at = "write_config" /\ t.say \in {"on", "off"} /\ t.row = 0
      BY <1>1, ConfigureMoves
    <2>2. mixed' = (mixed \/ Configuring # {}) /\ UNCHANGED <<config, history>>
      BY <1>1, ConfigureMoves
    <2>3. \A q \in Proc : task'[q] = IF q = p THEN t ELSE task[q]
      BY <2>1 DEF KnowMoved
    <2> SUFFICES ASSUME ~mixed, Configuring = {}
                 PROVE  /\ \A q, r \in Configuring' : q = r
                        /\ \A r1, r2 \in history' : r1 = r2
                        /\ (\A q \in Proc : task'[q].at \notin Written) => ((history' # {}) <=> config'.history)
                        /\ \A q \in Configuring' : HistoryKnown(q)'
      BY <2>2 DEF MirrorInv
    <2>4. \A q \in Configuring' : q = p
      BY <2>3 DEF Configuring
    <2>5. HistoryKnown(p)'
      BY <2>1, <2>3 DEF HistoryKnown, Written
    <2>6. \A q \in Proc : task[q].at \notin Written
      BY DEF Configuring, Written
    <2>7. QED
      BY <2>2, <2>4, <2>5, <2>6 DEF MirrorInv
  <1>2. ASSUME NEW p \in Proc, WriteConfig(p), ~mixed PROVE MirrorInv'
    <2>1. /\ task[p].at = "write_config" /\ UNCHANGED <<history, mixed>>
      BY <1>2, WriteConfigMoves DEF KnowNotes
    <2>2. p \in Configuring
      BY <2>1 DEF Configuring
    <2>3. HistoryKnown(p) /\ \A q \in Proc : task[q].at \notin Written
      BY <1>2, <2>1, <2>2 DEF MirrorInv, Configuring, Written
    <2>4. CASE KnowMoved(p, KnowIdle) /\ UNCHANGED config
      <3>1. KnowIdle \in Tasks /\ KnowIdle.at \notin Written \cup {"write_config"}
        BY KnowIdleType DEF Written
      <3>2. (history' # {}) <=> config'.history
        BY <1>2, <2>1, <2>3, <2>4 DEF MirrorInv
      <3>3. \A r1, r2 \in history' : r1 = r2
        BY <1>2, <2>1 DEF MirrorInv
      <3>4. QED
        BY <1>2, <2>2, <2>4, <3>1, <3>2, <3>3, MirrorOwn
    <2>5. ASSUME NEW t \in Tasks, KnowMoved(p, t), t.at = "add_source", SameWork(t, task[p]),
                 config'.enabled = t.enable, config'.history <=> t.say = "on"
          PROVE  MirrorInv'
      <3>1. t.say \in {"on", "off"} /\ t.row = 0
        BY <2>1, <2>3, <2>5 DEF HistoryKnown, SameWork
      <3>2. \A r1, r2 \in history' : r1 = r2
        BY <1>2, <2>1 DEF MirrorInv
      <3>3. QED
        BY <1>2, <2>2, <2>5, <3>1, <3>2, MirrorOwn DEF Written
    <2>6. QED
      BY <1>2, <2>4, <2>5, WriteConfigMoves
  <1>3. ASSUME NEW p \in Proc, NoNewSource(p) \/ \E s \in Source : AddSource(p, s), ~mixed
        PROVE MirrorInv'
    <2>1. PICK t \in Tasks : KnowMoved(p, t) /\ t.at = "read_history" /\ SameWork(t, task[p])
      BY <1>3, WorkAtMoves DEF NoNewSource, AddSource
    <2>2. task[p].at = "add_source" /\ UNCHANGED <<config, history, mixed>>
      BY <1>3 DEF NoNewSource, AddSource, KnowNotes
    <2>3. p \in Configuring
      BY <2>2 DEF Configuring
    <2>4. HistoryKnown(p) /\ \A r1, r2 \in history' : r1 = r2
      BY <1>3, <2>2, <2>3 DEF MirrorInv
    <2>5. t.say \in {"on", "off"} /\ t.row = 0 /\ config'.enabled = t.enable
          /\ (config'.history <=> (t.say = "on"))
      BY <2>1, <2>2, <2>4 DEF HistoryKnown, SameWork, Written
    <2>6. QED
      BY <1>3, <2>1, <2>3, <2>4, <2>5, MirrorOwn DEF Written
  <1>4. ASSUME NEW p \in Proc, ReadHistory(p), ~mixed PROVE MirrorInv'
    <2>1. task[p].at = "read_history" /\ UNCHANGED <<config, history, mixed>>
      BY <1>4, ReadHistoryMoves
    <2>2. PICK t \in Tasks :
              /\ KnowMoved(p, t) /\ t.at = "write_history" /\ t.enable = task[p].enable /\ t.say = task[p].say
              /\ \/ history = {} /\ t.row = task[p].row
                 \/ t.row \in history /\ t.row # 0
      BY <1>4, ReadHistoryMoves
    <2>3. p \in Configuring
      BY <2>1 DEF Configuring
    <2>4. HistoryKnown(p) /\ \A r1, r2 \in history : r1 = r2
      BY <1>4, <2>3 DEF MirrorInv
    <2>5. t.say \in {"on", "off"} /\ config'.enabled = t.enable
          /\ (config'.history <=> (t.say = "on"))
      BY <2>1, <2>2, <2>4 DEF HistoryKnown, Written
    <2>6. IF t.row = 0 THEN history' = {} ELSE history' = {t.row}
      BY <2>1, <2>2, <2>4 DEF HistoryKnown
    <2>7. QED
      BY <1>4, <2>1, <2>2, <2>3, <2>4, <2>5, <2>6, MirrorOwn DEF Written
  <1>5. ASSUME NEW p \in Proc, WriteHistory(p), ~mixed PROVE MirrorInv'
    <2>1. task[p].at = "write_history" /\ UNCHANGED <<config, mixed>>
      BY <1>5, WriteHistoryMoves
    <2>2. PICK t \in Tasks : KnowMoved(p, t) /\ t.at \in {"idle", "read_config"}
      BY <1>5, WriteHistoryMoves, KnowIdleType
    <2>3. p \in Configuring
      BY <2>1 DEF Configuring
    <2>4. HistoryKnown(p)
      BY <1>5, <2>3 DEF MirrorInv
    <2>5. /\ task[p].say \in {"on", "off"} /\ (config.history <=> (task[p].say = "on"))
          /\ IF task[p].row = 0 THEN history = {} ELSE history = {task[p].row}
      BY <2>1, <2>4 DEF HistoryKnown, Written
    <2>6. (\A r1, r2 \in history' : r1 = r2) /\ ((history' # {}) <=> config'.history)
      <3>1. CASE task[p].say = "on" /\ task[p].row = 0 /\ \E r \in HistoryRows : history' = history \cup {r}
        BY <2>1, <2>5, <3>1
      <3>2. CASE task[p].say = "on" /\ task[p].row # 0 /\ UNCHANGED history
        BY <2>1, <2>5, <3>2
      <3>3. CASE task[p].say = "off" /\ history' = history \ {task[p].row}
        <4>1. history' = {}
          BY <2>5, <3>3
        <4>2. QED
          BY <2>1, <2>5, <3>3, <4>1
      <3>4. QED
        BY <1>5, <2>5, <3>1, <3>2, <3>3, WriteHistoryMoves
    <2>7. QED
      BY <1>5, <2>2, <2>3, <2>6, MirrorOwn DEF Written
  <1>6. ASSUME NEW p \in Proc, RefreshSpaceAi(p) \/ \E s \in Source : AddDocumentSource(p, s)
        PROVE MirrorInv'
    <2>1. PICK t \in Tasks : KnowMoved(p, t) /\ t.at = "read_config"
      BY <1>6, JobMoves DEF RefreshSpaceAi, AddDocumentSource
    <2>2. task[p].at = "idle" /\ UNCHANGED <<config, history, mixed>>
      BY <1>0, <1>6 DEF RefreshSpaceAi, AddDocumentSource, KnowNotes
    <2>3. QED
      BY <2>1, <2>2, MirrorFrame DEF Written
  <1>7. ASSUME NEW p \in Proc, ReadConfig(p) \/ JobDies(p) \/ SourceFails(p) PROVE MirrorInv'
    <2>1. \E t \in Tasks : KnowMoved(p, t) /\ t.at \in {"idle", "read_sources", "fail"}
      BY <1>7, WorkAtMoves, RestMoves, KnowIdleType DEF ReadConfig, JobDies, SourceFails
    <2>2. task[p].at \notin Written \cup {"write_config"} /\ UNCHANGED <<config, history, mixed>>
      BY <1>7 DEF ReadConfig, JobDies, SourceFails, KnowNotes, Written
    <2>3. QED
      BY <2>1, <2>2, MirrorFrame DEF Written
  <1>8. ASSUME NEW p \in Proc,
               \/ ReadSources(p) \/ ClearChunks(p) \/ InsertBatch(p) \/ SetSourceStatus(p)
               \/ \E s \in Source : MarkIndexing(p, s)
        PROVE MirrorInv'
    <2>1. \E t \in Tasks : KnowMoved(p, t) /\ t.at \in {"idle", "next", "clear", "insert", "finish"}
      BY <1>8, ReadSourcesMoves, ClearMoves, InsertMoves, StatusMoves, MarkMoves, KnowIdleType
    <2>2. task[p].at \notin Written \cup {"write_config"} /\ UNCHANGED <<config, history, mixed>>
      BY <1>8, ReadSourcesMoves, ClearMoves, InsertMoves, StatusMoves, MarkMoves DEF Written
    <2>3. QED
      BY <2>1, <2>2, MirrorFrame DEF Written
  <1>9. CASE UNCHANGED KnowVars
    BY <1>9 DEF KnowVars, MirrorInv, Configuring, HistoryKnown
  <1>10. ASSUME NEW p \in Proc, mixed,
               \/ WriteConfig(p) \/ NoNewSource(p) \/ ReadHistory(p) \/ WriteHistory(p)
               \/ \E s \in Source : AddSource(p, s)
         PROVE MirrorInv'
    <2>1. mixed'
      BY <1>10, ReadHistoryMoves, WriteHistoryMoves DEF WriteConfig, NoNewSource, AddSource, KnowNotes
    <2>2. QED
      BY <2>1 DEF MirrorInv
  <1>11. QED
    BY <1>1, <1>2, <1>3, <1>4, <1>5, <1>6, <1>7, <1>8, <1>9, <1>10 DEF KnowNext

(***************************************************************************)
(* Nothing is left pending.  While the assistant is enabled, a source that *)
(* waits or is being indexed is in the hands of a process: a job that has  *)
(* not read the sources yet or has it on its list, or a configuration that *)
(* will start one.                                                         *)
(***************************************************************************)
HandledBy(t, s) ==
  \/ t.at \in {"read_config", "read_sources"}
  \/ t.at \in Written /\ t.enable
  \/ t.at \in Working \cup {"next"} /\ s \in t.todo
  \/ t.at \in Working /\ t.cur = s

Waiting == {"pending", "indexing"}

PendingInv ==
  (config.enabled /\ ~mixed) =>
     \A s \in Source \ lost : source[s] \in Waiting => \E p \in Proc : HandledBy(task[p], s)

LEMMA PendingInitial == KnowInit => PendingInv
  BY DEF KnowInit, PendingInv

\* A source that waits is in the hands of the process that moves, or it was in
\* those of another.
LEMMA PendingMove ==
  ASSUME PendingInv, NEW p \in Proc, NEW t \in Tasks, KnowMoved(p, t),
         config'.enabled /\ ~mixed' =>
           \A s \in Source \ lost' : source'[s] \in Waiting =>
             \/ HandledBy(t, s)
             \/ /\ config.enabled /\ ~mixed /\ s \notin lost
                /\ source[s] \in Waiting /\ ~HandledBy(task[p], s)
  PROVE  PendingInv'
  <1>1. \A q \in Proc : task'[q] = IF q = p THEN t ELSE task[q]
    BY DEF KnowMoved
  <1> SUFFICES ASSUME config'.enabled, ~mixed', NEW s \in Source \ lost', source'[s] \in Waiting
               PROVE  \E q \in Proc : HandledBy(task'[q], s)
    BY DEF PendingInv, HandledBy
  <1>2. CASE HandledBy(t, s)
    BY <1>1, <1>2
  <1>3. CASE /\ config.enabled /\ ~mixed /\ s \notin lost
             /\ source[s] \in Waiting /\ ~HandledBy(task[p], s)
    BY <1>1, <1>3 DEF PendingInv
  <1>4. QED
    BY <1>2, <1>3

LEMMA PendingStep == KnowTypeInv /\ MirrorInv /\ PendingInv /\ [KnowNext]_KnowVars => PendingInv'
  <1> SUFFICES ASSUME KnowTypeInv, MirrorInv, PendingInv, [KnowNext]_KnowVars PROVE PendingInv'
    OBVIOUS
  <1>0. /\ source \in [Source -> {"none", "pending", "indexing", "ready", "error"}]
        /\ \A p \in Proc : task[p] \in Tasks
    BY DEF KnowTypeInv, KnowTypeOK
  <1>i. \A p \in Proc : \A s \in Source :
          task[p].at \in {"idle", "write_config"} => ~HandledBy(task[p], s)
    BY DEF HandledBy, Written, Working
  <1>e. \A p \in Proc : ~mixed /\ task[p].at \in Written => config.enabled = task[p].enable
    BY DEF MirrorInv, HistoryKnown, Configuring, Written
  <1>1. ASSUME NEW p \in Proc, NEW enable \in BOOLEAN, NEW say \in Flags, ConfigureSpaceAi(p, enable, say)
        PROVE PendingInv'
    <2>1. PICK t \in Tasks : KnowMoved(p, t)
      BY <1>1, ConfigureMoves
    <2>2. /\ task[p].at = "idle" /\ mixed' = (mixed \/ Configuring # {})
          /\ UNCHANGED <<config, source, lost>>
      BY <1>1, ConfigureMoves, KnowIdleType
    <2>3. QED
      BY <1>i, <2>1, <2>2, PendingMove
  <1>2. ASSUME NEW p \in Proc, WriteConfig(p) PROVE PendingInv'
    <2>1. task[p].at = "write_config" /\ UNCHANGED <<source, lost, mixed>>
      BY <1>2, WriteConfigMoves DEF KnowNotes
    <2>2. CASE KnowMoved(p, KnowIdle) /\ UNCHANGED config
      BY <1>i, <2>1, <2>2, KnowIdleType, PendingMove
    <2>3. ASSUME NEW t \in Tasks, KnowMoved(p, t), t.at = "add_source", config'.enabled = t.enable
          PROVE  PendingInv'
      <3>1. \A s \in Source : config'.enabled => HandledBy(t, s)
        BY <2>3 DEF HandledBy, Written
      <3>2. QED
        BY <2>3, <3>1, PendingMove
    <2>4. QED
      BY <1>2, <2>2, <2>3, WriteConfigMoves
  <1>3. ASSUME NEW p \in Proc, NoNewSource(p) \/ \E s \in Source : AddSource(p, s) PROVE PendingInv'
    <2>1. PICK t \in Tasks : KnowMoved(p, t) /\ t.at = "read_history" /\ SameWork(t, task[p])
      BY <1>3, WorkAtMoves DEF NoNewSource, AddSource
    <2>2. task[p].at = "add_source" /\ UNCHANGED <<config, mixed>>
      BY <1>3 DEF NoNewSource, AddSource, KnowNotes
    <2>3. config'.enabled /\ ~mixed' => \A s \in Source : HandledBy(t, s)
      BY <1>e, <2>1, <2>2 DEF HandledBy, Written, SameWork
    <2>4. QED
      BY <2>1, <2>3, PendingMove
  <1>4. ASSUME NEW p \in Proc, ReadHistory(p) PROVE PendingInv'
    <2>1. task[p].at = "read_history" /\ UNCHANGED <<config, mixed>>
      BY <1>4, ReadHistoryMoves
    <2>2. PICK t \in Tasks : KnowMoved(p, t) /\ t.at = "write_history" /\ t.enable = task[p].enable
      BY <1>4, ReadHistoryMoves
    <2>3. config'.enabled /\ ~mixed' => \A s \in Source : HandledBy(t, s)
      BY <1>e, <2>1, <2>2 DEF HandledBy, Written
    <2>4. QED
      BY <2>2, <2>3, PendingMove
  <1>5. ASSUME NEW p \in Proc, WriteHistory(p) PROVE PendingInv'
    <2>1. task[p].at = "write_history" /\ UNCHANGED <<config, mixed>>
      BY <1>5, WriteHistoryMoves
    <2>2. \/ task[p].enable /\ \E t \in Tasks : KnowMoved(p, t) /\ t.at = "read_config"
          \/ ~task[p].enable /\ KnowMoved(p, KnowIdle)
      BY <1>5, WriteHistoryMoves
    <2>3. CASE \E t \in Tasks : KnowMoved(p, t) /\ t.at = "read_config"
      BY <2>3, PendingMove DEF HandledBy
    <2>4. CASE ~task[p].enable /\ KnowMoved(p, KnowIdle)
      <3>1. ~(config'.enabled /\ ~mixed')
        BY <1>e, <2>1, <2>4 DEF Written
      <3>2. QED
        BY <3>1 DEF PendingInv
    <2>5. QED
      BY <2>2, <2>3, <2>4
  <1>6. ASSUME NEW p \in Proc, RefreshSpaceAi(p) \/ \E s \in Source : AddDocumentSource(p, s)
        PROVE PendingInv'
    <2>1. PICK t \in Tasks : KnowMoved(p, t) /\ t.at = "read_config"
      BY <1>6, JobMoves DEF RefreshSpaceAi, AddDocumentSource
    <2>2. QED
      BY <2>1, PendingMove DEF HandledBy
  <1>7. ASSUME NEW p \in Proc, ReadConfig(p) PROVE PendingInv'
    <2>1. UNCHANGED <<config, mixed>>
      BY <1>7 DEF ReadConfig, KnowNotes
    <2>2. CASE config.enabled
      <3>1. PICK t \in Tasks : KnowMoved(p, t) /\ t.at = "read_sources"
        BY <1>7, <2>2, WorkAtMoves DEF ReadConfig
      <3>2. QED
        BY <3>1, PendingMove DEF HandledBy
    <2>3. CASE ~config.enabled
      BY <2>1, <2>3 DEF PendingInv
    <2>4. QED
      BY <2>2, <2>3
  <1>8. ASSUME NEW p \in Proc, ReadSources(p) PROVE PendingInv'
    <2>1. lost' = {} /\ UNCHANGED <<config, source, mixed>>
      BY <1>8, ReadSourcesMoves
    <2>2. CASE KnowMoved(p, KnowIdle) /\ \A s \in Source : source[s] \in {"none", "ready"}
      BY <2>1, <2>2, KnowIdleType, PendingMove DEF Waiting
    <2>3. ASSUME NEW t \in Tasks, KnowMoved(p, t), t.at = "next",
                 \A s \in Source : source[s] \notin {"none", "ready"} => s \in t.todo
          PROVE  PendingInv'
      <3>1. \A s \in Source : source'[s] \in Waiting => HandledBy(t, s)
        BY <2>1, <2>3 DEF HandledBy, Waiting
      <3>2. QED
        BY <2>3, <3>1, PendingMove
    <2>4. QED
      BY <1>8, <2>2, <2>3, ReadSourcesMoves
  <1>9. ASSUME NEW p \in Proc, NEW s \in Source, MarkIndexing(p, s) PROVE PendingInv'
    <2>1. /\ task[p].at = "next" /\ UNCHANGED <<config, lost, mixed>>
          /\ source' = [source EXCEPT ![s] = "indexing"]
      BY <1>9, MarkMoves
    <2>2. PICK t \in Tasks : /\ KnowMoved(p, t) /\ t.at = "clear" /\ t.cur = s
                             /\ t.todo = task[p].todo \ {s}
      BY <1>9, MarkMoves
    <2>3. \A x \in Source : x = s \/ source'[x] = source[x]
      BY <1>0, <2>1
    <2>4. \A x \in Source : x = s \/ HandledBy(task[p], x) => HandledBy(t, x)
      BY <2>1, <2>2 DEF HandledBy, Working, Written
    <2>5. QED
      BY <2>1, <2>2, <2>3, <2>4, PendingMove DEF PendingInv
  <1>10. ASSUME NEW p \in Proc, ClearChunks(p) \/ InsertBatch(p) \/ SourceFails(p) PROVE PendingInv'
    <2>1. task[p].at \in Working /\ UNCHANGED <<config, source, lost, mixed>>
      BY <1>10, ClearMoves, InsertMoves DEF SourceFails, Working, KnowNotes
    <2>2. PICK t \in Tasks : /\ KnowMoved(p, t) /\ t.at \in Working
                             /\ t.cur = task[p].cur /\ t.todo = task[p].todo
      BY <1>10, ClearMoves, InsertMoves, WorkAtMoves DEF SourceFails, Working, SameWork
    <2>3. \A x \in Source : HandledBy(task[p], x) => HandledBy(t, x)
      BY <2>1, <2>2 DEF HandledBy, Working, Written
    <2>4. QED
      BY <2>1, <2>2, <2>3, PendingMove
  <1>11. ASSUME NEW p \in Proc, SetSourceStatus(p) PROVE PendingInv'
    <2>1. /\ task[p].at \in {"finish", "fail"} /\ UNCHANGED <<config, lost, mixed>>
          /\ source' = [source EXCEPT ![task[p].cur] = IF task[p].at = "finish" THEN "ready" ELSE "error"]
      BY <1>11, StatusMoves
    <2>2. PICK s \in Source : s = task[p].cur
      BY <1>11, StatusMoves
    <2>3. source'[s] \notin Waiting /\ \A x \in Source \ {s} : source'[x] = source[x]
      BY <1>0, <2>1, <2>2 DEF Waiting
    <2>4. \E t \in Tasks : KnowMoved(p, t) /\ \A x \in Source \ {s} : HandledBy(task[p], x) => HandledBy(t, x)
      <3>1. \A x \in Source \ {s} : HandledBy(task[p], x) => x \in task[p].todo
        BY <2>1, <2>2 DEF HandledBy, Written, Working
      <3>2. QED
        BY <1>11, <3>1, StatusMoves, KnowIdleType DEF HandledBy, Working
    <2>5. QED
      BY <2>1, <2>3, <2>4, PendingMove
  <1>12. ASSUME NEW p \in Proc, JobDies(p) PROVE PendingInv'
    <2>1. KnowMoved(p, KnowIdle) /\ UNCHANGED <<config, source, mixed>>
      BY <1>12, RestMoves DEF JobDies
    <2>2. \A s \in Source \ lost' : source[s] \in Waiting => s \notin lost /\ ~HandledBy(task[p], s)
      BY <1>12 DEF JobDies, HandledBy, Written, Working, Added, Waiting
    <2>3. QED
      BY <2>1, <2>2, KnowIdleType, PendingMove
  <1>13. CASE UNCHANGED KnowVars
    BY <1>13 DEF KnowVars, PendingInv
  <1>14. QED
    BY <1>1, <1>2, <1>3, <1>4, <1>5, <1>6, <1>7, <1>8, <1>9, <1>10, <1>11, <1>12, <1>13 DEF KnowNext

\* However requests, jobs, failures and restarts interleave, once nothing runs what
\* the assistant answers from is what its configuration and its sources say: each
\* chunk of a ready source once, no source left waiting, a history row exactly when
\* the configuration asks for one; with the exceptions the property states.
THEOREM KnowledgeSettlesHolds == KnowSpec => []KnowledgeSettles
  <1>1. KnowTypeInv /\ ChunkInv /\ MirrorInv /\ PendingInv => KnowledgeSettles
    <2> SUFFICES ASSUME KnowTypeInv, ChunkInv, MirrorInv, PendingInv
                 PROVE  ReadyHasEachChunkOnce /\ NothingIsLeftPending /\ HistoryRowMirrorsTheFlag
      BY DEF KnowledgeSettles
    <2>1. ReadyHasEachChunkOnce
      BY DEF ReadyHasEachChunkOnce, ChunkInv
    <2>2. NothingIsLeftPending
      <3>1. Quiet => \A p \in Proc : \A s \in Source : ~HandledBy(task[p], s)
        BY KnowIdleType DEF Quiet, HandledBy, Written, Working
      <3>2. QED
        BY <3>1 DEF NothingIsLeftPending, PendingInv, Waiting
    <2>3. HistoryRowMirrorsTheFlag
      BY DEF HistoryRowMirrorsTheFlag, MirrorInv, Configuring, Written
    <2>4. QED
      BY <2>1, <2>2, <2>3
  <1>2. QED
    BY <1>1, KnowTypeInitial, KnowTypeStep, ChunkInitial, ChunkStep, MirrorInitial, MirrorStep,
       PendingInitial, PendingStep, PTL DEF KnowSpec

------------------------------------------------------------------------------
(***************************************************************************)
(* Threads                                                                 *)
(***************************************************************************)
ChatEvent == [m : Message, as : {"text", "gone", "tombstone"}]

CallShape == [at : {"idle", "gateway", "read_row", "publish", "delete", "announce"}, m : Message \cup {"none"},
              system : BOOLEAN, row : {"no", "text", "gone"}]

\* A call is about a message that was inserted, and what it publishes is a row.
CallHolds(c) ==
  /\ c.at # "idle" => c.m \in Message /\ stored[c.m] # "none"
  /\ c.at = "publish" => c.row # "no"

TabShape == [at : {"closed", "fetching", "loading", "open"}, sub : {"no", "asked", "on"},
             history : [Message -> {"no", "text", "gone"}]]

ThreadTypeInv ==
  /\ stored \in [Message -> {"none", "pending", "acked", "nacked", "deleted"}]
  /\ chatCall \in [Proc -> CallShape] /\ \A p \in Proc : CallHolds(chatCall[p])
  /\ tab \in [Tab -> TabShape]
  /\ shown \in [Tab -> [Message -> {"no", "text", "gone"}]]
  /\ inbox \in [Tab -> Seq(ChatEvent)]
  /\ oldest \subseteq Message /\ missed \subseteq Tab

\* What the events of a page's inbox are applied to once its history is there.
Base(g) == IF tab[g].at = "loading" THEN tab[g].history ELSE shown[g]

LooksGone(g, m) == Base(g)[m] = "gone" \/ shown[g][m] = "gone"

\* Only a message deleted in the database looks deleted anywhere.
GoneIsDeleted ==
  /\ \A p \in Proc : /\ chatCall[p].at = "announce" => stored[chatCall[p].m] = "deleted"
                     /\ chatCall[p].at = "publish" /\ chatCall[p].row = "gone" => stored[chatCall[p].m] = "deleted"
  /\ \A g \in Tab, i \in Nat : i \in DOMAIN inbox[g] /\ inbox[g][i].as # "text" => stored[inbox[g][i].m] = "deleted"
  /\ \A g \in Tab, m \in Message : LooksGone(g, m) => stored[m] = "deleted"

\* A page whose history is read and that has missed nothing.
Follows(g) == tab[g].at \in {"loading", "open"} /\ g \notin missed

Announcing(m) == \E p \in Proc : chatCall[p].m = m /\ chatCall[p].at = "announce"
Publishing(m) == \E p \in Proc : chatCall[p].m = m /\ chatCall[p].at \in {"read_row", "publish"}

\* From its k-th event on, the inbox of g puts no text of m on the page.
NoTextFrom(g, m, k) == \A j \in Nat : j \in DOMAIN inbox[g] /\ j >= k => inbox[g][j] # [m |-> m, as |-> "text"]

\* The deletion of m has reached the page or is on its way to it.
UnsentGets(g, m) ==
  \/ Announcing(m)
  \/ Base(g)[m] = "gone"
  \/ Base(g)[m] = "no" /\ NoTextFrom(g, m, 1)
  \/ \E i \in Nat : i \in DOMAIN inbox[g] /\ inbox[g][i] = [m |-> m, as |-> "tombstone"] /\ NoTextFrom(g, m, i)

\* And so has the text of m.
SentGets(g, m) ==
  \/ Publishing(m)
  \/ Base(g)[m] = "text"
  \/ \E i \in Nat : i \in DOMAIN inbox[g] /\ inbox[g][i] = [m |-> m, as |-> "text"]

UnsentInv == \A g \in Tab, m \in oldest : Follows(g) /\ stored[m] = "deleted" => UnsentGets(g, m)
SentInv == \A g \in Tab, m \in oldest : Follows(g) /\ stored[m] = "acked" => SentGets(g, m)

ThreadInv == ThreadTypeInv /\ GoneIsDeleted /\ UnsentInv /\ SentInv

\* How the steps of a page move it.
LEMMA TabParts ==
  ASSUME ThreadTypeInv, NEW g \in Tab
  PROVE  /\ tab[g].at \in {"closed", "fetching", "loading", "open"} /\ tab[g].sub \in {"no", "asked", "on"}
         /\ tab[g].history \in [Message -> {"no", "text", "gone"}]
         /\ tab[g] = [at |-> tab[g].at, sub |-> tab[g].sub, history |-> tab[g].history]
  BY DEF ThreadTypeInv, TabShape

LEMMA TabChange ==
  ASSUME ThreadTypeInv, NEW g \in Tab, NEW k \in TabShape, tab' = [tab EXCEPT ![g] = k]
  PROVE  /\ tab' \in [Tab -> TabShape] /\ tab'[g] = k
         /\ \A h \in Tab : h # g => tab'[h] = tab[h]
  BY DEF ThreadTypeInv

LEMMA BlankTyped == Blank \in [Message -> {"no", "text", "gone"}]
  BY DEF Blank

LEMMA AsListedTyped ==
  ASSUME ThreadTypeInv
  PROVE  AsListed \in [Message -> {"no", "text", "gone"}]
  BY DEF AsListed, View, ThreadTypeInv

LEMMA OpenThreadMoves ==
  ASSUME ThreadTypeInv, NEW g \in Tab, OpenThread(g)
  PROVE  /\ tab' \in [Tab -> TabShape] /\ tab'[g].at = "fetching" /\ tab'[g].history = tab[g].history
         /\ \A h \in Tab : h # g => tab'[h] = tab[h]
<1>0. PICK s \in {"no", "asked", "on"} : s = IF tab[g].sub = "no" THEN "asked" ELSE tab[g].sub
  BY TabParts
<1>1. tab[g] \in TabShape
  BY DEF ThreadTypeInv
<1> DEFINE c1 == [tab[g] EXCEPT !.at = "fetching"]
<1> DEFINE c == [c1 EXCEPT !.sub = s]
<1>2. c1 \in TabShape /\ c1.at = "fetching" /\ c1.sub = tab[g].sub /\ c1.history = tab[g].history
  BY <1>1 DEF TabShape
<1>3. tab' = [tab EXCEPT ![g] = c]
  BY <1>0 DEF OpenThread, ThreadTypeInv
<1> HIDE DEF c1
<1>4. c \in TabShape /\ c.at = "fetching" /\ c.sub = s /\ c.history = tab[g].history
  BY <1>2 DEF TabShape
<1> HIDE DEF c
<1> QED  BY <1>2, <1>3, <1>4, TabChange

LEMMA SubscriptionTakesMoves ==
  ASSUME ThreadTypeInv, NEW g \in Tab, SubscriptionTakes(g)
  PROVE  /\ tab' \in [Tab -> TabShape] /\ tab'[g].at = tab[g].at /\ tab'[g].history = tab[g].history
         /\ \A h \in Tab : h # g => tab'[h] = tab[h]
<1>1. tab[g] \in TabShape
  BY DEF ThreadTypeInv
<1> DEFINE c == [tab[g] EXCEPT !.sub = "on"]
<1>2. c \in TabShape /\ c.at = tab[g].at /\ c.sub = "on" /\ c.history = tab[g].history
  BY <1>1 DEF TabShape
<1>3. tab' = [tab EXCEPT ![g] = c]
  BY DEF SubscriptionTakes
<1> HIDE DEF c
<1> QED  BY <1>2, <1>3, TabChange

LEMMA ListMessagesMoves ==
  ASSUME ThreadTypeInv, NEW g \in Tab, ListMessages(g)
  PROVE  /\ tab' \in [Tab -> TabShape] /\ tab'[g].at = "loading" /\ tab'[g].history = AsListed
         /\ \A h \in Tab : h # g => tab'[h] = tab[h]
<1>0. PICK h0 \in [Message -> {"no", "text", "gone"}] : h0 = AsListed
  BY AsListedTyped
<1>1. tab[g] \in TabShape
  BY DEF ThreadTypeInv
<1> DEFINE c1 == [tab[g] EXCEPT !.at = "loading"]
<1> DEFINE c == [c1 EXCEPT !.history = h0]
<1>2. c1 \in TabShape /\ c1.at = "loading" /\ c1.sub = tab[g].sub /\ c1.history = tab[g].history
  BY <1>1 DEF TabShape
<1>3. tab' = [tab EXCEPT ![g] = c]
  BY <1>0 DEF ListMessages, ThreadTypeInv
<1> HIDE DEF c1
<1>4. c \in TabShape /\ c.at = "loading" /\ c.sub = tab[g].sub /\ c.history = h0
  BY <1>2, <1>0 DEF TabShape
<1> HIDE DEF c
<1> QED  BY <1>0, <1>2, <1>3, <1>4, TabChange

LEMMA ShowHistoryMoves ==
  ASSUME ThreadTypeInv, NEW g \in Tab, ShowHistory(g)
  PROVE  /\ tab' \in [Tab -> TabShape] /\ tab'[g].at = "open"
         /\ \A h \in Tab : h # g => tab'[h] = tab[h]
<1>0. PICK h0 \in [Message -> {"no", "text", "gone"}] : h0 = Blank
  BY BlankTyped
<1>1. tab[g] \in TabShape
  BY DEF ThreadTypeInv
<1> DEFINE c1 == [tab[g] EXCEPT !.at = "open"]
<1> DEFINE c == [c1 EXCEPT !.history = h0]
<1>2. c1 \in TabShape /\ c1.at = "open" /\ c1.sub = tab[g].sub /\ c1.history = tab[g].history
  BY <1>1 DEF TabShape
<1>3. tab' = [tab EXCEPT ![g] = c]
  BY <1>0 DEF ShowHistory, ThreadTypeInv
<1> HIDE DEF c1
<1>4. c \in TabShape /\ c.at = "open" /\ c.sub = tab[g].sub /\ c.history = h0
  BY <1>2, <1>0 DEF TabShape
<1> HIDE DEF c
<1> QED  BY <1>2, <1>3, <1>4, TabChange

LEMMA HistoryFailsMoves ==
  ASSUME ThreadTypeInv, NEW g \in Tab, HistoryFails(g)
  PROVE  /\ tab' \in [Tab -> TabShape] /\ tab'[g].at = "open"
         /\ \A h \in Tab : h # g => tab'[h] = tab[h]
<1>0. PICK h0 \in [Message -> {"no", "text", "gone"}] : h0 = Blank
  BY BlankTyped
<1>1. tab[g] \in TabShape
  BY DEF ThreadTypeInv
<1> DEFINE c1 == [tab[g] EXCEPT !.at = "open"]
<1> DEFINE c == [c1 EXCEPT !.history = h0]
<1>2. c1 \in TabShape /\ c1.at = "open" /\ c1.sub = tab[g].sub /\ c1.history = tab[g].history
  BY <1>1 DEF TabShape
<1>3. tab' = [tab EXCEPT ![g] = c]
  BY <1>0 DEF HistoryFails, ThreadTypeInv
<1> HIDE DEF c1
<1>4. c \in TabShape /\ c.at = "open" /\ c.sub = tab[g].sub /\ c.history = h0
  BY <1>2, <1>0 DEF TabShape
<1> HIDE DEF c
<1> QED  BY <1>2, <1>3, <1>4, TabChange

LEMMA LeaveThreadMoves ==
  ASSUME ThreadTypeInv, NEW g \in Tab, LeaveThread(g)
  PROVE  /\ tab' \in [Tab -> TabShape] /\ tab'[g].at = "closed"
         /\ \A h \in Tab : h # g => tab'[h] = tab[h]
<1>0. PICK h0 \in [Message -> {"no", "text", "gone"}] : h0 = Blank
  BY BlankTyped
<1>1. tab[g] \in TabShape
  BY DEF ThreadTypeInv
<1> DEFINE c1 == [tab[g] EXCEPT !.at = "closed"]
<1> DEFINE c == [c1 EXCEPT !.history = h0]
<1>2. c1 \in TabShape /\ c1.at = "closed" /\ c1.sub = tab[g].sub /\ c1.history = tab[g].history
  BY <1>1 DEF TabShape
<1>3. tab' = [tab EXCEPT ![g] = c]
  BY <1>0 DEF LeaveThread, ThreadTypeInv
<1> HIDE DEF c1
<1>4. c \in TabShape /\ c.at = "closed" /\ c.sub = tab[g].sub /\ c.history = h0
  BY <1>2, <1>0 DEF TabShape
<1> HIDE DEF c
<1> QED  BY <1>2, <1>3, <1>4, TabChange

\* An event of the inbox changes one message on one page.
LEMMA OnEventMoves ==
  ASSUME ThreadTypeInv, NEW g \in Tab, OnEvent(g)
  PROVE  \E e \in ChatEvent :
           /\ inbox[g] # <<>> /\ e = inbox[g][1] /\ inbox' = [inbox EXCEPT ![g] = Tail(inbox[g])]
           /\ shown' \in [Tab -> [Message -> {"no", "text", "gone"}]]
           /\ \A h \in Tab : h # g => shown'[h] = shown[h]
           /\ \A m \in Message : m # e.m => shown'[g][m] = shown[g][m]
           /\ tab[g].at # "closed" =>
                IF e.as = "tombstone" THEN shown'[g][e.m] = IF shown[g][e.m] = "no" THEN "no" ELSE "gone"
                                      ELSE shown'[g][e.m] = IF shown[g][e.m] = "no" THEN e.as ELSE shown[g][e.m]
           /\ tab[g].at = "closed" => shown' = shown
<1>1. inbox[g] \in Seq(ChatEvent) /\ inbox[g] # <<>>
  BY DEF ThreadTypeInv, OnEvent
<1>2. PICK e \in ChatEvent : e = Head(inbox[g])
  BY <1>1
<1>3. e = inbox[g][1] /\ e.m \in Message /\ e.as \in {"text", "gone", "tombstone"}
  BY <1>1, <1>2 DEF ChatEvent
<1>4. shown[g] \in [Message -> {"no", "text", "gone"}] /\ shown[g][e.m] \in {"no", "text", "gone"}
  BY <1>3 DEF ThreadTypeInv
<1>5. PICK v \in {"no", "text", "gone"} :
        v = IF e.as = "tombstone" THEN IF shown[g][e.m] = "no" THEN "no" ELSE "gone"
            ELSE IF shown[g][e.m] = "no" THEN e.as ELSE shown[g][e.m]
  BY <1>3, <1>4
<1>6. PICK row \in [Message -> {"no", "text", "gone"}] : row = [shown[g] EXCEPT ![e.m] = v]
  BY <1>4
<1>7. tab[g].at # "closed" => shown' = [shown EXCEPT ![g] = row]
  BY <1>2, <1>5, <1>6 DEF OnEvent, ThreadTypeInv
<1>8. row[e.m] = v /\ \A m \in Message : m # e.m => row[m] = shown[g][m]
  BY <1>3, <1>4, <1>6
<1>9. tab[g].at = "closed" => shown' = shown
  BY DEF OnEvent
<1>10. inbox' = [inbox EXCEPT ![g] = Tail(inbox[g])]
  BY DEF OnEvent, ThreadTypeInv
<1>11. CASE tab[g].at = "closed"
  BY <1>1, <1>3, <1>9, <1>10, <1>11 DEF ThreadTypeInv
<1>12. CASE tab[g].at # "closed"
  <2>1. /\ shown' \in [Tab -> [Message -> {"no", "text", "gone"}]] /\ shown'[g] = row
        /\ \A h \in Tab : h # g => shown'[h] = shown[h]
    BY <1>7, <1>12 DEF ThreadTypeInv
  <2>2. /\ e.as = "tombstone" => shown'[g][e.m] = IF shown[g][e.m] = "no" THEN "no" ELSE "gone"
        /\ e.as # "tombstone" => shown'[g][e.m] = IF shown[g][e.m] = "no" THEN e.as ELSE shown[g][e.m]
    BY <1>5, <1>8, <2>1
  <2> QED  BY <1>1, <1>3, <1>8, <1>10, <1>12, <2>1, <2>2
<1> QED  BY <1>11, <1>12

LEMMA DeliverMoves ==
  ASSUME ThreadTypeInv, NEW e \in ChatEvent, Deliver(e)
  PROVE  /\ inbox' \in [Tab -> Seq(ChatEvent)] /\ missed \subseteq missed' /\ missed' \subseteq Tab
         /\ \A g \in Tab : inbox'[g] = inbox[g] \/ inbox'[g] = Append(inbox[g], e)
         /\ \A g \in Tab : tab[g].at \in {"loading", "open"} /\ g \notin missed' =>
              inbox'[g] = Append(inbox[g], e) /\ ~(e.as = "text" /\ stored[e.m] = "deleted")
<1>1. CASE /\ inbox' = [g \in Tab |-> IF tab[g].sub = "on" THEN Append(inbox[g], e) ELSE inbox[g]]
           /\ missed' = missed \cup {g \in Tab : \/ tab[g].at \in {"loading", "open"} /\ tab[g].sub # "on"
                                                 \/ e.as = "text" /\ View(e.m) = "gone"}
  <2>1. /\ missed \subseteq missed' /\ missed' \subseteq missed \cup Tab
        /\ \A g \in Tab : tab[g].at \in {"loading", "open"} /\ tab[g].sub # "on" => g \in missed'
        /\ \A g \in Tab : e.as = "text" /\ View(e.m) = "gone" => g \in missed'
    BY <1>1
  <2>2. stored[e.m] = "deleted" => View(e.m) = "gone"
    BY DEF View
  <2>3. \A g \in Tab : inbox[g] \in Seq(ChatEvent) /\ Append(inbox[g], e) \in Seq(ChatEvent)
    BY DEF ThreadTypeInv
  <2>4. inbox' \in [Tab -> Seq(ChatEvent)]
    BY <1>1, <2>3
  <2>5. \A g \in Tab : inbox'[g] = IF tab[g].sub = "on" THEN Append(inbox[g], e) ELSE inbox[g]
    BY <1>1
  <2> QED  BY <2>1, <2>2, <2>4, <2>5 DEF ThreadTypeInv
<1>2. CASE missed' = missed \cup {g \in Tab : tab[g].at \in {"loading", "open"}} /\ UNCHANGED inbox
  BY <1>2 DEF ThreadTypeInv
<1> QED  BY <1>1, <1>2 DEF Deliver

\* How the steps of a call move it.
LEMMA CallParts ==
  ASSUME ThreadTypeInv, NEW p \in Proc
  PROVE  /\ chatCall[p] \in CallShape /\ CallHolds(chatCall[p])
         /\ chatCall[p].m \in Message \cup {"none"} /\ chatCall[p].row \in {"no", "text", "gone"}
         /\ chatCall[p].at # "idle" => chatCall[p].m \in Message
  BY DEF ThreadTypeInv, CallShape, CallHolds

CallMoved(p, at, m, row) ==
  /\ chatCall' \in [Proc -> CallShape]
  /\ \A q \in Proc : q # p => chatCall'[q] = chatCall[q]
  /\ chatCall'[p].at = at /\ chatCall'[p].m = m /\ chatCall'[p].row = row

LEMMA CallChange ==
  ASSUME ThreadTypeInv, NEW p \in Proc, NEW c \in CallShape, chatCall' = [chatCall EXCEPT ![p] = c]
  PROVE  CallMoved(p, c.at, c.m, c.row)
  BY DEF ThreadTypeInv, CallMoved

LEMMA ChatIdleType ==
  ChatIdle \in CallShape /\ ChatIdle.at = "idle" /\ ChatIdle.m = "none" /\ ChatIdle.row = "no"
<1>1. PICK no \in BOOLEAN : no = FALSE
  OBVIOUS
<1>2. ChatIdle = [at |-> "idle", m |-> "none", system |-> no, row |-> "no"]
  BY <1>1 DEF ChatIdle
<1> QED  BY <1>2 DEF CallShape

LEMMA ChatGotoMoves ==
  ASSUME ThreadTypeInv, NEW p \in Proc, NEW at \in {"read_row", "announce"}, ChatGoto(p, at)
  PROVE  CallMoved(p, at, chatCall[p].m, chatCall[p].row)
<1> DEFINE c == [chatCall[p] EXCEPT !.at = at]
<1>1. c \in CallShape /\ c.at = at /\ c.m = chatCall[p].m /\ c.row = chatCall[p].row
  BY CallParts DEF CallShape
<1>2. chatCall' = [chatCall EXCEPT ![p] = c]
  BY DEF ChatGoto
<1> HIDE DEF c
<1> QED  BY <1>1, <1>2, CallChange

LEMMA ChatReturnMoves ==
  ASSUME ThreadTypeInv, NEW p \in Proc, ChatReturn(p)
  PROVE  CallMoved(p, "idle", "none", "no")
  BY ChatIdleType, CallChange DEF ChatReturn

LEMMA InsertMessageMoves ==
  ASSUME ThreadTypeInv, NEW p \in Proc, NEW m \in Message, NEW system \in BOOLEAN, InsertMessage(p, m, system)
  PROVE  /\ chatCall[p].at = "idle" /\ stored[m] = "none"
         /\ \E at \in {"read_row", "gateway"} :
              /\ CallMoved(p, at, m, "no")
              /\ stored' = [stored EXCEPT ![m] = IF at = "read_row" THEN "acked" ELSE "pending"]
         /\ oldest' \subseteq oldest \cup {m}
<1> DEFINE at == IF system THEN "read_row" ELSE "gateway"
<1>0. at \in {"read_row", "gateway"} /\ (system <=> at = "read_row")
  BY Zenon
<1> DEFINE c == [at |-> at, m |-> m, system |-> system, row |-> "no"]
<1>1. chatCall' = [chatCall EXCEPT ![p] = c]
  BY DEF InsertMessage
<1>2. stored' = [stored EXCEPT ![m] = IF at = "read_row" THEN "acked" ELSE "pending"]
  <2>1. stored' = [stored EXCEPT ![m] = IF system THEN "acked" ELSE "pending"]
    BY DEF InsertMessage
  <2>2. CASE system
    BY <1>0, <2>1, <2>2
  <2>3. CASE ~system
    BY <1>0, <2>1, <2>3
  <2> QED  BY <2>2, <2>3
<1> HIDE DEF at
<1>3. c \in CallShape /\ c.at = at /\ c.m = m /\ c.row = "no"
  BY <1>0 DEF CallShape
<1> HIDE DEF c
<1>4. CallMoved(p, at, m, "no")
  BY <1>1, <1>3, CallChange
<1>5. chatCall[p].at = "idle" /\ stored[m] = "none"
  BY ChatIdleType DEF InsertMessage
<1>6. oldest' \subseteq oldest \cup {m}
  BY DEF InsertMessage
<1> QED  BY <1>0, <1>2, <1>4, <1>5, <1>6

LEMMA SendViaPluginMoves ==
  ASSUME ThreadTypeInv, NEW p \in Proc, SendViaPlugin(p)
  PROVE  LET m == chatCall[p].m IN
         /\ chatCall[p].at = "gateway" /\ m \in Message
         /\ \E ack \in {"acked", "nacked"} :
              /\ stored' = [stored EXCEPT ![m] = IF stored[m] = "deleted" THEN stored[m] ELSE ack]
              /\ ack = "acked" => CallMoved(p, "read_row", m, chatCall[p].row)
              /\ ack = "nacked" => CallMoved(p, "idle", "none", "no")
<1>1. chatCall[p].at = "gateway" /\ chatCall[p].m \in Message
  BY CallParts DEF SendViaPlugin
<1>2. PICK ack \in {"acked", "nacked"} :
        /\ stored' = [stored EXCEPT ![chatCall[p].m] = IF @ = "deleted" THEN @ ELSE ack]
        /\ IF ack = "acked" THEN ChatGoto(p, "read_row") ELSE ChatReturn(p)
  BY DEF SendViaPlugin
<1>3. stored' = [stored EXCEPT ![chatCall[p].m] = IF stored[chatCall[p].m] = "deleted" THEN stored[chatCall[p].m] ELSE ack]
  BY <1>1, <1>2 DEF ThreadTypeInv
<1> QED  BY <1>1, <1>2, <1>3, ChatGotoMoves, ChatReturnMoves

LEMMA ReadRowMoves ==
  ASSUME ThreadTypeInv, NEW p \in Proc, ReadRow(p)
  PROVE  /\ chatCall[p].at = "read_row" /\ chatCall[p].m \in Message
         /\ CallMoved(p, "publish", chatCall[p].m, View(chatCall[p].m))
         /\ View(chatCall[p].m) = IF stored[chatCall[p].m] = "deleted" THEN "gone" ELSE "text"
<1>1. chatCall[p].at = "read_row" /\ chatCall[p].m \in Message /\ stored[chatCall[p].m] # "none"
  BY CallParts DEF ReadRow, CallHolds
<1>2. View(chatCall[p].m) = IF stored[chatCall[p].m] = "deleted" THEN "gone" ELSE "text"
  BY <1>1 DEF View
<1>3. PICK v \in {"text", "gone"} : v = View(chatCall[p].m)
  BY <1>2
<1>4. chatCall' = [chatCall EXCEPT ![p].at = "publish", ![p].row = v]
  BY <1>3 DEF ReadRow
<1> DEFINE c1 == [chatCall[p] EXCEPT !.at = "publish"]
<1> DEFINE c == [c1 EXCEPT !.row = v]
<1>5. c1 \in CallShape /\ c1.at = "publish" /\ c1.m = chatCall[p].m
  BY CallParts DEF CallShape
<1>6. chatCall' = [chatCall EXCEPT ![p] = c]
  BY <1>4 DEF ThreadTypeInv
<1> HIDE DEF c1
<1>7. c \in CallShape /\ c.at = "publish" /\ c.m = chatCall[p].m /\ c.row = v
  BY <1>5 DEF CallShape
<1> HIDE DEF c
<1> QED  BY <1>1, <1>2, <1>3, <1>6, <1>7, CallChange

LEMMA DeleteMessageMoves ==
  ASSUME ThreadTypeInv, NEW p \in Proc, NEW m \in Message, DeleteMessage(p, m)
  PROVE  chatCall[p].at = "idle" /\ stored[m] # "none" /\ CallMoved(p, "delete", m, "no")
<1> DEFINE c1 == [ChatIdle EXCEPT !.at = "delete"]
<1> DEFINE c == [c1 EXCEPT !.m = m]
<1>1. c1 \in CallShape /\ c1.at = "delete" /\ c1.row = "no"
  BY ChatIdleType DEF CallShape
<1>2. chatCall' = [chatCall EXCEPT ![p] = c]
  <2>1. chatCall' = [chatCall EXCEPT ![p] = [ChatIdle EXCEPT !.at = "delete", !.m = m]]
    BY DEF DeleteMessage
  <2>2. [ChatIdle EXCEPT !.at = "delete", !.m = m] = c
    BY DEF ChatIdle
  <2> QED  BY <2>1, <2>2
<1> HIDE DEF c1
<1>3. c \in CallShape /\ c.at = "delete" /\ c.m = m /\ c.row = "no"
  BY <1>1 DEF CallShape
<1> HIDE DEF c
<1>4. chatCall[p].at = "idle" /\ stored[m] # "none"
  BY ChatIdleType DEF DeleteMessage
<1> QED  BY <1>2, <1>3, <1>4, CallChange

\* The types, step by step.
LEMMA CallsHold ==
  ASSUME ThreadTypeInv, NEW p \in Proc, NEW at, NEW m, NEW row, CallMoved(p, at, m, row),
         \A x \in Message : stored'[x] = "none" => stored[x] = "none",
         at # "idle" => m \in Message /\ stored'[m] # "none",
         at = "publish" => row # "no"
  PROVE  chatCall' \in [Proc -> CallShape] /\ \A q \in Proc : CallHolds(chatCall[q])'
<1> SUFFICES ASSUME NEW q \in Proc PROVE CallHolds(chatCall[q])'
  BY DEF CallMoved
<1>1. CASE q = p
  BY <1>1 DEF CallMoved, CallHolds
<1>2. CASE q # p
  <2>1. chatCall'[q] = chatCall[q] /\ CallHolds(chatCall[q])
    BY <1>2 DEF CallMoved, ThreadTypeInv
  <2> QED  BY <2>1 DEF CallHolds
<1> QED  BY <1>1, <1>2

LEMMA CallsKept ==
  ASSUME ThreadTypeInv, UNCHANGED <<stored, chatCall>>
  PROVE  chatCall' \in [Proc -> CallShape] /\ \A q \in Proc : CallHolds(chatCall[q])'
  BY DEF ThreadTypeInv, CallHolds

LEMMA InsertMessageTypes ==
  ASSUME ThreadTypeInv, NEW p \in Proc, NEW m \in Message, NEW system \in BOOLEAN, InsertMessage(p, m, system)
  PROVE  ThreadTypeInv'
<1>1. PICK at \in {"read_row", "gateway"} :
        /\ CallMoved(p, at, m, "no") /\ stored' = [stored EXCEPT ![m] = IF at = "read_row" THEN "acked" ELSE "pending"]
  BY InsertMessageMoves
<1>2. stored' \in [Message -> {"none", "pending", "acked", "nacked", "deleted"}] /\ stored'[m] # "none"
      /\ \A x \in Message : stored'[x] = "none" => stored[x] = "none"
  BY <1>1 DEF ThreadTypeInv
<1>3. chatCall' \in [Proc -> CallShape] /\ \A q \in Proc : CallHolds(chatCall[q])'
  BY <1>1, <1>2, CallsHold
<1>4. UNCHANGED <<tab, shown, inbox, missed>>
  BY DEF InsertMessage
<1>5. oldest' \subseteq Message
  BY InsertMessageMoves DEF ThreadTypeInv
<1> QED  BY <1>2, <1>3, <1>4, <1>5 DEF ThreadTypeInv

LEMMA SendViaPluginTypes ==
  ASSUME ThreadTypeInv, NEW p \in Proc, SendViaPlugin(p)
  PROVE  ThreadTypeInv'
<1>0. PICK m \in Message : m = chatCall[p].m
  BY SendViaPluginMoves
<1>1. PICK ack \in {"acked", "nacked"} :
        /\ stored' = [stored EXCEPT ![m] = IF stored[m] = "deleted" THEN stored[m] ELSE ack]
        /\ ack = "acked" => CallMoved(p, "read_row", m, chatCall[p].row)
        /\ ack = "nacked" => CallMoved(p, "idle", "none", "no")
  BY <1>0, SendViaPluginMoves
<1>2. stored' \in [Message -> {"none", "pending", "acked", "nacked", "deleted"}] /\ stored'[m] # "none"
      /\ \A x \in Message : stored'[x] = "none" => stored[x] = "none"
  BY <1>1 DEF ThreadTypeInv
<1>3. CASE ack = "acked"
  <2>1. chatCall' \in [Proc -> CallShape] /\ \A q \in Proc : CallHolds(chatCall[q])'
    BY <1>1, <1>2, <1>3, CallsHold
  <2> QED  BY <1>2, <2>1 DEF ThreadTypeInv, SendViaPlugin
<1>4. CASE ack = "nacked"
  <2>1. chatCall' \in [Proc -> CallShape] /\ \A q \in Proc : CallHolds(chatCall[q])'
    BY <1>1, <1>2, <1>4, CallsHold
  <2> QED  BY <1>2, <2>1 DEF ThreadTypeInv, SendViaPlugin
<1> QED  BY <1>3, <1>4

LEMMA ReadRowTypes ==
  ASSUME ThreadTypeInv, NEW p \in Proc, ReadRow(p)
  PROVE  ThreadTypeInv'
<1>1. PICK v \in {"text", "gone"} : v = View(chatCall[p].m)
  BY ReadRowMoves
<1>2. CallMoved(p, "publish", chatCall[p].m, v) /\ chatCall[p].m \in Message /\ stored[chatCall[p].m] # "none"
  BY <1>1, ReadRowMoves, CallParts DEF CallHolds
<1>3. UNCHANGED <<stored, oldest, tab, shown, inbox, missed>>
  BY DEF ReadRow
<1>4. chatCall' \in [Proc -> CallShape] /\ \A q \in Proc : CallHolds(chatCall[q])'
  BY <1>1, <1>2, <1>3, CallsHold
<1> QED  BY <1>3, <1>4 DEF ThreadTypeInv

\* What is published and announced is an event.
LEMMA PublishMoves ==
  ASSUME ThreadTypeInv, NEW p \in Proc, PublishMessageEvent(p)
  PROVE  \E e \in ChatEvent :
           /\ Deliver(e) /\ e.m = chatCall[p].m /\ e.as = chatCall[p].row /\ e.as # "tombstone"
           /\ chatCall[p].at = "publish" /\ CallMoved(p, "idle", "none", "no") /\ UNCHANGED <<stored, oldest, tab, shown>>
<1>1. chatCall[p].at = "publish" /\ chatCall[p].m \in Message /\ chatCall[p].row \in {"text", "gone"}
  BY CallParts DEF PublishMessageEvent, CallHolds
<1>2. PICK e \in ChatEvent : e = [m |-> chatCall[p].m, as |-> chatCall[p].row]
  BY <1>1 DEF ChatEvent
<1>3. Deliver(e)
  BY <1>2 DEF PublishMessageEvent
<1>4. CallMoved(p, "idle", "none", "no")
  BY ChatReturnMoves DEF PublishMessageEvent
<1> QED  BY <1>1, <1>2, <1>3, <1>4 DEF PublishMessageEvent

LEMMA TombstoneMoves ==
  ASSUME ThreadTypeInv, NEW p \in Proc, WriteTombstone(p)
  PROVE  /\ chatCall[p].m \in Message /\ UNCHANGED <<oldest, tab, shown>>
         /\ \/ /\ chatCall[p].at = "delete" /\ stored' = [stored EXCEPT ![chatCall[p].m] = "deleted"]
               /\ CallMoved(p, "announce", chatCall[p].m, chatCall[p].row) /\ UNCHANGED <<inbox, missed>>
            \/ /\ chatCall[p].at = "announce" /\ stored' = stored
               /\ CallMoved(p, "idle", "none", "no")
               /\ \E e \in ChatEvent : Deliver(e) /\ e = [m |-> chatCall[p].m, as |-> "tombstone"]
<1>1. CASE chatCall[p].at = "delete"
  <2>1. chatCall[p].m \in Message
    BY <1>1, CallParts
  <2>2. ChatGoto(p, "announce") /\ stored' = [stored EXCEPT ![chatCall[p].m] = "deleted"]
        /\ UNCHANGED <<oldest, tab, shown, inbox, missed>>
    BY <1>1 DEF WriteTombstone
  <2> QED  BY <1>1, <2>1, <2>2, ChatGotoMoves
<1>2. CASE chatCall[p].at = "announce"
  <2>1. chatCall[p].m \in Message
    BY <1>2, CallParts
  <2>2. PICK e \in ChatEvent : e = [m |-> chatCall[p].m, as |-> "tombstone"]
    BY <2>1 DEF ChatEvent
  <2>3. Deliver(e) /\ ChatReturn(p) /\ UNCHANGED <<stored, oldest, tab, shown>>
    BY <1>2, <2>2 DEF WriteTombstone
  <2> QED  BY <1>2, <2>1, <2>2, <2>3, ChatReturnMoves
<1> QED  BY <1>1, <1>2 DEF WriteTombstone

LEMMA DeliveredTypes ==
  ASSUME ThreadTypeInv, NEW p \in Proc, NEW e \in ChatEvent, Deliver(e), CallMoved(p, "idle", "none", "no"),
         UNCHANGED <<stored, oldest, tab, shown>>
  PROVE  ThreadTypeInv'
<1>1. chatCall' \in [Proc -> CallShape] /\ \A q \in Proc : CallHolds(chatCall[q])'
  BY CallsHold
<1> QED  BY <1>1, DeliverMoves DEF ThreadTypeInv

LEMMA TombstoneTypes ==
  ASSUME ThreadTypeInv, NEW p \in Proc, WriteTombstone(p)
  PROVE  ThreadTypeInv'
<1>0. PICK m \in Message : m = chatCall[p].m
  BY TombstoneMoves
<1>1. CASE /\ stored' = [stored EXCEPT ![m] = "deleted"] /\ UNCHANGED <<inbox, missed>>
           /\ CallMoved(p, "announce", m, chatCall[p].row)
  <2>1. stored' \in [Message -> {"none", "pending", "acked", "nacked", "deleted"}] /\ stored'[m] # "none"
        /\ \A x \in Message : stored'[x] = "none" => stored[x] = "none"
    BY <1>1 DEF ThreadTypeInv
  <2>2. chatCall' \in [Proc -> CallShape] /\ \A q \in Proc : CallHolds(chatCall[q])'
    BY <1>1, <2>1, CallsHold
  <2> QED  BY <1>1, <2>1, <2>2, TombstoneMoves DEF ThreadTypeInv
<1>2. ASSUME NEW e \in ChatEvent, Deliver(e), CallMoved(p, "idle", "none", "no"), stored' = stored PROVE ThreadTypeInv'
  BY <1>2, DeliveredTypes, TombstoneMoves
<1> QED  BY <1>0, <1>1, <1>2, TombstoneMoves

LEMMA PublishTypes ==
  ASSUME ThreadTypeInv, NEW p \in Proc, PublishMessageEvent(p)
  PROVE  ThreadTypeInv'
  BY PublishMoves, DeliveredTypes

LEMMA DeleteMessageTypes ==
  ASSUME ThreadTypeInv, NEW p \in Proc, NEW m \in Message, DeleteMessage(p, m)
  PROVE  ThreadTypeInv'
<1>1. CallMoved(p, "delete", m, "no") /\ stored[m] # "none" /\ UNCHANGED <<stored, oldest, tab, shown, inbox, missed>>
  BY DeleteMessageMoves DEF DeleteMessage
<1>2. chatCall' \in [Proc -> CallShape] /\ \A q \in Proc : CallHolds(chatCall[q])'
  BY <1>1, CallsHold
<1> QED  BY <1>1, <1>2 DEF ThreadTypeInv

LEMMA PageTypes ==
  ASSUME ThreadTypeInv, NEW g \in Tab,
         \/ OpenThread(g) \/ SubscriptionTakes(g) \/ ListMessages(g) \/ ShowHistory(g) \/ HistoryFails(g)
         \/ LeaveThread(g) \/ OnEvent(g)
  PROVE  ThreadTypeInv'
<1>1. UNCHANGED <<stored, oldest, chatCall>>
  BY DEF OpenThread, SubscriptionTakes, ListMessages, ShowHistory, HistoryFails, LeaveThread, OnEvent
<1>2. chatCall' \in [Proc -> CallShape] /\ \A q \in Proc : CallHolds(chatCall[q])'
  BY <1>1, CallsKept
<1>3. CASE ~OnEvent(g)
  <2>1. tab' \in [Tab -> TabShape]
    BY <1>3, OpenThreadMoves, SubscriptionTakesMoves, ListMessagesMoves, ShowHistoryMoves, HistoryFailsMoves, LeaveThreadMoves
  <2>2. inbox' = inbox /\ missed' \subseteq Tab
    BY <1>3 DEF OpenThread, SubscriptionTakes, ListMessages, ShowHistory, HistoryFails, LeaveThread, ThreadTypeInv
  <2>3. shown' \in [Tab -> [Message -> {"no", "text", "gone"}]]
    BY <1>3, BlankTyped, TabParts DEF OpenThread, SubscriptionTakes, ListMessages, ShowHistory, HistoryFails, LeaveThread, ThreadTypeInv
  <2> QED  BY <1>1, <1>2, <2>1, <2>2, <2>3 DEF ThreadTypeInv
<1>4. CASE OnEvent(g)
  <2>1. shown' \in [Tab -> [Message -> {"no", "text", "gone"}]]
    BY <1>4, OnEventMoves
  <2>2. inbox' = [inbox EXCEPT ![g] = Tail(inbox[g])] /\ inbox[g] # <<>>
    BY <1>4, OnEventMoves
  <2>3. inbox' \in [Tab -> Seq(ChatEvent)]
    BY <2>2 DEF ThreadTypeInv
  <2>4. tab' = tab /\ missed' \subseteq Tab
    BY <1>4 DEF OnEvent, ThreadTypeInv
  <2> QED  BY <1>1, <1>2, <2>1, <2>3, <2>4 DEF ThreadTypeInv
<1> QED  BY <1>3, <1>4

LEMMA ThreadTypesInitially == ChatInit => ThreadTypeInv
<1> SUFFICES ASSUME ChatInit PROVE ThreadTypeInv
  OBVIOUS
<1>1. chatCall \in [Proc -> CallShape] /\ \A p \in Proc : CallHolds(chatCall[p])
  BY ChatIdleType DEF ChatInit, CallHolds
<1>2. tab \in [Tab -> TabShape]
  BY BlankTyped DEF ChatInit, ClosedTab, TabShape
<1>3. shown \in [Tab -> [Message -> {"no", "text", "gone"}]]
  BY BlankTyped DEF ChatInit
<1> QED  BY <1>1, <1>2, <1>3 DEF ChatInit, ThreadTypeInv

LEMMA InboxFacts ==
  ASSUME ThreadTypeInv, NEW g \in Tab
  PROVE  /\ inbox[g] \in Seq(ChatEvent) /\ Len(inbox[g]) \in Nat /\ DOMAIN inbox[g] = 1..Len(inbox[g])
         /\ \A i \in 1..Len(inbox[g]) : inbox[g][i] \in ChatEvent
  BY DEF ThreadTypeInv

LEMMA EventFacts ==
  ASSUME NEW e \in ChatEvent
  PROVE  e.m \in Message /\ e.as \in {"text", "gone", "tombstone"} /\ e = [m |-> e.m, as |-> e.as]
  BY DEF ChatEvent

\* A step of a call that publishes nothing.
LEMMA CallFrame ==
  ASSUME ThreadTypeInv, GoneIsDeleted, UnsentInv, SentInv, UNCHANGED <<tab, shown, inbox, missed>>,
         NEW p \in Proc, NEW at, NEW mm, NEW row, CallMoved(p, at, mm, row),
         \A m \in Message : stored[m] = "deleted" => stored'[m] = "deleted",
         \A m \in Message : stored'[m] = "deleted" => stored[m] = "deleted" \/ (at = "announce" /\ mm = m),
         \A m \in Message : stored'[m] = "acked" => stored[m] = "acked" \/ (at = "read_row" /\ mm = m),
         chatCall[p].at # "announce",
         chatCall[p].at \in {"read_row", "publish"} => mm = chatCall[p].m /\ at \in {"read_row", "publish"},
         at = "announce" \/ (at = "publish" /\ row = "gone") => mm \in Message /\ stored'[mm] = "deleted",
         oldest' \subseteq Message, \A m \in oldest' : m \in oldest \/ stored[m] = "none"
  PROVE  GoneIsDeleted' /\ UnsentInv' /\ SentInv'
<1>1. \A q \in Proc : q # p => chatCall'[q] = chatCall[q]
  BY DEF CallMoved
<1>2. chatCall'[p].at = at /\ chatCall'[p].m = mm /\ chatCall'[p].row = row
  BY DEF CallMoved
<1>3. \A g \in Tab : (Follows(g)' <=> Follows(g)) /\ Base(g)' = Base(g)
  BY DEF Follows, Base
<1>4. \A q \in Proc : chatCall[q].at # "idle" => chatCall[q].m \in Message
  BY CallParts
<1>5. \A g \in Tab, i \in Nat : i \in DOMAIN inbox[g] => inbox[g][i].m \in Message
  BY InboxFacts, EventFacts
<1>6. GoneIsDeleted'
  <2>1. ASSUME NEW q \in Proc, chatCall'[q].at = "announce" \/ (chatCall'[q].at = "publish" /\ chatCall'[q].row = "gone")
        PROVE  stored'[chatCall'[q].m] = "deleted"
    <3>1. CASE q = p
      BY <1>2, <2>1, <3>1
    <3>2. CASE q # p
      <4>1. chatCall'[q] = chatCall[q] /\ chatCall[q].m \in Message
        BY <1>1, <1>4, <2>1, <3>2
      <4>2. stored[chatCall[q].m] = "deleted"
        BY <2>1, <4>1 DEF GoneIsDeleted
      <4> QED  BY <4>1, <4>2
    <3> QED  BY <3>1, <3>2
  <2>2. \A g \in Tab, i \in Nat : i \in DOMAIN inbox[g] /\ inbox[g][i].as # "text" => stored'[inbox[g][i].m] = "deleted"
    BY <1>5 DEF GoneIsDeleted
  <2>3. \A g \in Tab, m \in Message : LooksGone(g, m) => stored'[m] = "deleted"
    BY DEF GoneIsDeleted
  <2>4. \A g \in Tab, m \in Message : LooksGone(g, m)' => stored'[m] = "deleted"
    BY <1>3, <2>3 DEF LooksGone
  <2> QED  BY <2>1, <2>2, <2>4 DEF GoneIsDeleted
<1>7. UnsentInv'
  <2> SUFFICES ASSUME NEW g \in Tab, NEW m \in oldest', Follows(g)', stored'[m] = "deleted" PROVE UnsentGets(g, m)'
    BY DEF UnsentInv
  <2>1. CASE at = "announce" /\ mm = m
    BY <1>2, <2>1 DEF UnsentGets, Announcing
  <2>2. CASE stored[m] = "deleted"
    <3>1. UnsentGets(g, m)
      BY <1>3, <2>2 DEF UnsentInv
    <3>2. Announcing(m) => Announcing(m)'
      BY <1>1 DEF Announcing
    <3>3. \A k \in Nat : NoTextFrom(g, m, k)' <=> NoTextFrom(g, m, k)
      BY DEF NoTextFrom
    <3> QED  BY <1>3, <3>1, <3>2, <3>3 DEF UnsentGets
  <2> QED  BY <2>1, <2>2
<1>8. SentInv'
  <2> SUFFICES ASSUME NEW g \in Tab, NEW m \in oldest', Follows(g)', stored'[m] = "acked" PROVE SentGets(g, m)'
    BY DEF SentInv
  <2>1. CASE at = "read_row" /\ mm = m
    BY <1>2, <2>1 DEF SentGets, Publishing
  <2>2. CASE stored[m] = "acked"
    <3>1. SentGets(g, m)
      BY <1>3, <2>2 DEF SentInv
    <3>2. Publishing(m) => Publishing(m)'
      BY <1>1, <1>2 DEF Publishing
    <3> QED  BY <1>3, <3>1, <3>2 DEF SentGets
  <2> QED  BY <2>1, <2>2
<1> QED  BY <1>6, <1>7, <1>8

\* The step of a call that publishes a row or announces a deletion.
LEMMA DeliverFrame ==
  ASSUME ThreadTypeInv, GoneIsDeleted, UnsentInv, SentInv, NEW p \in Proc, NEW e \in ChatEvent, Deliver(e),
         UNCHANGED <<stored, oldest, tab, shown>>, CallMoved(p, "idle", "none", "no"), e.m = chatCall[p].m,
         \/ chatCall[p].at = "publish" /\ e.as = chatCall[p].row
         \/ chatCall[p].at = "announce" /\ e.as = "tombstone"
  PROVE  GoneIsDeleted' /\ UnsentInv' /\ SentInv'
<1>1. \A q \in Proc : q # p => chatCall'[q] = chatCall[q]
  BY DEF CallMoved
<1>2. chatCall'[p].at = "idle"
  BY DEF CallMoved
<1>3. ASSUME NEW g \in Tab, Follows(g)'
      PROVE  /\ Follows(g) /\ inbox'[g] = Append(inbox[g], e)
             /\ e.as = "text" => stored[e.m] # "deleted"
  BY <1>3, DeliverMoves DEF Follows
<1>4. \A g \in Tab : Base(g)' = Base(g)
  BY DEF Base
<1>5. e.as # "text" => stored[e.m] = "deleted"
  BY EventFacts, CallParts DEF GoneIsDeleted
<1>6. \A g \in Tab : \/ inbox'[g] = inbox[g]
                     \/ /\ inbox'[g] = Append(inbox[g], e)
                        /\ DOMAIN inbox'[g] = DOMAIN inbox[g] \cup {Len(inbox[g]) + 1}
                        /\ inbox'[g][Len(inbox[g]) + 1] = e
                        /\ \A i \in DOMAIN inbox[g] : i <= Len(inbox[g]) /\ inbox'[g][i] = inbox[g][i]
  <2> TAKE g \in Tab
  <2>1. inbox'[g] = inbox[g] \/ inbox'[g] = Append(inbox[g], e)
    BY DeliverMoves
  <2>2. inbox[g] \in Seq(ChatEvent) /\ Len(inbox[g]) \in Nat /\ DOMAIN inbox[g] = 1..Len(inbox[g])
    BY InboxFacts
  <2>3. /\ Append(inbox[g], e) \in Seq(ChatEvent) /\ Len(Append(inbox[g], e)) = Len(inbox[g]) + 1
        /\ Append(inbox[g], e)[Len(inbox[g]) + 1] = e
        /\ \A i \in 1..Len(inbox[g]) : Append(inbox[g], e)[i] = inbox[g][i]
    BY <2>2
  <2>4. DOMAIN Append(inbox[g], e) = 1..Len(inbox[g]) + 1
    BY <2>3
  <2>5. 1..Len(inbox[g]) + 1 = (1..Len(inbox[g])) \cup {Len(inbox[g]) + 1}
    BY <2>2
  <2> QED  BY <2>1, <2>2, <2>3, <2>4, <2>5
<1>7. GoneIsDeleted'
  <2>1. \A q \in Proc : /\ chatCall'[q].at = "announce" => stored[chatCall'[q].m] = "deleted"
                        /\ chatCall'[q].at = "publish" /\ chatCall'[q].row = "gone" => stored[chatCall'[q].m] = "deleted"
    BY <1>1, <1>2 DEF GoneIsDeleted
  <2>2. ASSUME NEW g \in Tab, NEW i \in Nat, i \in DOMAIN inbox'[g], inbox'[g][i].as # "text"
        PROVE  stored[inbox'[g][i].m] = "deleted"
    BY <1>5, <1>6, <2>2 DEF GoneIsDeleted
  <2>3. \A g \in Tab, m \in Message : LooksGone(g, m)' => stored[m] = "deleted"
    BY <1>4 DEF GoneIsDeleted, LooksGone
  <2> QED  BY <2>1, <2>2, <2>3 DEF GoneIsDeleted
<1>8. UnsentInv'
  <2> SUFFICES ASSUME NEW g \in Tab, NEW m \in oldest', Follows(g)', stored[m] = "deleted" PROVE UnsentGets(g, m)'
    BY DEF UnsentInv
  <2>1. Follows(g) /\ e # [m |-> m, as |-> "text"] /\ inbox'[g] = Append(inbox[g], e)
    BY <1>3
  <2>2. UnsentGets(g, m)
    BY <2>1 DEF UnsentInv
  <2>3. DOMAIN inbox'[g] = DOMAIN inbox[g] \cup {Len(inbox[g]) + 1} /\ inbox'[g][Len(inbox[g]) + 1] = e
        /\ Len(inbox[g]) \in Nat /\ \A i \in DOMAIN inbox[g] : i <= Len(inbox[g]) /\ inbox'[g][i] = inbox[g][i]
    <3>1. inbox[g] # inbox'[g]
      BY <2>1, InboxFacts
    <3> QED  BY <1>6, <3>1, InboxFacts
  <2>4. \A k \in Nat : NoTextFrom(g, m, k) => NoTextFrom(g, m, k)'
    BY <2>1, <2>3 DEF NoTextFrom
  <2>5. CASE Announcing(m)
    <3>1. PICK q \in Proc : chatCall[q].m = m /\ chatCall[q].at = "announce"
      BY <2>5 DEF Announcing
    <3>2. CASE q # p
      BY <1>1, <3>1, <3>2 DEF UnsentGets, Announcing
    <3>3. CASE q = p
      <4>1. e = [m |-> m, as |-> "tombstone"]
        BY <3>1, <3>3, EventFacts
      <4>2. PICK n \in Nat : n = Len(inbox[g]) + 1
        BY <2>3
      <4>3. n \in DOMAIN inbox'[g] /\ inbox'[g][n] = e /\ \A i \in DOMAIN inbox'[g] : i >= n => i = n
        BY <2>3, <4>2
      <4>4. NoTextFrom(g, m, n)'
        BY <2>1, <4>3 DEF NoTextFrom
      <4> QED  BY <4>1, <4>3, <4>4 DEF UnsentGets
    <3> QED  BY <3>2, <3>3
  <2>6. CASE Base(g)[m] = "gone" \/ (Base(g)[m] = "no" /\ NoTextFrom(g, m, 1))
    BY <1>4, <2>4, <2>6 DEF UnsentGets
  <2>7. ASSUME NEW i \in Nat, i \in DOMAIN inbox[g], inbox[g][i] = [m |-> m, as |-> "tombstone"], NoTextFrom(g, m, i)
        PROVE  UnsentGets(g, m)'
    BY <2>3, <2>4, <2>7 DEF UnsentGets
  <2> QED  BY <2>2, <2>5, <2>6, <2>7 DEF UnsentGets
<1>9. SentInv'
  <2> SUFFICES ASSUME NEW g \in Tab, NEW m \in oldest', Follows(g)', stored[m] = "acked" PROVE SentGets(g, m)'
    BY DEF SentInv
  <2>1. Follows(g) /\ inbox'[g] = Append(inbox[g], e)
    BY <1>3
  <2>2. SentGets(g, m)
    BY <2>1 DEF SentInv
  <2>3. DOMAIN inbox'[g] = DOMAIN inbox[g] \cup {Len(inbox[g]) + 1} /\ inbox'[g][Len(inbox[g]) + 1] = e
        /\ Len(inbox[g]) \in Nat /\ \A i \in DOMAIN inbox[g] : inbox'[g][i] = inbox[g][i]
    <3>1. inbox[g] # inbox'[g]
      BY <2>1, InboxFacts
    <3> QED  BY <1>6, <3>1, InboxFacts
  <2>4. CASE Publishing(m)
    <3>1. PICK q \in Proc : chatCall[q].m = m /\ chatCall[q].at \in {"read_row", "publish"}
      BY <2>4 DEF Publishing
    <3>2. CASE q # p
      BY <1>1, <3>1, <3>2 DEF SentGets, Publishing
    <3>3. CASE q = p
      <4>1. e = [m |-> m, as |-> "text"]
        BY <1>5, <3>1, <3>3, EventFacts
      <4> QED  BY <2>3, <4>1 DEF SentGets
    <3> QED  BY <3>2, <3>3
  <2>5. CASE Base(g)[m] = "text"
    BY <1>4, <2>5 DEF SentGets
  <2>6. ASSUME NEW i \in Nat, i \in DOMAIN inbox[g], inbox[g][i] = [m |-> m, as |-> "text"]
        PROVE  SentGets(g, m)'
    BY <2>3, <2>6 DEF SentGets
  <2> QED  BY <2>2, <2>4, <2>5, <2>6 DEF SentGets
<1> QED  BY <1>7, <1>8, <1>9

\* A step of one page: the others stay as they are.
LEMMA PageFrame ==
  ASSUME ThreadTypeInv, GoneIsDeleted, UnsentInv, SentInv, UNCHANGED <<stored, oldest, chatCall>>, NEW g \in Tab,
         \A h \in Tab : h # g => /\ tab'[h] = tab[h] /\ shown'[h] = shown[h] /\ inbox'[h] = inbox[h]
                                 /\ h \in missed' <=> h \in missed,
         \A i \in Nat : i \in DOMAIN inbox'[g] /\ inbox'[g][i].as # "text" => stored[inbox'[g][i].m] = "deleted",
         \A m \in Message : LooksGone(g, m)' => stored[m] = "deleted",
         \A m \in oldest : Follows(g)' /\ stored[m] = "deleted" => UnsentGets(g, m)',
         \A m \in oldest : Follows(g)' /\ stored[m] = "acked" => SentGets(g, m)'
  PROVE  GoneIsDeleted' /\ UnsentInv' /\ SentInv'
<1>1. \A h \in Tab : h # g => /\ (Follows(h)' <=> Follows(h)) /\ Base(h)' = Base(h)
                              /\ \A m \in Message : (UnsentGets(h, m) => UnsentGets(h, m)') /\ (SentGets(h, m) => SentGets(h, m)')
  <2> SUFFICES ASSUME NEW h \in Tab, h # g
               PROVE  /\ (Follows(h)' <=> Follows(h)) /\ Base(h)' = Base(h)
                      /\ \A m \in Message : (UnsentGets(h, m) => UnsentGets(h, m)') /\ (SentGets(h, m) => SentGets(h, m)')
    OBVIOUS
  <2>1. (Follows(h)' <=> Follows(h)) /\ Base(h)' = Base(h) /\ inbox'[h] = inbox[h]
    BY DEF Follows, Base
  <2>2. \A m \in Message : (Announcing(m) <=> Announcing(m)') /\ (Publishing(m) <=> Publishing(m)')
    BY DEF Announcing, Publishing
  <2>3. \A m \in Message, k \in Nat : NoTextFrom(h, m, k) <=> NoTextFrom(h, m, k)'
    BY <2>1 DEF NoTextFrom
  <2> QED  BY <2>1, <2>2, <2>3 DEF UnsentGets, SentGets
<1>2. GoneIsDeleted'
  <2>1. \A q \in Proc : /\ chatCall'[q].at = "announce" => stored'[chatCall'[q].m] = "deleted"
                        /\ chatCall'[q].at = "publish" /\ chatCall'[q].row = "gone" => stored'[chatCall'[q].m] = "deleted"
    BY DEF GoneIsDeleted
  <2>2. \A h \in Tab, i \in Nat : i \in DOMAIN inbox'[h] /\ inbox'[h][i].as # "text" => stored'[inbox'[h][i].m] = "deleted"
    BY DEF GoneIsDeleted
  <2>3. \A h \in Tab, m \in Message : LooksGone(h, m)' => stored'[m] = "deleted"
    BY <1>1 DEF GoneIsDeleted, LooksGone
  <2> QED  BY <2>1, <2>2, <2>3 DEF GoneIsDeleted
<1>m. \A m \in oldest : m \in Message
  BY DEF ThreadTypeInv
<1>3. UnsentInv'
  BY <1>1, <1>m DEF UnsentInv
<1>4. SentInv'
  BY <1>1, <1>m DEF SentInv
<1> QED  BY <1>2, <1>3, <1>4

\* The page stops following the thread, or never did.
LEMMA ClosesPage ==
  ASSUME ThreadTypeInv, GoneIsDeleted, UnsentInv, SentInv, NEW g \in Tab, OpenThread(g) \/ LeaveThread(g)
  PROVE  GoneIsDeleted' /\ UnsentInv' /\ SentInv'
<1>1. tab'[g].at \in {"fetching", "closed"} /\ \A h \in Tab : h # g => tab'[h] = tab[h]
  BY OpenThreadMoves, LeaveThreadMoves
<1>2. shown' = [shown EXCEPT ![g] = Blank] /\ UNCHANGED <<stored, oldest, chatCall, inbox>>
      /\ \A h \in Tab : h # g => (h \in missed' <=> h \in missed)
  BY DEF OpenThread, LeaveThread
<1>3. shown'[g] = Blank /\ \A h \in Tab : h # g => shown'[h] = shown[h]
  BY <1>2 DEF ThreadTypeInv
<1>4. ~Follows(g)' /\ \A m \in Message : ~LooksGone(g, m)'
  BY <1>1, <1>3 DEF Follows, Base, Blank, LooksGone
<1>5. \A i \in Nat : i \in DOMAIN inbox'[g] /\ inbox'[g][i].as # "text" => stored[inbox'[g][i].m] = "deleted"
  BY <1>2 DEF GoneIsDeleted
<1> QED  BY <1>1, <1>2, <1>3, <1>4, <1>5, PageFrame

\* The subscription takes or the history is shown: the page stands as it stood.
LEMMA StandsPage ==
  ASSUME ThreadTypeInv, GoneIsDeleted, UnsentInv, SentInv, NEW g \in Tab, SubscriptionTakes(g) \/ ShowHistory(g)
  PROVE  GoneIsDeleted' /\ UnsentInv' /\ SentInv'
<1>1. UNCHANGED <<stored, oldest, chatCall, inbox, missed>> /\ \A h \in Tab : h # g => tab'[h] = tab[h]
  BY SubscriptionTakesMoves, ShowHistoryMoves DEF SubscriptionTakes, ShowHistory
<1>2. Base(g)' = Base(g) /\ (Follows(g)' => Follows(g)) /\ \A h \in Tab : h # g => shown'[h] = shown[h]
  <2>1. CASE SubscriptionTakes(g)
    <3>1. tab'[g].at = tab[g].at /\ tab'[g].history = tab[g].history /\ shown' = shown /\ missed' = missed
      BY <2>1, SubscriptionTakesMoves DEF SubscriptionTakes
    <3> QED  BY <3>1 DEF Base, Follows
  <2>2. CASE ShowHistory(g)
    <3>1. tab[g].at = "loading" /\ tab'[g].at = "open" /\ shown' = [shown EXCEPT ![g] = tab[g].history] /\ missed' = missed
      BY <2>2, ShowHistoryMoves DEF ShowHistory
    <3>2. shown'[g] = tab[g].history /\ \A h \in Tab : h # g => shown'[h] = shown[h]
      BY <3>1 DEF ThreadTypeInv
    <3> QED  BY <3>1, <3>2 DEF Base, Follows
  <2> QED  BY <2>1, <2>2
<1>3. \A m \in Message : (Announcing(m) <=> Announcing(m)') /\ (Publishing(m) <=> Publishing(m)')
  BY <1>1 DEF Announcing, Publishing
<1>4. \A m \in Message, k \in Nat : NoTextFrom(g, m, k) <=> NoTextFrom(g, m, k)'
  BY <1>1 DEF NoTextFrom
<1>5. \A m \in Message : (UnsentGets(g, m) => UnsentGets(g, m)') /\ (SentGets(g, m) => SentGets(g, m)')
  BY <1>1, <1>2, <1>3, <1>4 DEF UnsentGets, SentGets
<1>6. \A m \in Message : LooksGone(g, m)' => stored[m] = "deleted"
  <2>1. \A m \in Message : LooksGone(g, m)' => LooksGone(g, m)
    <3>1. CASE SubscriptionTakes(g)
      BY <1>2, <3>1 DEF SubscriptionTakes, LooksGone
    <3>2. CASE ShowHistory(g)
      <4>1. tab[g].at = "loading" /\ shown'[g] = tab[g].history
        BY <3>2 DEF ShowHistory, ThreadTypeInv
      <4> QED  BY <1>2, <4>1 DEF LooksGone, Base
    <3> QED  BY <3>1, <3>2
  <2> QED  BY <2>1 DEF GoneIsDeleted
<1>7. \A i \in Nat : i \in DOMAIN inbox'[g] /\ inbox'[g][i].as # "text" => stored[inbox'[g][i].m] = "deleted"
  BY <1>1 DEF GoneIsDeleted
<1>8. \A m \in oldest : Follows(g)' /\ stored[m] = "deleted" => UnsentGets(g, m)'
  BY <1>2, <1>5 DEF UnsentInv, ThreadTypeInv
<1>9. \A m \in oldest : Follows(g)' /\ stored[m] = "acked" => SentGets(g, m)'
  BY <1>2, <1>5 DEF SentInv, ThreadTypeInv
<1> QED  BY <1>1, <1>2, <1>6, <1>7, <1>8, <1>9, PageFrame

\* The history does not come: the page shows what the events made of it.
LEMMA FailsPage ==
  ASSUME ThreadTypeInv, GoneIsDeleted, UnsentInv, SentInv, NEW g \in Tab, HistoryFails(g)
  PROVE  GoneIsDeleted' /\ UnsentInv' /\ SentInv'
<1>1. /\ tab'[g].at = "open" /\ g \in missed' /\ UNCHANGED <<stored, oldest, chatCall, shown, inbox>>
      /\ \A h \in Tab : h # g => tab'[h] = tab[h] /\ (h \in missed' <=> h \in missed)
  BY HistoryFailsMoves DEF HistoryFails
<1>2. ~Follows(g)' /\ \A m \in Message : LooksGone(g, m)' => LooksGone(g, m)
  BY <1>1 DEF Follows, Base, LooksGone
<1>3. \A m \in Message : LooksGone(g, m)' => stored[m] = "deleted"
  BY <1>2 DEF GoneIsDeleted
<1>4. \A i \in Nat : i \in DOMAIN inbox'[g] /\ inbox'[g][i].as # "text" => stored[inbox'[g][i].m] = "deleted"
  BY <1>1 DEF GoneIsDeleted
<1> QED  BY <1>1, <1>2, <1>3, <1>4, PageFrame

\* The history is read: it shows the thread as it is stored.
LEMMA ReadsPage ==
  ASSUME ThreadTypeInv, GoneIsDeleted, UnsentInv, SentInv, NEW g \in Tab, ListMessages(g)
  PROVE  GoneIsDeleted' /\ UnsentInv' /\ SentInv'
<1>1. tab'[g].at = "loading" /\ tab'[g].history = AsListed /\ \A h \in Tab : h # g => tab'[h] = tab[h]
  BY ListMessagesMoves
<1>2. UNCHANGED <<stored, oldest, chatCall, shown, inbox, missed>>
  BY DEF ListMessages
<1>3. Base(g)' = AsListed
  BY <1>1 DEF Base
<1>4. /\ \A m \in Message : AsListed[m] = "gone" => stored[m] = "deleted"
      /\ \A m \in oldest : /\ stored[m] = "deleted" => AsListed[m] = "gone"
                           /\ stored[m] = "acked" => AsListed[m] = "text"
  BY DEF AsListed, View, ThreadTypeInv
<1>5. \A m \in Message : LooksGone(g, m)' => stored[m] = "deleted"
  <2>1. \A m \in Message : shown[g][m] = "gone" => stored[m] = "deleted"
    BY DEF GoneIsDeleted, LooksGone
  <2> QED  BY <1>2, <1>3, <1>4, <2>1 DEF LooksGone
<1>6. \A m \in oldest : /\ stored[m] = "deleted" => UnsentGets(g, m)'
                        /\ stored[m] = "acked" => SentGets(g, m)'
  BY <1>3, <1>4 DEF UnsentGets, SentGets
<1>7. \A i \in Nat : i \in DOMAIN inbox'[g] /\ inbox'[g][i].as # "text" => stored[inbox'[g][i].m] = "deleted"
  BY <1>2 DEF GoneIsDeleted
<1> QED  BY <1>1, <1>2, <1>5, <1>6, <1>7, PageFrame

\* An event of the inbox is taken.
LEMMA TakesEvent ==
  ASSUME ThreadTypeInv, GoneIsDeleted, UnsentInv, SentInv, NEW g \in Tab, OnEvent(g)
  PROVE  GoneIsDeleted' /\ UnsentInv' /\ SentInv'
<1>1. PICK e \in ChatEvent :
        /\ inbox[g] # <<>> /\ e = inbox[g][1] /\ inbox' = [inbox EXCEPT ![g] = Tail(inbox[g])]
        /\ \A h \in Tab : h # g => shown'[h] = shown[h]
        /\ \A m \in Message : m # e.m => shown'[g][m] = shown[g][m]
        /\ tab[g].at # "closed" =>
             IF e.as = "tombstone" THEN shown'[g][e.m] = IF shown[g][e.m] = "no" THEN "no" ELSE "gone"
                                   ELSE shown'[g][e.m] = IF shown[g][e.m] = "no" THEN e.as ELSE shown[g][e.m]
        /\ tab[g].at = "closed" => shown' = shown
  BY OnEventMoves
<1>2. UNCHANGED <<stored, oldest, chatCall, tab>> /\ missed \subseteq missed' /\ (tab[g].at = "loading" => g \in missed')
      /\ \A h \in Tab : h # g => (h \in missed' <=> h \in missed)
  BY DEF OnEvent
<1>3. \A h \in Tab : h # g => inbox'[h] = inbox[h]
  BY <1>1 DEF ThreadTypeInv
<1>4. /\ Len(inbox[g]) \in Nat /\ Len(inbox[g]) >= 1 /\ DOMAIN inbox[g] = 1..Len(inbox[g])
      /\ DOMAIN inbox'[g] = 1..(Len(inbox[g]) - 1)
      /\ \A i \in 1..(Len(inbox[g]) - 1) : inbox'[g][i] = inbox[g][i + 1]
  <2>1. inbox[g] \in Seq(ChatEvent) /\ inbox'[g] = Tail(inbox[g])
    BY <1>1 DEF ThreadTypeInv
  <2>2. Len(inbox[g]) \in Nat /\ Len(inbox[g]) >= 1 /\ DOMAIN inbox[g] = 1..Len(inbox[g])
    BY <1>1, <2>1
  <2>3. Len(Tail(inbox[g])) = Len(inbox[g]) - 1 /\ \A i \in 1..(Len(inbox[g]) - 1) : Tail(inbox[g])[i] = inbox[g][i + 1]
    BY <1>1, <2>1, <2>2
  <2>4. DOMAIN Tail(inbox[g]) = 1..(Len(inbox[g]) - 1)
    BY <1>1, <2>1, <2>3
  <2> QED  BY <2>1, <2>2, <2>3, <2>4
<1>5. e.m \in Message /\ e.as \in {"text", "gone", "tombstone"} /\ e = [m |-> e.m, as |-> e.as]
  BY EventFacts
<1>6. e.as # "text" => stored[e.m] = "deleted"
  BY <1>1, <1>4 DEF GoneIsDeleted
<1>7. \A m \in Message : shown[g][m] \in {"no", "text", "gone"}
  BY DEF ThreadTypeInv
<1>8. \A i \in Nat : i \in DOMAIN inbox'[g] /\ inbox'[g][i].as # "text" => stored[inbox'[g][i].m] = "deleted"
  <2> SUFFICES ASSUME NEW i \in Nat, i \in DOMAIN inbox'[g], inbox'[g][i].as # "text"
               PROVE  stored[inbox'[g][i].m] = "deleted"
    OBVIOUS
  <2>1. i + 1 \in Nat /\ i + 1 \in DOMAIN inbox[g] /\ inbox'[g][i] = inbox[g][i + 1]
    BY <1>4
  <2> QED  BY <2>1 DEF GoneIsDeleted
<1>9. \A m \in Message : LooksGone(g, m)' => stored[m] = "deleted"
  <2> SUFFICES ASSUME NEW m \in Message, LooksGone(g, m)' PROVE stored[m] = "deleted"
    OBVIOUS
  <2>1. shown[g][m] = "gone" \/ Base(g)[m] = "gone" => stored[m] = "deleted"
    BY DEF GoneIsDeleted, LooksGone
  <2>2. CASE shown'[g][m] = "gone"
    <3>1. CASE m # e.m \/ tab[g].at = "closed"
      BY <1>1, <2>1, <2>2, <3>1
    <3>2. CASE m = e.m /\ tab[g].at # "closed"
      BY <1>1, <1>5, <1>6, <1>7, <2>1, <2>2, <3>2
    <3> QED  BY <3>1, <3>2
  <2>3. CASE Base(g)'[m] = "gone" /\ shown'[g][m] # "gone"
    <3>1. Base(g)' = Base(g)
      BY <1>2, <2>3 DEF Base
    <3> QED  BY <2>1, <2>3, <3>1
  <2> QED  BY <2>2, <2>3 DEF LooksGone
<1>10. Follows(g)' => Follows(g) /\ tab[g].at = "open" /\ Base(g)' = shown'[g] /\ Base(g) = shown[g]
  BY <1>2 DEF Follows, Base
<1>11. \A m \in Message : (Announcing(m) => Announcing(m)') /\ (Publishing(m) => Publishing(m)')
  BY <1>2 DEF Announcing, Publishing
<1>12. \A m \in Message, k \in Nat : NoTextFrom(g, m, k + 1) => NoTextFrom(g, m, k)'
  BY <1>4 DEF NoTextFrom
<1>a. \A m \in Message : NoTextFrom(g, m, 1) => NoTextFrom(g, m, 1)' /\ e # [m |-> m, as |-> "text"]
  <2> SUFFICES ASSUME NEW m \in Message, NoTextFrom(g, m, 1)
               PROVE  NoTextFrom(g, m, 1)' /\ e # [m |-> m, as |-> "text"]
    OBVIOUS
  <2>1. NoTextFrom(g, m, 1 + 1)
    BY DEF NoTextFrom
  <2>2. 1 \in Nat /\ 1 \in DOMAIN inbox[g]
    BY <1>4
  <2>3. inbox[g][1] # [m |-> m, as |-> "text"]
    BY <2>2 DEF NoTextFrom
  <2>4. NoTextFrom(g, m, 1)'
    BY <1>12, <2>1
  <2> QED  BY <1>1, <2>3, <2>4
<1>13. ASSUME NEW m \in oldest, Follows(g)', stored[m] = "deleted" PROVE UnsentGets(g, m)'
  <2>0. m \in Message
    BY DEF ThreadTypeInv
  <2>1. UnsentGets(g, m)
    BY <1>10, <1>13 DEF UnsentInv
  <2>2. CASE Announcing(m)
    BY <1>11, <2>0, <2>2 DEF UnsentGets
  <2>3. CASE shown[g][m] = "gone"
    <3>1. shown'[g][m] = "gone"
      BY <1>1, <2>0, <1>10, <1>13, <2>3
    <3> QED  BY <2>0, <1>10, <1>13, <3>1 DEF UnsentGets
  <2>4. CASE shown[g][m] = "no" /\ NoTextFrom(g, m, 1)
    <3>1. NoTextFrom(g, m, 1)'
      BY <1>a, <2>0, <2>4
    <3>2. e # [m |-> m, as |-> "text"]
      BY <1>a, <2>0, <2>4
    <3>3. shown'[g][m] = "no" \/ shown'[g][m] = "gone"
      BY <1>1, <2>0, <1>5, <1>10, <1>13, <2>4, <3>2
    <3> QED  BY <1>10, <1>13, <3>1, <3>3 DEF UnsentGets
  <2>5. ASSUME NEW i \in Nat, i \in DOMAIN inbox[g], inbox[g][i] = [m |-> m, as |-> "tombstone"], NoTextFrom(g, m, i)
        PROVE  UnsentGets(g, m)'
    <3>1. CASE i = 1
      <4>1. e.m = m /\ e.as = "tombstone"
        BY <1>1, <2>0, <2>5, <3>1
      <4>2. shown'[g][m] = "no" \/ shown'[g][m] = "gone"
        BY <1>1, <2>0, <1>10, <1>13, <4>1
      <4>3. NoTextFrom(g, m, 1)'
        <5>1. NoTextFrom(g, m, 1)
          BY <2>5, <3>1
        <5> QED  BY <1>a, <2>0, <5>1
      <4> QED  BY <1>10, <1>13, <4>2, <4>3 DEF UnsentGets
    <3>2. CASE i # 1
      <4>1. PICK k \in Nat : k = i - 1 /\ k \in DOMAIN inbox'[g] /\ inbox'[g][k] = inbox[g][i]
        <5>1. i \in 1..Len(inbox[g]) /\ i - 1 \in Nat /\ i - 1 \in 1..(Len(inbox[g]) - 1)
          BY <1>4, <2>5, <3>2
        <5>2. inbox'[g][i - 1] = inbox[g][(i - 1) + 1] /\ i = (i - 1) + 1
          BY <1>4, <5>1
        <5> QED  BY <1>4, <5>1, <5>2
      <4>2. NoTextFrom(g, m, k + 1)
        BY <2>5, <4>1
      <4>3. NoTextFrom(g, m, k)'
        BY <1>12, <2>0, <4>2
      <4> QED  BY <2>5, <4>1, <4>3 DEF UnsentGets
    <3> QED  BY <3>1, <3>2
  <2> QED  BY <1>10, <1>13, <2>1, <2>2, <2>3, <2>4, <2>5 DEF UnsentGets
<1>14. ASSUME NEW m \in oldest, Follows(g)', stored[m] = "acked" PROVE SentGets(g, m)'
  <2>0. m \in Message
    BY DEF ThreadTypeInv
  <2>1. SentGets(g, m)
    BY <1>10, <1>14 DEF SentInv
  <2>2. CASE Publishing(m)
    BY <1>11, <2>0, <2>2 DEF SentGets
  <2>3. CASE shown[g][m] = "text"
    <3>1. e.m = m => e.as = "text"
      BY <1>5, <1>6, <1>14
    <3>2. shown'[g][m] = "text"
      BY <1>1, <2>0, <1>10, <1>14, <2>3, <3>1
    <3> QED  BY <1>10, <1>14, <3>2 DEF SentGets
  <2>4. ASSUME NEW i \in Nat, i \in DOMAIN inbox[g], inbox[g][i] = [m |-> m, as |-> "text"]
        PROVE  SentGets(g, m)'
    <3>1. CASE i = 1
      <4>1. e.m = m /\ e.as = "text"
        BY <1>1, <2>0, <2>4, <3>1
      <4>2. shown[g][m] # "gone"
        BY <2>0, <1>14 DEF GoneIsDeleted, LooksGone
      <4>3. shown'[g][m] = "text"
        BY <1>1, <2>0, <1>7, <1>10, <1>14, <4>1, <4>2
      <4> QED  BY <1>10, <1>14, <4>3 DEF SentGets
    <3>2. CASE i # 1
      <4>1. PICK k \in Nat : k = i - 1 /\ k \in DOMAIN inbox'[g] /\ inbox'[g][k] = inbox[g][i]
        <5>1. i - 1 \in 1..(Len(inbox[g]) - 1) /\ i - 1 \in Nat
          BY <1>4, <2>4, <3>2
        <5>2. i - 1 \in DOMAIN inbox'[g] /\ inbox'[g][i - 1] = inbox[g][(i - 1) + 1]
          BY <1>4, <5>1
        <5>3. (i - 1) + 1 = i
          BY <5>1
        <5> QED  BY <5>1, <5>2, <5>3
      <4> QED  BY <2>4, <4>1 DEF SentGets
    <3> QED  BY <3>1, <3>2
  <2> QED  BY <1>10, <1>14, <2>1, <2>2, <2>3, <2>4 DEF SentGets
<1>15. \A h \in Tab : h # g => /\ tab'[h] = tab[h] /\ shown'[h] = shown[h] /\ inbox'[h] = inbox[h]
                               /\ h \in missed' <=> h \in missed
  BY <1>1, <1>2, <1>3
<1> QED  BY <1>2, <1>8, <1>9, <1>13, <1>14, <1>15, PageFrame

LEMMA ThreadCallStep ==
  ASSUME ThreadInv, NEW p \in Proc,
         \/ \E m \in Message : (\E system \in BOOLEAN : InsertMessage(p, m, system)) \/ DeleteMessage(p, m)
         \/ SendViaPlugin(p) \/ ReadRow(p) \/ PublishMessageEvent(p) \/ WriteTombstone(p)
  PROVE  ThreadInv'
<1>0. ThreadTypeInv /\ GoneIsDeleted /\ UnsentInv /\ SentInv
  BY DEF ThreadInv
<1>1. ASSUME NEW m \in Message, NEW system \in BOOLEAN, InsertMessage(p, m, system) PROVE ThreadInv'
  <2>1. PICK at \in {"read_row", "gateway"} :
          /\ CallMoved(p, at, m, "no") /\ stored' = [stored EXCEPT ![m] = IF at = "read_row" THEN "acked" ELSE "pending"]
    BY <1>0, <1>1, InsertMessageMoves
  <2>2. /\ chatCall[p].at = "idle" /\ stored[m] = "none"
        /\ oldest' \subseteq Message /\ \A x \in oldest' : x \in oldest \/ stored[x] = "none"
    <3>1. chatCall[p].at = "idle" /\ stored[m] = "none" /\ oldest' \subseteq oldest \cup {m}
      BY <1>0, <1>1, InsertMessageMoves
    <3> QED  BY <1>0, <3>1 DEF ThreadTypeInv
  <2>3. UNCHANGED <<tab, shown, inbox, missed>>
    BY <1>1 DEF InsertMessage
  <2>4. /\ \A x \in Message : stored[x] = "deleted" => stored'[x] = "deleted"
        /\ \A x \in Message : stored'[x] = "deleted" => stored[x] = "deleted"
        /\ \A x \in Message : stored'[x] = "acked" => stored[x] = "acked" \/ (at = "read_row" /\ m = x)
    BY <1>0, <2>1, <2>2 DEF ThreadTypeInv
  <2>5. GoneIsDeleted' /\ UnsentInv' /\ SentInv'
    BY <1>0, <2>1, <2>2, <2>3, <2>4, CallFrame
  <2> QED  BY <1>0, <1>1, <2>5, InsertMessageTypes DEF ThreadInv
<1>2. ASSUME NEW m \in Message, DeleteMessage(p, m) PROVE ThreadInv'
  <2>1. chatCall[p].at = "idle" /\ CallMoved(p, "delete", m, "no")
    BY <1>0, <1>2, DeleteMessageMoves
  <2>2. UNCHANGED <<stored, oldest, tab, shown, inbox, missed>> /\ oldest \subseteq Message
    BY <1>0, <1>2 DEF DeleteMessage, ThreadTypeInv
  <2>3. GoneIsDeleted' /\ UnsentInv' /\ SentInv'
    BY <1>0, <2>1, <2>2, CallFrame
  <2> QED  BY <1>0, <1>2, <2>3, DeleteMessageTypes DEF ThreadInv
<1>3. CASE SendViaPlugin(p)
  <2>0. PICK m \in Message : m = chatCall[p].m
    BY <1>0, <1>3, SendViaPluginMoves
  <2>1. PICK ack \in {"acked", "nacked"} :
          /\ stored' = [stored EXCEPT ![m] = IF stored[m] = "deleted" THEN stored[m] ELSE ack]
          /\ ack = "acked" => CallMoved(p, "read_row", m, chatCall[p].row)
          /\ ack = "nacked" => CallMoved(p, "idle", "none", "no")
    BY <1>0, <1>3, <2>0, SendViaPluginMoves
  <2>2. chatCall[p].at = "gateway"
    BY <1>3 DEF SendViaPlugin
  <2>3. UNCHANGED <<oldest, tab, shown, inbox, missed>> /\ oldest \subseteq Message
    BY <1>0, <1>3 DEF SendViaPlugin, ThreadTypeInv
  <2>4. /\ \A x \in Message : stored[x] = "deleted" => stored'[x] = "deleted"
        /\ \A x \in Message : stored'[x] = "deleted" => stored[x] = "deleted"
        /\ \A x \in Message : stored'[x] = "acked" => stored[x] = "acked" \/ (ack = "acked" /\ m = x)
    BY <1>0, <2>1 DEF ThreadTypeInv
  <2>5. CASE ack = "acked"
    <3>1. GoneIsDeleted' /\ UnsentInv' /\ SentInv'
      BY <1>0, <2>0, <2>1, <2>2, <2>3, <2>4, <2>5, CallFrame
    <3> QED  BY <1>0, <1>3, <3>1, SendViaPluginTypes DEF ThreadInv
  <2>6. CASE ack = "nacked"
    <3>1. GoneIsDeleted' /\ UnsentInv' /\ SentInv'
      BY <1>0, <2>0, <2>1, <2>2, <2>3, <2>4, <2>6, CallFrame
    <3> QED  BY <1>0, <1>3, <3>1, SendViaPluginTypes DEF ThreadInv
  <2> QED  BY <2>5, <2>6
<1>4. CASE ReadRow(p)
  <2>1. PICK v \in {"text", "gone"} : v = View(chatCall[p].m)
    BY <1>0, <1>4, ReadRowMoves
  <2>2. /\ chatCall[p].at = "read_row" /\ chatCall[p].m \in Message /\ CallMoved(p, "publish", chatCall[p].m, v)
        /\ v = "gone" => stored[chatCall[p].m] = "deleted"
    BY <1>0, <1>4, <2>1, ReadRowMoves
  <2>3. UNCHANGED <<stored, oldest, tab, shown, inbox, missed>> /\ oldest \subseteq Message
    BY <1>0, <1>4 DEF ReadRow, ThreadTypeInv
  <2>4. GoneIsDeleted' /\ UnsentInv' /\ SentInv'
    BY <1>0, <2>2, <2>3, CallFrame
  <2> QED  BY <1>0, <1>4, <2>4, ReadRowTypes DEF ThreadInv
<1>5. CASE PublishMessageEvent(p)
  <2>1. GoneIsDeleted' /\ UnsentInv' /\ SentInv'
    BY <1>0, <1>5, PublishMoves, DeliverFrame
  <2> QED  BY <1>0, <1>5, <2>1, PublishTypes DEF ThreadInv
<1>6. CASE WriteTombstone(p)
  <2>0. PICK m \in Message : m = chatCall[p].m
    BY <1>0, <1>6, TombstoneMoves
  <2>1. CASE /\ chatCall[p].at = "delete" /\ stored' = [stored EXCEPT ![m] = "deleted"]
             /\ CallMoved(p, "announce", m, chatCall[p].row) /\ UNCHANGED <<inbox, missed>>
    <3>1. stored'[m] = "deleted" /\ (\A x \in Message : x # m => stored'[x] = stored[x])
      BY <1>0, <2>1 DEF ThreadTypeInv
    <3>2. UNCHANGED <<oldest, tab, shown, inbox, missed>> /\ oldest \subseteq Message
      BY <1>0, <1>6, <2>1 DEF WriteTombstone, ThreadTypeInv
    <3>3. GoneIsDeleted' /\ UnsentInv' /\ SentInv'
      BY <1>0, <2>0, <2>1, <3>1, <3>2, CallFrame
    <3> QED  BY <1>0, <1>6, <3>3, TombstoneTypes DEF ThreadInv
  <2>2. ASSUME NEW e \in ChatEvent, Deliver(e), e = [m |-> m, as |-> "tombstone"], chatCall[p].at = "announce",
               CallMoved(p, "idle", "none", "no"), stored' = stored
        PROVE  ThreadInv'
    <3>1. UNCHANGED <<stored, oldest, tab, shown>> /\ e.m = chatCall[p].m /\ e.as = "tombstone"
      BY <1>6, <2>0, <2>2 DEF WriteTombstone
    <3>2. GoneIsDeleted' /\ UnsentInv' /\ SentInv'
      BY <1>0, <2>2, <3>1, DeliverFrame
    <3> QED  BY <1>0, <1>6, <3>2, TombstoneTypes DEF ThreadInv
  <2> QED  BY <1>0, <1>6, <2>0, <2>1, <2>2, TombstoneMoves
<1> QED  BY <1>1, <1>2, <1>3, <1>4, <1>5, <1>6

LEMMA ThreadStep == ThreadInv /\ [ChatNext]_ChatVars => ThreadInv'
<1> SUFFICES ASSUME ThreadInv, [ChatNext]_ChatVars PROVE ThreadInv'
  OBVIOUS
<1>0. ThreadTypeInv /\ GoneIsDeleted /\ UnsentInv /\ SentInv
  BY DEF ThreadInv
<1>1. ASSUME NEW g \in Tab,
             \/ OpenThread(g) \/ SubscriptionTakes(g) \/ ListMessages(g)
             \/ ShowHistory(g) \/ HistoryFails(g) \/ LeaveThread(g) \/ OnEvent(g)
      PROVE  ThreadInv'
  <2>1. ThreadTypeInv'
    BY <1>0, <1>1, PageTypes
  <2>2. GoneIsDeleted' /\ UnsentInv' /\ SentInv'
    BY <1>0, <1>1, ClosesPage, StandsPage, FailsPage, ReadsPage, TakesEvent
  <2> QED  BY <2>1, <2>2 DEF ThreadInv
<1>2. CASE UNCHANGED ChatVars
  <2>1. ThreadTypeInv'
    BY <1>0, <1>2 DEF ThreadTypeInv, CallHolds, ChatVars
  <2>2. GoneIsDeleted'
    BY <1>0, <1>2 DEF GoneIsDeleted, LooksGone, Base, ChatVars
  <2>3. UnsentInv' /\ SentInv'
    BY <1>0, <1>2 DEF UnsentInv, SentInv, UnsentGets, SentGets, Follows, Base, NoTextFrom, Announcing, Publishing, ChatVars
  <2> QED  BY <2>1, <2>2, <2>3 DEF ThreadInv
<1> QED  BY <1>1, <1>2, ThreadCallStep DEF ChatNext

LEMMA ThreadInitially == ChatInit => ThreadInv
<1> SUFFICES ASSUME ChatInit PROVE ThreadInv
  OBVIOUS
<1>1. ThreadTypeInv
  BY ThreadTypesInitially
<1>2. /\ \A p \in Proc : chatCall[p].at = "idle"
      /\ \A g \in Tab : tab[g].at = "closed" /\ inbox[g] = <<>> /\ shown[g] = Blank
  BY ChatIdleType DEF ChatInit, ClosedTab
<1>3. \A g \in Tab : ~Follows(g) /\ \A m \in Message : Base(g)[m] = "no"
  BY <1>2 DEF Follows, Base, Blank
<1>4. GoneIsDeleted
  BY <1>2, <1>3 DEF GoneIsDeleted, LooksGone, Blank
<1> QED  BY <1>1, <1>3, <1>4 DEF ThreadInv, UnsentInv, SentInv

\* A page that is up to date shows the rows that listMessages returns as they
\* are stored, for any limit of them, any number of messages, of calls that send
\* and delete them and of pages, in whatever order rows, histories and events are
\* read, written and delivered, and whichever of them fail.
THEOREM PagesShowTheThreadHolds == ChatSpec => []PagesShowTheThread
<1>1. ThreadInv => PagesShowTheThread
  <2> SUFFICES ASSUME ThreadInv, NEW g \in Tab, NEW m \in oldest, UpToDate(g, m)
               PROVE  /\ stored[m] = "deleted" => shown[g][m] # "text"
                      /\ stored[m] = "acked" => shown[g][m] = "text"
    BY DEF PagesShowTheThread, UnsentStaysUnsent, ThreadIsComplete
  <2>1. Follows(g) /\ Base(g) = shown[g] /\ inbox[g] = <<>>
    BY DEF UpToDate, Follows, Base
  <2>2. ~Announcing(m) /\ ~Publishing(m)
    BY DEF UpToDate, Announcing, Publishing
  <2>3. \A i \in Nat : i \notin DOMAIN inbox[g]
    BY <2>1
  <2>4. stored[m] = "deleted" => shown[g][m] # "text"
    BY <2>1, <2>2, <2>3 DEF ThreadInv, UnsentInv, UnsentGets
  <2>5. stored[m] = "acked" => shown[g][m] = "text"
    BY <2>1, <2>2, <2>3 DEF ThreadInv, SentInv, SentGets
  <2> QED  BY <2>4, <2>5
<1> QED  BY <1>1, ThreadInitially, ThreadStep, PTL DEF ChatSpec

------------------------------------------------------------------------------
(***************************************************************************)
(* Types.  The log's type invariant also bounds what it numbers: no id the *)
(* engine or the client holds is one that was never published.             *)
(***************************************************************************)
ReplayBounded ==
  /\ Len(events) <= MaxEvents /\ expired <= Len(events)
  /\ waived \subseteq Ids /\ client.seen \subseteq Ids
  /\ \A k \in 1..Len(wire) : wire[k] <= Len(events)

LEMMA BoundedStep == ReplayInv /\ ReplayBounded /\ [ReplayNext]_ReplayVars => ReplayBounded'
<1> SUFFICES ASSUME ReplayInv, ReplayBounded, [ReplayNext]_ReplayVars PROVE ReplayBounded'
  OBVIOUS
<1>0. /\ events \in Seq(Scopes) /\ Len(events) \in Nat /\ wire \in Seq(Nat) /\ expired \in Nat
      /\ link.resume.rows \subseteq Ids /\ MaxEvents \in Nat
  BY ReplayAssumption DEF ReplayInv, WireTypeOK, LinkOK
<1>1. ASSUME NEW s \in Scopes, Publish(s) PROVE ReplayBounded'
  <2>1. events' \in Seq(Scopes) /\ Len(events') = Len(events) + 1 /\ Len(events) < MaxEvents
    BY <1>0, <1>1, AppendProperties DEF Publish
  <2>2. Ids \subseteq Ids'
    <3>1. Ids = 1..Len(events) /\ Ids' = 1..(Len(events) + 1)
      BY <2>1 DEF Ids
    <3> QED  BY <1>0, <3>1
  <2>3. UNCHANGED <<expired, waived, client, wire>>
    BY <1>1 DEF Publish
  <2>4. waived' \subseteq Ids' /\ client'.seen \subseteq Ids'
    BY <2>2, <2>3 DEF ReplayBounded
  <2>5. \A k \in 1..Len(wire) : wire[k] \in Nat
    BY <1>0, ElementOfSeq
  <2>6. Len(events') <= MaxEvents /\ expired <= Len(events')
    BY <1>0, <2>1 DEF ReplayBounded
  <2>7. \A k \in 1..Len(wire) : wire[k] <= Len(events')
    BY <1>0, <2>1, <2>5 DEF ReplayBounded
  <2>8. \A k \in 1..Len(wire') : wire'[k] <= Len(events')
    BY <2>3, <2>7
  <2> QED  BY <2>3, <2>4, <2>6, <2>8 DEF ReplayBounded
<1>2. ASSUME UNCHANGED <<events, expired, client, wire>>, waived' \subseteq waived \cup Ids PROVE ReplayBounded'
  BY <1>2 DEF ReplayBounded, Ids
<1>3. ASSUME NEW e \in Ids, PersistEvent(e) PROVE ReplayBounded'
  BY <1>2, <1>3 DEF PersistEvent
<1>4. ASSUME NEW e \in Ids, RouteEvent(e) PROVE ReplayBounded'
  <2>1. e \in Nat /\ e <= Len(events)
    BY <1>0 DEF Ids
  <2>2. ASSUME NEW k \in 1..Len(wire') PROVE wire'[k] <= Len(events)
    BY <1>0, <1>4, <2>1, AppendProperties, LenProperties DEF RouteEvent, ReplayBounded
  <2> QED  BY <1>4, <2>2 DEF RouteEvent, ReplayBounded, Ids
<1>5. ASSUME Expire PROVE ReplayBounded'
  BY <1>0, <1>5 DEF Expire, ReplayBounded, Ids
<1>6. ASSUME ResumeAnswer PROVE ReplayBounded'
  <2>1. waived' \subseteq Ids
    BY <1>6 DEF ResumeAnswer, ReplayBounded
  <2>2. Sorted(link.resume.rows) \in Seq(link.resume.rows)
    BY <1>0, SortedRows DEF Ids
  <2>3. Sorted(link.resume.rows) \in Seq(Nat) /\ \A k \in 1..Len(Sorted(link.resume.rows)) : Sorted(link.resume.rows)[k] \in Ids
    BY <1>0, <2>2, ElementOfSeq, LenProperties DEF Ids
  <2>4. ASSUME NEW k \in 1..Len(wire') PROVE wire'[k] <= Len(events)
    <3>1. CASE wire' = Append(wire, 0)
      BY <1>0, <3>1, AppendProperties, LenProperties DEF ReplayBounded
    <3>2. CASE wire' = wire \o Sorted(link.resume.rows)
      BY <1>0, <2>3, <3>2, ConcatProperties, LenProperties DEF ReplayBounded, Ids
    <3> QED  BY <1>6, <3>1, <3>2 DEF ResumeAnswer
  <2> QED  BY <1>6, <2>1, <2>4 DEF ResumeAnswer, ReplayBounded, Ids
<1>7. ASSUME Drop PROVE ReplayBounded'
  BY <1>0, <1>7 DEF Drop, ReplayBounded, Ids
<1>8. ASSUME Receive PROVE ReplayBounded'
  <2> DEFINE h == Head(wire)
  <2>1. /\ wire # <<>> /\ wire' = Tail(wire) /\ UNCHANGED <<events, expired>>
        /\ \/ waived' = waived \cup Ids /\ UNCHANGED client
           \/ h # 0 /\ client' = [client EXCEPT !.cursor = h, !.seen = @ \cup {h}] /\ UNCHANGED waived
    BY <1>8 DEF Receive
  <2>2. /\ h \in Nat /\ h = wire[1] /\ Len(wire') = Len(wire) - 1 /\ Len(wire) \in Nat \ {0}
        /\ \A k \in 1..Len(wire') : wire'[k] = wire[k + 1]
    BY <1>0, <2>1, HeadTailProperties, EmptySeq
  <2> HIDE DEF h
  <2>3. h # 0 => h \in Ids
    BY <1>0, <2>2 DEF ReplayBounded, Ids
  <2>4. \A k \in 1..Len(wire') : wire'[k] <= Len(events)
    BY <2>2 DEF ReplayBounded
  <2>5. client'.seen \subseteq Ids
    <3>1. client \in [cursor : Nat, hadConnection : BOOLEAN, seen : SUBSET Nat] /\ client.seen \subseteq Ids
      BY DEF ReplayBounded, ReplayInv, WireTypeOK
    <3>2. CASE h # 0 /\ client' = [client EXCEPT !.cursor = h, !.seen = @ \cup {h}]
      <4>1. client'.seen = client.seen \cup {h}
        BY <3>1, <3>2
      <4> QED  BY <2>3, <3>1, <3>2, <4>1
    <3> QED  BY <2>1, <3>1, <3>2
  <2> QED  BY <2>1, <2>4, <2>5 DEF ReplayBounded, Ids
<1>9. ASSUME Connect PROVE ReplayBounded'
  <2>1. client'.seen = client.seen
    BY <1>9 DEF Connect, ReplayInv, WireTypeOK
  <2> QED  BY <1>9, <2>1 DEF Connect, ReplayBounded, Ids
<1>10. ASSUME UNCHANGED ReplayVars \/ Cleanup \/ HandleSubscribe \/ ResumeSelect \/ ResumeFails PROVE ReplayBounded'
  BY <1>2, <1>10 DEF ReplayVars, Cleanup, HandleSubscribe, ResumeSelect, ResumeFails
<1> QED  BY <1>1, <1>3, <1>4, <1>5, <1>6, <1>7, <1>8, <1>9, <1>10 DEF ReplayNext

LEMMA BoundedIsTyped == ReplayInv /\ ReplayBounded => ReplayTypeOK
<1> SUFFICES ASSUME ReplayInv, ReplayBounded PROVE ReplayTypeOK
  OBVIOUS
<1>1. Len(events) \in Nat /\ stage \in [Ids -> {"persisting", "routing", "routed"}]
  BY LenProperties DEF ReplayInv, WireTypeOK, Ids
<1>2. client.cursor \in 0..Len(events)
  BY <1>1 DEF ReplayInv, WireTypeOK, LinkOK, ReplayBounded, Ids
<1>3. \A k \in DOMAIN wire : wire[k] \in 0..Len(events)
  BY <1>1, LenProperties, ElementOfSeq DEF ReplayInv, WireTypeOK, ReplayBounded
<1> QED  BY <1>1, <1>2, <1>3 DEF ReplayInv, WireTypeOK, LinkOK, ReplayBounded, ReplayTypeOK

\* Ids are of events that were published, on every wire, in every log and in
\* every client, for any number of events and of lost connections.
LEMMA ReplayTypeCorrect == ReplaySpec => []ReplayTypeOK
<1>1. ReplayInit => ReplayBounded
  BY ReplayAssumption, EmptySeq DEF ReplayInit, ReplayBounded, Ids
<1> QED  BY <1>1, ReplayInitial, ReplayStep, BoundedStep, BoundedIsTyped, PTL DEF ReplaySpec

\* The signals between the pages of a call.
CallSignal == [dm : Dm, type : {"ring", "accept", "decline", "end"}]

LEMMA SignalTyped ==
  ASSUME CallsTypeOK, NEW t \in Page, NEW d \in Dm, NEW type \in {"ring", "accept", "decline", "end"}
  PROVE  Signal(t, d, type) \in [Page -> Seq(CallSignal)]
<1>1. [dm |-> d, type |-> type] \in CallSignal
  BY DEF CallSignal
<1>2. \A q \in Page : signals[q] \in Seq(CallSignal)
  BY DEF CallsTypeOK, CallSignal
<1>3. \A q \in Page : Append(signals[q], [dm |-> d, type |-> type]) \in Seq(CallSignal)
  BY <1>1, <1>2, AppendProperties
<1> QED  BY <1>2, <1>3 DEF Signal

LEMMA TakeTyped ==
  ASSUME CallsTypeOK, NEW t \in Page, NEW k \in DOMAIN signals[t]
  PROVE  /\ Take(t, k) \in [Page -> Seq(CallSignal)]
         /\ signals[t][k] \in CallSignal
<1> DEFINE s == signals[t]
<1>1. s \in Seq(CallSignal) /\ Len(s) \in Nat /\ DOMAIN s = 1..Len(s)
  BY LenProperties DEF CallsTypeOK, CallSignal
<1>2. k \in Nat \ {0} /\ k <= Len(s)
  BY <1>1
<1> HIDE DEF s
<1>3. SubSeq(s, 1, k - 1) \in Seq(CallSignal)
  BY <1>1, <1>2, SubSeqProperties
<1>4. SubSeq(s, k + 1, Len(s)) \in Seq(CallSignal)
  BY <1>1, <1>2, SubSeqProperties
<1>5. SubSeq(s, 1, k - 1) \o SubSeq(s, k + 1, Len(s)) \in Seq(CallSignal)
  BY <1>3, <1>4, ConcatProperties
<1>6. signals \in [Page -> Seq(CallSignal)]
  BY DEF CallsTypeOK, CallSignal
<1>7. Take(t, k) \in [Page -> Seq(CallSignal)]
  BY <1>5, <1>6 DEF Take, s
<1>8. s[k] \in CallSignal
  BY <1>1, <1>2, ElementOfSeq
<1> QED  BY <1>7, <1>8 DEF s

LEMMA MountTyped ==
  ASSUME CallsTypeOK, NEW t \in Page, NEW d \in Dm, Mount(t, d)
  PROVE  active' \in [Page -> Dm \cup {NoDm}] /\ media' \in [Page -> {"out", "joining", "in"}]
BY DEF CallsTypeOK, Mount

LEMMA UnmountTyped ==
  ASSUME CallsTypeOK, NEW t \in Page, active[t] # NoDm, Unmount(t)
  PROVE  /\ active' \in [Page -> Dm \cup {NoDm}] /\ media' \in [Page -> {"out", "joining", "in"}]
         /\ leaving' \subseteq Page \X Dm /\ noticed' \subseteq Page
<1>1. active[t] \in Dm
  BY DEF CallsTypeOK
<1>2. leaving' \subseteq Page \X Dm
  BY <1>1 DEF CallsTypeOK, Unmount
<1>3. noticed' \subseteq Page
  BY DEF CallsTypeOK, Unmount, InRoom
<1> QED  BY <1>2, <1>3 DEF CallsTypeOK, Unmount

LEMMA CallsTypeStep == CallsTypeOK /\ [CallsNext]_CallVars => CallsTypeOK'
<1> SUFFICES ASSUME CallsTypeOK, [CallsNext]_CallVars PROVE CallsTypeOK'
  OBVIOUS
<1>0. NoDm \notin Dm /\ MaxStarts \in Nat
  BY DmAssumption
<1>a. ASSUME NEW t \in Page PROVE incoming[t] \in Dm \cup {NoDm} /\ active[t] \in Dm \cup {NoDm}
  BY DEF CallsTypeOK
<1>1. ASSUME UNCHANGED CallVars PROVE CallsTypeOK'
  BY <1>1 DEF CallVars, CallsTypeOK
<1>2. ASSUME NEW t \in Page, NEW d \in Dm, Start(t, d) PROVE CallsTypeOK'
  <2>1. signals' \in [Page -> Seq(CallSignal)]
    BY <1>2, SignalTyped DEF Start
  <2>2. active' \in [Page -> Dm \cup {NoDm}] /\ media' \in [Page -> {"out", "joining", "in"}]
    BY <1>2, MountTyped DEF Start
  <2>3. starts' \in 0..MaxStarts /\ excused' \subseteq Dm /\ crossed' \subseteq Dm
    BY <1>0, <1>2 DEF Start, CallsTypeOK
  <2> QED  BY <1>2, <2>1, <2>2, <2>3 DEF Start, CallsTypeOK, CallSignal
<1>3. ASSUME NEW t \in Page, NEW d \in Dm, JoinAndLeave(t, d) PROVE CallsTypeOK'
  BY <1>3 DEF JoinAndLeave, InRoom, CallsTypeOK
<1>4. ASSUME NEW t \in Page, Accept(t) PROVE CallsTypeOK'
  <2>0. incoming[t] \in Dm
    BY <1>a, <1>4 DEF Accept
  <2>1. signals' \in [Page -> Seq(CallSignal)]
    BY <1>4, <2>0, SignalTyped DEF Accept
  <2>2. active' \in [Page -> Dm \cup {NoDm}] /\ media' \in [Page -> {"out", "joining", "in"}]
    BY <1>4, <2>0, MountTyped DEF Accept
  <2>3. excused' \subseteq Dm /\ incoming' \in [Page -> Dm \cup {NoDm}]
    BY <1>4, <2>0 DEF Accept, Answered, CallsTypeOK
  <2> QED  BY <1>4, <2>1, <2>2, <2>3 DEF Accept, CallsTypeOK, CallSignal
<1>5. ASSUME NEW t \in Page, Decline(t) PROVE CallsTypeOK'
  <2>0. incoming[t] \in Dm
    BY <1>a, <1>5 DEF Decline
  <2>1. signals' \in [Page -> Seq(CallSignal)]
    BY <1>5, <2>0, SignalTyped DEF Decline
  <2>2. excused' \subseteq Dm /\ incoming' \in [Page -> Dm \cup {NoDm}]
    BY <1>5, <2>0 DEF Decline, Answered, CallsTypeOK
  <2> QED  BY <1>5, <2>1, <2>2 DEF Decline, CallsTypeOK, CallSignal
<1>6. ASSUME NEW t \in Page, EndCall(t) PROVE CallsTypeOK'
  <2>0. active[t] \in Dm
    BY <1>a, <1>6 DEF EndCall
  <2>1. signals' \in [Page -> Seq(CallSignal)]
    BY <1>6, <2>0, SignalTyped DEF EndCall
  <2>2. excused' \subseteq Dm
    BY <1>6, <2>0 DEF EndCall, CallsTypeOK
  <2> QED  BY <1>6, <2>1, <2>2, UnmountTyped DEF EndCall, CallsTypeOK, CallSignal
<1>7. ASSUME NEW t \in Page, Join(t) PROVE CallsTypeOK'
  BY <1>7 DEF Join, CallsTypeOK
<1>8. ASSUME NEW t \in Page, NEW k \in DOMAIN signals[t],
             OnRing(t, k) \/ OnDeclined(t, k) \/ OnEnded(t, k) \/ OnAccepted(t, k) \/ Lose(t, k)
      PROVE  CallsTypeOK'
  <2> DEFINE d == signals[t][k].dm
  <2>0. d \in Dm /\ Take(t, k) \in [Page -> Seq(CallSignal)] /\ Late(t, k) \subseteq Dm
    BY TakeTyped DEF CallSignal, Late
  <2> HIDE DEF d
  <2>1. signals' \in [Page -> Seq(CallSignal)]
    BY <1>8, <2>0 DEF OnRing, OnDeclined, OnEnded, OnAccepted, Lose, d
  <2>2. excused' \subseteq Dm
    BY <1>a, <1>8, <2>0 DEF OnRing, OnDeclined, OnEnded, OnAccepted, Lose, d, CallsTypeOK
  <2>3. incoming' \in [Page -> Dm \cup {NoDm}]
    BY <1>8, <2>0 DEF OnRing, OnDeclined, OnEnded, OnAccepted, Lose, d, CallsTypeOK
  <2>4. \/ UNCHANGED <<active, media, leaving, noticed>>
        \/ active[t] # NoDm /\ Unmount(t)
    BY <1>0, <1>8, <2>0 DEF OnRing, OnDeclined, OnEnded, OnAccepted, Lose, d
  <2>5. /\ active' \in [Page -> Dm \cup {NoDm}] /\ media' \in [Page -> {"out", "joining", "in"}]
        /\ leaving' \subseteq Page \X Dm /\ noticed' \subseteq Page
    BY <2>4, UnmountTyped DEF CallsTypeOK
  <2>6. starts' = starts /\ crossed' = crossed
    BY <1>8 DEF OnRing, OnDeclined, OnEnded, OnAccepted, Lose
  <2> QED  BY <2>1, <2>2, <2>3, <2>5, <2>6 DEF CallsTypeOK, CallSignal
<1> QED
  BY <1>1, <1>2, <1>3, <1>4, <1>5, <1>6, <1>7, <1>8 DEF CallsNext, OnParticipantLeft

LEMMA CallsTypeCorrect == CallsSpec => []CallsTypeOK
<1>1. CallsInit => CallsTypeOK
  BY DmAssumption, EmptySeq DEF CallsInit, CallsTypeOK
<1> QED  BY <1>1, CallsTypeStep, PTL DEF CallsSpec

LEMMA ThreadIsTyped == ThreadInv => ChatTypeOK
<1> SUFFICES ASSUME ThreadTypeInv PROVE ChatTypeOK
  BY DEF ThreadInv
<1>1. \A p \in Proc : chatCall[p] \in CallShape
  BY DEF ThreadTypeInv
<1>2. \A g \in Tab : \A i \in DOMAIN inbox[g] : inbox[g][i] \in ChatEvent
  BY LenProperties, ElementOfSeq DEF ThreadTypeInv
<1> QED  BY <1>1, <1>2 DEF ThreadTypeInv, ChatTypeOK, CallShape, TabShape, ChatEvent

(***************************************************************************)
(* The run.  A behaviour of all the parts together is one of each part, so *)
(* what is proved of a part alone holds beside the others.                 *)
(***************************************************************************)
\* The event log, presence, calls, threads, presentations and knowledge do not
\* disturb one another: what they do together each could do alone.
LEMMA RealtimePartsStandAlone ==
  Spec => ReplaySpec /\ PresenceSpec /\ CallsSpec /\ ChatSpec /\ PresSpec /\ KnowSpec
<1>1. Init => ReplayInit /\ PresenceInit /\ CallsInit /\ ChatInit /\ PresInit /\ KnowInit
  BY DEF Init
<1>2. [Next]_vars => [ReplayNext]_ReplayVars /\ [PresenceNext]_PresenceVars /\ [CallsNext]_CallVars
                     /\ [ChatNext]_ChatVars /\ [PresNext]_PresVars /\ [KnowNext]_KnowVars
  BY DEF Next, vars
<1> QED  BY <1>1, <1>2, PTL DEF Spec, ReplaySpec, PresenceSpec, CallsSpec, ChatSpec, PresSpec, KnowSpec

\* Every table, message, page and client of the parts holds what the code can
\* put there, for any number of each.
THEOREM RealtimeTypeCorrect == Spec => []TypeOK
<1>1. AgreeInv => PresenceTypeOK
  BY DEF AgreeInv
<1> QED
  BY <1>1, RealtimePartsStandAlone, ReplayTypeCorrect, AgreeInvariant, CallsTypeCorrect, PresTypeCorrect,
     KnowTypeCorrect, ThreadInitially, ThreadStep, ThreadIsTyped, PTL DEF TypeOK, ChatSpec

==============================================================================
