------------------------------ MODULE EventReplay ------------------------------
(***************************************************************************)
(* The event pipeline of the WebSocket engine (server/ws.ts) and one       *)
(* browser client (lib/ws/client.ts): publish, the replay log with its     *)
(* expiry, subscriptions, reconnection and resume.                         *)
(*                                                                         *)
(* An event is its position in events; ids are time-ordered (UUID v7), so  *)
(* positions order as ids do, while publishes overlap and may store and    *)
(* route in another order.  Control frames without effect (replay_start,   *)
(* replay_end, pong) are left out.                                         *)
(***************************************************************************)
EXTENDS Naturals, Sequences, FiniteSets

CONSTANTS
  MaxEvents,   \* bound: events published
  MaxDrops     \* bound: connections lost

ASSUME ReplayAssumption == MaxEvents \in Nat /\ MaxDrops \in Nat

VARIABLES
  events,      \* events[e]: the scope of the event with id e
  stage,       \* stage[e]: how far publish(e) is
  log,         \* ids in wsevents
  expired,     \* ids up to this one are past their expiresat
  link,        \* the client's connection as the engine sees it
  wire,        \* frames sent to the client and not yet received
  client,      \* the WSClient
  drops,       \* history: connections lost so far
  waived       \* history: ids the client need not be given any more

ReplayVars == <<events, stage, log, expired, link, wire, client, drops, waived>>

Scopes == {"user", "conversation"}
Ids == 1..Len(events)
NoResume == [cursor |-> 0, rows |-> {}, horizon |-> 0]
Down == [up |-> FALSE, subs |-> {}, inbox |-> <<>>, resume |-> NoResume, unanswered |-> FALSE]

ReplayInit ==
  /\ events = <<>> /\ stage = <<>> /\ log = {} /\ expired = 0
  /\ link = Down /\ wire = <<>> /\ drops = 0 /\ waived = {}
  /\ client = [cursor |-> 0, hadConnection |-> FALSE, seen |-> {}]

(***************************************************************************)
(* publish: store the event for five minutes, then route it.  A failed     *)
(* insert is only logged.                                                  *)
(***************************************************************************)
Publish(scope) ==
  /\ Len(events) < MaxEvents
  /\ events' = Append(events, scope)
  /\ stage' = Append(stage, "persisting")
  /\ UNCHANGED <<log, expired, link, wire, client, drops, waived>>

PersistEvent(e) ==
  /\ stage[e] = "persisting"
  /\ stage' = [stage EXCEPT ![e] = "routing"]
  /\ \/ log' = log \cup {e} /\ UNCHANGED waived
     \/ waived' = waived \cup {e} /\ UNCHANGED log
  /\ UNCHANGED <<events, expired, link, wire, client, drops>>

RouteEvent(e) ==
  /\ stage[e] = "routing"
  /\ stage' = [stage EXCEPT ![e] = "routed"]
  /\ wire' = IF link.up /\ events[e] \in link.subs THEN Append(wire, e) ELSE wire
  /\ UNCHANGED <<events, log, expired, link, client, drops, waived>>

\* Five minutes pass, far longer than any publish takes; the cleanup interval
\* deletes the rows some time later.
Expire ==
  /\ expired < Len(events) /\ stage[expired + 1] = "routed"
  /\ expired' = expired + 1
  /\ UNCHANGED <<events, stage, log, link, wire, client, drops, waived>>

Cleanup ==
  /\ log \cap 1..expired # {}
  /\ log' = log \ 1..expired
  /\ UNCHANGED <<events, stage, expired, link, wire, client, drops, waived>>

(***************************************************************************)
(* The connection.  onopen sends the client's subscriptions and then, when *)
(* it had a connection and has seen an event, resume.                      *)
(***************************************************************************)
\* Slip: resume is sent ahead of the subscriptions.
ResumeFirst == IF client.hadConnection /\ client.cursor # 0 THEN <<"resume", "subscribe">> ELSE <<"subscribe">>

Opening == IF client.hadConnection /\ client.cursor # 0 THEN <<"subscribe", "resume">> ELSE <<"subscribe">>

Connect ==
  /\ ~link.up
  /\ link' = [Down EXCEPT !.up = TRUE, !.subs = {"user"}, !.inbox = Opening, !.resume.cursor = client.cursor]
  /\ client' = [client EXCEPT !.hadConnection = TRUE]
  /\ UNCHANGED <<events, stage, log, expired, wire, drops, waived>>

\* What the engine sent and the client has not received is lost with the
\* connection, and so is what it would still route to the dead socket.
Drop ==
  /\ link.up /\ drops < MaxDrops
  /\ link' = Down /\ wire' = <<>>
  /\ drops' = drops + 1
  /\ UNCHANGED <<events, stage, log, expired, client, waived>>

\* The connection's queue takes one frame at a time.  canSubscribe may refuse, or
\* throw, which is only logged.  A connection without a resume owes the client
\* nothing older than its subscriptions.
HandleSubscribe ==
  /\ link.inbox # <<>> /\ Head(link.inbox) = "subscribe"
  /\ \E subs \in {link.subs, Scopes} : link' = [link EXCEPT !.subs = subs, !.inbox = Tail(@)]
  /\ waived' = IF link.resume.cursor = 0 THEN waived \cup Ids ELSE waived
  /\ UNCHANGED <<events, stage, log, expired, wire, client, drops>>

NewerThan(c) == {e \in log : e > c /\ e > expired /\ events[e] \in link.subs}

\* handleResume selects, and answers when the database has.
ResumeSelect ==
  /\ link.inbox # <<>> /\ Head(link.inbox) = "resume"
  /\ link' = [link EXCEPT !.inbox = [@ EXCEPT ![1] = "answer"],
                          !.resume.rows = NewerThan(link.resume.cursor), !.resume.horizon = expired]
  /\ UNCHANGED <<events, stage, log, expired, wire, client, drops, waived>>

\* In the order of the ids.
Sorted(S) == [k \in 1..Cardinality(S) |-> CHOOSE e \in S : Cardinality({f \in S : f < e}) = k - 1]

Handled == [link EXCEPT !.inbox = Tail(@), !.resume = [NoResume EXCEPT !.cursor = link.resume.cursor]]

\* A select that throws, the one for the rows or the one for the cursor's own, is
\* only logged: the client gets no answer, and waits for none.
ResumeFails ==
  /\ link.inbox # <<>>
  /\ Head(link.inbox) = "resume" \/ (Head(link.inbox) = "answer" /\ link.resume.rows = {})
  /\ link' = [Handled EXCEPT !.unanswered = TRUE]
  /\ UNCHANGED <<events, stage, log, expired, wire, client, drops, waived>>

\* With nothing to replay and the cursor's own row gone, the client is told to
\* refresh.  A replay passes over what is older than the cursor and what had
\* expired, without a word.
ResumeAnswer ==
  /\ link.inbox # <<>> /\ Head(link.inbox) = "answer"
  /\ link' = Handled
  /\ LET r == link.resume IN
     IF r.rows = {} /\ r.cursor \notin log
       THEN wire' = Append(wire, 0) /\ UNCHANGED waived
       ELSE /\ wire' = wire \o Sorted(r.rows)
            /\ waived' = waived \cup {e \in Ids : e < r.cursor \/ e <= r.horizon}
  /\ UNCHANGED <<events, stage, log, expired, client, drops>>

(***************************************************************************)
(* The client handles a frame: the cursor follows every event, older ones  *)
(* too; replay_unavailable (0) asks the pages for a full refresh.          *)
(***************************************************************************)
\* Slip: the order to refresh is taken for an event.
ReceiveAny ==
  /\ wire # <<>>
  /\ wire' = Tail(wire)
  /\ client' = [client EXCEPT !.cursor = Head(wire), !.seen = @ \cup {Head(wire)}]
  /\ UNCHANGED <<events, stage, log, expired, link, drops, waived>>

Receive ==
  /\ wire # <<>>
  /\ wire' = Tail(wire)
  /\ IF Head(wire) = 0
       THEN waived' = waived \cup Ids /\ UNCHANGED client
       ELSE /\ client' = [client EXCEPT !.cursor = Head(wire), !.seen = @ \cup {Head(wire)}]
            /\ UNCHANGED waived
  /\ UNCHANGED <<events, stage, log, expired, link, drops>>

ReplayNext ==
  \/ \E s \in Scopes : Publish(s)
  \/ \E e \in Ids : PersistEvent(e) \/ RouteEvent(e)
  \/ Expire \/ Cleanup
  \/ Connect \/ Drop
  \/ HandleSubscribe \/ ResumeSelect \/ ResumeFails \/ ResumeAnswer
  \/ Receive

ReplaySpec == ReplayInit /\ [][ReplayNext]_ReplayVars

------------------------------------------------------------------------------
(***************************************************************************)
(* Properties.                                                             *)
(***************************************************************************)
ReplayTypeOK ==
  /\ events \in Seq(Scopes) /\ Len(events) <= MaxEvents
  /\ stage \in [Ids -> {"persisting", "routing", "routed"}]
  /\ log \subseteq Ids /\ waived \subseteq Ids /\ expired \in 0..Len(events)
  /\ link.subs \subseteq Scopes /\ link.resume.rows \subseteq Ids /\ link.unanswered \in BOOLEAN
  /\ client.cursor \in 0..Len(events) /\ client.seen \subseteq Ids
  /\ \A k \in DOMAIN wire : wire[k] \in 0..Len(events)

Caught == link.up /\ link.inbox = <<>> /\ wire = <<>>

\* No silent gap: a connected client that has handled everything it was sent
\* has seen every published event of the scopes it was granted, except those the
\* code gives up on: not stored, expired or older than the cursor when it resumed,
\* or covered by a refresh it was told to make.  Nothing falls between the replay's
\* read of the log and the live events, and the gap of a resume that was not
\* answered is closed by the next one, down to its cursor.
NoSilentGap ==
  Caught /\ ~link.unanswered =>
    \A e \in Ids : stage[e] = "routed" /\ events[e] \in link.subs => e \in client.seen \cup waived

==============================================================================
