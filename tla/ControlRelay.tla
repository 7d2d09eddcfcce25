------------------------------ MODULE ControlRelay ------------------------------
(***************************************************************************)
(* One remote-control session as the WebSocket engine relays it            *)
(* (apps/web/src/server/ws.ts) together with the helper agent              *)
(* (apps/agent/src/agent.mjs) and the session's row.                       *)
(*                                                                         *)
(* Three copies of the session's status exist: the row, the engine's       *)
(* in-memory meta and the agent's injector flag.  The engine starts the    *)
(* database writes of a pause, a resume or a drop without waiting for      *)
(* them; every write that hits the row re-reads it and posts its status to *)
(* the engine, which forwards it to the agents connected at that moment.   *)
(* The row starts as allowControl leaves it, with one token issued;        *)
(* ControlSession models how it got there and how tokens expire.           *)
(***************************************************************************)
EXTENDS Naturals, FiniteSets

CONSTANTS
  Agent,       \* agent processes started with the session's token
  NoAgent,     \* the engine holds no meta
  MaxToggles,  \* bound: pauses and resumes of the host
  MaxFaults    \* bound: failing statements, lost posts and engine crashes

ASSUME RelayAssumption ==
  /\ NoAgent \notin Agent
  /\ MaxToggles \in Nat /\ MaxFaults \in Nat

VARIABLES
  db,         \* remotecontrolsessions.status
  conn,       \* conn[a]: how far handleAgentConnection got with a
  sock,       \* sock[a]: the agent's end of its socket
  isAlive,    \* isAlive[a]: Client.isAlive of a's connection
  clients,    \* the agents in the engine's client map
  meta,       \* the engine's controlSessions entry
  injector,   \* injector[a]: the pause flag of a's injector
  writes,     \* writes[k]: database writes of kind k started and not awaited
  emits,      \* status emissions that have not read the row yet
  posts,      \* posts[st]: posts of status st on their way to the engine
  toggles,    \* pauses and resumes so far
  lost,       \* posts lost so far, before or after they were sent
  failed,     \* statements of the engine that failed so far
  crashes,    \* engine crashes so far
  stopping,   \* history: watched agents that were so when the session last ended
  unsettled,  \* history: a pause or resume began before the last one settled, or its write failed
  abandoned   \* history: since the last grant, a fault took away who would end the session

engine == <<conn, isAlive, clients, meta>>
traffic == <<writes, emits, posts>>
bounds == <<toggles, lost, failed, crashes>>
history == <<stopping, unsettled, abandoned>>
vars == <<db, sock, injector, engine, traffic, bounds, history>>

Kinds == {"pause", "resume", "end"}
Statuses == {"agent_pending", "granted", "paused", "ended"}
Live == {"granted", "paused"}

NoMeta == [agent |-> NoAgent, status |-> "none"]

------------------------------------------------------------------------------
Init ==
  /\ db = "agent_pending"
  /\ conn = [a \in Agent |-> "none"]
  /\ sock = [a \in Agent |-> "none"]
  /\ isAlive = [a \in Agent |-> FALSE]
  /\ clients = {}
  /\ meta = NoMeta
  /\ injector = [a \in Agent |-> "open"]
  /\ writes = [k \in Kinds |-> 0]
  /\ emits = 0
  /\ posts = [st \in Statuses |-> 0]
  /\ toggles = 0 /\ lost = 0 /\ failed = 0 /\ crashes = 0
  /\ stopping = {}
  /\ unsettled = FALSE /\ abandoned = FALSE

Count(f, k, n) == [f EXCEPT ![k] = @ + n]

\* Bound: one more fault may happen.
MayFail == lost + failed + crashes < MaxFaults

Handshakes == {a \in Agent : conn[a] \in {"selected", "granted"}}

\* Every write, emission, post and close has arrived and no agent is connecting.
Quiet ==
  /\ Handshakes = {}
  /\ \A a \in Agent : sock[a] # "closing"
  /\ \A k \in Kinds : writes[k] = 0
  /\ emits = 0
  /\ \A st \in Statuses : posts[st] = 0

------------------------------------------------------------------------------
(***************************************************************************)
(* handleAgentConnection.                                                  *)
(***************************************************************************)
\* The SELECT of registerAgent; an agent whose token matches no waiting
\* session is turned away.
Connect(a) ==
  /\ conn[a] = "none"
  /\ \/ /\ db = "agent_pending"
        /\ conn' = [conn EXCEPT ![a] = "selected"]
        /\ sock' = [sock EXCEPT ![a] = "open"]
     \/ /\ db # "agent_pending"
        /\ conn' = [conn EXCEPT ![a] = "gone"]
        /\ sock' = [sock EXCEPT ![a] = "closed"]
  /\ UNCHANGED <<db, isAlive, clients, meta, injector, traffic, bounds, history>>

\* Its UPDATE, which names only the id.
Grant(a) ==
  /\ conn[a] = "selected"
  /\ db' = "granted"
  /\ conn' = [conn EXCEPT ![a] = "granted"]
  /\ stopping' = {}
  /\ unsettled' = (unsettled \/ ~(db = "agent_pending"))
  /\ abandoned' = FALSE
  /\ UNCHANGED <<sock, isAlive, clients, meta, injector, traffic, bounds>>

\* The audits are in: registerAgent posts the row it returned from the UPDATE
\* and the engine enters the agent into its maps.
EnterRelay(a) ==
  /\ conn[a] = "granted"
  /\ posts' = Count(posts, "granted", 1)
  /\ conn' = [conn EXCEPT ![a] = "open"]
  /\ isAlive' = [isAlive EXCEPT ![a] = TRUE]
  /\ clients' = clients \cup {a}
  /\ meta' = [agent |-> a, status |-> "granted"]
  /\ UNCHANGED <<db, sock, injector, writes, emits, bounds, history>>

\* The UPDATE or one of the audits throws.  handleAgentConnection rejects, which
\* the engine only logs: the socket stays as it is and nobody listens to it.
RegistrationFails(a) ==
  /\ MayFail
  /\ conn[a] \in {"selected", "granted"}
  /\ conn' = [conn EXCEPT ![a] = "gone"]
  /\ failed' = failed + 1
  /\ abandoned' = (abandoned \/ conn[a] = "granted")
  /\ UNCHANGED <<db, sock, isAlive, clients, meta, injector, traffic, toggles, lost, crashes, stopping, unsettled>>

(***************************************************************************)
(* removeClient, from the close event or from the heartbeat.               *)
(***************************************************************************)
\* Slip: the session is not ended.
RemoveWithoutEnd(a) ==
  /\ conn' = [conn EXCEPT ![a] = "gone"]
  /\ isAlive' = [isAlive EXCEPT ![a] = FALSE]
  /\ clients' = clients \ {a}
  /\ meta' = IF meta.agent = a THEN NoMeta ELSE meta
  /\ stopping' = stopping \ {a}
  /\ UNCHANGED <<db, injector, writes, emits, posts, bounds, unsettled, abandoned>>

Remove(a) ==
  /\ conn' = [conn EXCEPT ![a] = "gone"]
  /\ isAlive' = [isAlive EXCEPT ![a] = FALSE]
  /\ clients' = clients \ {a}
  /\ meta' = IF meta.agent = a THEN NoMeta ELSE meta
  /\ writes' = Count(writes, "end", 1)
  /\ stopping' = stopping \ {a}
  /\ UNCHANGED <<db, injector, emits, posts, bounds, unsettled, abandoned>>

\* The agent's process exits or its network drops: the engine's end sees a
\* close, or stays half open.
AgentGone(a) ==
  /\ sock[a] = "open"
  /\ \E s \in {"closing", "closed"} : sock' = [sock EXCEPT ![a] = s]
  /\ UNCHANGED <<db, injector, engine, traffic, bounds, history>>

\* The close event; the listener is attached only once the agent is entered.
SocketCloses(a) ==
  /\ sock[a] = "closing"
  /\ sock' = [sock EXCEPT ![a] = "closed"]
  /\ \/ conn[a] = "open" /\ Remove(a)
     \/ conn[a] # "open" /\ UNCHANGED <<db, injector, engine, traffic, bounds, history>>

\* Slip: the heartbeat terminates the socket and leaves the rest to its close event.
HeartbeatOnlyTerminates(a) ==
  /\ a \in clients
  /\ isAlive' = [isAlive EXCEPT ![a] = FALSE]
  /\ sock' = [sock EXCEPT ![a] = IF ~isAlive[a] /\ @ = "open" THEN "closing" ELSE @]
  /\ UNCHANGED <<db, injector, conn, clients, meta, traffic, bounds, history>>

\* One turn of the 30 s heartbeat for one connection.
Heartbeat(a) ==
  /\ a \in clients
  /\ \/ /\ ~isAlive[a]
        /\ Remove(a)
        /\ sock' = [sock EXCEPT ![a] = "closed"]
     \/ /\ isAlive[a]
        /\ isAlive' = [isAlive EXCEPT ![a] = FALSE]
        /\ UNCHANGED <<db, sock, injector, conn, clients, meta, traffic, bounds, history>>

Pong(a) ==
  /\ a \in clients /\ sock[a] = "open" /\ ~isAlive[a]
  /\ isAlive' = [isAlive EXCEPT ![a] = TRUE]
  /\ UNCHANGED <<db, sock, injector, conn, clients, meta, traffic, bounds, history>>

------------------------------------------------------------------------------
(***************************************************************************)
(* control_pause and control_resume, from the host's browser or an agent:  *)
(* the meta changes at once, the row when the write gets there.            *)
(***************************************************************************)
\* Slip: the status of the meta is not looked at.
ToggleAnyway(from, to, kind) ==
  /\ toggles < MaxToggles
  /\ meta' = [meta EXCEPT !.status = to]
  /\ writes' = Count(writes, kind, 1)
  /\ toggles' = toggles + 1
  /\ unsettled' = (unsettled \/ ~Quiet)
  /\ UNCHANGED <<db, sock, injector, conn, isAlive, clients, emits, posts, lost, failed, crashes,
                 stopping, abandoned>>

Toggle(from, to, kind) ==
  /\ toggles < MaxToggles
  /\ meta.status = from
  /\ meta' = [meta EXCEPT !.status = to]
  /\ writes' = Count(writes, kind, 1)
  /\ toggles' = toggles + 1
  /\ unsettled' = (unsettled \/ ~Quiet)
  /\ UNCHANGED <<db, sock, injector, conn, isAlive, clients, emits, posts, lost, failed, crashes,
                 stopping, abandoned>>

ControlPause == Toggle("granted", "paused", "pause")

ControlResume == Toggle("paused", "granted", "resume")

\* Slip: the new status is not announced.
WroteSilently(st) ==
  /\ db' = st
  /\ stopping' = IF st = "ended" THEN clients ELSE stopping
  /\ UNCHANGED <<sock, injector, engine, emits, posts, bounds, unsettled, abandoned>>

\* The UPDATEs of pauseControl, resumeControl and endControl; one that hits the
\* row is followed by an emission.
Wrote(st) ==
  /\ db' = st
  /\ emits' = emits + 1
  /\ stopping' = IF st = "ended" THEN clients ELSE stopping
  /\ UNCHANGED <<sock, injector, engine, posts, bounds, unsettled, abandoned>>

Missed == UNCHANGED <<db, sock, injector, engine, emits, posts, bounds, history>>

WritePause ==
  /\ writes["pause"] > 0
  /\ writes' = Count(writes, "pause", 0 - 1)
  /\ IF db = "granted" THEN Wrote("paused") ELSE Missed

WriteResume ==
  /\ writes["resume"] > 0
  /\ writes' = Count(writes, "resume", 0 - 1)
  /\ IF db = "paused" THEN Wrote("granted") ELSE Missed

WriteEnd ==
  /\ writes["end"] > 0
  /\ writes' = Count(writes, "end", 0 - 1)
  /\ IF db # "ended" THEN Wrote("ended") ELSE Missed

\* The UPDATE throws.  A failing end is swallowed by removeClient, a failing
\* pause or resume is logged; none is tried again.
WriteFails(k) ==
  /\ MayFail
  /\ writes[k] > 0
  /\ writes' = Count(writes, k, 0 - 1)
  /\ failed' = failed + 1
  /\ abandoned' = (abandoned \/ k = "end")
  /\ unsettled' = (unsettled \/ ~(k = "end"))
  /\ UNCHANGED <<db, sock, injector, engine, emits, posts, toggles, lost, crashes, stopping>>

\* A participant presses Stop: the web process runs endControl.
Stop ==
  /\ db # "ended"
  /\ Wrote("ended")
  /\ UNCHANGED writes

\* emit reads the row and posts what it finds.
Emit ==
  /\ emits > 0
  /\ emits' = emits - 1
  /\ posts' = Count(posts, db, 1)
  /\ UNCHANGED <<db, sock, injector, engine, writes, bounds, history>>

\* The audit before emit, or the SELECT in it, throws: nothing is posted.
EmitFails ==
  /\ MayFail
  /\ emits > 0
  /\ emits' = emits - 1
  /\ lost' = lost + 1
  /\ UNCHANGED <<db, sock, injector, engine, writes, posts, toggles, failed, crashes, history>>

\* The engine routes a post to the agents connected now, and they act on it:
\* the injector pauses or resumes, or the process exits.
Deliver(st) ==
  /\ posts[st] > 0
  /\ posts' = Count(posts, st, 0 - 1)
  /\ LET reached == {a \in clients : sock[a] = "open"}
     IN /\ injector' = [a \in Agent |->
             IF a \in reached /\ st \in Live
               THEN IF st = "paused" THEN "paused" ELSE "open"
               ELSE injector[a]]
        /\ sock' = [a \in Agent |->
             IF a \in reached /\ st = "ended" THEN "closing" ELSE sock[a]]
  /\ UNCHANGED <<db, engine, writes, emits, bounds, history>>

\* publishEvent gives up after two seconds.
LosePost(st) ==
  /\ MayFail
  /\ posts[st] > 0
  /\ posts' = Count(posts, st, 0 - 1)
  /\ lost' = lost + 1
  /\ UNCHANGED <<db, sock, injector, engine, writes, emits, toggles, failed, crashes, history>>

\* The engine process dies and comes back empty; its sockets drop, and with
\* them handshakes, writes and emissions of its own.
Crash ==
  /\ MayFail
  /\ crashes' = crashes + 1
  /\ clients' = {}
  /\ meta' = NoMeta
  /\ stopping' = {}
  /\ isAlive' = [a \in Agent |-> FALSE]
  /\ conn' = [a \in Agent |-> IF conn[a] = "none" THEN "none" ELSE "gone"]
  /\ sock' = [a \in Agent |-> IF sock[a] = "none" THEN "none" ELSE "closed"]
  /\ writes' = [k \in Kinds |-> 0]
  /\ emits' \in 0..emits
  /\ posts' = [st \in Statuses |-> 0]
  /\ abandoned' = TRUE
  /\ UNCHANGED <<db, injector, toggles, lost, failed, unsettled>>

------------------------------------------------------------------------------
Next ==
  \/ \E a \in Agent :
       \/ Connect(a) \/ Grant(a) \/ EnterRelay(a) \/ RegistrationFails(a)
       \/ AgentGone(a) \/ SocketCloses(a) \/ Heartbeat(a) \/ Pong(a)
  \/ ControlPause \/ ControlResume \/ Stop
  \/ WritePause \/ WriteResume \/ WriteEnd \/ Emit \/ EmitFails
  \/ \E k \in Kinds : WriteFails(k)
  \/ \E st \in Statuses : Deliver(st) \/ LosePost(st)
  \/ Crash

\* The event loop goes on with what it awaits, the database and the posts
\* answer or fail, close events fire and the heartbeat interval ticks.  Nothing forces
\* users or agents to act, nor a pong to arrive.
Fairness ==
  /\ \A a \in Agent :
       WF_vars(Grant(a)) /\ WF_vars(EnterRelay(a)) /\ WF_vars(SocketCloses(a)) /\ WF_vars(Heartbeat(a))
  /\ WF_vars(WritePause) /\ WF_vars(WriteResume) /\ WF_vars(WriteEnd) /\ WF_vars(Emit)
  /\ \A st \in Statuses : WF_vars(Deliver(st))

Spec == Init /\ [][Next]_vars /\ Fairness

------------------------------------------------------------------------------
(***************************************************************************)
(* Properties.                                                             *)
(***************************************************************************)
\* Every variable holds a value of its kind.
TypeOK ==
  /\ db \in Statuses
  /\ conn \in [Agent -> {"none", "selected", "granted", "open", "gone"}]
  /\ sock \in [Agent -> {"none", "open", "closing", "closed"}]
  /\ isAlive \in [Agent -> BOOLEAN]
  /\ clients \subseteq Agent
  /\ meta \in {NoMeta} \cup [agent : Agent, status : Live]
  /\ injector \in [Agent -> {"open", "paused"}]
  /\ writes \in [Kinds -> Nat] /\ emits \in Nat /\ posts \in [Statuses -> Nat]
  /\ toggles \in Nat /\ lost \in Nat /\ failed \in Nat /\ crashes \in Nat
  /\ stopping \subseteq Agent
  /\ unsettled \in BOOLEAN /\ abandoned \in BOOLEAN

\* The engine relays input only to an agent whose connection it still watches:
\* however connections and drops of two agents interleave, the meta never
\* outlives the client it points to.
RelayTargetIsWatched == meta # NoMeta => meta.agent \in clients /\ conn[meta.agent] = "open"

\* A session under control has someone who will end it: an agent being entered,
\* a watched agent, or a drop's write.  Only a registration that fails after its
\* grant, an end that fails to be written or a crash of the engine takes the
\* last one away, and a new grant brings one back; no order of connections,
\* drops, pauses and stops does.
SomeoneWillEndIt ==
  db \in Live /\ ~abandoned =>
    \/ \E a \in Agent : conn[a] = "granted"
    \/ clients # {}
    \/ writes["end"] > 0

\* Both of them: control is relayed to an agent that is watched, faults or not,
\* and a session under control is left to nobody only by the faults named above.
RelayIsAttended == RelayTargetIsWatched /\ SomeoneWillEndIt

\* Row, engine and injectors agree on pausing once everything has arrived,
\* provided the host's pauses and resumes did not overtake each other nor fail
\* to be written, no post was lost and the session was granted once.
PauseAgreesWhenQuiet ==
  Quiet /\ ~unsettled /\ lost = 0 /\ crashes = 0 /\ db \in Live =>
    /\ meta # NoMeta => meta.status = db
    /\ \A a \in clients : sock[a] = "open" => (injector[a] = "paused" <=> db = "paused")

\* A session under control whose agents are all gone ends, even when their
\* close events came before the engine listened or never came at all, unless
\* a fault has taken away who would end it: a registration that failed after its
\* grant, an end that failed to be written, a crash.
NoStandingAccess ==
  (db \in Live /\ \A a \in Agent : sock[a] # "open") ~> (db = "ended" \/ abandoned)

\* An agent connected when the session ends is cut off, unless the post was
\* lost or another registration granted the session again.
StopCutsConnectedAgents ==
  \A a \in Agent : (a \in stopping) ~> (a \notin stopping \/ lost > 0)

------------------------------------------------------------------------------
\* "it receives paused/resumed/ended status and self-terminates" (ws.ts): once
\* everything has arrived, no ended session still has a relay to a running agent.
EndedSessionHasNoRelay ==
  Quiet /\ db = "ended" => \A a \in Agent : ~(meta.agent = a /\ sock[a] = "open")

==============================================================================
