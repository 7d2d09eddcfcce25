------------------------------- MODULE Presence -------------------------------
(***************************************************************************)
(* Connections and presence of one user in the WebSocket engine            *)
(* (server/ws.ts), as another member of the user's organisation sees it    *)
(* (components/ws/usePresence.ts).  Event-loop turns are steps; what is    *)
(* awaited (the wssessions row, the organisation lookup, the event log)    *)
(* lets other turns in between.                                            *)
(***************************************************************************)
EXTENDS FiniteSets

CONSTANT Conn   \* connections the user opens, in several tabs and one after another

VARIABLES
  clients,      \* connections in the engine's client table
  rows,         \* connections with a wssessions row
  counted,      \* userSessions of the user
  presence,     \* the engine's presence map at the user
  setup,        \* setup[c]: the connect-time work on c's queue
  teardown,     \* teardown[c]: removeClient of c
  announcing,   \* announcing[c][k]: the announcement of k that c started
  watcher,      \* what the other member's page shows
  fetch,        \* that page's initial GET /presence
  listening,    \* that page's client is subscribed to the organisation
  early,        \* history: connections that closed before their setup was done
  disturbed,    \* history: announcements overlapped, or a database call failed
  stale         \* history: the page heard the last announcement neither by event nor by fetch

PresenceVars == <<clients, rows, counted, presence, setup, teardown, announcing,
                  watcher, fetch, listening, early, disturbed, stale>>

PageVars == <<watcher, fetch, listening, stale>>

Kinds == {"online", "offline"}
Silent == [k \in Kinds |-> "none"]

PresenceInit ==
  /\ clients = {} /\ rows = {} /\ counted = {} /\ early = {}
  /\ presence = "offline" /\ watcher = "offline" /\ fetch = "todo"
  /\ setup = [c \in Conn |-> "none"] /\ teardown = [c \in Conn |-> "none"]
  /\ announcing = [c \in Conn |-> Silent]
  /\ listening = FALSE /\ disturbed = FALSE /\ stale = FALSE

(***************************************************************************)
(* A connection is accepted; its queue inserts the wssessions row and then *)
(* runs onClientOnline.                                                    *)
(***************************************************************************)
AcceptConnection(c) ==
  /\ setup[c] = "none"
  /\ clients' = clients \cup {c}
  /\ setup' = [setup EXCEPT ![c] = "inserting"]
  /\ UNCHANGED <<rows, counted, presence, teardown, announcing, early, disturbed>> /\ UNCHANGED PageVars

InsertRow(c) ==
  /\ setup[c] = "inserting"
  /\ setup' = [setup EXCEPT ![c] = "counting"]
  /\ \/ rows' = rows \cup {c} /\ UNCHANGED disturbed
     \/ disturbed' = TRUE /\ UNCHANGED rows
  /\ UNCHANGED <<clients, counted, presence, teardown, announcing, early>> /\ UNCHANGED PageVars

\* An announcement of k begins: the map at once, the organisations later.
Begin(c, k) ==
  /\ presence' = k
  /\ announcing' = [announcing EXCEPT ![c][k] = "lookup"]
  /\ disturbed' = (disturbed \/ \E d \in Conn : announcing[d] # Silent)

Quietly == UNCHANGED <<presence, announcing, disturbed>>

\* Slip: the user counts as online only when the first announcement is due.
CountOnFirst(c) ==
  /\ setup[c] = "counting"
  /\ setup' = [setup EXCEPT ![c] = "done"]
  /\ counted' = IF counted = {} THEN {c} ELSE counted
  /\ IF counted = {} THEN Begin(c, "online") ELSE Quietly
  /\ UNCHANGED <<clients, rows, teardown, early>> /\ UNCHANGED PageVars

OnClientOnline(c) ==
  /\ setup[c] = "counting"
  /\ setup' = [setup EXCEPT ![c] = "done"]
  /\ counted' = counted \cup {c}
  /\ IF counted = {} THEN Begin(c, "online") ELSE Quietly
  /\ UNCHANGED <<clients, rows, teardown, early>> /\ UNCHANGED PageVars

(***************************************************************************)
(* removeClient, for a close or error event, a missed heartbeat or an      *)
(* admin's DELETE: it acts on the first call, at once, whatever the        *)
(* connection's queue is doing.                                            *)
(***************************************************************************)
RemoveClient(c) ==
  /\ c \in clients
  /\ clients' = clients \ {c}
  /\ teardown' = [teardown EXCEPT ![c] = "deleting"]
  /\ early' = IF setup[c] # "done" THEN early \cup {c} ELSE early
  /\ UNCHANGED <<rows, counted, presence, setup, announcing, disturbed>> /\ UNCHANGED PageVars

DeleteRow(c) ==
  /\ teardown[c] = "deleting"
  /\ teardown' = [teardown EXCEPT ![c] = "uncounting"]
  /\ \/ rows' = rows \ {c} /\ UNCHANGED disturbed
     \/ disturbed' = TRUE /\ UNCHANGED rows
  /\ UNCHANGED <<clients, counted, presence, setup, announcing, early>> /\ UNCHANGED PageVars

\* Slip: every connection that goes announces the user offline.
OfflineEachTime(c) ==
  /\ teardown[c] = "uncounting"
  /\ teardown' = [teardown EXCEPT ![c] = "done"]
  /\ counted' = counted \ {c}
  /\ IF counted # {} THEN Begin(c, "offline") ELSE Quietly
  /\ UNCHANGED <<clients, rows, setup, early>> /\ UNCHANGED PageVars

\* Without a set for the user, onClientOffline returns.
OnClientOffline(c) ==
  /\ teardown[c] = "uncounting"
  /\ teardown' = [teardown EXCEPT ![c] = "done"]
  /\ counted' = counted \ {c}
  /\ IF counted = {c} THEN Begin(c, "offline") ELSE Quietly
  /\ UNCHANGED <<clients, rows, setup, early>> /\ UNCHANGED PageVars

(***************************************************************************)
(* The announcement: getUserOrgIds, then emit.  publish mirrors the event  *)
(* into the map a second time, stores it and routes it to whoever is       *)
(* subscribed to the organisation by then.                                 *)
(***************************************************************************)
Emit(c, k) ==
  /\ announcing[c][k] = "lookup"
  /\ \/ /\ announcing' = [announcing EXCEPT ![c][k] = "storing"]
        /\ presence' = k
        /\ UNCHANGED disturbed
     \/ /\ announcing' = [announcing EXCEPT ![c][k] = "none"]   \* the lookup failed
        /\ disturbed' = TRUE
        /\ UNCHANGED presence
  /\ UNCHANGED <<clients, rows, counted, setup, teardown, early>> /\ UNCHANGED PageVars

Route(c, k) ==
  /\ announcing[c][k] = "storing"
  /\ announcing' = [announcing EXCEPT ![c][k] = "none"]
  /\ watcher' = IF listening THEN k ELSE watcher
  /\ stale' = (fetch \in Kinds \ {k} \/ (fetch = "done" /\ ~listening))
  /\ UNCHANGED <<clients, rows, counted, presence, setup, teardown, fetch, listening, early, disturbed>>

(***************************************************************************)
(* The page: its fetch reads the map, and the answer replaces what it      *)
(* shows; a failed one empties the page or leaves it.  Subscribing is not  *)
(* the hook's business, and comes before, between or after.                *)
(***************************************************************************)
ConnectionVars == <<clients, rows, counted, presence, setup, teardown, announcing, early, disturbed>>

ReadPresence ==
  /\ fetch = "todo"
  /\ fetch' = presence
  /\ UNCHANGED <<watcher, listening, stale>> /\ UNCHANGED ConnectionVars

ShowFetched ==
  /\ fetch \in Kinds
  /\ watcher' = fetch /\ fetch' = "done"
  /\ UNCHANGED <<listening, stale>> /\ UNCHANGED ConnectionVars

FetchFails ==
  /\ fetch # "done"
  /\ watcher' \in {watcher, "offline"} /\ fetch' = "done" /\ stale' = TRUE
  /\ UNCHANGED listening /\ UNCHANGED ConnectionVars

SubscribeToOrg ==
  /\ ~listening
  /\ listening' = TRUE
  /\ UNCHANGED <<watcher, fetch, stale>> /\ UNCHANGED ConnectionVars

PresenceNext ==
  \/ \E c \in Conn :
       \/ AcceptConnection(c) \/ InsertRow(c) \/ OnClientOnline(c)
       \/ RemoveClient(c) \/ DeleteRow(c) \/ OnClientOffline(c)
       \/ \E k \in Kinds : Emit(c, k) \/ Route(c, k)
  \/ ReadPresence \/ ShowFetched \/ FetchFails \/ SubscribeToOrg

PresenceSpec == PresenceInit /\ [][PresenceNext]_PresenceVars

------------------------------------------------------------------------------
(***************************************************************************)
(* Properties.                                                             *)
(***************************************************************************)
PresenceTypeOK ==
  /\ clients \subseteq Conn /\ rows \subseteq Conn /\ counted \subseteq Conn /\ early \subseteq Conn
  /\ presence \in Kinds /\ watcher \in Kinds /\ fetch \in Kinds \cup {"todo", "done"}
  /\ setup \in [Conn -> {"none", "inserting", "counting", "done"}]
  /\ teardown \in [Conn -> {"none", "deleting", "uncounting", "done"}]
  /\ announcing \in [Conn -> [Kinds -> {"none", "lookup", "storing"}]]
  /\ listening \in BOOLEAN /\ disturbed \in BOOLEAN /\ stale \in BOOLEAN

\* However tabs open and close, the user is counted by exactly the connections
\* that are set up and not yet torn down; a connection that closed during its
\* setup is the only one that may stay counted for good.
CountsTheConnected ==
  \A c \in Conn :
    /\ setup[c] = "done" /\ teardown[c] # "done" => c \in counted
    /\ c \in counted /\ teardown[c] = "done" => c \in early

\* Once everything has settled, the map and the session rows agree with the open
\* connections, unless a connection closed during its setup, announcements
\* overlapped, or the database failed; and so does the page, whatever the order of
\* its fetch, its subscription and the announcements, unless the last one fell
\* after the fetch and before the subscription, or between the fetch's read and
\* its answer, or the fetch failed and nothing has been announced since.
PresenceAgreesWhenQuiet ==
  /\ clients = {c \in Conn : setup[c] = "done" /\ teardown[c] = "none"}
  /\ \A c \in Conn : announcing[c] = Silent /\ teardown[c] \in {"none", "done"}
  /\ early = {} /\ ~disturbed
  => /\ presence = (IF clients = {} THEN "offline" ELSE "online")
     /\ rows = clients
     /\ fetch = "done" /\ ~stale => watcher = presence

==============================================================================
