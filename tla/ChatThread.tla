------------------------------ MODULE ChatThread ------------------------------
(***************************************************************************)
(* One conversation: its messages in the database (lib/engine/service.ts), *)
(* the events about them, and the pages that show it                       *)
(* (components/chats/ChatsApp.tsx).  A page that opens the conversation    *)
(* subscribes to its events and fetches its history at the same time; the  *)
(* history then replaces whatever the events had put on the page.  It is   *)
(* the oldest part of the thread only, and an event may be lost on its way *)
(* to the engine.  Events reach a page in the order of their publication,  *)
(* see EventReplay for connections that drop.                              *)
(***************************************************************************)
EXTENDS Callers, Sequences

CONSTANTS
  Message,       \* messages
  Tab,           \* pages of members of the conversation
  HistoryLimit   \* rows listMessages returns

ASSUME ChatAssumption == HistoryLimit \in Nat \ {0}

VARIABLES
  stored,     \* stored[m]: the messages row
  oldest,     \* the rows listMessages returns: the first HistoryLimit
  chatCall,   \* chatCall[p]: where call p stands
  tab,        \* tab[g]: what the page does, its subscription, the history on its way
  shown,      \* shown[g][m]: how the page shows m
  inbox,      \* inbox[g]: events on their way to the page
  missed      \* history: pages an event, or the history, may have missed

ChatVars == <<stored, oldest, chatCall, tab, shown, inbox, missed>>

ChatIdle == [at |-> "idle", m |-> "none", system |-> FALSE, row |-> "no"]
Blank == [m \in Message |-> "no"]
ClosedTab == [at |-> "closed", sub |-> "no", history |-> Blank]

ChatInit ==
  /\ stored = [m \in Message |-> "none"] /\ oldest = {}
  /\ chatCall = [p \in Proc |-> ChatIdle]
  /\ tab = [g \in Tab |-> ClosedTab]
  /\ shown = [g \in Tab |-> Blank]
  /\ inbox = [g \in Tab |-> <<>>]
  /\ missed = {}

\* A row as a page shows it.
View(m) == CASE stored[m] = "none" -> "no" [] stored[m] = "deleted" -> "gone" [] OTHER -> "text"
AsListed == [m \in Message |-> IF m \in oldest THEN View(m) ELSE "no"]

ChatGoto(p, at) == chatCall' = [chatCall EXCEPT ![p].at = at]
ChatReturn(p) == chatCall' = [chatCall EXCEPT ![p] = ChatIdle]

\* To every page with a subscription.  A page without one misses the event
\* unless it has its history still to read; a row deleted since it was read is
\* shown as it was.  publishEvent only logs that the engine was down or refused,
\* and then every page misses it that has read its history.
Deliver(e) ==
  \/ /\ inbox' = [g \in Tab |-> IF tab[g].sub = "on" THEN Append(inbox[g], e) ELSE inbox[g]]
     /\ missed' = missed \cup {g \in Tab : \/ tab[g].at \in {"loading", "open"} /\ tab[g].sub # "on"
                                           \/ e.as = "text" /\ View(e.m) = "gone"}
  \/ /\ missed' = missed \cup {g \in Tab : tab[g].at \in {"loading", "open"}}
     /\ UNCHANGED inbox

(***************************************************************************)
(* sendMessage and postSystemMessage: insert, for a user's message the     *)
(* channel's gateway, then read the row and publish it.  A call that fails *)
(* between the two publishes nothing, as one whose event is lost.          *)
(***************************************************************************)
InsertMessage(p, m, system) ==
  /\ chatCall[p] = ChatIdle /\ stored[m] = "none"
  /\ stored' = [stored EXCEPT ![m] = IF system THEN "acked" ELSE "pending"]
  /\ oldest' = IF Cardinality(oldest) < HistoryLimit THEN oldest \cup {m} ELSE oldest
  /\ chatCall' = [chatCall EXCEPT ![p] = [at |-> IF system THEN "read_row" ELSE "gateway",
                                          m |-> m, system |-> system, row |-> "no"]]
  /\ UNCHANGED <<tab, shown, inbox, missed>>

SendViaPlugin(p) ==
  LET m == chatCall[p].m IN
  /\ chatCall[p].at = "gateway"
  /\ \E ack \in {"acked", "nacked"} :
       /\ stored' = [stored EXCEPT ![m] = IF @ = "deleted" THEN @ ELSE ack]
       /\ IF ack = "acked" THEN ChatGoto(p, "read_row") ELSE ChatReturn(p)
  /\ UNCHANGED <<oldest, tab, shown, inbox, missed>>

ReadRow(p) ==
  /\ chatCall[p].at = "read_row"
  /\ chatCall' = [chatCall EXCEPT ![p].at = "publish", ![p].row = View(chatCall[p].m)]
  /\ UNCHANGED <<stored, oldest, tab, shown, inbox, missed>>

PublishMessageEvent(p) ==
  /\ chatCall[p].at = "publish"
  /\ Deliver([m |-> chatCall[p].m, as |-> chatCall[p].row])
  /\ ChatReturn(p)
  /\ UNCHANGED <<stored, oldest, tab, shown>>

(***************************************************************************)
(* deleteMessage: nothing if it is deleted; update, then announce.         *)
(***************************************************************************)
DeleteMessage(p, m) ==
  /\ chatCall[p] = ChatIdle /\ stored[m] \notin {"none", "deleted"}
  /\ chatCall' = [chatCall EXCEPT ![p] = [ChatIdle EXCEPT !.at = "delete", !.m = m]]
  /\ UNCHANGED <<stored, oldest, tab, shown, inbox, missed>>

\* Slip: announced first, updated afterwards.
AnnounceFirst(p) ==
  LET m == chatCall[p].m IN
  /\ \/ /\ chatCall[p].at = "delete"
        /\ Deliver([m |-> m, as |-> "tombstone"])
        /\ ChatGoto(p, "announce")
        /\ UNCHANGED stored
     \/ /\ chatCall[p].at = "announce"
        /\ stored' = [stored EXCEPT ![m] = "deleted"]
        /\ ChatReturn(p)
        /\ UNCHANGED <<inbox, missed>>
  /\ UNCHANGED <<oldest, tab, shown>>

WriteTombstone(p) ==
  LET m == chatCall[p].m IN
  /\ \/ /\ chatCall[p].at = "delete"
        /\ stored' = [stored EXCEPT ![m] = "deleted"]
        /\ ChatGoto(p, "announce")
        /\ UNCHANGED <<inbox, missed>>
     \/ /\ chatCall[p].at = "announce"
        /\ Deliver([m |-> m, as |-> "tombstone"])
        /\ ChatReturn(p)
        /\ UNCHANGED stored
  /\ UNCHANGED <<oldest, tab, shown>>

(***************************************************************************)
(* The page.  It keeps its subscription when it moves to another           *)
(* conversation; a history that arrives then is dropped.                   *)
(***************************************************************************)
OpenThread(g) ==
  /\ tab[g].at = "closed"
  /\ tab' = [tab EXCEPT ![g].at = "fetching", ![g].sub = IF @ = "no" THEN "asked" ELSE @]
  /\ shown' = [shown EXCEPT ![g] = Blank]
  /\ missed' = missed \ {g}
  /\ UNCHANGED <<stored, oldest, chatCall, inbox>>

SubscriptionTakes(g) ==
  /\ tab[g].sub = "asked"
  /\ tab' = [tab EXCEPT ![g].sub = "on"]
  /\ UNCHANGED <<stored, oldest, chatCall, shown, inbox, missed>>

ListMessages(g) ==
  /\ tab[g].at = "fetching"
  /\ tab' = [tab EXCEPT ![g].at = "loading", ![g].history = AsListed]
  /\ UNCHANGED <<stored, oldest, chatCall, shown, inbox, missed>>

ShowHistory(g) ==
  /\ tab[g].at = "loading"
  /\ shown' = [shown EXCEPT ![g] = tab[g].history]
  /\ tab' = [tab EXCEPT ![g].at = "open", ![g].history = Blank]
  /\ UNCHANGED <<stored, oldest, chatCall, inbox, missed>>

HistoryFails(g) ==
  /\ tab[g].at \in {"fetching", "loading"}
  /\ tab' = [tab EXCEPT ![g].at = "open", ![g].history = Blank]
  /\ missed' = missed \cup {g}
  /\ UNCHANGED <<stored, oldest, chatCall, shown, inbox>>

LeaveThread(g) ==
  /\ tab[g].at # "closed"
  /\ tab' = [tab EXCEPT ![g].at = "closed", ![g].history = Blank]
  /\ shown' = [shown EXCEPT ![g] = Blank]
  /\ UNCHANGED <<stored, oldest, chatCall, inbox, missed>>

\* onMessage adds a message the page does not show, onDeleted replaces one it
\* does; both ignore the events of a conversation that is not open.  What they
\* do while the history is on its way is lost when it arrives.
OnEvent(g) ==
  LET e == Head(inbox[g])
      now == shown[g][e.m] IN
  /\ inbox[g] # <<>>
  /\ inbox' = [inbox EXCEPT ![g] = Tail(@)]
  /\ shown' = IF tab[g].at = "closed" THEN shown
              ELSE [shown EXCEPT ![g][e.m] =
                      CASE e.as = "tombstone" -> IF now = "no" THEN "no" ELSE "gone"
                        [] OTHER -> IF now = "no" THEN e.as ELSE now]
  /\ missed' = IF tab[g].at = "loading" THEN missed \cup {g} ELSE missed
  /\ UNCHANGED <<stored, oldest, chatCall, tab>>

ChatNext ==
  \/ \E p \in Proc :
       \/ \E m \in Message : (\E system \in BOOLEAN : InsertMessage(p, m, system)) \/ DeleteMessage(p, m)
       \/ SendViaPlugin(p) \/ ReadRow(p) \/ PublishMessageEvent(p) \/ WriteTombstone(p)
  \/ \E g \in Tab :
       \/ OpenThread(g) \/ SubscriptionTakes(g) \/ ListMessages(g) \/ ShowHistory(g) \/ HistoryFails(g)
       \/ LeaveThread(g) \/ OnEvent(g)

ChatSpec == ChatInit /\ [][ChatNext]_ChatVars

------------------------------------------------------------------------------
(***************************************************************************)
(* Properties.                                                             *)
(***************************************************************************)
ChatTypeOK ==
  /\ stored \in [Message -> {"none", "pending", "acked", "nacked", "deleted"}]
  /\ \A p \in Proc : chatCall[p].m \in Message \cup {"none"} /\ chatCall[p].row \in {"no", "text", "gone"}
  /\ tab \in [Tab -> [at : {"closed", "fetching", "loading", "open"}, sub : {"no", "asked", "on"},
                      history : [Message -> {"no", "text", "gone"}]]]
  /\ shown \in [Tab -> [Message -> {"no", "text", "gone"}]]
  /\ \A g \in Tab : \A i \in DOMAIN inbox[g] : inbox[g][i].m \in Message
  /\ oldest \subseteq Message /\ missed \subseteq Tab

\* A page that has the conversation open, to which nothing is on its way.
UpToDate(g, m) ==
  /\ tab[g].at = "open" /\ inbox[g] = <<>> /\ g \notin missed
  /\ \A p \in Proc : chatCall[p].m # m

\* A message deleted for everyone, of those the history has room for, is text on
\* no page once its deletion has arrived, in whatever order the page got history
\* and events, unless the page missed one: it came between the reading of the
\* history and its display, before the subscription took or not at all; or the
\* history did not come, or the sender was still publishing the deleted message.
\* Opening the conversation again mends it.
UnsentStaysUnsent ==
  \A g \in Tab, m \in oldest : UpToDate(g, m) /\ stored[m] = "deleted" => shown[g][m] # "text"

\* Every message that was sent, of those the history has room for, is on every page
\* that has the conversation open, under the same conditions.
ThreadIsComplete ==
  \A g \in Tab, m \in oldest : UpToDate(g, m) /\ stored[m] = "acked" => shown[g][m] = "text"

\* Both of them: a page that is up to date shows the part of the thread that
\* listMessages returns as it is stored.
PagesShowTheThread == UnsentStaysUnsent /\ ThreadIsComplete

==============================================================================
