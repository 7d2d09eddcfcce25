-------------------------- MODULE ControlRelay_proofs --------------------------
(***************************************************************************)
(* For any number of agents, pauses and faults: control is relayed to an   *)
(* agent the engine watches, a session under control has somebody who will *)
(* end it unless a failing statement or a crash took them away, row,       *)
(* engine and injectors agree on pausing whenever everything has arrived,  *)
(* and a session that ends after its agents have entered takes them along. *)
(***************************************************************************)
EXTENDS ControlRelay, TLAPS

\* What the relay, the watch and the end of the session depend on.
RelayTypes ==
  /\ db \in Statuses
  /\ conn \in [Agent -> {"none", "selected", "granted", "open", "gone"}]
  /\ clients \subseteq Agent
  /\ meta \in {NoMeta} \cup [agent : Agent, status : Live]
  /\ writes \in [Kinds -> Nat] /\ crashes \in Nat /\ failed \in Nat

\* The engine's client table holds the agents it has entered and not removed.
WatchedIsOpen == \A a \in Agent : a \in clients <=> conn[a] = "open"

RelayInv == RelayTypes /\ WatchedIsOpen /\ RelayIsAttended

LEMMA RelayInitial == Init => RelayInv
<1> SUFFICES ASSUME Init PROVE RelayInv
  OBVIOUS
<1>1. RelayTypes
  BY DEF Init, RelayTypes, Statuses, Kinds
<1>2. WatchedIsOpen /\ RelayIsAttended
  BY DEF Init, WatchedIsOpen, RelayIsAttended, RelayTargetIsWatched, SomeoneWillEndIt, Live
<1> QED  BY <1>1, <1>2 DEF RelayInv

\* A step that leaves the client table alone and the row's status on its side.
LEMMA KeepsWatch ==
  ASSUME RelayInv, RelayTypes', clients' = clients,
         \A a \in Agent : conn'[a] = "open" <=> conn[a] = "open",
         \A a \in Agent : conn[a] = "granted" => conn'[a] = "granted",
         meta'.agent = meta.agent, meta = NoMeta => meta' = NoMeta,
         db' \in Live => db \in Live \/ \E a \in Agent : conn'[a] = "granted",
         db' \in Live /\ ~abandoned' => writes'["end"] = writes["end"],
         ~abandoned' => ~abandoned \/ \E a \in Agent : conn'[a] = "granted"
  PROVE  RelayInv'
<1>1. WatchedIsOpen'
  BY DEF RelayInv, WatchedIsOpen
<1>2. RelayTargetIsWatched'
  <2> SUFFICES ASSUME meta' # NoMeta PROVE meta'.agent \in clients /\ conn'[meta'.agent] = "open"
    BY DEF RelayTargetIsWatched
  <2>1. meta # NoMeta /\ meta.agent \in clients /\ meta.agent \in Agent /\ conn[meta.agent] = "open"
    BY DEF RelayInv, RelayTypes, RelayIsAttended, RelayTargetIsWatched
  <2> QED  BY <2>1
<1>3. SomeoneWillEndIt'
  BY DEF RelayInv, RelayIsAttended, SomeoneWillEndIt
<1> QED  BY <1>1, <1>2, <1>3 DEF RelayInv, RelayIsAttended

LEMMA StepConnect ==
  ASSUME RelayInv, NEW a \in Agent, Connect(a) \/ Grant(a)
  PROVE  RelayInv'
<1>1. CASE Connect(a)
  <2>1. RelayTypes'
    BY <1>1 DEF Connect, RelayInv, RelayTypes, traffic, bounds
  <2> QED  BY <1>1, <2>1, KeepsWatch DEF Connect, RelayInv, RelayTypes, traffic, bounds, history
<1>2. CASE Grant(a)
  <2>1. RelayTypes'
    BY <1>2 DEF Grant, RelayInv, RelayTypes, traffic, bounds, Statuses
  <2>2. conn'[a] = "granted" /\ conn[a] = "selected" /\ \A b \in Agent \ {a} : conn'[b] = conn[b]
    BY <1>2 DEF Grant, RelayInv, RelayTypes
  <2>3. UNCHANGED <<clients, meta, writes>>
    BY <1>2 DEF Grant, traffic, bounds
  <2>4. \E b \in Agent : conn'[b] = "granted"
    BY <2>2
  <2>5. \A b \in Agent : (conn'[b] = "open" <=> conn[b] = "open") /\ (conn[b] = "granted" => conn'[b] = "granted")
    BY <2>2
  <2> QED  BY <2>1, <2>3, <2>4, <2>5, KeepsWatch
<1> QED  BY <1>1, <1>2

\* A registration that fails leaves the session to nobody, and says so, only
\* when it had been granted.
LEMMA StepRegistrationFails ==
  ASSUME RelayInv, NEW a \in Agent, RegistrationFails(a)
  PROVE  RelayInv'
<1>1. /\ conn' = [conn EXCEPT ![a] = "gone"] /\ failed' = failed + 1
      /\ abandoned' = (abandoned \/ conn[a] = "granted")
      /\ conn[a] \in {"selected", "granted"} /\ UNCHANGED <<db, clients, meta, writes, crashes>>
  BY DEF RegistrationFails, traffic
<1>2. RelayTypes'
  BY <1>1 DEF RelayInv, RelayTypes
<1>3. \A b \in Agent : b # a => conn'[b] = conn[b]
  BY <1>1 DEF RelayInv, RelayTypes
<1>4. WatchedIsOpen'
  BY <1>1 DEF RelayInv, RelayTypes, WatchedIsOpen
<1>5. RelayTargetIsWatched'
  <2> SUFFICES ASSUME meta # NoMeta PROVE meta.agent \in clients /\ conn'[meta.agent] = "open"
    BY <1>1 DEF RelayTargetIsWatched
  <2>1. meta.agent \in clients /\ meta.agent \in Agent /\ conn[meta.agent] = "open"
    BY DEF RelayInv, RelayTypes, RelayIsAttended, RelayTargetIsWatched
  <2> QED  BY <1>1, <1>3, <2>1
<1>6. SomeoneWillEndIt'
  <2> SUFFICES ASSUME db \in Live, ~abandoned, conn[a] = "selected"
               PROVE  (\E b \in Agent : conn'[b] = "granted") \/ clients # {} \/ writes["end"] > 0
    BY <1>1 DEF SomeoneWillEndIt
  <2>1. (\E b \in Agent : conn[b] = "granted") \/ clients # {} \/ writes["end"] > 0
    BY DEF RelayInv, RelayIsAttended, SomeoneWillEndIt
  <2> QED  BY <1>3, <2>1
<1> QED  BY <1>2, <1>4, <1>5, <1>6 DEF RelayInv, RelayIsAttended

LEMMA StepEnterRelay ==
  ASSUME RelayInv, NEW a \in Agent, EnterRelay(a)
  PROVE  RelayInv'
<1>1. /\ conn' = [conn EXCEPT ![a] = "open"] /\ clients' = clients \cup {a}
      /\ meta' = [agent |-> a, status |-> "granted"] /\ UNCHANGED <<db, writes, crashes, failed>>
  BY DEF EnterRelay, bounds
<1>2. RelayTypes'
  BY <1>1 DEF RelayInv, RelayTypes, Live
<1>3. WatchedIsOpen'
  BY <1>1 DEF RelayInv, RelayTypes, WatchedIsOpen
<1>4. RelayTargetIsWatched'
  BY <1>1 DEF RelayInv, RelayTypes, RelayTargetIsWatched
<1>5. SomeoneWillEndIt'
  BY <1>1 DEF SomeoneWillEndIt
<1> QED  BY <1>2, <1>3, <1>4, <1>5 DEF RelayInv, RelayIsAttended

\* Whoever removes an agent leaves a write that ends the session behind.
LEMMA StepRemove ==
  ASSUME RelayInv, NEW a \in Agent, Remove(a)
  PROVE  RelayInv'
<1>1. /\ conn' = [conn EXCEPT ![a] = "gone"] /\ clients' = clients \ {a}
      /\ meta' = (IF meta.agent = a THEN NoMeta ELSE meta)
      /\ writes' = [writes EXCEPT !["end"] = @ + 1] /\ UNCHANGED <<db, crashes, failed>>
  BY DEF Remove, Count, bounds
<1>2. RelayTypes' /\ writes'["end"] > 0
  BY <1>1 DEF RelayInv, RelayTypes, Kinds
<1>3. WatchedIsOpen'
  BY <1>1 DEF RelayInv, RelayTypes, WatchedIsOpen
<1>4. RelayTargetIsWatched'
  <2> SUFFICES ASSUME meta' # NoMeta PROVE meta'.agent \in clients' /\ conn'[meta'.agent] = "open"
    BY DEF RelayTargetIsWatched
  <2>1. meta' = meta /\ meta.agent # a
    BY <1>1
  <2>2. meta.agent \in clients /\ meta.agent \in Agent /\ conn[meta.agent] = "open"
    BY <2>1 DEF RelayInv, RelayTypes, RelayIsAttended, RelayTargetIsWatched
  <2> QED  BY <1>1, <2>1, <2>2 DEF RelayInv, RelayTypes
<1>5. SomeoneWillEndIt'
  BY <1>2 DEF SomeoneWillEndIt
<1> QED  BY <1>2, <1>3, <1>4, <1>5 DEF RelayInv, RelayIsAttended

\* Nothing the relay rests on changes.
LEMMA RelayRest ==
  ASSUME RelayInv, UNCHANGED <<db, conn, clients, meta, writes, crashes, failed, abandoned>>
  PROVE  RelayInv'
BY DEF RelayInv, RelayTypes, WatchedIsOpen, RelayIsAttended, RelayTargetIsWatched, SomeoneWillEndIt

LEMMA StepWatch ==
  ASSUME RelayInv, NEW a \in Agent, AgentGone(a) \/ SocketCloses(a) \/ Heartbeat(a) \/ Pong(a)
  PROVE  RelayInv'
<1>1. Remove(a) \/ UNCHANGED <<db, conn, clients, meta, writes, crashes, failed, abandoned>>
  BY DEF AgentGone, SocketCloses, Heartbeat, Pong, engine, traffic, bounds, history
<1> QED  BY <1>1, StepRemove, RelayRest

LEMMA StepToggle ==
  ASSUME RelayInv, ControlPause \/ ControlResume
  PROVE  RelayInv'
<1>1. PICK from \in Live, to \in Live, kind \in {"pause", "resume"} : Toggle(from, to, kind)
  BY DEF ControlPause, ControlResume, Live
<1>2. /\ meta.status = from /\ meta' = [meta EXCEPT !.status = to]
      /\ writes' = [writes EXCEPT ![kind] = @ + 1] /\ UNCHANGED <<db, conn, clients, crashes, failed, abandoned>>
  BY <1>1 DEF Toggle, Count
<1>3. meta # NoMeta
  BY <1>2 DEF NoMeta, Live
<1>4. meta \in [agent : Agent, status : Live]
  BY <1>3 DEF RelayInv, RelayTypes
<1>5. meta' \in [agent : Agent, status : Live] /\ meta'.agent = meta.agent
  BY <1>2, <1>4
<1>6. RelayTypes' /\ writes'["end"] = writes["end"]
  BY <1>2, <1>5 DEF RelayInv, RelayTypes, Kinds
<1> QED  BY <1>2, <1>3, <1>5, <1>6, KeepsWatch

LEMMA StepWrite ==
  ASSUME RelayInv, WritePause \/ WriteResume \/ WriteEnd \/ Stop
  PROVE  RelayInv'
<1>1. UNCHANGED <<conn, clients, meta, crashes, failed, abandoned>>
  BY DEF WritePause, WriteResume, WriteEnd, Stop, Wrote, Missed, engine, bounds, history
<1>2. RelayTypes' /\ (db' \in Live => db \in Live /\ writes'["end"] = writes["end"])
  <2>1. CASE WritePause
    <3>1. writes["pause"] > 0 /\ writes' = [writes EXCEPT !["pause"] = @ + (0 - 1)]
      BY <2>1 DEF WritePause, Count
    <3>2. db' = db \/ (db = "granted" /\ db' = "paused")
      BY <2>1 DEF WritePause, Wrote, Missed
    <3> QED  BY <1>1, <3>1, <3>2 DEF RelayInv, RelayTypes, Kinds, Statuses, Live
  <2>2. CASE WriteResume
    <3>1. writes["resume"] > 0 /\ writes' = [writes EXCEPT !["resume"] = @ + (0 - 1)]
      BY <2>2 DEF WriteResume, Count
    <3>2. db' = db \/ (db = "paused" /\ db' = "granted")
      BY <2>2 DEF WriteResume, Wrote, Missed
    <3> QED  BY <1>1, <3>1, <3>2 DEF RelayInv, RelayTypes, Kinds, Statuses, Live
  <2>3. CASE WriteEnd
    <3>1. writes["end"] > 0 /\ writes' = [writes EXCEPT !["end"] = @ + (0 - 1)]
      BY <2>3 DEF WriteEnd, Count
    <3>2. db' = "ended"
      BY <2>3 DEF WriteEnd, Wrote, Missed
    <3> QED  BY <1>1, <3>1, <3>2 DEF RelayInv, RelayTypes, Kinds, Statuses, Live
  <2>4. CASE Stop
    BY <1>1, <2>4 DEF Stop, Wrote, RelayInv, RelayTypes, Statuses, Live
  <2> QED  BY <2>1, <2>2, <2>3, <2>4
<1> QED  BY <1>1, <1>2, KeepsWatch

LEMMA StepWriteFails ==
  ASSUME RelayInv, NEW k \in Kinds, WriteFails(k)
  PROVE  RelayInv'
<1>1. /\ writes[k] > 0 /\ writes' = [writes EXCEPT ![k] = @ + (0 - 1)] /\ failed' = failed + 1
      /\ abandoned' = (abandoned \/ k = "end") /\ UNCHANGED <<db, conn, clients, meta, crashes>>
  BY DEF WriteFails, Count, engine
<1>2. RelayTypes'
  BY <1>1 DEF RelayInv, RelayTypes
<1>3. k # "end" => writes'["end"] = writes["end"]
  BY <1>1 DEF RelayInv, RelayTypes, Kinds
<1> QED  BY <1>1, <1>2, <1>3, KeepsWatch

LEMMA StepCrash ==
  ASSUME RelayInv, Crash
  PROVE  RelayInv'
<1>1. /\ clients' = {} /\ meta' = NoMeta /\ db' = db /\ crashes' = crashes + 1
      /\ writes' = [k \in Kinds |-> 0] /\ abandoned' = TRUE /\ failed' = failed
      /\ conn' = [a \in Agent |-> IF conn[a] = "none" THEN "none" ELSE "gone"]
  BY DEF Crash
<1>2. RelayTypes'
  BY <1>1 DEF RelayInv, RelayTypes
<1>3. WatchedIsOpen' /\ RelayTargetIsWatched' /\ SomeoneWillEndIt'
  BY <1>1, <1>2 DEF WatchedIsOpen, RelayTargetIsWatched, SomeoneWillEndIt
<1> QED  BY <1>2, <1>3 DEF RelayInv, RelayIsAttended

LEMMA RelayStep == RelayInv /\ [Next]_vars => RelayInv'
<1> SUFFICES ASSUME RelayInv, [Next]_vars PROVE RelayInv'
  OBVIOUS
<1>1. ASSUME NEW a \in Agent, Connect(a) \/ Grant(a) \/ EnterRelay(a) PROVE RelayInv'
  BY <1>1, StepConnect, StepEnterRelay
<1>2. ASSUME NEW a \in Agent, AgentGone(a) \/ SocketCloses(a) \/ Heartbeat(a) \/ Pong(a) PROVE RelayInv'
  BY <1>2, StepWatch
<1>8. ASSUME NEW a \in Agent, RegistrationFails(a) PROVE RelayInv'
  BY <1>8, StepRegistrationFails
<1>9. ASSUME NEW k \in Kinds, WriteFails(k) PROVE RelayInv'
  BY <1>9, StepWriteFails
<1>3. CASE ControlPause \/ ControlResume
  BY <1>3, StepToggle
<1>4. CASE WritePause \/ WriteResume \/ WriteEnd \/ Stop
  BY <1>4, StepWrite
<1>5. CASE Emit \/ EmitFails \/ \E st \in Statuses : Deliver(st) \/ LosePost(st)
  BY <1>5, RelayRest DEF Emit, EmitFails, Deliver, LosePost, engine, bounds, history
<1>6. CASE Crash
  BY <1>6, StepCrash
<1>7. CASE UNCHANGED vars
  BY <1>7, RelayRest DEF vars, engine, traffic, bounds, history
<1> QED  BY <1>1, <1>2, <1>3, <1>4, <1>5, <1>6, <1>7, <1>8, <1>9 DEF Next

\* However registrations, drops, pauses and faults interleave, control is
\* relayed to an agent that is watched, and a session under control is left to
\* nobody only by a registration that fails after its grant, an end that fails
\* to be written or a crash, and only until the next grant.
THEOREM RelayIsAttendedHolds == Spec => []RelayIsAttended
<1>1. RelayInv => RelayIsAttended
  BY DEF RelayInv
<1> QED  BY <1>1, RelayInitial, RelayStep, PTL DEF Spec

------------------------------------------------------------------------------
(***************************************************************************)
(* Pausing                                                                 *)
(***************************************************************************)
Calm == ~unsettled /\ lost = 0 /\ crashes = 0

\* What is on its way from a grant, a pause or a resume to the injectors.
Underway ==
  writes["pause"] + writes["resume"] + emits
    + posts["agent_pending"] + posts["granted"] + posts["paused"] + posts["ended"]

\* Agents whose registration has been granted and that have not been removed.
Registered == {a \in Agent : conn[a] \in {"granted", "open"}}

\* Before the grant nothing has been started.
Untouched == Registered = {} /\ Underway = 0

\* Under control, one change at a time goes from the engine's meta to the row,
\* from there to a post, and from the post to the injectors.
InStep ==
  /\ \A a, b \in Registered : a = b
  /\ Underway <= 1
  /\ \A a \in Agent : conn[a] = "granted" => db = "granted" /\ Underway = 0
  /\ writes["pause"] > 0 => db = "granted" /\ (meta # NoMeta => meta.status = "paused")
  /\ writes["resume"] > 0 => db = "paused" /\ (meta # NoMeta => meta.status = "granted")
  /\ writes["pause"] = 0 /\ writes["resume"] = 0 => (meta # NoMeta => meta.status = db)
  /\ \A st \in Statuses : posts[st] > 0 => st = db
  /\ emits = 0 /\ (\A st \in Statuses : posts[st] = 0) =>
       \A a \in clients : sock[a] = "open" => (injector[a] = "paused" <=> db = "paused")

PauseInv ==
  Calm => /\ db = "agent_pending" => Untouched
          /\ db \in Live => InStep

LEMMA Tallies ==
  ASSUME TypeOK
  PROVE  /\ \A k \in Kinds : writes[k] \in Nat
         /\ \A st \in Statuses : posts[st] \in Nat
         /\ emits \in Nat /\ Underway \in Nat
         /\ {"pause", "resume", "end"} = Kinds /\ {"agent_pending", "granted", "paused", "ended"} = Statuses
  BY DEF TypeOK, Underway, Kinds, Statuses

LEMMA RemoveTypes ==
  ASSUME TypeOK, RelayTypes', NEW a \in Agent, Remove(a)
  PROVE  /\ UNCHANGED <<db, injector, emits, posts, toggles, lost, failed, crashes, unsettled, abandoned>>
         /\ isAlive' \in [Agent -> BOOLEAN] /\ stopping' \subseteq Agent
  BY DEF TypeOK, Remove, bounds

LEMMA TypeOKInitially == Init => TypeOK
<1> SUFFICES ASSUME Init PROVE TypeOK
  OBVIOUS
<1>0. FALSE \in BOOLEAN
  OBVIOUS
<1>1. isAlive \in [Agent -> BOOLEAN] /\ unsettled \in BOOLEAN /\ abandoned \in BOOLEAN
  BY <1>0, Zenon DEF Init
<1>2. sock \in [Agent -> {"none", "open", "closing", "closed"}] /\ injector \in [Agent -> {"open", "paused"}]
  BY DEF Init
<1>3. writes \in [Kinds -> Nat] /\ emits \in Nat /\ posts \in [Statuses -> Nat]
      /\ toggles \in Nat /\ lost \in Nat /\ failed \in Nat /\ crashes \in Nat /\ stopping \subseteq Agent
  BY DEF Init
<1> QED  BY <1>1, <1>2, <1>3, RelayInitial DEF TypeOK, RelayInv, RelayTypes

LEMMA TypeOKStep == RelayInv /\ RelayInv' /\ TypeOK /\ [Next]_vars => TypeOK'
<1> SUFFICES ASSUME RelayInv, RelayInv', TypeOK, [Next]_vars PROVE TypeOK'
  OBVIOUS
<1>0. RelayTypes'
  BY DEF RelayInv
<1>1. ASSUME NEW a \in Agent, Connect(a) \/ Grant(a) PROVE TypeOK'
  BY <1>0, <1>1 DEF TypeOK, RelayTypes, Connect, Grant, traffic, bounds, history
<1>2. ASSUME NEW a \in Agent, EnterRelay(a) PROVE TypeOK'
  BY <1>0, <1>2 DEF TypeOK, RelayTypes, EnterRelay, Count, bounds, history, Statuses
<1>3. ASSUME NEW a \in Agent, AgentGone(a) PROVE TypeOK'
  BY <1>0, <1>3 DEF TypeOK, RelayTypes, AgentGone, engine, traffic, bounds, history
<1>15. ASSUME NEW a \in Agent, Pong(a) PROVE TypeOK'
  <2>1. PICK yes \in BOOLEAN : yes = TRUE
    OBVIOUS
  <2>2. isAlive' = [isAlive EXCEPT ![a] = yes]
    BY <1>15, <2>1 DEF Pong
  <2>3. isAlive' \in [Agent -> BOOLEAN]
    BY <2>2 DEF TypeOK
  <2> QED  BY <1>0, <1>15, <2>3 DEF TypeOK, RelayTypes, Pong, traffic, bounds, history
<1>4. ASSUME NEW a \in Agent, SocketCloses(a) PROVE TypeOK'
  <2>1. sock' \in [Agent -> {"none", "open", "closing", "closed"}]
    BY <1>4 DEF TypeOK, SocketCloses
  <2>2. CASE Remove(a)
    BY <1>0, <2>1, <2>2, RemoveTypes DEF TypeOK, RelayTypes
  <2>3. CASE UNCHANGED <<db, injector, engine, traffic, bounds, history>>
    BY <1>0, <2>1, <2>3 DEF TypeOK, RelayTypes, engine, traffic, bounds, history
  <2> QED  BY <1>4, <2>2, <2>3 DEF SocketCloses
<1>5. ASSUME NEW a \in Agent, Heartbeat(a) PROVE TypeOK'
  <2>1. CASE Remove(a) /\ sock' = [sock EXCEPT ![a] = "closed"]
    BY <1>0, <2>1, RemoveTypes DEF TypeOK, RelayTypes
  <2>2. CASE isAlive[a]
    <3>1. PICK no \in BOOLEAN : no = FALSE
      OBVIOUS
    <3>2. isAlive' = [isAlive EXCEPT ![a] = no]
      BY <1>5, <2>2, <3>1 DEF Heartbeat
    <3>3. isAlive' \in [Agent -> BOOLEAN]
      BY <3>2 DEF TypeOK
    <3> QED  BY <1>0, <1>5, <2>2, <3>3 DEF TypeOK, RelayTypes, Heartbeat, traffic, bounds, history
  <2> QED  BY <1>5, <2>1, <2>2 DEF Heartbeat
<1>6. CASE ControlPause \/ ControlResume
  <2>1. PICK from \in Live, to \in Live, kind \in {"pause", "resume"} : Toggle(from, to, kind)
    BY <1>6 DEF ControlPause, ControlResume, Live
  <2> QED  BY <1>0, <2>1 DEF TypeOK, RelayTypes, Toggle
<1>7. ASSUME Wrote("paused") \/ Wrote("granted") \/ Wrote("ended") PROVE TypeOK'
  BY <1>0, <1>7 DEF TypeOK, RelayTypes, Wrote, engine, bounds
<1>8. ASSUME Missed PROVE TypeOK'
  BY <1>0, <1>8 DEF TypeOK, RelayTypes, Missed, engine, bounds, history
<1>9. CASE WritePause \/ WriteResume \/ WriteEnd \/ Stop
  BY <1>7, <1>8, <1>9 DEF WritePause, WriteResume, WriteEnd, Stop
<1>10. CASE Emit
  BY <1>0, <1>10 DEF TypeOK, RelayTypes, Emit, Count, engine, bounds, history
<1>11. ASSUME NEW st \in Statuses, Deliver(st) PROVE TypeOK'
  <2>1. posts' \in [Statuses -> Nat]
    BY <1>11 DEF TypeOK, Deliver, Count
  <2>2. injector' \in [Agent -> {"open", "paused"}] /\ sock' \in [Agent -> {"none", "open", "closing", "closed"}]
    BY <1>11 DEF TypeOK, Deliver
  <2> QED  BY <1>0, <1>11, <2>1, <2>2 DEF TypeOK, RelayTypes, Deliver, engine, bounds, history
<1>12. ASSUME NEW st \in Statuses, LosePost(st) PROVE TypeOK'
  <2>1. posts' \in [Statuses -> Nat]
    BY <1>12 DEF TypeOK, LosePost, Count
  <2> QED  BY <1>0, <1>12, <2>1 DEF TypeOK, RelayTypes, LosePost, engine, history
<1>16. ASSUME NEW a \in Agent, RegistrationFails(a) PROVE TypeOK'
  BY <1>0, <1>16 DEF TypeOK, RelayTypes, RegistrationFails, traffic
<1>17. ASSUME NEW k \in Kinds, WriteFails(k) PROVE TypeOK'
  BY <1>0, <1>17 DEF TypeOK, RelayTypes, WriteFails, engine
<1>18. CASE EmitFails
  BY <1>0, <1>18 DEF TypeOK, RelayTypes, EmitFails, engine, history
<1>13. CASE Crash
  BY <1>0, <1>13 DEF TypeOK, RelayTypes, Crash
<1>14. CASE UNCHANGED vars
  BY <1>14 DEF TypeOK, vars, engine, traffic, bounds, history
<1> QED  BY <1>1, <1>2, <1>3, <1>4, <1>5, <1>6, <1>9, <1>10, <1>11, <1>12, <1>13, <1>14, <1>15, <1>16, <1>17, <1>18 DEF Next

LEMMA RelayTyped == Spec => [](RelayInv /\ TypeOK)
  BY RelayInitial, RelayStep, TypeOKInitially, TypeOKStep, PTL DEF Spec

\* Every variable holds a value of its kind: no count of writes, emissions or
\* posts under way drops below zero.
THEOREM RelayTypeCorrect == Spec => []TypeOK
  BY RelayTyped, PTL


\* A step keeps what is under way in step: lemmas about what moves.
LEMMA SameUnderway ==
  ASSUME TypeOK, UNCHANGED <<emits, posts>>, writes'["pause"] = writes["pause"], writes'["resume"] = writes["resume"]
  PROVE  Underway' = Underway
  BY DEF Underway

\* A step that leaves the meta and the injectors alone, registers nobody and
\* at most closes sockets or drops connections.
LEMMA CalmFrame ==
  ASSUME PauseInv, TypeOK, Calm' => Calm, db' = db, UNCHANGED <<injector, emits, posts>>,
         writes'["pause"] = writes["pause"], writes'["resume"] = writes["resume"],
         clients' \subseteq clients, meta' = meta \/ meta' = NoMeta,
         \A a \in Agent : conn'[a] = "granted" => conn[a] = "granted",
         \A a \in Agent : conn'[a] = "open" => conn[a] = "open",
         \A a \in clients : sock'[a] = "open" => sock[a] = "open"
  PROVE  PauseInv'
<1>1. Underway' = Underway
  BY SameUnderway
<1>2. Registered' \subseteq Registered
  BY DEF Registered
<1>3. Untouched => Untouched'
  BY <1>1, <1>2 DEF Untouched
<1>4. InStep => InStep'
  BY <1>1, <1>2 DEF InStep
<1> QED  BY <1>3, <1>4 DEF PauseInv

LEMMA CalmEnded ==
  ASSUME db' = "ended"
  PROVE  PauseInv'
  BY DEF PauseInv, Live

LEMMA PauseInitial == Init => PauseInv
  BY DEF Init, PauseInv, Untouched, Underway, Registered, Kinds, Statuses, Live

\* What is under way, counter by counter.
LEMMA UnderwayNat ==
  ASSUME TypeOK
  PROVE  /\ writes["pause"] \in Nat /\ writes["resume"] \in Nat /\ emits \in Nat
         /\ posts["agent_pending"] \in Nat /\ posts["granted"] \in Nat
         /\ posts["paused"] \in Nat /\ posts["ended"] \in Nat
  BY DEF TypeOK, Kinds, Statuses

LEMMA NoneUnderway ==
  ASSUME TypeOK, Underway = 0
  PROVE  writes["pause"] = 0 /\ writes["resume"] = 0 /\ emits = 0 /\ \A st \in Statuses : posts[st] = 0
<1>1. /\ writes["pause"] = 0 /\ writes["resume"] = 0 /\ emits = 0
      /\ posts["agent_pending"] = 0 /\ posts["granted"] = 0 /\ posts["paused"] = 0 /\ posts["ended"] = 0
  <2>1. PICK i, j, k, l, m, n, o \in Nat :
          /\ i = writes["pause"] /\ j = writes["resume"] /\ k = emits
          /\ l = posts["agent_pending"] /\ m = posts["granted"] /\ n = posts["paused"] /\ o = posts["ended"]
    BY UnderwayNat
  <2>2. i + j + k + l + m + n + o = 0
    BY <2>1 DEF Underway
  <2>3. i = 0 /\ j = 0 /\ k = 0 /\ l = 0 /\ m = 0 /\ n = 0 /\ o = 0
    BY <2>2
  <2> QED  BY <2>1, <2>3
<1> QED  BY <1>1 DEF Statuses

LEMMA GrantPause ==
  ASSUME PauseInv, TypeOK, RelayInv, NEW a \in Agent, Grant(a)
  PROVE  PauseInv'
<1> SUFFICES ASSUME Calm' PROVE InStep'
  BY DEF Grant, PauseInv
<1>1. Calm /\ db = "agent_pending"
  BY DEF Grant, Calm, bounds
<1>2. Registered = {} /\ Underway = 0
  BY <1>1 DEF PauseInv, Untouched
<1>3. /\ db' = "granted" /\ UNCHANGED <<writes, emits, posts, clients, meta>>
      /\ \A b \in Agent : b # a => conn'[b] = conn[b]
  BY DEF Grant, traffic, TypeOK
<1>4. Underway' = 0
  BY <1>2, <1>3, SameUnderway
<1>5. \A b, c \in Registered' : b = c
  BY <1>2, <1>3 DEF Registered
<1>6. clients = {} /\ meta = NoMeta
  BY <1>2 DEF Registered, RelayInv, RelayTypes, WatchedIsOpen, RelayIsAttended, RelayTargetIsWatched
<1>7. (\A k \in {"pause", "resume"} : writes[k] = 0) /\ emits = 0 /\ \A st \in Statuses : posts[st] = 0
  BY <1>2, NoneUnderway
<1>8. writes["pause"] = 0 /\ writes["resume"] = 0
  BY <1>7
<1> QED  BY <1>3, <1>4, <1>5, <1>6, <1>7, <1>8 DEF InStep

LEMMA CalmSame ==
  ASSUME UNCHANGED <<unsettled, lost, crashes>>
  PROVE  Calm' = Calm
  BY DEF Calm

LEMMA EnterRelayPause ==
  ASSUME PauseInv, TypeOK, TypeOK', RelayInv, NEW a \in Agent, EnterRelay(a)
  PROVE  PauseInv'
<1>0. /\ db' = db /\ conn[a] = "granted" /\ conn' = [conn EXCEPT ![a] = "open"]
      /\ posts' = Count(posts, "granted", 1) /\ UNCHANGED <<writes, emits, sock, injector>>
      /\ meta' = [agent |-> a, status |-> "granted"] /\ Calm' = Calm
  BY CalmSame DEF EnterRelay, bounds, history
<1>1. Calm' => db' # "agent_pending"
  BY <1>0 DEF PauseInv, Untouched, Registered
<1> SUFFICES ASSUME Calm', db' \in Live PROVE InStep'
  BY <1>1 DEF PauseInv
<1>2. InStep
  BY <1>0 DEF PauseInv
<1>3. db = "granted" /\ Underway = 0
  BY <1>0, <1>2 DEF InStep
<1>4. writes["pause"] = 0 /\ writes["resume"] = 0 /\ emits = 0 /\ \A st \in Statuses : posts[st] = 0
  BY <1>3, NoneUnderway
<1>5. \A st \in Statuses : posts'[st] = IF st = "granted" THEN 1 ELSE 0
  BY <1>0, <1>4 DEF Count, TypeOK
<1>6. Underway' = 1
  BY <1>0, <1>4, <1>5 DEF Underway, Statuses
<1>7. Registered' = Registered /\ \A b \in Agent : conn'[b] # "granted"
  BY <1>0, <1>2 DEF InStep, Registered, TypeOK
<1>8. posts'["granted"] # 0 /\ "granted" \in Statuses
  BY <1>5 DEF Statuses
<1> QED  BY <1>0, <1>2, <1>3, <1>4, <1>5, <1>6, <1>7, <1>8 DEF InStep

LEMMA QuietMeans ==
  ASSUME TypeOK, Quiet
  PROVE  Underway = 0 /\ \A a \in Agent : conn[a] # "granted"
<1>1. writes["pause"] = 0 /\ writes["resume"] = 0 /\ \A st \in Statuses : posts[st] = 0
  BY Tallies DEF Quiet
<1> QED  BY <1>1 DEF Quiet, Handshakes, Underway, Statuses

LEMMA TogglePause ==
  ASSUME PauseInv, TypeOK, RelayInv, ControlPause \/ ControlResume
  PROVE  PauseInv'
<1>0. PICK from \in Live, to \in Live, kind \in {"pause", "resume"} :
        /\ Toggle(from, to, kind)
        /\ \/ from = "granted" /\ to = "paused" /\ kind = "pause"
           \/ from = "paused" /\ to = "granted" /\ kind = "resume"
  <2>1. CASE Toggle("granted", "paused", "pause")
    BY <2>1 DEF Live
  <2>2. CASE Toggle("paused", "granted", "resume")
    BY <2>2 DEF Live
  <2> QED  BY <2>1, <2>2 DEF ControlPause, ControlResume
<1>1. /\ meta.status = from /\ meta' = [meta EXCEPT !.status = to] /\ writes' = Count(writes, kind, 1)
      /\ UNCHANGED <<db, sock, injector, conn, clients, emits, posts>> /\ (Calm' => Calm /\ Quiet)
  BY <1>0 DEF Toggle, Calm
<1>2. meta # NoMeta /\ meta'.status = to
  BY <1>1 DEF NoMeta, Live, TypeOK
<1>3. Registered # {}
  BY <1>2 DEF RelayInv, RelayTypes, RelayIsAttended, RelayTargetIsWatched, Registered
<1>4. Calm' => db # "agent_pending"
  BY <1>1, <1>3 DEF PauseInv, Untouched
<1> SUFFICES ASSUME Calm', db \in Live PROVE InStep'
  BY <1>1, <1>4 DEF PauseInv
<1>5. InStep /\ Underway = 0 /\ \A a \in Agent : conn[a] # "granted"
  BY <1>1, QuietMeans DEF PauseInv
<1>6. writes["pause"] = 0 /\ writes["resume"] = 0 /\ emits = 0 /\ \A st \in Statuses : posts[st] = 0
  BY <1>5, NoneUnderway
<1>7. db = from
  BY <1>1, <1>2, <1>5, <1>6 DEF InStep
<1>8. \A k \in Kinds : writes'[k] = IF k = kind THEN writes[k] + 1 ELSE writes[k]
  BY <1>0, <1>1 DEF Count, TypeOK, Kinds
<1>9. writes'["pause"] = (IF kind = "pause" THEN 1 ELSE 0) /\ writes'["resume"] = (IF kind = "resume" THEN 1 ELSE 0)
  BY <1>6, <1>8 DEF Kinds
<1>10. Underway' = 1
  BY <1>1, <1>6, <1>9 DEF Underway, Statuses
<1>11. Registered' = Registered
  BY <1>1 DEF Registered
<1> QED  BY <1>0, <1>1, <1>2, <1>5, <1>6, <1>7, <1>9, <1>10, <1>11 DEF InStep

\* The write of a pause or a resume hits the row: one emission replaces it.
LEMMA WritePauseStep ==
  ASSUME PauseInv, TypeOK, TypeOK', WritePause \/ WriteResume
  PROVE  PauseInv'
<1>0. PICK from \in Live, to \in Live, kind \in {"pause", "resume"}, other \in {"pause", "resume"} :
        /\ writes[kind] > 0 /\ writes' = Count(writes, kind, 0 - 1)
        /\ IF db = from THEN Wrote(to) ELSE Missed
        /\ \/ from = "granted" /\ to = "paused" /\ kind = "pause" /\ other = "resume"
           \/ from = "paused" /\ to = "granted" /\ kind = "resume" /\ other = "pause"
  BY DEF WritePause, WriteResume, Live
<1>1. UNCHANGED <<conn, clients, meta, sock, injector, posts, lost, crashes, unsettled>>
  BY <1>0 DEF Wrote, Missed, engine, bounds, history
<1>2. Calm' = Calm /\ Registered' = Registered
  BY <1>1, CalmSame DEF Registered
<1>3. writes[kind] \in Nat /\ writes[other] \in Nat /\ Underway >= writes[kind] + writes[other]
  BY <1>0, Tallies DEF Underway, Statuses, Kinds
<1>4. Calm => db # "agent_pending"
  BY <1>0, <1>3 DEF PauseInv, Untouched
<1>5. CASE db \notin Live
  BY <1>0, <1>1, <1>2, <1>4, <1>5 DEF PauseInv, Missed
<1>6. CASE db \in Live
  <2> SUFFICES ASSUME Calm PROVE db' \in Live /\ InStep'
    BY <1>2, <1>4, <1>6 DEF PauseInv, Live
  <2>1. InStep
    BY <1>6 DEF PauseInv
  <2>2. db = from /\ writes[kind] = 1 /\ writes[other] = 0 /\ Underway = 1
    BY <1>0, <1>3, <2>1, Tallies DEF InStep
  <2>3. emits = 0 /\ \A st \in Statuses : posts[st] = 0
    BY <1>0, <2>2, Tallies DEF Underway
  <2>4. db' = to /\ emits' = 1
    BY <1>0, <2>2, <2>3 DEF Wrote
  <2>5. writes'[kind] = 0 /\ writes'[other] = 0
    BY <1>0, <2>2 DEF Count, TypeOK, Kinds
  <2>6. writes'["pause"] = 0 /\ writes'["resume"] = 0
    BY <1>0, <2>5
  <2>7. Underway' = 1
    BY <1>1, <2>3, <2>4, <2>6 DEF Underway, Statuses
  <2>8. \A a \in Agent : conn[a] # "granted"
    BY <2>1, <2>2 DEF InStep
  <2>9. meta # NoMeta => meta.status = to
    BY <1>0, <2>1, <2>2 DEF InStep
  <2> QED  BY <1>1, <1>2, <2>1, <2>3, <2>4, <2>6, <2>7, <2>8, <2>9 DEF InStep
<1> QED  BY <1>5, <1>6

LEMMA EmitPause ==
  ASSUME PauseInv, TypeOK, TypeOK', Emit
  PROVE  PauseInv'
<1>1. /\ emits > 0 /\ emits' = emits - 1 /\ posts' = Count(posts, db, 1)
      /\ UNCHANGED <<db, conn, clients, meta, sock, injector, writes, lost, crashes, unsettled>>
  BY DEF Emit, engine, bounds, history
<1>2. Calm' = Calm /\ Registered' = Registered
  BY <1>1, CalmSame DEF Registered
<1>3. Calm => db # "agent_pending"
  BY <1>1, NoneUnderway DEF PauseInv, Untouched
<1> SUFFICES ASSUME Calm, db \in Live PROVE InStep'
  BY <1>1, <1>2, <1>3 DEF PauseInv
<1>4. InStep
  BY DEF PauseInv
<1>5. emits = 1 /\ Underway = 1 /\ writes["pause"] = 0 /\ writes["resume"] = 0 /\ \A st \in Statuses : posts[st] = 0
  <2>1. emits \in Nat /\ Underway <= 1
    BY <1>4, UnderwayNat DEF InStep
  <2>2. /\ emits = 1 /\ Underway = 1 /\ writes["pause"] = 0 /\ writes["resume"] = 0
        /\ posts["agent_pending"] = 0 /\ posts["granted"] = 0 /\ posts["paused"] = 0 /\ posts["ended"] = 0
    BY <1>1, <2>1, UnderwayNat DEF Underway
  <2> QED  BY <2>2 DEF Statuses
<1>6. \A st \in Statuses : posts'[st] = IF st = db THEN 1 ELSE 0
  BY <1>1, <1>5 DEF Count, TypeOK
<1>7. Underway' = 1
  BY <1>1, <1>5, <1>6 DEF Underway, Statuses, Live
<1>8. \A a \in Agent : conn[a] # "granted"
  BY <1>4, <1>5 DEF InStep
<1>9. db \in Statuses
  BY DEF TypeOK
<1> QED  BY <1>1, <1>2, <1>4, <1>5, <1>6, <1>7, <1>8, <1>9 DEF InStep

\* The post reaches every connected agent: the injectors follow the row.
LEMMA DeliverPause ==
  ASSUME PauseInv, TypeOK, TypeOK', RelayInv, NEW st \in Statuses, Deliver(st)
  PROVE  PauseInv'
<1>1. /\ posts[st] > 0 /\ posts' = Count(posts, st, 0 - 1)
      /\ UNCHANGED <<db, conn, clients, meta, writes, emits, lost, crashes, unsettled>>
  BY DEF Deliver, engine, bounds, history
<1>2. Calm' = Calm /\ Registered' = Registered
  BY <1>1, CalmSame DEF Registered
<1>3. Calm => db # "agent_pending"
  BY <1>1, NoneUnderway DEF PauseInv, Untouched
<1> SUFFICES ASSUME Calm, db \in Live PROVE InStep'
  BY <1>1, <1>2, <1>3 DEF PauseInv
<1>4. InStep /\ st = db
  BY <1>1 DEF PauseInv, InStep
<1>5. posts[st] = 1 /\ emits = 0 /\ writes["pause"] = 0 /\ writes["resume"] = 0
      /\ \A s \in Statuses \ {st} : posts[s] = 0
  <2>1. Underway <= 1
    BY <1>4 DEF InStep
  <2>2. \A x \in Statuses : posts[x] > 0 => x = st
    BY <1>4 DEF InStep
  <2>3. st = "granted" \/ st = "paused"
    BY <1>4 DEF Live
  <2>4. /\ posts[st] = 1 /\ emits = 0 /\ writes["pause"] = 0 /\ writes["resume"] = 0
        /\ posts["agent_pending"] = 0 /\ posts["ended"] = 0
        /\ (st = "granted" => posts["paused"] = 0) /\ (st = "paused" => posts["granted"] = 0)
    <3>1. PICK i, j, k, l, m, n, o \in Nat :
            /\ i = writes["pause"] /\ j = writes["resume"] /\ k = emits
            /\ l = posts["agent_pending"] /\ m = posts["granted"] /\ n = posts["paused"] /\ o = posts["ended"]
      BY UnderwayNat
    <3>2. i + j + k + l + m + n + o <= 1
      BY <2>1, <3>1 DEF Underway
    <3>3. CASE st = "granted"
      <4>1. m > 0
        BY <1>1, <3>1, <3>3
      <4>2. m = 1 /\ i = 0 /\ j = 0 /\ k = 0 /\ l = 0 /\ n = 0 /\ o = 0
        BY <3>2, <4>1
      <4> QED  BY <3>1, <3>3, <4>2
    <3>4. CASE st = "paused"
      <4>1. n > 0
        BY <1>1, <3>1, <3>4
      <4>2. n = 1 /\ i = 0 /\ j = 0 /\ k = 0 /\ l = 0 /\ m = 0 /\ o = 0
        BY <3>2, <4>1
      <4> QED  BY <3>1, <3>4, <4>2
    <3> QED  BY <2>3, <3>3, <3>4
  <2> QED  BY <2>3, <2>4 DEF Statuses
<1>6. \A s \in Statuses : posts'[s] = 0
  BY <1>1, <1>5 DEF Count, TypeOK
<1>7. Underway' = 0
  BY <1>1, <1>5, <1>6 DEF Underway, Statuses
<1>8. \A a \in clients : sock'[a] = "open" => (injector'[a] = "paused" <=> db = "paused")
  <2>1. clients \subseteq Agent
    BY DEF TypeOK
  <2>2. \A a \in clients : sock'[a] = "open" => sock[a] = "open"
    BY <2>1, <1>4 DEF Deliver, TypeOK
  <2> QED  BY <2>1, <2>2, <1>4 DEF Deliver, TypeOK
<1>9. \A a \in Agent : conn[a] = "granted" => db = "granted"
  BY <1>4 DEF InStep
<1> QED  BY <1>1, <1>2, <1>4, <1>5, <1>6, <1>7, <1>8, <1>9 DEF InStep

LEMMA RemovePause ==
  ASSUME PauseInv, TypeOK, NEW a \in Agent, Remove(a), \A b \in clients : sock'[b] = "open" => sock[b] = "open"
  PROVE  PauseInv'
<1>1. /\ UNCHANGED <<db, injector, emits, posts, lost, crashes, unsettled>> /\ clients' = clients \ {a}
      /\ meta' = (IF meta.agent = a THEN NoMeta ELSE meta)
      /\ conn' = [conn EXCEPT ![a] = "gone"] /\ writes' = Count(writes, "end", 1)
  BY DEF Remove, bounds
<1>2. writes'["pause"] = writes["pause"] /\ writes'["resume"] = writes["resume"]
  BY <1>1 DEF Count, TypeOK, Kinds
<1>3. Calm' = Calm
  BY <1>1, CalmSame
<1>4. (\A b \in Agent : conn'[b] = "granted" => conn[b] = "granted") /\ (\A b \in Agent : conn'[b] = "open" => conn[b] = "open")
  BY <1>1 DEF TypeOK
<1> QED  BY <1>1, <1>2, <1>3, <1>4, CalmFrame

LEMMA PauseStep == RelayInv /\ TypeOK /\ TypeOK' /\ PauseInv /\ [Next]_vars => PauseInv'
<1> SUFFICES ASSUME RelayInv, TypeOK, TypeOK', PauseInv, [Next]_vars PROVE PauseInv'
  OBVIOUS
<1>0. clients \subseteq Agent /\ \A a \in clients : conn[a] = "open"
  BY DEF RelayInv, RelayTypes, WatchedIsOpen
<1>1. ASSUME NEW a \in Agent, Connect(a) PROVE PauseInv'
  <2>1. /\ UNCHANGED <<db, injector, emits, posts, writes, clients, meta, lost, crashes, unsettled>>
        /\ conn[a] = "none" /\ (\E x \in {"selected", "gone"} : conn' = [conn EXCEPT ![a] = x])
        /\ (\E x \in {"open", "closed"} : sock' = [sock EXCEPT ![a] = x])
    BY <1>1 DEF Connect, traffic, bounds, history
  <2>2. (\A b \in Agent : conn'[b] = "granted" => conn[b] = "granted") /\ (\A b \in Agent : conn'[b] = "open" => conn[b] = "open")
    BY <2>1 DEF TypeOK
  <2>3. \A b \in clients : sock'[b] = "open" => sock[b] = "open"
    BY <1>0, <2>1 DEF TypeOK
  <2>4. Calm' = Calm
    BY <2>1, CalmSame
  <2> QED  BY <2>1, <2>2, <2>3, <2>4, CalmFrame
<1>2. ASSUME NEW a \in Agent, AgentGone(a) \/ SocketCloses(a) \/ Heartbeat(a) \/ Pong(a) PROVE PauseInv'
  <2>1. \A b \in clients : sock'[b] = "open" => sock[b] = "open"
    BY <1>0, <1>2 DEF AgentGone, SocketCloses, Heartbeat, Pong, TypeOK
  <2>2. CASE Remove(a)
    BY <2>1, <2>2, RemovePause
  <2>3. CASE ~Remove(a)
    <3>1. UNCHANGED <<db, injector, emits, posts, writes, clients, meta, conn, lost, crashes, unsettled>>
      BY <1>2, <2>3 DEF AgentGone, SocketCloses, Heartbeat, Pong, engine, traffic, bounds, history
    <3> QED  BY <2>1, <3>1, CalmSame, CalmFrame
  <2> QED  BY <2>2, <2>3
<1>3. CASE WriteEnd \/ Stop
  <2>1. db' = "ended"
    BY <1>3 DEF WriteEnd, Stop, Wrote, Missed
  <2> QED  BY <2>1, CalmEnded
<1>4. ASSUME NEW st \in Statuses, LosePost(st) PROVE PauseInv'
  BY <1>4 DEF LosePost, TypeOK, PauseInv, Calm
<1>5. CASE Crash
  BY <1>5 DEF Crash, TypeOK, PauseInv, Calm
<1>7. ASSUME NEW a \in Agent, RegistrationFails(a) PROVE PauseInv'
  <2>1. /\ UNCHANGED <<db, injector, emits, posts, writes, clients, meta, sock, lost, crashes, unsettled>>
        /\ conn' = [conn EXCEPT ![a] = "gone"]
    BY <1>7 DEF RegistrationFails, traffic
  <2>2. (\A b \in Agent : conn'[b] = "granted" => conn[b] = "granted") /\ (\A b \in Agent : conn'[b] = "open" => conn[b] = "open")
    BY <2>1 DEF TypeOK
  <2> QED  BY <2>1, <2>2, CalmSame, CalmFrame
<1>8. ASSUME NEW k \in Kinds, WriteFails(k) PROVE PauseInv'
  <2>1. /\ UNCHANGED <<db, injector, emits, posts, clients, meta, sock, conn, lost, crashes>>
        /\ writes' = Count(writes, k, 0 - 1) /\ unsettled' = (unsettled \/ ~(k = "end"))
    BY <1>8 DEF WriteFails, engine
  <2>2. CASE k = "end"
    <3>1. writes'["pause"] = writes["pause"] /\ writes'["resume"] = writes["resume"]
      BY <2>1, <2>2 DEF Count, TypeOK, Kinds
    <3>2. Calm' => Calm
      BY <2>1 DEF Calm
    <3> QED  BY <2>1, <3>1, <3>2, CalmFrame
  <2>3. CASE k # "end"
    BY <2>1, <2>3 DEF PauseInv, Calm
  <2> QED  BY <2>2, <2>3
<1>9. CASE EmitFails
  BY <1>9 DEF EmitFails, TypeOK, PauseInv, Calm
<1>6. CASE UNCHANGED vars
  <2>1. UNCHANGED <<db, injector, emits, posts, writes, clients, meta, conn, sock, lost, crashes, unsettled>>
    BY <1>6 DEF vars, engine, traffic, bounds, history
  <2> QED  BY <2>1, CalmSame, CalmFrame
<1> QED  BY <1>1, <1>2, <1>3, <1>4, <1>5, <1>6, <1>7, <1>8, <1>9, GrantPause, EnterRelayPause, TogglePause, WritePauseStep, EmitPause,
            DeliverPause DEF Next

\* Row, engine and injectors agree on pausing once everything has arrived, for
\* any number of agents and of pauses and resumes, provided the host's did not
\* overtake each other nor fail to be written, no post was lost and the session
\* was granted once.
THEOREM PauseAgreesWhenQuietHolds == Spec => []PauseAgreesWhenQuiet
<1>1. RelayInv /\ TypeOK /\ PauseInv /\ RelayInv' /\ TypeOK' /\ [Next]_vars => PauseInv'
  BY PauseStep
<1>2. RelayInv /\ TypeOK /\ PauseInv => PauseAgreesWhenQuiet
  <2> SUFFICES ASSUME TypeOK, PauseInv, Quiet, Calm, db \in Live
               PROVE  /\ meta # NoMeta => meta.status = db
                      /\ \A a \in clients : sock[a] = "open" => (injector[a] = "paused" <=> db = "paused")
    BY DEF PauseAgreesWhenQuiet, Calm
  <2>1. InStep
    BY DEF PauseInv
  <2>2. writes["pause"] = 0 /\ writes["resume"] = 0 /\ emits = 0 /\ \A st \in Statuses : posts[st] = 0
    BY QuietMeans, NoneUnderway
  <2> QED  BY <2>1, <2>2 DEF InStep
<1> QED  BY <1>1, <1>2, PauseInitial, RelayTyped, PTL DEF Spec

------------------------------------------------------------------------------
(***************************************************************************)
(* The end of a session.                                                   *)
(***************************************************************************)
EntersBeforeEnd == db = "ended" => Handshakes = {}

\* Once the session has ended, every agent the engine watches has been told to
\* go, or the news is still on its way.
ToldToGo == db = "ended" => emits > 0 \/ posts["ended"] > 0 \/ \A a \in clients : sock[a] # "open"

LEMMA ToldInitial == Init => ToldToGo
  BY DEF Init, ToldToGo

\* No agent joins or comes back to life, and no news is lost on the way.
LEMMA ToldKept ==
  ASSUME ToldToGo, db' = "ended" => db = "ended", clients' \subseteq clients,
         \A a \in clients' : sock'[a] = "open" => sock[a] = "open",
         emits > 0 => emits' > 0 \/ posts'["ended"] > 0,
         posts["ended"] > 0 => posts'["ended"] > 0
  PROVE  ToldToGo'
  BY DEF ToldToGo

LEMMA DeliverTold ==
  ASSUME TypeOK, ToldToGo, NEW st \in Statuses, Deliver(st)
  PROVE  ToldToGo'
<1> DEFINE reached == {a \in clients : sock[a] = "open"}
<1>1. /\ sock' = [a \in Agent |-> IF a \in reached /\ st = "ended" THEN "closing" ELSE sock[a]]
      /\ db' = db /\ clients' = clients /\ emits' = emits /\ posts' = Count(posts, st, 0 - 1)
  BY DEF Deliver, engine
<1>2. CASE st = "ended"
  <2>1. \A a \in clients : sock'[a] # "open"
    BY <1>1, <1>2 DEF TypeOK
  <2> QED  BY <1>1, <2>1 DEF ToldToGo
<1>3. CASE st # "ended"
  <2>1. posts'["ended"] = posts["ended"] /\ sock' = sock
    BY <1>1, <1>3 DEF Count, TypeOK, Statuses
  <2> QED  BY <1>1, <2>1, ToldKept
<1> QED  BY <1>2, <1>3

LEMMA ToldStep ==
  TypeOK /\ RelayInv /\ ToldToGo /\ EntersBeforeEnd /\ (lost = 0)' /\ [Next]_vars => ToldToGo'
<1> SUFFICES ASSUME TypeOK, RelayInv, ToldToGo, EntersBeforeEnd, lost' = 0, [Next]_vars PROVE ToldToGo'
  OBVIOUS
<1>1. ASSUME NEW a \in Agent, Connect(a) PROVE ToldToGo'
  <2>1. db' = db /\ clients' = clients /\ emits' = emits /\ posts' = posts /\ a \notin clients
    BY <1>1 DEF Connect, traffic, RelayInv, WatchedIsOpen
  <2>2. \A b \in clients : sock'[b] = sock[b]
    BY <1>1, <2>1 DEF Connect, TypeOK
  <2> QED  BY <2>1, <2>2, ToldKept
<1>2. ASSUME NEW a \in Agent, Grant(a) PROVE ToldToGo'
  BY <1>2 DEF Grant, ToldToGo
<1>3. ASSUME NEW a \in Agent, EnterRelay(a) PROVE ToldToGo'
  <2>1. a \in Handshakes /\ db' = db
    BY <1>3 DEF EnterRelay, Handshakes
  <2> QED  BY <2>1 DEF EntersBeforeEnd, ToldToGo
<1>4. ASSUME NEW a \in Agent, AgentGone(a) \/ SocketCloses(a) \/ Heartbeat(a) \/ Pong(a) PROVE ToldToGo'
  <2>1. db' = db /\ emits' = emits /\ posts' = posts /\ clients' \subseteq clients
    BY <1>4 DEF AgentGone, SocketCloses, Heartbeat, Pong, Remove, engine, traffic
  <2>2. \A b \in Agent : sock'[b] = "open" => sock[b] = "open"
    BY <1>4 DEF AgentGone, SocketCloses, Heartbeat, Pong, TypeOK
  <2>3. clients \subseteq Agent
    BY DEF TypeOK
  <2> QED  BY <2>1, <2>2, <2>3, ToldKept
<1>5. CASE ControlPause \/ ControlResume
  BY <1>5, ToldKept DEF ControlPause, ControlResume, Toggle
<1>6. CASE Stop \/ WritePause \/ WriteResume \/ WriteEnd
  <2>1. sock' = sock /\ clients' = clients /\ posts' = posts
    BY <1>6 DEF Stop, WritePause, WriteResume, WriteEnd, Wrote, Missed, engine
  <2>2. (db' = db /\ emits' = emits) \/ emits' = emits + 1
    BY <1>6 DEF Stop, WritePause, WriteResume, WriteEnd, Wrote, Missed
  <2>3. emits \in Nat
    BY DEF TypeOK
  <2> QED  BY <2>1, <2>2, <2>3 DEF ToldToGo
<1>7. CASE Emit
  <2>1. posts' = [posts EXCEPT ![db] = @ + 1] /\ db' = db /\ sock' = sock /\ clients' = clients
    BY <1>7 DEF Emit, Count, engine
  <2>2. db = "ended" => posts'["ended"] > 0
    BY <2>1 DEF TypeOK, Statuses
  <2> QED  BY <2>1, <2>2 DEF ToldToGo
<1>8. ASSUME NEW st \in Statuses, Deliver(st) PROVE ToldToGo'
  BY <1>8, DeliverTold
<1>9. ASSUME NEW st \in Statuses, LosePost(st) PROVE FALSE
  BY <1>9 DEF LosePost, TypeOK
<1>10. CASE Crash
  BY <1>10 DEF Crash, ToldToGo
<1>12. ASSUME NEW a \in Agent, RegistrationFails(a) PROVE ToldToGo'
  BY <1>12, ToldKept DEF RegistrationFails, traffic
<1>13. ASSUME NEW k \in Kinds, WriteFails(k) PROVE ToldToGo'
  <2>1. UNCHANGED <<db, clients, sock, emits, posts>>
    BY <1>13 DEF WriteFails, engine
  <2> QED  BY <2>1, ToldKept
<1>14. CASE EmitFails
  <2>1. lost' = lost + 1 /\ lost \in Nat
    BY <1>14 DEF EmitFails, TypeOK
  <2> QED  BY <2>1
<1>11. CASE UNCHANGED vars
  BY <1>11, ToldKept DEF vars, engine, traffic
<1> QED  BY <1>1, <1>2, <1>3, <1>4, <1>5, <1>6, <1>7, <1>8, <1>9, <1>10, <1>11, <1>12, <1>13, <1>14 DEF Next

LEMMA QuietIsGone == TypeOK /\ RelayInv /\ ToldToGo => EndedSessionHasNoRelay
<1> SUFFICES ASSUME RelayInv, ToldToGo, Quiet, db = "ended", NEW a \in Agent, meta.agent = a, sock[a] = "open"
             PROVE  FALSE
  BY DEF EndedSessionHasNoRelay
<1>1. \A b \in clients : sock[b] # "open"
  BY DEF ToldToGo, Quiet, Statuses
<1>2. meta # NoMeta
  BY RelayAssumption DEF NoMeta
<1> QED  BY <1>1, <1>2 DEF RelayInv, RelayIsAttended, RelayTargetIsWatched

\* Of "it receives ... ended status and self-terminates" (ws.ts) nothing is wrong
\* but that an agent may still be entering when the session ends, or the post be
\* lost: where neither happens, no ended session is left with a relay, however
\* many agents came and went and whichever other faults occurred.
THEOREM EnteredAgentsAreToldToGo ==
  Spec /\ []EntersBeforeEnd /\ [](lost = 0) => []EndedSessionHasNoRelay
<1>1. TypeOK /\ RelayInv /\ ToldToGo /\ EntersBeforeEnd /\ (lost = 0)' /\ [Next]_vars => ToldToGo'
  BY ToldStep
<1> QED  BY ToldInitial, <1>1, RelayTyped, QuietIsGone, PTL DEF Spec

==============================================================================
