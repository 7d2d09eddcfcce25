--------------------------- MODULE PresentationRoom ---------------------------
(***************************************************************************)
(* The life of one presentation and of its recording                       *)
(* (lib/presentations/service.ts, livekit.ts and the LiveKit webhook).     *)
(* Start asks LiveKit to record the room (an "egress"), End closes the     *)
(* room and pulls the finished file, and the webhook reports the same file *)
(* again, any number of times or never.  No call runs in a transaction and *)
(* the answer of LiveKit to Start may be lost.                             *)
(***************************************************************************)
EXTENDS Callers

CONSTANTS Egress, MaxRecordings   \* recordings LiveKit may make; bound: rows about them

ASSUME PresentationAssumption == "none" \notin Egress /\ MaxRecordings \in Nat

VARIABLES
  status,      \* presentations.status
  egressRow,   \* presentations.egressid and egressstatus
  egress,      \* egress[e]: what LiveKit (external) does for recording e
  recordings,  \* presentationrecordings: the file, whether the row has its egressid
  presCall,    \* presCall[p]: where call p stands and what it read
  blind,       \* history: two starts overlapped, or the answer to one was lost
  twice,       \* history: two calls registered one file at once, or a file was
               \* pulled by the room's name because the row had no egressid
  deleted      \* history: the files whose recording the host deleted

PresVars == <<status, egressRow, egress, recordings, presCall, blind, twice, deleted>>

PresIdle == [at |-> "idle", e |-> "none", keyed |-> FALSE, settled |-> "none"]
NoRow == [id |-> "none", st |-> "none"]

PresInit ==
  /\ status = "scheduled" /\ egressRow = NoRow
  /\ egress = [e \in Egress |-> "none"]
  /\ recordings = {} /\ deleted = {}
  /\ presCall = [p \in Proc |-> PresIdle]
  /\ blind = FALSE /\ twice = FALSE

PresGoto(p, at) == presCall' = [presCall EXCEPT ![p].at = at]
PresReturn(p) == presCall' = [presCall EXCEPT ![p] = PresIdle]
Starting == {q \in Proc : presCall[q].at \in {"start_write", "egress", "start_store"}}
Playable == {r \in recordings : ~r.deleted}

(***************************************************************************)
(* startPresentation: read, write, ask LiveKit, store its answer.          *)
(***************************************************************************)
StartPresentation(p) ==
  /\ presCall[p] = PresIdle /\ status = "scheduled"
  /\ PresGoto(p, "start_write")
  /\ blind' = (blind \/ Starting # {})
  /\ UNCHANGED <<status, egressRow, egress, recordings, twice, deleted>>

WriteLive(p) ==
  /\ presCall[p].at = "start_write"
  /\ status' = "live"
  /\ PresGoto(p, "egress")
  /\ UNCHANGED <<egressRow, egress, recordings, blind, twice, deleted>>

\* startRoomEgress: started and answered, started and the answer lost, or not.
StartRoomEgress(p) ==
  /\ presCall[p].at = "egress"
  /\ \/ \E e \in Egress, answered \in BOOLEAN :
          /\ egress[e] = "none"
          /\ egress' = [egress EXCEPT ![e] = "active"]
          /\ presCall' = [presCall EXCEPT ![p].at = "start_store", ![p].e = IF answered THEN e ELSE "none"]
          /\ blind' = (blind \/ ~answered)
     \/ PresGoto(p, "start_store") /\ UNCHANGED <<egress, blind>>
  /\ UNCHANGED <<status, egressRow, recordings, twice, deleted>>

StoreEgress(p) ==
  LET e == presCall[p].e IN
  /\ presCall[p].at = "start_store"
  /\ egressRow' = [id |-> e, st |-> IF e = "none" THEN "failed" ELSE "active"]
  /\ PresReturn(p)
  /\ UNCHANGED <<status, egress, recordings, blind, twice, deleted>>

(***************************************************************************)
(* cancelPresentation and endPresentation: read, then write unguarded.     *)
(* closeRoom is best-effort.  LiveKit ends a recording when the room is    *)
(* closed or everybody has left.                                           *)
(***************************************************************************)
CancelPresentation(p) ==
  /\ presCall[p] = PresIdle /\ status # "ended"
  /\ PresGoto(p, "cancel_write")
  /\ UNCHANGED <<status, egressRow, egress, recordings, blind, twice, deleted>>

EndPresentation(p) ==
  /\ presCall[p] = PresIdle /\ status \notin {"canceled", "ended"}
  /\ PresGoto(p, "end_write")
  /\ UNCHANGED <<status, egressRow, egress, recordings, blind, twice, deleted>>

WriteOver(p) ==
  /\ \/ presCall[p].at = "cancel_write" /\ status' = "canceled" /\ PresReturn(p)
     \/ presCall[p].at = "end_write" /\ status' = "ended" /\ PresGoto(p, "close")
  /\ UNCHANGED <<egressRow, egress, recordings, blind, twice, deleted>>

CloseRoom(p) ==
  /\ presCall[p].at = "close"
  /\ \/ egress' = [e \in Egress |-> IF egress[e] = "active" THEN "ending" ELSE egress[e]]
     \/ UNCHANGED egress
  /\ PresGoto(p, "pull")
  /\ UNCHANGED <<status, egressRow, recordings, blind, twice, deleted>>

EgressSettles(e, how) ==
  /\ egress[e] \in {"active", "ending"}
  /\ egress' = [egress EXCEPT ![e] = how]
  /\ UNCHANGED <<status, egressRow, recordings, presCall, blind, twice, deleted>>

(***************************************************************************)
(* finalizeRecordingFromEgress, run by End and by a replay that finds no   *)
(* recording: the row, what LiveKit knows of its egress (of any egress of  *)
(* the room when the row names none), the registration, the settlement.    *)
(* LiveKit lists a file when its egress is complete.                       *)
(***************************************************************************)
Settlement(e) ==
  CASE egress[e] = "complete" -> "ended"
    [] egress[e] = "failed" -> "failed"
    [] OTHER -> egressRow.st

Settling(st) == [PresIdle EXCEPT !.at = "settle", !.settled = st]

PullRecording(p) ==
  /\ presCall[p].at = "pull"
  /\ \/ PresReturn(p) /\ UNCHANGED twice     \* LiveKit does not answer
     \/ /\ \A e \in Egress : egress[e] = "none"
        /\ presCall' = [presCall EXCEPT ![p] = Settling(egressRow.st)]
        /\ UNCHANGED twice
     \/ \E e \in Egress :
          /\ egress[e] # "none" /\ egressRow.id \in {e, "none"}
          /\ presCall' = [presCall EXCEPT ![p] =
               IF egress[e] = "complete"
                 THEN [at |-> "register", e |-> e, keyed |-> egressRow.id = e, settled |-> Settlement(e)]
                 ELSE Settling(Settlement(e))]
          /\ twice' = (twice \/ (egressRow.id = "none" /\ egress[e] = "complete"))
  /\ UNCHANGED <<status, egressRow, egress, recordings, blind, deleted>>

\* The webhook, which has the egress id.
LivekitWebhook(p, e) ==
  /\ presCall[p] = PresIdle /\ egress[e] = "complete"
  /\ presCall' = [presCall EXCEPT ![p] = [at |-> "register", e |-> e, keyed |-> TRUE, settled |-> "none"]]
  /\ UNCHANGED <<status, egressRow, egress, recordings, blind, twice, deleted>>

\* Slip: only recordings that are not deleted count.
RegisteredPlayable(c) == c.keyed /\ \E r \in Playable : r.e = c.e /\ r.keyed

\* registerRecording: nothing if a row has this egressid, deleted or not.
Registered(c) == c.keyed /\ \E r \in recordings : r.e = c.e /\ r.keyed
AfterRegister(c) == IF c.settled = "none" THEN PresIdle ELSE Settling(c.settled)

FindRecording(p) ==
  LET c == presCall[p] IN
  /\ c.at = "register"
  /\ presCall' = [presCall EXCEPT ![p] = IF Registered(c) THEN AfterRegister(c) ELSE [c EXCEPT !.at = "insert"]]
  /\ twice' = (twice \/ \E q \in Proc \ {p} : presCall[q].at = "insert" /\ presCall[q].e = c.e)
  /\ UNCHANGED <<status, egressRow, egress, recordings, blind, deleted>>

InsertRecording(p) ==
  LET c == presCall[p] IN
  /\ c.at = "insert"
  /\ Cardinality(recordings) < MaxRecordings
  /\ recordings' = recordings \cup
       {[n |-> Cardinality(recordings) + 1, e |-> c.e, keyed |-> c.keyed, deleted |-> FALSE]}
  /\ presCall' = [presCall EXCEPT ![p] = AfterRegister(c)]
  /\ UNCHANGED <<status, egressRow, egress, blind, twice, deleted>>

Settle(p) ==
  /\ presCall[p].at = "settle"
  /\ egressRow' = [egressRow EXCEPT !.st = presCall[p].settled]
  /\ PresReturn(p)
  /\ UNCHANGED <<status, egress, recordings, blind, twice, deleted>>

GetReplay(p) ==
  /\ presCall[p] = PresIdle /\ Playable = {}
  /\ PresGoto(p, "pull")
  /\ UNCHANGED <<status, egressRow, egress, recordings, blind, twice, deleted>>

DeleteRecording(r) ==
  /\ recordings' = (recordings \ {r}) \cup {[r EXCEPT !.deleted = TRUE]}
  /\ deleted' = deleted \cup {r.e}
  /\ UNCHANGED <<status, egressRow, egress, presCall, blind, twice>>

PresNext ==
  \/ \E p \in Proc :
       \/ StartPresentation(p) \/ WriteLive(p) \/ StartRoomEgress(p) \/ StoreEgress(p)
       \/ CancelPresentation(p) \/ EndPresentation(p) \/ WriteOver(p) \/ CloseRoom(p)
       \/ PullRecording(p) \/ FindRecording(p) \/ InsertRecording(p) \/ Settle(p)
       \/ GetReplay(p)
       \/ \E e \in Egress : LivekitWebhook(p, e)
  \/ \E e \in Egress, how \in {"complete", "failed"} : EgressSettles(e, how)
  \/ \E r \in Playable : DeleteRecording(r)

PresSpec == PresInit /\ [][PresNext]_PresVars

------------------------------------------------------------------------------
(***************************************************************************)
(* Properties.                                                             *)
(***************************************************************************)
PresTypeOK ==
  /\ status \in {"scheduled", "live", "ended", "canceled"}
  /\ egressRow \in [id : Egress \cup {"none"}, st : {"none", "active", "ended", "failed"}]
  /\ egress \in [Egress -> {"none", "active", "ending", "complete", "failed"}]
  /\ recordings \subseteq [e : Egress, keyed : BOOLEAN, n : 1..MaxRecordings, deleted : BOOLEAN]
  /\ deleted \subseteq Egress
  /\ \A p \in Proc : presCall[p].e \in Egress \cup {"none"}

\* A presentation is recorded by one egress, and once Start is over the row
\* names it, whatever ends, cancels or restarts the presentation meanwhile,
\* unless two starts overlap or LiveKit's answer is lost.
TheEgressIsKnown ==
  blind \/ Starting # {} \/ \A e \in Egress : egress[e] # "none" => egressRow.id = e

\* One row per file, however often End, replays and the webhook register it,
\* and a deleted recording does not come back, unless two of them register it
\* at the same time or it was pulled while the row did not name its egress.
RecordingRegisteredOnce ==
  twice \/ /\ \A r, s \in recordings : r.e = s.e => r = s
           /\ \A r \in Playable : r.e \notin deleted

\* When replay answers that there is no recording, rather than that one is
\* being processed, LiveKit is making none and has none to offer, unless two
\* starts overlapped or an answer was lost.
NoneMeansNone ==
  (~blind /\ Starting = {} /\ Playable = {} /\ (egressRow.id = "none" \/ egressRow.st = "failed"))
    => \A e \in Egress : egress[e] \in {"none", "failed"}

\* All three: every recording LiveKit makes is known, is registered once, and is
\* not denied.
RecordingsAreAccounted == TheEgressIsKnown /\ RecordingRegisteredOnce /\ NoneMeansNone

==============================================================================
