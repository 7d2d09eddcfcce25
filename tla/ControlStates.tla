---------------------------- MODULE ControlStates ----------------------------
(***************************************************************************)
(* The pure control-session state machine of                               *)
(* apps/web/src/lib/remotecontrol/state.ts: which status each action leads *)
(* to.  "illegal" stands for the function's null result.                   *)
(***************************************************************************)

ActiveStatuses == {"requested", "agent_pending", "granted", "paused"}

Statuses == ActiveStatuses \cup {"ended"}

Actions == {"allow", "decline", "register", "pause", "resume", "end"}

\* The rows of the transition table other than "end", which every active
\* status allows.
Table ==
  { <<"requested",     "allow",    "agent_pending">>,
    <<"requested",     "decline",  "ended">>,
    <<"agent_pending", "register", "granted">>,
    <<"granted",       "pause",    "paused">>,
    <<"paused",        "resume",   "granted">> }

NextStatus(from, action) ==
  IF action = "end" /\ from \in ActiveStatuses THEN "ended"
  ELSE IF \E t \in Table : t[1] = from /\ t[2] = action
       THEN (CHOOSE t \in Table : t[1] = from /\ t[2] = action)[3]
       ELSE "illegal"

\* Some legal action takes a session from one status to the other.
LegalMove(from, to) ==
  \/ from \in ActiveStatuses /\ to = "ended"
  \/ \E t \in Table : t[1] = from /\ t[3] = to

==============================================================================
