--------------------------- MODULE ControlLifecycle ---------------------------
(***************************************************************************)
(* What the remote-control service promises of the sessions of one DM:     *)
(* every session walks the table of ControlStates, and a new one is        *)
(* created only when no other is active.                                   *)
(***************************************************************************)
EXTENDS ControlStates

CONSTANT Session

VARIABLE state  \* state[s] is "absent" until the session is created

Init == state = [s \in Session |-> "absent"]

NoneActive == \A s \in Session : state[s] \notin ActiveStatuses

\* requestControl creates a session at "requested", offerControl directly at
\* "agent_pending" (the host's click is the consent).
Create(s, status) ==
  /\ state[s] = "absent"
  /\ NoneActive
  /\ state' = [state EXCEPT ![s] = status]

Apply(s, action) ==
  /\ NextStatus(state[s], action) # "illegal"
  /\ state' = [state EXCEPT ![s] = NextStatus(state[s], action)]

Next ==
  \E s \in Session :
    \/ \E status \in {"requested", "agent_pending"} : Create(s, status)
    \/ \E action \in Actions : Apply(s, action)

Spec == Init /\ [][Next]_state

==============================================================================
