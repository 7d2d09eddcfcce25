------------------------------ MODULE Acquaintance ------------------------------
(***************************************************************************)
(* What two people who may become contacts are promised: one of them asks, *)
(* the other one agrees, or an invitation of the one that the other has    *)
(* redeemed brings them together; what was asked may be turned down or     *)
(* taken back until then; and a connection is for ever.                    *)
(***************************************************************************)
CONSTANT User

VARIABLES
  behind,     \* who stands behind what is asked, or behind the connection
  connected,  \* they are each other's contacts
  invited     \* an invitation has been redeemed

Init == behind = {} /\ connected = FALSE /\ invited = FALSE

Ask(u) ==
  /\ behind = {} /\ ~connected
  /\ behind' = {u}
  /\ UNCHANGED <<connected, invited>>

\* Only the one who is still missing can agree.
Agree(u) ==
  /\ behind = User \ {u} /\ ~connected
  /\ behind' = User /\ connected' = TRUE
  /\ UNCHANGED invited

Drop ==
  /\ ~connected
  /\ behind' = {}
  /\ UNCHANGED <<connected, invited>>

Redeem == invited' = TRUE /\ UNCHANGED <<behind, connected>>

Meet ==
  /\ invited /\ ~connected
  /\ behind' = User /\ connected' = TRUE
  /\ UNCHANGED invited

Next ==
  \/ \E u \in User : Ask(u) \/ Agree(u)
  \/ Drop \/ Redeem \/ Meet

Spec == Init /\ [][Next]_<<behind, connected, invited>>

==============================================================================
