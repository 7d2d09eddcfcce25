------------------------------ MODULE FloodGuard ------------------------------
(***************************************************************************)
(* The guard on contact requests of one sender (lib/contacts/flood.ts over *)
(* the limiter lib/auth/ratelimit.ts).  The count of the running window is *)
(* in the memory of the server process; the freeze that exceeding it       *)
(* brings is a row that only an administrator clears.                      *)
(***************************************************************************)
EXTENDS Callers

CONSTANT FloodLimit   \* attempts a window allows

ASSUME FloodAssumption == FloodLimit \in Nat \ {0}

VARIABLES
  bucket,     \* attempts counted in the running window, 0 without one
  frozen,     \* the sender has an uncleared contactfreezes row
  guardAt,    \* guardAt[p]: where the guarded request p stands
  clearing,   \* an unfreeze has cleared the row and not yet the window
  attempts,   \* history: attempts counted since the last unfreeze
  overlapped  \* history: a request was in the guard during the last unfreeze

FloodVars == <<bucket, frozen, guardAt, clearing, attempts, overlapped>>

FloodInit ==
  /\ bucket = 0 /\ frozen = FALSE
  /\ guardAt = [p \in Proc |-> "idle"]
  /\ clearing = FALSE /\ attempts = 0 /\ overlapped = FALSE

FloodGoto(p, at) == guardAt' = [guardAt EXCEPT ![p] = at]

\* guardContactFloodOrThrow: refused when frozen, or on to the limiter.
GuardContactFlood(p) ==
  /\ guardAt[p] = "idle" /\ ~frozen
  /\ FloodGoto(p, "limiter")
  /\ overlapped' = (overlapped \/ clearing)
  /\ UNCHANGED <<bucket, frozen, clearing, attempts>>

\* Slip: refused attempts are counted too.
RateLimitCountsAll(p) ==
  /\ guardAt[p] = "limiter"
  /\ bucket' = bucket + 1
  /\ FloodGoto(p, IF bucket < FloodLimit THEN "idle" ELSE "tripped")
  /\ attempts' = IF attempts <= FloodLimit THEN attempts + 1 ELSE attempts
  /\ UNCHANGED <<frozen, clearing, overlapped>>

RateLimit(p) ==
  /\ guardAt[p] = "limiter"
  /\ IF bucket < FloodLimit THEN bucket' = bucket + 1 /\ FloodGoto(p, "idle")
                            ELSE UNCHANGED bucket /\ FloodGoto(p, "tripped")
  /\ attempts' = IF attempts <= FloodLimit THEN attempts + 1 ELSE attempts
  /\ UNCHANGED <<frozen, clearing, overlapped>>

\* applyFreeze: frozen already, or insert, which a unique index on uncleared
\* rows refuses to the second.
CheckFrozen(p) ==
  /\ guardAt[p] = "tripped"
  /\ FloodGoto(p, IF frozen THEN "idle" ELSE "insert")
  /\ UNCHANGED <<bucket, frozen, clearing, attempts, overlapped>>

InsertFreeze(p) ==
  /\ guardAt[p] = "insert"
  /\ frozen' = TRUE
  /\ FloodGoto(p, "idle")
  /\ UNCHANGED <<bucket, clearing, attempts, overlapped>>

\* The window runs out, or the process restarts.
WindowEnds ==
  /\ bucket > 0 /\ bucket' = 0
  /\ UNCHANGED <<frozen, guardAt, clearing, attempts, overlapped>>

\* unfreezeContactRequests: the row, then the window.
Unfreeze ==
  /\ frozen /\ ~clearing
  /\ frozen' = FALSE /\ clearing' = TRUE /\ attempts' = 0
  /\ overlapped' = (\E p \in Proc : guardAt[p] # "idle")
  /\ UNCHANGED <<bucket, guardAt>>

\* Slip: the window is kept.
KeepWindow ==
  /\ clearing /\ clearing' = FALSE
  /\ UNCHANGED <<bucket, frozen, guardAt, attempts, overlapped>>

ClearRateLimit ==
  /\ clearing /\ clearing' = FALSE
  /\ bucket' = 0
  /\ UNCHANGED <<frozen, guardAt, attempts, overlapped>>

FloodNext ==
  \/ \E p \in Proc : GuardContactFlood(p) \/ RateLimit(p) \/ CheckFrozen(p) \/ InsertFreeze(p)
  \/ WindowEnds \/ Unfreeze \/ ClearRateLimit

FloodSpec == FloodInit /\ [][FloodNext]_FloodVars

------------------------------------------------------------------------------
(***************************************************************************)
(* Properties.                                                             *)
(***************************************************************************)
FloodTypeOK ==
  /\ bucket \in 0..FloodLimit /\ attempts \in 0..(FloodLimit + 1)
  /\ frozen \in BOOLEAN /\ clearing \in BOOLEAN /\ overlapped \in BOOLEAN
  /\ guardAt \in [Proc -> {"idle", "limiter", "tripped", "insert"}]

\* A freeze comes of more attempts than the limit, all of them made after the
\* last unfreeze: an administrator's unfreeze is not undone by the attempts it
\* forgave, unless a request was in the guard while the unfreeze ran.
FreezeIsEarned == frozen => attempts > FloodLimit \/ overlapped

==============================================================================
