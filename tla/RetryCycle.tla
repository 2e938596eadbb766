----------------------------- MODULE RetryCycle -----------------------------
(***************************************************************************)
(* What a connection that is connected once promises its owner: one        *)
(* attempt at a time, a pause after each failure, at most limit failures   *)
(* in a row, and no attempt after the last.  ServerConnection implements   *)
(* it.                                                                     *)
(***************************************************************************)
EXTENDS Naturals

VARIABLES
  phase,      \* "idle", "trying", "up", "waiting" for the next attempt, "over"
  failures,   \* in a row
  limit

cycle == <<phase, failures, limit>>

CycleInit == phase = "idle" /\ failures = 0 /\ limit \in Nat

Start == phase = "idle" /\ phase' = "trying" /\ UNCHANGED <<failures, limit>>

Succeed == phase = "trying" /\ phase' = "up" /\ failures' = 0 /\ UNCHANGED limit

\* An attempt fails, or a connection that is up is lost.
Fail ==
  /\ phase \in {"trying", "up"} /\ failures < limit
  /\ phase' = "waiting" /\ failures' = failures + 1
  /\ UNCHANGED limit

GiveUp ==
  /\ phase \in {"trying", "up"} /\ failures = limit
  /\ phase' = "over"
  /\ UNCHANGED <<failures, limit>>

Retry == phase = "waiting" /\ phase' = "trying" /\ UNCHANGED <<failures, limit>>

\* The owner closes what is not under way.
Stop == phase \in {"idle", "up"} /\ phase' = "over" /\ UNCHANGED <<failures, limit>>

CycleNext == Start \/ Succeed \/ Fail \/ GiveUp \/ Retry \/ Stop

\* Attempts end, and pauses are over some day.
Resolve == phase = "trying" /\ (Succeed \/ Fail \/ GiveUp)

CycleSafety == CycleInit /\ [][CycleNext]_cycle
CycleSpec == CycleSafety /\ WF_cycle(Resolve) /\ WF_cycle(Retry)
=============================================================================
