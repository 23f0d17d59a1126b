---------------------------- MODULE MassExitGate ----------------------------
(***************************************************************************)
(* TrendingUpMassExitGate (src/exits/manager.py) as AceVault's ExitManager *)
(* (src/engines/acevault/exit.py) calls it with the regime and confidence  *)
(* the shared detector returned: the hysteresis before every AceVault      *)
(* position is closed because the regime is TRENDING_UP.  The gate starts  *)
(* over, cooldown and all, when it is asked while close_all_on_trending_up *)
(* is off.  It would on another regime too, but check_exits asks it only   *)
(* while the regime is TRENDING_UP.                                        *)
(*                                                                         *)
(* Time passes in steps; the track's time stamps are kept as ages, capped  *)
(* past the largest limit they are compared with.                          *)
(***************************************************************************)
EXTENDS RegimeDetector

CONSTANTS
  MinSeconds,     \* min_seconds_in_trending_up_before_close_all
  MinConsecutive, \* min_consecutive_trending_up_observations
  MinConfidence,  \* min_confidence_before_close_all, in percent; 0 for null
  Cooldown        \* mass_exit_cooldown_seconds

ASSUME GateConstants ==
  /\ MinSeconds \in Nat /\ MinConsecutive \in Nat
  /\ MinConfidence \in Nat /\ Cooldown \in Nat

VARIABLES
  closeAll,  \* close_all_on_trending_up, which the operator edits
  streak,    \* age of streak_start_at; None when it is not set
  consec,    \* consecutive_trending_up
  lastExit   \* age of last_mass_exit_at; None when it is not set

\* History, which the code does not keep.
VARIABLES
  fired,     \* the last step was a cycle that ordered a mass exit
  exitAge,   \* age of the last mass exit, None before the first
  waived,    \* since it, a cycle in TRENDING_UP found closeAll off
  seen,      \* length of the unbroken run of TRENDING_UP cycles that found closeAll
             \* on, counted from the last mass exit at the earliest
  runAge     \* age of the first cycle of that run

track == <<streak, consec, lastExit>>
cycleHistory == <<exitAge, waived, seen, runAge>>
gateVars == <<detectorVars, closeAll, track, fired, cycleHistory>>

None == -1

\* The age after one more time step, None staying None.
Older(age, limit) == IF age = None THEN None ELSE Capped(age + 1, limit)

GateInit ==
  /\ DetectorInit
  /\ closeAll \in BOOLEAN
  /\ streak = None /\ consec = 0 /\ lastExit = None
  /\ fired = FALSE /\ exitAge = None /\ waived = FALSE
  /\ seen = 0 /\ runAge = None

Tick ==
  /\ DetectorTick
  /\ streak' = Older(streak, MinSeconds)
  /\ lastExit' = Older(lastExit, Cooldown)
  /\ exitAge' = Older(exitAge, Cooldown)
  /\ runAge' = Older(runAge, MinSeconds)
  /\ fired' = FALSE
  /\ UNCHANGED <<closeAll, consec, waived, seen>>

\* The market moves, or another strategy or the retrospective calls detect.
Elsewhere ==
  /\ MarketMoves \/ Detect
  /\ fired' = FALSE
  /\ UNCHANGED <<closeAll, track, cycleHistory>>

\* The operator's edit of the setting comes into force when the retrospective
\* next merges the file into the configuration the strategies share.
ConfigReloads ==
  /\ closeAll' = ~closeAll
  /\ fired' = FALSE
  /\ UNCHANGED <<detectorVars, track, cycleHistory>>

RunGrows ==
  /\ seen' = Capped(seen + 1, MinConsecutive)
  /\ runAge' = IF runAge = None THEN 0 ELSE runAge

RunEnds  == seen' = 0 /\ runAge' = None

\* Mutant: check_exits asks the gate in every regime, and it starts over.
AskedInOtherRegime ==
  /\ Detect /\ current' # Up
  /\ streak' = None /\ consec' = 0 /\ lastExit' = None
  /\ RunEnds
  /\ fired' = FALSE
  /\ UNCHANGED <<closeAll, exitAge, waived>>

\* An AceVault cycle in another regime: check_exits does not ask the gate.
CycleInOtherRegime ==
  /\ Detect /\ current' # Up
  /\ RunEnds
  /\ fired' = FALSE
  /\ UNCHANGED <<closeAll, track, exitAge, waived>>

\* Mutant: the first observation does not start the streak.
StreakNeverStarts == streak

\* The track as this observation leaves it, before the gate decides.
StreakNow == IF streak = None THEN 0 ELSE streak
ConsecNow == Capped(consec + 1, MinConsecutive)

CoolingDown == lastExit # None /\ lastExit < Cooldown

Passes ==
  /\ ~CoolingDown
  /\ Classify(market).confidence >= MinConfidence
  /\ StreakNow >= MinSeconds
  /\ ConsecNow >= MinConsecutive

\* Switched off: _reset_track forgets the streak and when the last mass exit was.
CycleSwitchedOff ==
  /\ Detect /\ current' = Up /\ ~closeAll
  /\ streak' = None /\ consec' = 0 /\ lastExit' = None
  /\ waived' = TRUE
  /\ RunEnds
  /\ fired' = FALSE
  /\ UNCHANGED <<closeAll, exitAge>>

\* Mutant: a suppressed observation starts the hysteresis over.
SuppressedStartsOver ==
  /\ Detect /\ current' = Up /\ closeAll /\ ~Passes
  /\ streak' = None /\ consec' = 0
  /\ fired' = FALSE
  /\ RunGrows
  /\ UNCHANGED <<closeAll, lastExit, exitAge, waived>>

\* regime_exit_all_trending_up answers False and keeps counting.
CycleSuppressed ==
  /\ Detect /\ current' = Up /\ closeAll /\ ~Passes
  /\ streak' = StreakNow /\ consec' = ConsecNow
  /\ fired' = FALSE
  /\ RunGrows
  /\ UNCHANGED <<closeAll, lastExit, exitAge, waived>>

\* Mutant: the cycle reads the regime before it calls detect.
FiresOnRegimeBefore ==
  /\ Detect /\ current = Up /\ closeAll /\ Passes
  /\ streak' = None /\ consec' = 0 /\ lastExit' = 0
  /\ fired' = TRUE /\ exitAge' = 0 /\ waived' = FALSE
  /\ RunEnds
  /\ UNCHANGED closeAll

\* It answers True: every position is closed and the count starts over.
CycleFires ==
  /\ Detect /\ current' = Up /\ closeAll /\ Passes
  /\ streak' = None /\ consec' = 0 /\ lastExit' = 0
  /\ fired' = TRUE /\ exitAge' = 0 /\ waived' = FALSE
  /\ RunEnds
  /\ UNCHANGED closeAll

Cycle == CycleInOtherRegime \/ CycleSwitchedOff \/ CycleSuppressed \/ CycleFires

GateNext == Tick \/ Elsewhere \/ ConfigReloads \/ Cycle

GateSpec == GateInit /\ [][GateNext]_gateVars

\* Time passes and AceVault's cycle comes round.
GateFairSpec == GateSpec /\ WF_gateVars(Tick) /\ WF_gateVars(Cycle)

-----------------------------------------------------------------------------
\* The values of the variables.
GateTypeOK ==
  /\ market \in Markets /\ current \in Regimes /\ since \in 0..RegimeCooldown
  /\ streak \in 0..MinSeconds \cup {None}
  /\ consec \in 0..MinConsecutive
  /\ lastExit \in 0..Cooldown \cup {None} /\ exitAge \in 0..Cooldown \cup {None}
  /\ {closeAll, fired, waived} \subseteq BOOLEAN
  /\ seen \in 0..MinConsecutive
  /\ runAge \in 0..MinSeconds \cup {None}

\* Two mass exits are closer than the cooldown only if somebody switched them off
\* in between, and a cycle saw it: regimes that come and go, other callers of
\* detect and suppressed cycles leave last_mass_exit_at alone, because check_exits
\* does not let the gate see another regime, on which it would forget it.
ExitsSpaced ==
  [][fired' /\ exitAge # None => exitAge >= Cooldown \/ waived]_gateVars

\* The track never remembers less than what the cycles saw: a run of TRENDING_UP
\* since the last mass exit, or since they were switched on, is never cut short,
\* so the hysteresis can only fire early and never late.
NeverUndercounts == consec >= seen /\ (runAge # None => streak >= runAge)

\* A mass exit while the market is no longer classified TRENDING_UP, on the
\* confidence of that other classification, happens only while the detector
\* holds its regime: no later than one regime cooldown after the regime came.
HeldExitsAreRecent ==
  [][fired' /\ Classify(market).regime # Up => since < RegimeCooldown]_gateVars

\* A market that stays up, with the confidence the gate asks for and mass exits
\* switched on, gets its mass exit again and again: the regime cooldown, the exit
\* cooldown and the two thresholds delay it, together they do not block it.
StayingUpExits ==
  <>[](Classify(market) = Reading(Up, 80) /\ closeAll) => []<>fired
=============================================================================
