------------------------------- MODULE TimeSync -------------------------------
(***************************************************************************)
(* TimeSync (src/spd_time.h), the last known time in NVS, and the count of *)
(* brown-outs in RTC memory (src/spd_brownout.h): what a device knows of   *)
(* time and of its resets.                                                 *)
(*                                                                         *)
(* The ESP32 is external: its clock runs on through a warm reset and a     *)
(* brown-out and begins in 1970, which is not plausible, after a power     *)
(* cut; RTC memory likewise.  Clocks do not drift.                         *)
(***************************************************************************)
EXTENDS Naturals

CONSTANT MaxTime                \* bound: ticks of true time, from 1

ASSUME TimeAssumption == MaxTime \in Nat \ {0}

VARIABLES
  now,                          \* true time
  clock, lkg,                   \* time(nullptr); NVS "time_lkg"; 0 is not
                                \* plausible
  synced,                       \* synced_
  reason,                       \* esp_reset_reason(): "cold", "brownout", "warm"
  brownouts,                    \* g_brownoutCount
  dips, hasty,                  \* history: brown-outs since the last power cut;
                                \* a reset came before begin() read the last one
  ntp                           \* history: SNTP has set the clock this session

clocks   == <<now, clock, lkg, synced, ntp>>
resetLog == <<reason, brownouts, dips, hasty>>
timeVars == <<clocks, resetLog>>

TimeInit ==
  /\ now = 1 /\ clock = 0 /\ lkg \in {0, 1} /\ synced = FALSE /\ ntp = FALSE
  /\ reason = "cold" /\ brownouts = 0 /\ dips = 0 /\ hasty = FALSE

\* Variant of shouldRestoreClock: whatever the clock says.
restoreAlways == lkg # 0

shouldRestoreClock == lkg # 0 /\ clock = 0

restoreLastKnown ==
  /\ clock' = IF shouldRestoreClock THEN lkg ELSE clock
  /\ UNCHANGED <<now, lkg, synced, ntp>>

\* A plausible clock is taken for a corrected one.
PollTime == synced' = (synced \/ clock # 0) /\ UNCHANGED <<now, clock, lkg, ntp>>

\* SNTP runs in the background.
Sntp == clock' = now /\ ntp' = TRUE /\ UNCHANGED <<now, lkg, synced>>

\* Variant of SaveTime: the time of the next save is stored.
SaveTimeAhead == synced /\ lkg' = clock + 1 /\ UNCHANGED <<now, clock, synced, ntp>>

SaveTime == synced /\ lkg' = clock /\ UNCHANGED <<now, clock, synced, ntp>>

Tick ==
  /\ now < MaxTime
  /\ now' = now + 1 /\ clock' = (IF clock = 0 THEN 0 ELSE clock + 1)
  /\ UNCHANGED <<lkg, synced, ntp>>

\* Variant of brownoutBootCheck: the count is kept in ordinary memory.
bootCheckFromZero ==
  /\ brownouts' = (IF reason = "brownout" THEN 1 ELSE 0)
  /\ reason' = "read" /\ UNCHANGED <<dips, hasty>>

\* Once per boot; a lost magic number clears the count.
brownoutBootCheck ==
  /\ brownouts' = (IF reason = "brownout" THEN brownouts + 1 ELSE brownouts)
  /\ reason' = "read" /\ UNCHANGED <<dips, hasty>>

Reset(kind) ==
  /\ clock' = (IF kind = "cold" THEN 0 ELSE clock)
  /\ synced' = FALSE /\ ntp' = FALSE
  /\ reason' = kind
  /\ brownouts' = (IF kind = "cold" THEN 0 ELSE brownouts)
  /\ dips' = (CASE kind = "cold" -> 0 [] kind = "brownout" -> dips + 1 [] OTHER -> dips)
  /\ hasty' = (kind # "cold" /\ (hasty \/ reason # "read"))
  /\ UNCHANGED <<now, lkg>>

-------------------------------------------------------------------------------
(* Properties.                                                              *)

\* Types.
TimeTypeOK ==
  /\ now \in 1 .. MaxTime /\ clock \in 0 .. now /\ lkg \in 0 .. now
  /\ synced \in BOOLEAN /\ ntp \in BOOLEAN /\ hasty \in BOOLEAN
  /\ reason \in {"cold", "brownout", "warm", "read"}
  /\ brownouts \in Nat /\ dips \in Nat

\* While the power lasts, through restarts and corrections, the clock does not
\* step back, so that a journal stays in order; and it is never ahead of true
\* time (restoreLastKnown, shouldRestoreClock).
ClockMovesForward ==
  [][clock # 0 /\ clock' # 0 => clock <= clock' /\ clock' <= now']_timeVars

\* The count in the status is that of the brown-outs since the last power cut,
\* unless a reset overtook begin() (brownoutBootCheck).
BrownoutsCounted == reason = "read" /\ ~hasty => brownouts = dips

-------------------------------------------------------------------------------
(* What the documentation says, and the code does not do.                   *)

\* "The device does not trust its clock until an NTP sync has succeeded *this
\* session*" (src/spd_time.h:3).
TrustedMeansNtp == synced => ntp
===============================================================================
