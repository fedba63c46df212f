----------------------------- MODULE ScheduleTick -----------------------------
(***************************************************************************)
(* The schedule of SmartPetDevice (src/spd_device.h): tickSchedule() on the *)
(* device's clock, the schedule_set command with its copy in NVS, and the  *)
(* restore after a restart.                                                *)
(*                                                                         *)
(* tickSchedule() reads the clock twice: the local minute of the day, and  *)
(* then the day, which is the UTC day; the clock may advance in between.   *)
(* UTC midnight falls on the local minute Rollover.                        *)
(***************************************************************************)
EXTENDS ScheduleCache

CONSTANTS
  Rollover,                     \* the local minute at which the UTC day begins
  Tables,                       \* the schedules the cloud may send, as sorted
  MaxDays,                      \* bound: local days
  MaxReloads                    \* bound: restarts and schedule_set commands

ASSUME TickAssumption ==
  /\ Rollover \in Minutes
  /\ \A s \in Tables : s \in Seq(Entries) /\ IsSorted(s)
  /\ MaxDays \in Nat
  /\ MaxReloads \in Nat

VARIABLES
  pc,                           \* "boot", "idle", "tick", "persist", "ack"
  minute, localDay, utcDay,     \* the clock
  mod,                          \* the local variable of tickSchedule()
  cache,                        \* sched_
  nvs,                          \* the blob "sched" in NVS, as it parses
  online,                       \* the local variable of loop()
  synced,                       \* time_.timeTrusted()
  safe,                         \* safeMode_
  acked,                        \* history: the table acknowledged last
  fires, reloads,               \* history, per slot: firings and reloads since
                                \* its window last opened
  covered,                      \* history: whether a pass with every gate of
                                \* tickSchedule() open saw this minute
  loads                         \* counter for the bound

clockVars == <<minute, localDay, utcDay>>
gateVars  == <<online, synced, safe>>
histVars  == <<fires, reloads, covered>>
vars == <<pc, clockVars, mod, cache, nvs, gateVars, acked, histVars, loads>>

NoTable == [known |-> FALSE, entries |-> <<>>]
Acked(s) == [known |-> TRUE, entries |-> s]

\* persistSchedule() writes amounts with one decimal.
Rounded(a) == 10 * ((a + 5) \div 10)

\* What a restart reads back.  An empty table reads back as no table, which
\* leaves the cache empty.
Stored(s) ==
  [i \in DOMAIN s |->
    [min |-> s[i].min, amount |-> Rounded(s[i].amount), enabled |-> s[i].enabled]]

\* The cache forgets what has fired.
Reload ==
  /\ reloads' = [m \in Minutes |-> reloads[m] + 1]
  /\ covered' = "no"
  /\ UNCHANGED fires

Init ==
  /\ pc = "boot"
  /\ minute \in Minutes /\ localDay = 0 /\ utcDay = 0
  /\ mod = 0 /\ cache = Empty /\ nvs = <<>>
  /\ online = FALSE /\ synced = FALSE /\ safe = FALSE
  /\ acked = NoTable
  /\ fires = [m \in Minutes |-> 0] /\ reloads = [m \in Minutes |-> 0] /\ covered = "no"
  /\ loads = 0

\* begin(): restoreSchedule().
Boot ==
  /\ pc = "boot"
  /\ cache' = Loaded(nvs)
  /\ pc' = "idle"
  /\ UNCHANGED <<clockVars, mod, nvs, gateVars, acked, histVars, loads>>

-------------------------------------------------------------------------------
(* tickSchedule().                                                          *)

\* Its early returns, but for the connection that loop() asks for.
GatesOpen == synced /\ ~safe /\ cache.entries # <<>>

\* minuteOfDay() is read.
ReadMinute ==
  /\ pc = "idle" /\ online /\ GatesOpen
  /\ mod' = minute
  /\ pc' = "tick"
  /\ UNCHANGED <<clockVars, cache, nvs, gateVars, acked, histVars, loads>>

\* dayIndex() is read: nothing is due ...
NotDue ==
  /\ pc = "tick" /\ Hits(cache, mod, utcDay) = {}
  /\ covered' = IF mod = minute THEN "ticked" ELSE "no"
  /\ pc' = "idle"
  /\ UNCHANGED <<clockVars, mod, cache, nvs, gateVars, acked, fires, reloads, loads>>

\* ... or an entry is, is marked, and fires.
Fire ==
  /\ pc = "tick" /\ Hits(cache, mod, utcDay) # {}
  /\ LET e == Due(cache, mod, utcDay) IN
       /\ cache' = MarkFired(cache, e, utcDay)
       /\ fires' = [fires EXCEPT ![e.min] = @ + 1]
  /\ covered' = IF mod = minute THEN "ticked" ELSE "no"
  /\ pc' = "idle"
  /\ UNCHANGED <<clockVars, mod, nvs, gateVars, acked, reloads, loads>>

-------------------------------------------------------------------------------
(* schedule_set: the cache, then NVS, then the ack.                         *)

\* Variant of SetSchedule: the new table is not persisted.
SetScheduleUnsaved(s) ==
  /\ pc = "idle" /\ online /\ loads < MaxReloads
  /\ cache' = Loaded(s)
  /\ acked' = NoTable
  /\ Reload
  /\ loads' = loads + 1
  /\ pc' = "ack"
  /\ UNCHANGED <<clockVars, mod, nvs, gateVars>>

SetSchedule(s) ==
  /\ pc = "idle" /\ online /\ loads < MaxReloads
  /\ cache' = Loaded(s)
  /\ acked' = NoTable
  /\ Reload
  /\ loads' = loads + 1
  /\ pc' = "persist"
  /\ UNCHANGED <<clockVars, mod, nvs, gateVars>>

PersistSchedule ==
  /\ pc = "persist"
  /\ nvs' = Stored(cache.entries)
  /\ pc' = "ack"
  /\ UNCHANGED <<clockVars, mod, cache, gateVars, acked, histVars, loads>>

\* The ack reaches the cloud, or not.
Ack ==
  /\ pc = "ack"
  /\ acked' \in {Acked(cache.entries), NoTable}
  /\ pc' = "idle"
  /\ UNCHANGED <<clockVars, mod, cache, nvs, gateVars, histVars, loads>>

-------------------------------------------------------------------------------
(* The environment.                                                         *)

\* Variant of Advance: the day does not wrap.
AdvanceNoWrap ==
  /\ pc = "tick" => mod = minute
  /\ minute < DayMinutes
  /\ minute' = minute + 1
  /\ utcDay' = IF minute' = Rollover THEN utcDay + 1 ELSE utcDay
  /\ fires' = [fires EXCEPT ![minute'] = 0]
  /\ reloads' = [reloads EXCEPT ![minute'] = 0]
  /\ covered' = "no"
  /\ UNCHANGED <<pc, localDay, mod, cache, nvs, gateVars, acked, loads>>

\* A minute passes; at most one between the two readings.
Advance ==
  /\ pc = "tick" => mod = minute
  /\ minute < DayMinutes - 1 \/ localDay < MaxDays
  /\ IF minute < DayMinutes - 1
       THEN minute' = minute + 1 /\ UNCHANGED localDay
       ELSE minute' = 0 /\ localDay' = localDay + 1
  /\ utcDay' = IF minute' = Rollover THEN utcDay + 1 ELSE utcDay
  /\ fires' = [fires EXCEPT ![minute'] = 0]
  /\ reloads' = [reloads EXCEPT ![minute'] = 0]
  /\ covered' = "no"
  /\ UNCHANGED <<pc, mod, cache, nvs, gateVars, acked, loads>>

\* Links come and go between passes; once synced, always synced; the kill
\* switch is thrown by a message.
Gates ==
  /\ pc = "idle"
  /\ online' \in BOOLEAN
  /\ synced' \in (IF synced THEN {TRUE} ELSE BOOLEAN)
  /\ safe' \in (IF online THEN BOOLEAN ELSE {safe})
  /\ covered' = "no"
  /\ UNCHANGED <<pc, clockVars, mod, cache, nvs, acked, fires, reloads, loads>>

\* A restart: only NVS survives.
Crash ==
  /\ loads < MaxReloads
  /\ pc' = "boot"
  /\ cache' = Empty /\ mod' = 0
  /\ online' = FALSE /\ synced' = FALSE /\ safe' = FALSE
  /\ Reload
  /\ loads' = loads + 1
  /\ UNCHANGED <<clockVars, nvs, acked>>

-------------------------------------------------------------------------------
Next ==
  \/ Boot \/ ReadMinute \/ NotDue \/ Fire
  \/ (\E s \in Tables : SetSchedule(s)) \/ PersistSchedule \/ Ack
  \/ Advance \/ Gates \/ Crash

Spec == Init /\ [][Next]_vars

-------------------------------------------------------------------------------
(* Properties.                                                              *)

SlotsOf(s) == {s[i].min : i \in {i \in DOMAIN s : s[i].enabled}}

\* Type invariant.
TypeOK ==
  /\ pc \in {"boot", "idle", "tick", "persist", "ack"}
  /\ minute \in Minutes /\ localDay \in 0 .. MaxDays /\ utcDay \in Nat /\ mod \in Minutes
  /\ cache \in [entries : Seq(Entries), lastMin : Minutes \union {-1}, lastDay : Nat \union {-1}]
  /\ nvs \in Seq(Entries)
  /\ online \in BOOLEAN /\ synced \in BOOLEAN /\ safe \in BOOLEAN
  /\ acked \in [known : BOOLEAN, entries : Seq(Entries)]
  /\ fires \in [Minutes -> Nat] /\ reloads \in [Minutes -> Nat]
  /\ covered \in {"no", "ticked"}
  /\ loads \in 0 .. MaxReloads

\* A slot fires at most once in each opening of its window, and once more for
\* each time the cache was reloaded in that time (due, markFired).
OncePerWindow == \A m \in Minutes : fires[m] <= 1 + reloads[m]

\* When tickSchedule() has looked at a minute, every enabled slot whose
\* window holds the minute has fired: no slot is starved by the memory of
\* another, or by that of the day before.
DueSlotsHaveFired ==
  covered = "ticked" =>
    \A m \in SlotsOf(cache.entries) : minute - m \in 0 .. Window => fires[m] >= 1

\* A schedule whose ack the cloud has is the schedule that a restart restores,
\* its amounts rounded (schedule_set, persistSchedule, restoreSchedule).
AckedSurvives == acked.known => nvs = Stored(acked.entries)

\* The countdown ends at an enabled slot, passes none on the way, also over
\* midnight, and is -1 when there is nothing to wait for (minutesUntilNext).
NextIsNext ==
  LET n == minutesUntilNext(cache, minute)
      IsSlot(k) == (minute + k) % DayMinutes \in SlotsOf(cache.entries)
  IN IF SlotsOf(cache.entries) = {} THEN n = -1
     ELSE n \in 1 .. DayMinutes /\ IsSlot(n) /\ \A k \in 1 .. n - 1 : ~IsSlot(k)

(* The conditions under which the first two hold.                           *)

\* No two enabled slots of a schedule are within one window.
Spaced(s) ==
  \A i, j \in DOMAIN s : s[i].enabled /\ s[j].enabled /\ i # j =>
    s[i].min - s[j].min > Window \/ s[j].min - s[i].min > Window

\* The UTC day does not begin in a window, nor in the minute after it: the
\* minute may have been read just before.
Clear(m) ==
  /\ Rollover \notin m + 1 .. m + Window + 1
  /\ Rollover = 0 => DayMinutes \notin m + 1 .. m + Window + 1

GoodTables ==
  \A s \in Tables : Spaced(s) /\ \A m \in SlotsOf(s) : Clear(m)
===============================================================================
