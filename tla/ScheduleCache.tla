----------------------------- MODULE ScheduleCache -----------------------------
(***************************************************************************)
(* The class ScheduleCache of src/spd_schedule.h as a data type.           *)
(*                                                                         *)
(* An entry is [min, amount, enabled]: its slot in minutes since local     *)
(* midnight, its amount in hundredths, and whether it is enabled.  The     *)
(* cache holds its entries in the order set() sorts them into, and the one *)
(* slot that fired last.                                                   *)
(***************************************************************************)
EXTENDS Integers, Sequences, FiniteSetsExt

CONSTANTS
  DayMinutes,                   \* 24 * 60
  Window                        \* windowMinutes, 5 in the code

ASSUME ScheduleAssumption ==
  /\ DayMinutes \in Nat \ {0}
  /\ Window \in Nat

Minutes == 0 .. DayMinutes - 1
Entries == [min : Minutes, amount : Nat, enabled : BOOLEAN]

\* A sequence of entries in the order std::sort leaves them in.
IsSorted(s) == \A i, j \in DOMAIN s : i < j => s[i].min <= s[j].min

\* set(): new entries, and nothing has fired.
Loaded(s) == [entries |-> s, lastMin |-> -1, lastDay |-> -1]

Empty == Loaded(<<>>)

\* Variant of Hits: the memory of the last slot is read without its day.
HitsAnyDay(c, minute, day) ==
  {i \in DOMAIN c.entries :
    /\ c.entries[i].enabled
    /\ minute - c.entries[i].min \in 0 .. Window
    /\ c.entries[i].min # c.lastMin}

\* The entries that due() does not skip.
Hits(c, minute, day) ==
  {i \in DOMAIN c.entries :
    /\ c.entries[i].enabled
    /\ minute - c.entries[i].min \in 0 .. Window
    /\ ~(day = c.lastDay /\ c.entries[i].min = c.lastMin)}

\* due(): the last of them.
Due(c, minute, day) == c.entries[Max(Hits(c, minute, day))]

\* Variant of MarkFired: the day is not remembered.
MarkFiredNoDay(c, e, day) == [c EXCEPT !.lastMin = e.min]

\* markFired() remembers one slot.
MarkFired(c, e, day) == [c EXCEPT !.lastMin = e.min, !.lastDay = day]

\* Variant of minutesUntilNext: a slot at this very minute is 0 minutes away.
minutesUntilNextHere(c, minute) ==
  LET away == {(c.entries[i].min - minute) % DayMinutes :
                 i \in {i \in DOMAIN c.entries : c.entries[i].enabled}}
  IN IF away = {} THEN -1 ELSE Min(away)

\* The slot of this very minute is a day away, also while it is still due.
minutesUntilNext(c, minute) ==
  LET away == {1 + ((c.entries[i].min - minute - 1) % DayMinutes) :
                 i \in {i \in DOMAIN c.entries : c.entries[i].enabled}}
  IN IF away = {} THEN -1 ELSE Min(away)
===============================================================================
