------------------------------ MODULE DoorModule ------------------------------
(***************************************************************************)
(* DoorModule (src/modules/DoorModule.h): the latch of a pen door, timed   *)
(* openings that poll() ends, and the edge detector of the reed switch.    *)
(*                                                                         *)
(* Time is a number of ticks since the pulse began, capped: the code only  *)
(* compares it with the hold, in 32-bit differences that a wrap of         *)
(* millis() does not disturb.                                              *)
(***************************************************************************)
EXTENDS Naturals

CONSTANT Holds                  \* values of holdMs in ticks; 0 is "no hold"

ASSUME DoorAssumption == Holds \subseteq Nat /\ 0 \in Holds

VARIABLES
  locked, open,                 \* state_
  pulse,                        \* pulseOpenMs_
  age,                          \* millis() - pulseStartMs_ of a running pulse
  ajar,                         \* what the reed switch says now
  wish,                         \* history: the last command: "lock", "unlock",
                                \* or "timed" for open with a hold
  limit, since                  \* history: its hold, and ticks since it came

doorVars == <<locked, open, pulse, age, ajar, wish, limit, since>>

DoorInit ==
  /\ locked = TRUE /\ open = FALSE /\ pulse = 0 /\ age = 0 /\ ajar \in BOOLEAN
  /\ wish = "lock" /\ limit = 0 /\ since = 0

\* After a reset, begin() locks.
DoorBegin ==
  /\ locked' = TRUE /\ open' = FALSE /\ pulse' = 0 /\ age' = 0
  /\ wish' = "lock" /\ limit' = 0 /\ since' = 0
  /\ UNCHANGED ajar

\* "lock" and "close", "unlock", and "open" without a hold: a running pulse
\* is left alone.
Latch(to) ==
  /\ locked' = (to = "lock")
  /\ wish' = to /\ limit' = 0 /\ since' = 0
  /\ UNCHANGED <<open, pulse, age, ajar>>

\* Variant of OpenFor: a pulse that runs already keeps its start.
OpenForSameStart(hold) ==
  /\ locked' = FALSE
  /\ pulse' = hold /\ age' = (IF pulse # 0 THEN age ELSE 0)
  /\ wish' = "timed" /\ limit' = hold /\ since' = 0
  /\ UNCHANGED <<open, ajar>>

\* "open" with a hold.
OpenFor(hold) ==
  /\ locked' = FALSE
  /\ pulse' = hold /\ age' = 0
  /\ wish' = "timed" /\ limit' = hold /\ since' = 0
  /\ UNCHANGED <<open, ajar>>

Apply(hold) ==
  \/ \E to \in {"lock", "unlock"} : Latch(to)
  \/ hold # 0 /\ OpenFor(hold)

\* Variant of Expired: the latch waits until the door is closed.
ExpiredWhenClosed == pulse # 0 /\ age > pulse /\ ~ajar

Expired == pulse # 0 /\ age > pulse

Poll ==
  /\ locked' = (locked \/ Expired)
  /\ pulse' = (IF Expired THEN 0 ELSE pulse) /\ age' = IF Expired THEN 0 ELSE age
  /\ open' = ajar
  /\ UNCHANGED <<ajar, wish, limit, since>>

Cap(t) == IF \E h \in Holds : t <= h THEN t + 1 ELSE t

DoorTick ==
  /\ age' = (IF pulse # 0 THEN Cap(age) ELSE 0)
  /\ since' = (IF wish = "timed" THEN Cap(since) ELSE 0)
  /\ UNCHANGED <<locked, open, pulse, ajar, wish, limit>>

\* Somebody opens or closes the door.
Reed == ajar' = ~ajar /\ UNCHANGED <<locked, open, pulse, age, wish, limit, since>>

-------------------------------------------------------------------------------
(* Properties.                                                              *)

\* Types.
DoorTypeOK ==
  /\ locked \in BOOLEAN /\ open \in BOOLEAN /\ ajar \in BOOLEAN
  /\ pulse \in Holds /\ age \in Nat /\ limit \in Holds /\ since \in Nat
  /\ wish \in {"lock", "unlock", "timed"}

\* An opening is not cut short by the pulse of an earlier one: poll() latches
\* the door again only after the hold of the last opening (apply, poll).
TimedOpeningLasts ==
  [][~locked /\ wish = "timed" /\ locked' /\ wish' = "timed" => since > limit]_doorVars

\* A timed opening ends, unless another command takes its place, also when
\* the loop is held up by a download or a clip (poll).
TimedOpeningEnds ==
  wish = "timed" /\ since # 0 ~> locked \/ wish # "timed" \/ since = 0

-------------------------------------------------------------------------------
(* What the documentation says, and the code does not do.                   *)

\* "Emergency mode unlocks every door via the same command"
\* (src/examples/door/door.ino:5), and the door "re-latches after a timed
\* open" (src/modules/DoorModule.h:54): an unlock without a hold stays.
UnlockHolds == [][~locked /\ wish = "unlock" /\ wish' = "unlock" => ~locked']_doorVars
===============================================================================
