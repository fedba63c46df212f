------------------------------- MODULE MqttLink -------------------------------
(***************************************************************************)
(* When the device tries to connect: MqttTransport::loop() of              *)
(* src/spd_mqtt.h with the delays of src/spd_backoff.h, on a millisecond   *)
(* clock that wraps.  A behaviour is one boot; time is the time since, and *)
(* millis() is time modulo Wrap.                                           *)
(*                                                                         *)
(* loop() reads the clock, then blocks in connect() for any time, then     *)
(* draws a delay counted from the reading, after a success as well as      *)
(* after a failure.  Time may also pass between two calls of loop(): the   *)
(* sketch and the rest of the SDK run.                                     *)
(***************************************************************************)
EXTENDS Integers

CONSTANTS
  BaseMs, MaxMs,                \* backoff_: 1000 and 60000
  Wrap,                         \* 2^32
  MaxTime                       \* bound: uptime

ASSUME LinkAssumption ==
  /\ BaseMs \in Nat /\ MaxMs \in Nat /\ Wrap \in Nat /\ MaxTime \in Nat
  /\ 4 <= BaseMs /\ BaseMs <= MaxMs /\ MaxMs < Wrap

VARIABLES
  pc,                           \* "loop", or "connecting": inside connect()
  time,                         \* the time since boot
  connected,                    \* mqtt_.connected()
  now,                          \* the local variable of loop()
  nextAttempt,                  \* nextAttemptMs_
  attempt,                      \* backoff_.attempt_
  start,                        \* history: when the last attempt began
  last                          \* history: "none", "ok" or "failed"

vars == <<pc, time, connected, now, nextAttempt, attempt, start, last>>

millis == time % Wrap

-------------------------------------------------------------------------------
(* Backoff.                                                                 *)

Quarter == BaseMs \div 4

\* Variant of Delays: the ceiling is not capped.
DelaysUncapped(a) ==
  {d \in Quarter .. 4 * MaxMs : d <= BaseMs * 2 ^ (IF a < 20 THEN a ELSE 20)}

\* What next() may draw after a attempts: up to ceilingFor(a), at least a
\* quarter of the base.
Delays(a) ==
  {d \in Quarter .. MaxMs : d <= BaseMs * 2 ^ (IF a < 20 THEN a ELSE 20)}

-------------------------------------------------------------------------------
Init ==
  /\ pc = "loop" /\ time = 0 /\ connected = FALSE
  /\ now = 0 /\ nextAttempt = 0 /\ attempt = 0
  /\ start = 0 /\ last = "none"

\* The clock is read, and an attempt is due.
Attempt ==
  /\ pc = "loop" /\ ~connected
  /\ ~(millis < nextAttempt)
  /\ now' = millis /\ start' = time
  /\ pc' = "connecting"
  /\ UNCHANGED <<time, connected, nextAttempt, attempt, last>>

\* Variant of Succeed: the backoff is not reset.
SucceedNoReset ==
  /\ pc = "connecting"
  /\ connected' = TRUE /\ last' = "ok"
  /\ attempt' = attempt + 1
  /\ \E d \in Delays(attempt) : nextAttempt' = (now + d) % Wrap
  /\ pc' = "loop"
  /\ UNCHANGED <<time, now, start>>

\* connectOnce() succeeds and resets the backoff; loop() draws a delay.
Succeed ==
  /\ pc = "connecting"
  /\ connected' = TRUE /\ last' = "ok"
  /\ attempt' = 1
  /\ \E d \in Delays(0) : nextAttempt' = (now + d) % Wrap
  /\ pc' = "loop"
  /\ UNCHANGED <<time, now, start>>

\* Variant of Fail: the time of the next attempt is not set.
FailNoTimer ==
  /\ pc = "connecting"
  /\ last' = "failed"
  /\ attempt' = attempt + 1
  /\ pc' = "loop"
  /\ UNCHANGED <<time, connected, now, nextAttempt, start>>

Fail ==
  /\ pc = "connecting"
  /\ last' = "failed"
  /\ attempt' = attempt + 1
  /\ \E d \in Delays(attempt) : nextAttempt' = (now + d) % Wrap
  /\ pc' = "loop"
  /\ UNCHANGED <<time, connected, now, start>>

-------------------------------------------------------------------------------
(* The environment.                                                         *)

\* The connection ends.
Drop ==
  /\ pc = "loop" /\ connected
  /\ connected' = FALSE
  /\ UNCHANGED <<pc, time, now, nextAttempt, attempt, start, last>>

Tick ==
  /\ time < MaxTime
  /\ time' = time + 1
  /\ UNCHANGED <<pc, connected, now, nextAttempt, attempt, start, last>>

Next == Attempt \/ Succeed \/ Fail \/ Drop \/ Tick

Spec == Init /\ [][Next]_vars

-------------------------------------------------------------------------------
(* Properties.                                                              *)

\* Type invariant; every attempt takes its millisecond.
TypeOK ==
  /\ pc \in {"loop", "connecting"}
  /\ time \in 0 .. MaxTime /\ start \in 0 .. MaxTime
  /\ connected \in BOOLEAN
  /\ now \in 0 .. Wrap - 1 /\ nextAttempt \in 0 .. Wrap - 1
  /\ attempt \in 0 .. MaxTime + 1
  /\ last \in {"none", "ok", "failed"}

\* A device without a connection is never further from its next attempt than
\* the longest delay of its backoff (loop, Backoff::next).
DueSoon == pc = "loop" /\ ~connected => nextAttempt - millis <= MaxMs

\* However fast connections fail or drop, attempts begin at least a quarter of
\* the base delay apart.
AttemptsSpaced == [][Attempt /\ last # "none" => time - start >= Quarter]_vars

\* However many attempts failed before it, after a connection that lasted the
\* base delay the device may reconnect at once (connectOnce).
QuickReturn ==
  pc = "loop" /\ ~connected /\ last = "ok" /\ time - start >= BaseMs => nextAttempt <= millis

(* The condition under which they hold: the clock does not wrap.            *)
NoWrap == MaxTime + MaxMs < Wrap

-------------------------------------------------------------------------------
(* What the documentation says, and the code does not do.                   *)

\* "exponential-backoff reconnect" (src/spd_mqtt.h:6): a connection that drops
\* is tried again within the longest delay, at any uptime.
DropsAreRetried == [][Drop => nextAttempt - millis <= MaxMs]_vars
===============================================================================
