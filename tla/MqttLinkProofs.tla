---------------------------- MODULE MqttLinkProofs ----------------------------
(***************************************************************************)
(* Theorems about MqttLink: as long as the clock does not wrap, attempts   *)
(* to connect are neither late nor crowded.                                *)
(***************************************************************************)
EXTENDS MqttLink, TLAPS

\* The delay that is pending was drawn when the last attempt began.
Timed ==
  /\ pc = "connecting" => now = start /\ ~connected
  /\ last = "none" => attempt = 0 /\ nextAttempt = 0
  /\ last # "none" /\ pc = "loop" =>
       start + Quarter <= nextAttempt /\ nextAttempt <= start + MaxMs
  /\ last = "ok" /\ pc = "loop" => nextAttempt <= start + BaseMs
  /\ connected => last = "ok"

\* Attempts are counted by their milliseconds.
Counted ==
  /\ start <= time
  /\ pc = "loop" => attempt <= start + 1
  /\ pc = "connecting" => attempt <= start

IInv == TypeOK /\ Timed /\ Counted

-------------------------------------------------------------------------------
\* Below the wrap, millis() is the time since boot.
LEMMA Unwrapped == ASSUME NEW t \in Nat, t < Wrap PROVE t % Wrap = t
  BY LinkAssumption

LEMMA QuarterFacts == Quarter \in Nat /\ 1 <= Quarter /\ Quarter <= MaxMs
  BY LinkAssumption DEF Quarter

\* Every delay is a number between a quarter of the base and the maximum.
LEMMA DelayBounds ==
  ASSUME NEW a \in Nat, NEW d \in Delays(a)
  PROVE  d \in Nat /\ Quarter <= d /\ d <= MaxMs
  BY QuarterFacts, LinkAssumption DEF Delays

\* The first delay after a success is at most the base.
LEMMA FirstDelay == ASSUME NEW d \in Delays(0) PROVE d <= BaseMs
<1>1. 2 ^ 0 = 1
  OBVIOUS
<1>2. d \in Int /\ d <= BaseMs * 2 ^ 0
  BY QuarterFacts, LinkAssumption DEF Delays
<1> QED
  BY <1>1, <1>2, LinkAssumption

-------------------------------------------------------------------------------
LEMMA InitIInv == ASSUME Init PROVE IInv
<1>1. connected \in BOOLEAN
  BY DEF Init
<1>2. TypeOK
  BY <1>1, LinkAssumption DEF Init, TypeOK
<1>3. Timed /\ Counted
  BY DEF Init, Timed, Counted
<1> QED
  BY <1>2, <1>3 DEF IInv

LEMMA AttemptKeeps ==
  ASSUME NoWrap, IInv, Attempt PROVE IInv'
<1>1. time \in Nat /\ time < Wrap /\ millis = time
  BY Unwrapped, LinkAssumption DEF NoWrap, IInv, TypeOK, millis
<1>2. now' = time /\ start' = time /\ pc' = "connecting" /\ pc = "loop"
  BY <1>1 DEF Attempt
<1>3. last # "none" => start + 1 <= time
  BY <1>1, QuarterFacts, LinkAssumption DEF IInv, TypeOK, Timed, Attempt
<1>4. TypeOK'
  BY <1>1, <1>2, LinkAssumption DEF IInv, TypeOK, Attempt
<1>5. Timed'
  BY <1>2 DEF IInv, Timed, Attempt
<1>6. Counted'
  BY <1>1, <1>2, <1>3 DEF IInv, TypeOK, Timed, Counted, Attempt
<1> QED
  BY <1>4, <1>5, <1>6 DEF IInv

\* Both outcomes of an attempt set the time of the next one.
LEMMA TimerSet ==
  ASSUME NoWrap, IInv, pc = "connecting",
         NEW a \in Nat, NEW d \in Delays(a), nextAttempt' = (now + d) % Wrap
  PROVE  /\ nextAttempt' = start + d
         /\ nextAttempt' \in 0 .. Wrap - 1
<1>1. d \in Nat /\ d <= MaxMs
  BY DelayBounds
<1>2. now = start /\ start \in Nat /\ start <= MaxTime
  BY LinkAssumption DEF IInv, TypeOK, Timed
<1>3. now + d \in Nat /\ now + d < Wrap
  BY <1>1, <1>2, LinkAssumption DEF NoWrap
<1>4. (now + d) % Wrap = now + d
  BY <1>3, Unwrapped
<1> QED
  BY <1>2, <1>3, <1>4, LinkAssumption

LEMMA SucceedKeeps ==
  ASSUME NoWrap, IInv, Succeed PROVE IInv'
<1>1. PICK d \in Delays(0) : nextAttempt' = (now + d) % Wrap
  BY DEF Succeed
<1>2. nextAttempt' = start + d /\ nextAttempt' \in 0 .. Wrap - 1
  BY <1>1, TimerSet DEF Succeed
<1>3. d \in Nat /\ Quarter <= d /\ d <= MaxMs /\ d <= BaseMs
  BY DelayBounds, FirstDelay
<1>4. TypeOK'
  BY <1>2, LinkAssumption DEF IInv, TypeOK, Succeed
<1>5. Timed'
  BY <1>2, <1>3, QuarterFacts, LinkAssumption DEF IInv, TypeOK, Timed, Succeed
<1>6. Counted'
  BY DEF IInv, TypeOK, Counted, Succeed
<1> QED
  BY <1>4, <1>5, <1>6 DEF IInv

LEMMA FailKeeps ==
  ASSUME NoWrap, IInv, Fail PROVE IInv'
<1>0. attempt \in Nat
  BY DEF IInv, TypeOK
<1>1. PICK d \in Delays(attempt) : nextAttempt' = (now + d) % Wrap
  BY DEF Fail
<1>2. nextAttempt' = start + d /\ nextAttempt' \in 0 .. Wrap - 1
  BY <1>0, <1>1, TimerSet DEF Fail
<1>3. d \in Nat /\ Quarter <= d /\ d <= MaxMs
  BY <1>0, DelayBounds
<1>4. TypeOK'
  BY <1>2, LinkAssumption DEF IInv, TypeOK, Counted, Fail
<1>5. Timed'
  BY <1>2, <1>3, QuarterFacts, LinkAssumption DEF IInv, TypeOK, Timed, Fail
<1>6. Counted'
  BY DEF IInv, TypeOK, Counted, Fail
<1> QED
  BY <1>4, <1>5, <1>6 DEF IInv

LEMMA DropKeeps == ASSUME IInv, Drop PROVE IInv'
  BY DEF IInv, TypeOK, Timed, Counted, Drop

LEMMA TickKeeps == ASSUME IInv, Tick PROVE IInv'
  BY LinkAssumption DEF IInv, TypeOK, Timed, Counted, Tick

\* The inductive invariant, for every value of the constants.
THEOREM LinkInvariance == ASSUME NoWrap PROVE Spec => []IInv
<1>1. Init => IInv
  BY InitIInv
<1>2. IInv /\ [Next]_vars => IInv'
  <2> SUFFICES ASSUME IInv, [Next]_vars PROVE IInv'
    OBVIOUS
  <2>1. CASE Attempt
    BY <2>1, AttemptKeeps, NoWrap
  <2>2. CASE Succeed
    BY <2>2, SucceedKeeps, NoWrap
  <2>3. CASE Fail
    BY <2>3, FailKeeps, NoWrap
  <2>4. CASE Drop
    BY <2>4, DropKeeps
  <2>5. CASE Tick
    BY <2>5, TickKeeps
  <2>6. CASE UNCHANGED vars
    BY <2>6 DEF IInv, TypeOK, Timed, Counted, vars
  <2> QED
    BY <2>1, <2>2, <2>3, <2>4, <2>5, <2>6 DEF Next
<1> QED
  BY <1>1, <1>2, PTL DEF Spec

-------------------------------------------------------------------------------
\* Every variable keeps its type, and attempts are at most one a millisecond.
THEOREM LinkTypes == ASSUME NoWrap PROVE Spec => []TypeOK
<1>1. IInv => TypeOK
  BY DEF IInv
<1> QED
  BY <1>1, LinkInvariance, NoWrap, PTL

\* The next attempt is never further away than the longest delay.
THEOREM NextIsNear == ASSUME NoWrap PROVE Spec => []DueSoon
<1>1. ASSUME IInv PROVE DueSoon
  <2>1. time \in Nat /\ millis = time
    BY <1>1, Unwrapped, LinkAssumption DEF NoWrap, IInv, TypeOK, millis
  <2> QED
    BY <1>1, <2>1, LinkAssumption DEF IInv, TypeOK, Timed, Counted, DueSoon
<1> QED
  BY <1>1, LinkInvariance, NoWrap, PTL

\* After a connection that lasted the base delay, the next attempt is due.
THEOREM NoPenalty == ASSUME NoWrap PROVE Spec => []QuickReturn
<1>1. ASSUME IInv PROVE QuickReturn
  <2>1. time \in Nat /\ millis = time
    BY <1>1, Unwrapped, LinkAssumption DEF NoWrap, IInv, TypeOK, millis
  <2> QED
    BY <1>1, <2>1, LinkAssumption DEF IInv, TypeOK, Timed, QuickReturn
<1> QED
  BY <1>1, LinkInvariance, NoWrap, PTL

\* Attempts begin at least a quarter of the base delay apart.
THEOREM Unhurried == ASSUME NoWrap PROVE Spec => AttemptsSpaced
<1>1. ASSUME IInv, Attempt, last # "none" PROVE time - start >= Quarter
  <2>1. time \in Nat /\ millis = time
    BY <1>1, Unwrapped, LinkAssumption DEF NoWrap, IInv, TypeOK, millis
  <2> QED
    BY <1>1, <2>1, QuarterFacts, LinkAssumption DEF IInv, TypeOK, Timed, Attempt
<1>2. IInv /\ [Next]_vars => [Attempt /\ last # "none" => time - start >= Quarter]_vars
  BY <1>1
<1> QED
  BY <1>2, LinkInvariance, NoWrap, PTL DEF Spec, AttemptsSpaced
===============================================================================
