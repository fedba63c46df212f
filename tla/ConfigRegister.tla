---------------------------- MODULE ConfigRegister ----------------------------
(***************************************************************************)
(* What the configuration store promises (src/spd_config.h:41-44): a       *)
(* register that holds what was stored last.  If that was not plausible,   *)
(* or is damaged, it holds what the device was set up with before.         *)
(***************************************************************************)
CONSTANT Values, Plausible
VARIABLES asked, value, base

vars == <<asked, value, base>>

Init == asked \in Values /\ value \in Values /\ base \in Values

Store(v) ==
  /\ asked' = v
  /\ value' = IF v \in Plausible THEN v ELSE base
  /\ UNCHANGED base

Lose == value' = base /\ UNCHANGED <<asked, base>>

Next == (\E v \in Values : Store(v)) \/ Lose

Spec == Init /\ [][Next]_vars
===============================================================================
