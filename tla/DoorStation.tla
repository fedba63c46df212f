------------------------------ MODULE DoorStation ------------------------------
(***************************************************************************)
(* The door station (examples/audio/audio.ino): one thread that handles at *)
(* most one message per pass, then polls the door.  A download and a clip  *)
(* run inside the handler of their message, and while they run nobody      *)
(* looks at the door.  Power may fail at any time.                         *)
(***************************************************************************)
EXTENDS OtaUpdater, DoorModule

CONSTANT MaxRestarts            \* bound: restart commands and power cuts

ASSUME StationAssumption == MaxRestarts \in Nat

VARIABLES
  pc,                           \* "mqtt" (dev.loop()), "ota" and "play" (inside
                                \* it), "poll" (door.poll())
  restarts                      \* counter for the bound

vars == <<otaVars, doorVars, pc, restarts>>

Init == OtaInit /\ DoorInit /\ pc = "mqtt" /\ restarts = 0

-------------------------------------------------------------------------------

\* Nothing to read, or a message that changes none of this.
Quiet ==
  /\ pc = "mqtt" /\ pc' = "poll"
  /\ UNCHANGED <<otaVars, doorVars, restarts>>

DoorCommand ==
  /\ pc = "mqtt" /\ \E hold \in Holds : Apply(hold)
  /\ pc' = "poll"
  /\ UNCHANGED <<otaVars, restarts>>

OtaCommand ==
  /\ pc = "mqtt" /\ \E digest \in Images \union {NoDigest} : Start(digest)
  /\ pc' = "ota"
  /\ UNCHANGED <<doorVars, restarts>>

OtaRuns ==
  /\ pc = "ota" /\ OtaStep
  /\ pc' = IF ota' = "idle" THEN "poll" ELSE "ota"
  /\ UNCHANGED <<doorVars, restarts>>

\* play() reads until the clip is over.
PlayBegins ==
  /\ pc = "mqtt" /\ pc' = "play"
  /\ UNCHANGED <<otaVars, doorVars, restarts>>

PlayEnds ==
  /\ pc = "play" /\ pc' = "poll"
  /\ UNCHANGED <<otaVars, doorVars, restarts>>

PollDoor ==
  /\ pc = "poll" /\ Poll
  /\ pc' = "mqtt"
  /\ UNCHANGED <<otaVars, restarts>>

\* setup(): the door first, then the device.
Setup == Forget /\ DoorBegin /\ pc' = "mqtt"

\* ESP.restart() at the end of a download.
RestartIntoImage == ota = "restart" /\ Setup /\ UNCHANGED restarts

RestartOrPowerCut == restarts < MaxRestarts /\ restarts' = restarts + 1 /\ Setup

Loop ==
  \/ Quiet \/ DoorCommand \/ OtaCommand \/ OtaRuns \/ RestartIntoImage
  \/ PlayBegins \/ PlayEnds \/ PollDoor

Time == DoorTick /\ UNCHANGED <<otaVars, pc, restarts>>

Next ==
  \/ Loop \/ Time \/ RestartOrPowerCut
  \/ Reed /\ UNCHANGED <<otaVars, pc, restarts>>
  \/ Swap /\ UNCHANGED <<doorVars, pc, restarts>>

Spec == Init /\ [][Next]_vars

\* The sketch keeps running, clips end, and time passes.
FairSpec == Spec /\ WF_vars(Loop) /\ WF_vars(Time)

-------------------------------------------------------------------------------
(* Properties.                                                              *)

\* Type invariant.
TypeOK ==
  /\ OtaTypeOK /\ DoorTypeOK
  /\ pc \in {"mqtt", "ota", "play", "poll"} /\ restarts \in 0 .. MaxRestarts
===============================================================================
