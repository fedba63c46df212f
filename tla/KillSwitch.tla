------------------------------ MODULE KillSwitch ------------------------------
(***************************************************************************)
(* The fleet kill switch: the kennel's retained control message, the       *)
(* subscriptions a device makes on connecting (src/spd_mqtt.h), and        *)
(* safeMode_, which suspends command handlers and scheduled actions        *)
(* (src/spd_device.h).                                                     *)
(*                                                                         *)
(* The broker is external.  It works through the packets that              *)
(* connectOnce() sends in their order (subscribe to command, then to the   *)
(* control topic), delivers messages in the order it routed them, keeps    *)
(* one retained control message, and forgets a session when its connection *)
(* ends (cleanSession).                                                    *)
(***************************************************************************)
EXTENDS Naturals, Sequences

CONSTANTS
  MaxControls,                  \* bound: control messages published
  MaxCommands,                  \* bound: commands sent, and scheduled actions
  MaxBreaks                     \* bound: broken connections and restarts

ASSUME KillSwitchAssumption ==
  /\ MaxControls \in Nat
  /\ MaxCommands \in Nat
  /\ MaxBreaks \in Nat

VARIABLES
  pc,                           \* "pump" (mqtt_.loop()), then "tick" (tickSchedule())
  connected,                    \* mqtt_.connected()
  safe,                         \* safeMode_
  retained,                     \* the broker's control message
  session,                      \* how far the broker got with the subscriptions
  inbox,                        \* messages routed to the device, oldest first
  acts,                         \* history: actions of this boot
  heard,                        \* history: the device has taken in the present
                                \* control message in this boot
  controls, commands, breaks    \* counters for the bounds

device  == <<pc, connected, safe>>
broker  == <<retained, session, inbox>>
history == <<acts, heard>>
bounds  == <<controls, commands, breaks>>
vars == <<device, broker, history, bounds>>

\* What the control topic holds or carries: safeMode true, safeMode false, or
\* the empty payload that deletes the retained message.
Controls == {"halt", "resume", "clear"}

\* A command, and one that was sent to a halted kennel over a session that
\* has the control subscription.
Commands == {"command", "lateCommand"}

NoControl(s) == \A i \in DOMAIN s : s[i] \in Commands

Init ==
  /\ pc = "pump" /\ connected = FALSE /\ safe = FALSE
  /\ retained \in Controls /\ session = "none" /\ inbox = <<>>
  /\ acts = 0 /\ heard = FALSE
  /\ controls = 0 /\ commands = 0 /\ breaks = 0

-------------------------------------------------------------------------------
(* The device.                                                              *)

\* Variant of ConnectOnce: a device in safe mode does not subscribe to the
\* control topic again.
ConnectNoControl ==
  /\ pc = "pump" /\ ~connected
  /\ connected' = TRUE
  /\ session' = IF safe THEN "commandOnly" ELSE "connected"
  /\ pc' = "tick"
  /\ UNCHANGED <<safe, retained, inbox, history, bounds>>

\* An attempt to connect succeeds; loop() goes on with the same pass.
ConnectOnce ==
  /\ pc = "pump" /\ ~connected
  /\ connected' = TRUE
  /\ session' = "connected"
  /\ pc' = "tick"
  /\ UNCHANGED <<safe, retained, inbox, history, bounds>>

\* No connection yet, or nothing to read.
PumpNothing ==
  /\ pc = "pump" /\ (connected => inbox = <<>>)
  /\ pc' = "tick"
  /\ UNCHANGED <<connected, safe, broker, history, bounds>>

\* Variant of OnControl: a control without safeMode is taken for a halt.
OnControlDefaultHalt ==
  /\ pc = "pump" /\ connected /\ inbox # <<>> /\ Head(inbox) \in {"halt", "resume"}
  /\ safe' = TRUE
  /\ heard' = (retained = Head(inbox) /\ NoControl(Tail(inbox)))
  /\ inbox' = Tail(inbox)
  /\ pc' = "tick"
  /\ UNCHANGED <<connected, retained, session, acts, bounds>>

\* Variant of OnControl: every control switches.
OnControlToggles ==
  /\ pc = "pump" /\ connected /\ inbox # <<>> /\ Head(inbox) \in {"halt", "resume"}
  /\ safe' = ~safe
  /\ heard' = (retained = Head(inbox) /\ NoControl(Tail(inbox)))
  /\ inbox' = Tail(inbox)
  /\ pc' = "tick"
  /\ UNCHANGED <<connected, retained, session, acts, bounds>>

\* applyControl().
OnControl ==
  /\ pc = "pump" /\ connected /\ inbox # <<>> /\ Head(inbox) \in {"halt", "resume"}
  /\ safe' = (Head(inbox) = "halt")
  /\ heard' = (retained = Head(inbox) /\ NoControl(Tail(inbox)))
  /\ inbox' = Tail(inbox)
  /\ pc' = "tick"
  /\ UNCHANGED <<connected, retained, session, acts, bounds>>

\* onRaw() drops an empty payload: deserializeJson() fails on it.
OnEmpty ==
  /\ pc = "pump" /\ connected /\ inbox # <<>> /\ Head(inbox) = "clear"
  /\ inbox' = Tail(inbox)
  /\ pc' = "tick"
  /\ UNCHANGED <<connected, safe, retained, session, history, bounds>>

\* Variant of OnCommand: safe mode is not looked at.
OnCommandAlways ==
  /\ pc = "pump" /\ connected /\ inbox # <<>> /\ Head(inbox) \in Commands
  /\ acts' = acts + 1
  /\ inbox' = Tail(inbox)
  /\ pc' = "tick"
  /\ UNCHANGED <<connected, safe, retained, session, heard, bounds>>

\* onMqtt(): a command handler acts, or the command is rejected.
OnCommand ==
  /\ pc = "pump" /\ connected /\ inbox # <<>> /\ Head(inbox) \in Commands
  /\ acts' = IF safe THEN acts ELSE acts + 1
  /\ inbox' = Tail(inbox)
  /\ pc' = "tick"
  /\ UNCHANGED <<connected, safe, retained, session, heard, bounds>>

\* tickSchedule() with something due.
TickFires ==
  /\ pc = "tick" /\ connected /\ ~safe /\ commands < MaxCommands
  /\ acts' = acts + 1 /\ commands' = commands + 1
  /\ pc' = "pump"
  /\ UNCHANGED <<connected, safe, broker, heard, controls, breaks>>

\* ... or with nothing due, in safe mode, or offline.
TickNothing ==
  /\ pc = "tick"
  /\ pc' = "pump"
  /\ UNCHANGED <<connected, safe, broker, history, bounds>>

-------------------------------------------------------------------------------
(* The broker and the cloud.                                                *)

SubscribeCommand ==
  /\ session = "connected"
  /\ session' = "command"
  /\ UNCHANGED <<device, retained, inbox, history, bounds>>

\* A subscription to the control topic is answered with what it holds.
SubscribeControl ==
  /\ session = "command"
  /\ session' = "control"
  /\ inbox' = IF retained = "clear" THEN inbox ELSE Append(inbox, retained)
  /\ UNCHANGED <<device, retained, history, bounds>>

\* The cloud halts the kennel, resumes it, or clears the control topic.
Publish(c) ==
  /\ controls < MaxControls /\ c # retained
  /\ retained' = c
  /\ inbox' = IF session = "control" THEN Append(inbox, c) ELSE inbox
  /\ heard' = FALSE
  /\ controls' = controls + 1
  /\ UNCHANGED <<device, session, acts, commands, breaks>>

\* The cloud sends a command; without a subscription it is lost.
Sent == IF session = "control" /\ retained = "halt" THEN "lateCommand" ELSE "command"

SendCommand ==
  /\ commands < MaxCommands
  /\ inbox' = IF session \in {"command", "control"} THEN Append(inbox, Sent) ELSE inbox
  /\ commands' = commands + 1
  /\ UNCHANGED <<device, retained, session, history, controls, breaks>>

\* The connection breaks, between two reads of the device.
Break ==
  /\ connected /\ breaks < MaxBreaks
  /\ connected' = FALSE /\ session' = "none" /\ inbox' = <<>>
  /\ breaks' = breaks + 1
  /\ UNCHANGED <<pc, safe, retained, history, controls, commands>>

\* A restart: safeMode_ is FALSE again.
Restart ==
  /\ breaks < MaxBreaks
  /\ pc' = "pump" /\ connected' = FALSE /\ safe' = FALSE
  /\ session' = "none" /\ inbox' = <<>>
  /\ acts' = 0 /\ heard' = FALSE
  /\ breaks' = breaks + 1
  /\ UNCHANGED <<retained, controls, commands>>
-------------------------------------------------------------------------------

Loop ==
  \/ ConnectOnce \/ PumpNothing \/ OnControl \/ OnEmpty \/ OnCommand
  \/ TickFires \/ TickNothing

Subscribe == SubscribeCommand \/ SubscribeControl

Next ==
  \/ Loop \/ Subscribe
  \/ (\E c \in Controls : Publish(c)) \/ SendCommand \/ Break \/ Restart

Spec == Init /\ [][Next]_vars

\* The sketch keeps calling loop(), the broker works through its packets, and
\* of the attempts to connect not all fail.
FairSpec == Spec /\ WF_vars(Loop) /\ SF_vars(ConnectOnce) /\ WF_vars(Subscribe)

-------------------------------------------------------------------------------
(* Properties.                                                              *)

\* Type invariant.
TypeOK ==
  /\ pc \in {"pump", "tick"}
  /\ connected \in BOOLEAN /\ safe \in BOOLEAN
  /\ retained \in Controls
  /\ session \in {"none", "connected", "command", "control"}
  /\ inbox \in Seq(Controls \union Commands)
  /\ acts \in Nat /\ heard \in BOOLEAN
  /\ controls \in 0 .. MaxControls /\ commands \in 0 .. MaxCommands /\ breaks \in 0 .. MaxBreaks

\* A device with the control subscription agrees with the control topic, or
\* has the message that makes it agree on its way, behind every older one
\* (connectOnce, applyControl).
Agreement ==
  session = "control" /\ retained # "clear" =>
    \/ NoControl(inbox) /\ safe = (retained = "halt")
    \/ \E i \in DOMAIN inbox :
         /\ inbox[i] = retained
         /\ \A j \in DOMAIN inbox : j > i => inbox[j] \in Commands

\* A command routed after a halt is rejected, whatever is published while it
\* is on its way (onMqtt, applyControl).
LateCommandRejected ==
  inbox # <<>> /\ Head(inbox) = "lateCommand" => safe

\* A device that has heard in this boot that the kennel is halted does not
\* act until the control topic changes, reconnects or not (tickSchedule,
\* onMqtt).
HeardHaltStopsActs == [][heard /\ retained = "halt" => acts' <= acts]_vars

\* A halt that stays takes hold of the device for good, and a resume that
\* stays releases it.
TakesHold ==
  /\ <>[](retained = "halt") => <>[]safe
  /\ <>[](retained = "resume") => <>[]~safe

-------------------------------------------------------------------------------
(* What the documentation says, and the code does not do.                   *)

\* "An empty / cleared retained message ... leaves safe mode"
\* (src/spd_device.h:295).
ClearReleases == <>[](retained = "clear") => <>[]~safe
===============================================================================
