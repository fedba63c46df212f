--------------------------- MODULE DeviceLifecycle ---------------------------
(***************************************************************************)
(* The life of a device between its resets (src/spd_device.h): begin()     *)
(* with the configuration of ConfigStore and the time of TimeSync, Wi-Fi   *)
(* with the setup portal behind it (src/spd_wifi.h), the connection made   *)
(* with the stored credentials and their rotation, and the retained status *)
(* that replaces the will.  Power may fail between any two steps.          *)
(*                                                                         *)
(* The broker and the cloud are external: they accept the old and the new  *)
(* credentials from the rotate_credentials command until its ack, which    *)
(* the command's connection may lose, and only the new ones from then on.  *)
(***************************************************************************)
EXTENDS ConfigStore, TimeSync, FiniteSets

CONSTANTS
  Home,                         \* the network of this place
  Creds, First,                 \* credentials: the pairs of user and password
                                \* the cloud mints; those of the first setup
  SketchType,                   \* the type given to the constructor
  Entries,                      \* what people enter in the form of the portal
  MaxResets,                    \* bound: power cuts, restarts, portal saves
  MaxFaults                     \* bound: broken connections, access point
                                \* changes, damaged entries

ASSUME LifecycleAssumption ==
  /\ Home \in Networks /\ First \in Creds /\ Creds \subseteq Users \X Passes
  /\ SketchType \in Types /\ \A e \in Entries : e \in Config
  /\ MaxResets \in Nat /\ MaxFaults \in Nat

VARIABLES
  pc,                           \* "boot", "migrate", "start" (begin()), "net",
                                \* "edge", "tail" (loop()), "acked" (in the
                                \* handler of rotate_credentials)
  cfg,                          \* cfg_
  portal, ever,                 \* portalActive_, everConnected_
  mqtt,                         \* mqtt_.connected()
  online, wasOnline,            \* the local of loop(); wasOnline_
  shown,                        \* the retained status: "will" or "status"
  ap,                           \* the access point is there
  accepted, issued,             \* credentials the broker accepts; ever issued
  asked,                        \* history: the configuration stored last
  torn,                         \* history: a reset hit a rotation between ack
                                \* and save, the entry was damaged, one was
                                \* stored that is not plausible, or people
                                \* entered credentials that are none
  resets, faults                \* counters for the bounds

configVars == <<blob, legacy, asked>>
wifiVars   == <<portal, ever>>
linkVars   == <<mqtt, online, wasOnline, shown>>
cloudVars  == <<accepted, issued>>
bounds     == <<resets, faults>>
vars == <<pc, cfg, configVars, wifiVars, linkVars, cloudVars, ap, torn, bounds, timeVars>>

FirstSetup(type) == [net |-> Home, id |-> TRUE, type |-> type, user |-> First[1], pass |-> First[2]]

CredsOf(c) == <<c.user, c.pass>>

\* A new device, one set up before the checksum, by firmware that may have had
\* another type, or one set up since.
Init ==
  /\ \/ blob = NoBlob /\ legacy \in {Factory} \union {FirstSetup(type) : type \in Types}
     \/ blob = FirstSetup(SketchType) /\ legacy = Factory
  /\ asked = load
  /\ pc = "boot" /\ cfg = Factory /\ portal = FALSE /\ ever = FALSE
  /\ mqtt = FALSE /\ online = FALSE /\ wasOnline = FALSE /\ shown = "will"
  /\ ap \in BOOLEAN /\ accepted = {First} /\ issued = {First} /\ torn = FALSE
  /\ resets = 0 /\ faults = 0
  /\ TimeInit

-------------------------------------------------------------------------------
(* begin().                                                                 *)

Boot ==
  /\ pc = "boot"
  /\ cfg' = load /\ brownoutBootCheck
  /\ pc' = IF Migrated THEN "migrate" ELSE "start"
  /\ UNCHANGED <<configVars, wifiVars, linkVars, cloudVars, ap, torn, bounds, clocks>>

Migrate ==
  /\ pc = "migrate" /\ save(cfg)
  /\ pc' = "start"
  /\ UNCHANGED <<asked, cfg, wifiVars, linkVars, cloudVars, ap, torn, bounds, timeVars>>

Begin ==
  /\ pc = "start"
  /\ cfg' = IF cfg.type = NoType THEN [cfg EXCEPT !.type = SketchType] ELSE cfg
  /\ portal' = ~hasWifi(cfg) /\ restoreLastKnown
  /\ pc' = "net"
  /\ UNCHANGED <<configVars, ever, linkVars, cloudVars, ap, torn, bounds, resetLog>>

-------------------------------------------------------------------------------
(* loop().                                                                  *)

WifiUp == ap /\ cfg.net = Home /\ ~portal

\* wifi_.poll() while it is not connected: within provisionAfterMs, or after it.
PortalOpens ==
  /\ pc = "net" /\ ~WifiUp /\ ~portal /\ ~ever
  /\ portal' = TRUE
  /\ UNCHANGED <<pc, cfg, configVars, ever, linkVars, cloudVars, ap, torn, bounds, timeVars>>

\* One pass up to mqtt_.loop(), which may connect.
NetPass ==
  /\ pc = "net" /\ PollTime
  /\ ever' = (ever \/ WifiUp)
  /\ mqtt' \in IF WifiUp /\ CredsOf(cfg) \in accepted THEN {mqtt, TRUE} ELSE {mqtt}
  /\ online' = (WifiUp /\ mqtt')
  /\ pc' = "edge"
  /\ UNCHANGED <<cfg, configVars, portal, wasOnline, shown, cloudVars, ap, torn, bounds, resetLog>>

Connects == NetPass /\ mqtt'

\* handleConnectivity(): publishStatus() looks at the connection again.
Edge ==
  /\ pc = "edge"
  /\ wasOnline' = online
  /\ shown' = IF online /\ ~wasOnline /\ mqtt THEN "status" ELSE shown
  /\ pc' = "tail"
  /\ UNCHANGED <<cfg, configVars, wifiVars, mqtt, online, cloudVars, ap, torn, bounds, timeVars>>

\* Neither the time nor the status is due.
TailQuiet ==
  /\ pc = "tail" /\ pc' = "net"
  /\ UNCHANGED <<cfg, configVars, wifiVars, linkVars, cloudVars, ap, torn, bounds, timeVars>>

TailTime ==
  /\ pc = "tail" /\ SaveTime
  /\ pc' = "net"
  /\ UNCHANGED <<cfg, configVars, wifiVars, linkVars, cloudVars, ap, torn, bounds, resetLog>>

\* Variant of TailStatus: the status is published on the edge only.
TailStatusNever ==
  /\ pc = "tail" /\ online
  /\ pc' = "net"
  /\ UNCHANGED <<cfg, configVars, wifiVars, linkVars, cloudVars, ap, torn, bounds, timeVars>>

\* The periodic status.
TailStatus ==
  /\ pc = "tail" /\ online
  /\ shown' = IF mqtt THEN "status" ELSE shown
  /\ pc' = "net"
  /\ UNCHANGED <<cfg, configVars, wifiVars, mqtt, online, wasOnline, cloudVars, ap, torn, bounds,
                 timeVars>>

-------------------------------------------------------------------------------
(* Commands, the portal, and resets.                                        *)

\* What a reset of any kind does to RAM and to the connection.
Restarts(kind) ==
  /\ Reset(kind)
  /\ pc' = "boot" /\ cfg' = Factory /\ portal' = FALSE /\ ever' = FALSE
  /\ mqtt' = FALSE /\ online' = FALSE /\ wasOnline' = FALSE
  /\ shown' = IF mqtt THEN "will" ELSE shown

\* rotate_credentials arrives, with texts of any length; the ack reaches the
\* cloud or does not.
Rotate(new) ==
  /\ pc = "net" /\ WifiUp /\ mqtt
  /\ issued' = issued \union {new}
  /\ accepted' \in {{new}, accepted \union {new}}
  /\ cfg' = [cfg EXCEPT !.user = new[1], !.pass = new[2]]
  /\ pc' = "acked"
  /\ UNCHANGED <<configVars, wifiVars, linkVars, ap, torn, bounds, timeVars>>

\* Variant of RotateSave: the restart comes before the save.
RotateSaveForgets ==
  /\ pc = "acked" /\ UNCHANGED <<blob, legacy>> /\ asked' = cfg
  /\ torn' = (torn \/ ~configPlausible(cfg))
  /\ Restarts("warm")
  /\ UNCHANGED <<cloudVars, ap, bounds>>

\* What is stored has been checked by nobody.
RotateSave ==
  /\ pc = "acked" /\ save(cfg) /\ asked' = cfg
  /\ torn' = (torn \/ ~configPlausible(cfg))
  /\ Restarts("warm")
  /\ UNCHANGED <<cloudVars, ap, bounds>>

\* The form of the portal: everything is stored as entered, but a password left
\* blank keeps the old one, and the type has no field.
Form(e) == Filled([cfg EXCEPT !.net = e.net, !.id = e.id, !.user = e.user,
                              !.pass = IF e.pass = NoPass THEN @ ELSE e.pass])

\* The user name was left as it is, the password blank.
Kept(e) == e.pass = NoPass /\ Form(e).user = cfg.user

\* What was entered is a pair of the broker's, or there is no password yet.
Entered(e) == CredsOf(Form(e)) \in accepted \/ Form(e).pass = NoPass

\* A restart follows.
HandleSave(e) ==
  /\ pc = "net" /\ portal /\ resets < MaxResets
  /\ save(Form(e)) /\ asked' = Form(e)
  /\ torn' = ((Kept(e) /\ torn) \/ ~(Kept(e) \/ Entered(e)) \/ ~configPlausible(Form(e)))
  /\ Restarts("warm")
  /\ resets' = resets + 1
  /\ UNCHANGED <<cloudVars, ap, faults>>

\* A power cut, a brown-out, or a restart command, watchdog or panic.
ResetAnywhere(kind) ==
  /\ resets < MaxResets
  /\ Restarts(kind)
  /\ torn' = (torn \/ pc = "acked")
  /\ resets' = resets + 1
  /\ UNCHANGED <<configVars, cloudVars, ap, faults>>

-------------------------------------------------------------------------------
(* The environment.                                                         *)

Drop ==
  /\ mqtt /\ faults < MaxFaults
  /\ mqtt' = FALSE /\ shown' = "will"
  /\ faults' = faults + 1
  /\ UNCHANGED <<pc, cfg, configVars, wifiVars, online, wasOnline, cloudVars, ap, torn, resets,
                 timeVars>>

\* The access point goes, taking the connection with it, or comes back.
ApChanges ==
  /\ faults < MaxFaults
  /\ ap' = ~ap /\ mqtt' = FALSE /\ shown' = (IF mqtt THEN "will" ELSE shown)
  /\ faults' = faults + 1
  /\ UNCHANGED <<pc, cfg, configVars, wifiVars, online, wasOnline, cloudVars, torn, resets,
                 timeVars>>

Damage ==
  /\ blob # NoBlob /\ faults < MaxFaults
  /\ blob' = Damaged /\ torn' = TRUE
  /\ faults' = faults + 1
  /\ UNCHANGED <<pc, cfg, legacy, asked, wifiVars, linkVars, cloudVars, ap, resets, timeVars>>

NtpAnswers ==
  /\ WifiUp /\ pc \in {"net", "edge", "tail"} /\ Sntp
  /\ UNCHANGED <<pc, cfg, configVars, wifiVars, linkVars, cloudVars, ap, torn, bounds, resetLog>>

TimePasses ==
  /\ Tick
  /\ UNCHANGED <<pc, cfg, configVars, wifiVars, linkVars, cloudVars, ap, torn, bounds, resetLog>>
-------------------------------------------------------------------------------

Loop ==
  \/ Boot \/ Migrate \/ Begin
  \/ NetPass \/ Edge \/ TailQuiet \/ TailTime \/ TailStatus \/ RotateSave

Next ==
  \/ Loop \/ PortalOpens
  \/ \E new \in Creds \ issued : Rotate(new)
  \/ \E e \in Entries : HandleSave(e)
  \/ \E kind \in {"cold", "brownout", "warm"} : ResetAnywhere(kind)
  \/ Drop \/ ApChanges \/ Damage \/ NtpAnswers \/ TimePasses

Spec == Init /\ [][Next]_vars

\* The sketch keeps calling loop(); millis() passes provisionAfterMs and the
\* status interval; of the attempts to connect not all fail.
FairSpec ==
  Spec /\ WF_vars(Loop) /\ SF_vars(PortalOpens) /\ SF_vars(Connects) /\ SF_vars(TailStatus)

-------------------------------------------------------------------------------
(* Properties.                                                              *)

\* Type invariant.
TypeOK ==
  /\ ConfigTypeOK /\ TimeTypeOK /\ asked \in Config /\ cfg \in Config
  /\ pc \in {"boot", "migrate", "start", "net", "edge", "tail", "acked"}
  /\ \A flag \in {portal, ever, mqtt, online, wasOnline, ap, torn} : flag \in BOOLEAN
  /\ shown \in {"will", "status"}
  /\ accepted \subseteq issued /\ issued \subseteq Creds
  /\ resets \in 0 .. MaxResets /\ faults \in 0 .. MaxFaults

\* The credentials a restart would use are a pair that the broker accepts, or
\* the device never had a password, unless a reset fell between the ack of a
\* rotation and its save, the entry was damaged, what a rotation or the form
\* stored is more than configPlausible() allows, or people entered credentials
\* that are none (rotate_credentials, handleSave, load).
KeepsAccess ==
  CredsOf(load) \in accepted \/ load.pass = NoPass \/ torn \/ pc = "acked"

\* ConfigStore implements ConfigRegister: a restart brings back what was stored
\* last, at whatever step the power failed, and never a mixture.
Register == INSTANCE ConfigRegister WITH
  Values <- Config, Plausible <- {c \in Config : configPlausible(c)},
  value <- load, base <- Fallback

ImplementsRegister == Register!Spec

\* Where the access point stays, the device comes back with a status that has
\* replaced its will, or waits in the portal, or holds credentials that the
\* broker refuses (poll, handleConnectivity, publishStatus).
ComesBack ==
  <>[]ap => <>[](portal \/ (mqtt /\ shown = "status") \/ CredsOf(cfg) \notin accepted)
===============================================================================
