---------------------------- MODULE LifecycleProofs ----------------------------
(***************************************************************************)
(* Proofs about DeviceLifecycle.  Time, configuration and connection share *)
(* the steps of begin() and loop() but no variables, so each is followed   *)
(* through a relation of its own that every step of Next implies:          *)
(* TimeStep and ConfigStep.                                                *)
(***************************************************************************)
EXTENDS DeviceLifecycle, TLAPS

TimeStep ==
  \/ UNCHANGED timeVars
  \/ brownoutBootCheck /\ UNCHANGED clocks
  \/ (restoreLastKnown \/ PollTime \/ SaveTime \/ Sntp \/ Tick) /\ UNCHANGED resetLog
  \/ \E kind \in {"cold", "brownout", "warm"} : Reset(kind)

ConfigStep ==
  \/ UNCHANGED configVars
  \/ Migrate
  \/ \E c \in Config : Filled(c) = c /\ save(c) /\ asked' = c
  \/ Damage

\* The count before begin() has read the reason, and after.
Counting ==
  ~hasty => IF reason = "brownout" THEN dips = brownouts + 1 ELSE dips = brownouts

\* Of what begin() and the stores rely on: what is migrated is what a restart
\* would load, and no user name is left to be filled in.
Loaded ==
  /\ pc = "migrate" => cfg = Filled(legacy) /\ LegacyIsGood /\ ~BlobIsGood
  /\ Filled(cfg) = cfg
  /\ blob \notin {NoBlob, Damaged} => Filled(blob) = blob

\* The credentials in RAM and in flash.
Usable ==
  /\ pc = "acked" => CredsOf(cfg) \in accepted
  /\ pc \notin {"boot", "acked"} => torn \/ CredsOf(cfg) \in accepted \/ cfg.pass = NoPass
  /\ KeepsAccess

LInv == TypeOK /\ Counting /\ Loaded /\ Usable

-------------------------------------------------------------------------------
(* Time.                                                                    *)

LEMMA TimeStepOf == ASSUME [Next]_vars PROVE TimeStep
<1> USE DEF TimeStep
<1>1. CASE Boot
  BY <1>1 DEF Boot
<1>2. CASE Begin
  BY <1>2 DEF Begin
<1>3. CASE NetPass
  BY <1>3 DEF NetPass
<1>4. CASE TailTime
  BY <1>4 DEF TailTime
<1>5. CASE Migrate \/ Edge \/ TailQuiet \/ TailStatus \/ PortalOpens
  BY <1>5 DEF Migrate, Edge, TailQuiet, TailStatus, PortalOpens
<1>6. CASE RotateSave
  BY <1>6 DEF RotateSave, Restarts
<1>7. ASSUME NEW new \in Creds \ issued, Rotate(new) PROVE TimeStep
  BY <1>7 DEF Rotate
<1>8. ASSUME NEW e \in Entries, HandleSave(e) PROVE TimeStep
  BY <1>8 DEF HandleSave, Restarts
<1>9. ASSUME NEW kind \in {"cold", "brownout", "warm"}, ResetAnywhere(kind) PROVE TimeStep
  BY <1>9 DEF ResetAnywhere, Restarts
<1>10. CASE Drop \/ ApChanges \/ Damage
  BY <1>10 DEF Drop, ApChanges, Damage
<1>11. CASE NtpAnswers \/ TimePasses
  BY <1>11 DEF NtpAnswers, TimePasses
<1>12. CASE UNCHANGED vars
  BY <1>12 DEF vars
<1> QED
  BY <1>1, <1>2, <1>3, <1>4, <1>5, <1>6, <1>7, <1>8, <1>9, <1>10, <1>11, <1>12 DEF Next, Loop

LEMMA TimeTypes == ASSUME TimeTypeOK, TimeStep PROVE TimeTypeOK'
<1> USE DEF timeVars, clocks, resetLog
<1>1. now' \in 1 .. MaxTime /\ clock' \in 0 .. now' /\ lkg' \in 0 .. now'
  BY TimeAssumption DEF TimeTypeOK, TimeStep, brownoutBootCheck, restoreLastKnown, PollTime, SaveTime, Sntp, Tick, Reset
<1>2. synced' \in BOOLEAN
  BY DEF TimeTypeOK, TimeStep, brownoutBootCheck, restoreLastKnown, PollTime, SaveTime, Sntp, Tick, Reset
<1>3. ntp' \in BOOLEAN
  BY DEF TimeTypeOK, TimeStep, brownoutBootCheck, restoreLastKnown, PollTime, SaveTime, Sntp, Tick, Reset
<1>4. hasty' \in BOOLEAN
  BY DEF TimeTypeOK, TimeStep, brownoutBootCheck, restoreLastKnown, PollTime, SaveTime, Sntp, Tick, Reset
<1>5. reason' \in {"cold", "brownout", "warm", "read"} /\ brownouts' \in Nat /\ dips' \in Nat
  BY DEF TimeTypeOK, TimeStep, brownoutBootCheck, Reset
<1> QED
  BY <1>1, <1>2, <1>3, <1>4, <1>5 DEF TimeTypeOK

LEMMA CountingKept == ASSUME TimeTypeOK, Counting, TimeStep PROVE Counting'
BY DEF TimeTypeOK, Counting, TimeStep, brownoutBootCheck, Reset, timeVars, clocks, resetLog

LEMMA ClockStep ==
  ASSUME TimeTypeOK, TimeTypeOK', TimeStep, clock # 0, clock' # 0 PROVE clock <= clock' /\ clock' <= now'
BY DEF TimeTypeOK, TimeStep, brownoutBootCheck, restoreLastKnown, shouldRestoreClock, PollTime, SaveTime, Sntp, Tick,
       Reset, timeVars, clocks, resetLog

-------------------------------------------------------------------------------
(* Configuration.                                                           *)

LEMMA FilledIsConfig ==
  ASSUME NEW c \in Config
  PROVE  Filled(c) \in Config /\ Filled(Filled(c)) = Filled(c) /\ Filled(c).pass = c.pass
<1>1. CASE c.user = NoUser /\ c.id
  <2>1. Filled(c) = [c EXCEPT !.user = DeviceUser]
    BY <1>1 DEF Filled
  <2>2. Filled(c) \in Config /\ Filled(c).user = DeviceUser /\ Filled(c).pass = c.pass
    BY <2>1, ConfigAssumption DEF Config
  <2>3. Filled(c).user # NoUser
    BY <2>2, ConfigAssumption
  <2> QED
    BY <2>2, <2>3 DEF Filled
<1>2. CASE ~(c.user = NoUser /\ c.id)
  BY <1>2 DEF Filled
<1> QED
  BY <1>1, <1>2

LEMMA FormIsConfig ==
  ASSUME cfg \in Config, NEW e \in Entries
  PROVE  Form(e) \in Config /\ Filled(Form(e)) = Form(e)
<1> DEFINE c == [cfg EXCEPT !.net = e.net, !.id = e.id, !.user = e.user,
                            !.pass = IF e.pass = NoPass THEN @ ELSE e.pass]
<1>1. c \in Config
  BY LifecycleAssumption DEF Config
<1> QED
  BY <1>1, FilledIsConfig DEF Form

LEMMA SetupIsConfig ==
  /\ Factory \in Config /\ Filled(Factory) = Factory
  /\ configPlausible(Factory) /\ Factory.pass = NoPass
BY ConfigAssumption DEF Factory, Config, Filled, configPlausible

LEMMA FirstIsConfig ==
  ASSUME NEW type \in Types
  PROVE  /\ FirstSetup(type) \in Config /\ Filled(FirstSetup(type)) = FirstSetup(type)
         /\ CredsOf(FirstSetup(type)) = First
<1>1. First \in Users \X Passes
  BY LifecycleAssumption
<1>2. First[1] \in Users /\ First[2] \in Passes /\ First = <<First[1], First[2]>>
  BY <1>1
<1>3. First[1] # NoUser
  BY <1>2, ConfigAssumption
<1> QED
  BY <1>2, <1>3, LifecycleAssumption DEF FirstSetup, Config, Filled, CredsOf

LEMMA FallbackIsConfig == ASSUME ConfigTypeOK PROVE Fallback \in Config /\ Filled(Fallback) = Fallback
BY SetupIsConfig, FilledIsConfig DEF ConfigTypeOK, Fallback

LEMMA LoadIsConfig == ASSUME ConfigTypeOK PROVE load \in Config /\ Filled(load) = load
BY FallbackIsConfig, FilledIsConfig DEF ConfigTypeOK, load, BlobIsGood

LEMMA ConfigStepOf == ASSUME TypeOK, Loaded, [Next]_vars PROVE ConfigStep
<1> USE DEF ConfigStep
<1>1. CASE Boot \/ Begin \/ NetPass \/ Edge \/ TailQuiet \/ TailTime \/ TailStatus \/ PortalOpens
  BY <1>1 DEF Boot, Begin, NetPass, Edge, TailQuiet, TailTime, TailStatus, PortalOpens
<1>2. CASE Migrate \/ Damage
  BY <1>2
<1>3. CASE RotateSave
  BY <1>3 DEF RotateSave, TypeOK, Loaded
<1>4. ASSUME NEW new \in Creds \ issued, Rotate(new) PROVE ConfigStep
  BY <1>4 DEF Rotate
<1>5. ASSUME NEW e \in Entries, HandleSave(e) PROVE ConfigStep
  <2>1. Form(e) \in Config /\ Filled(Form(e)) = Form(e)
    BY FormIsConfig DEF TypeOK
  <2>2. save(Form(e)) /\ asked' = Form(e)
    BY <1>5 DEF HandleSave
  <2> QED
    BY <2>1, <2>2
<1>6. ASSUME NEW kind \in {"cold", "brownout", "warm"}, ResetAnywhere(kind) PROVE ConfigStep
  BY <1>6 DEF ResetAnywhere
<1>7. CASE Drop \/ ApChanges \/ NtpAnswers \/ TimePasses
  BY <1>7 DEF Drop, ApChanges, NtpAnswers, TimePasses
<1>8. CASE UNCHANGED vars
  BY <1>8 DEF vars
<1> QED
  BY <1>1, <1>2, <1>3, <1>4, <1>5, <1>6, <1>7, <1>8 DEF Next, Loop

LEMMA ConfigTypes == ASSUME TypeOK, ConfigStep PROVE ConfigTypeOK' /\ asked' \in Config
BY DEF TypeOK, ConfigTypeOK, ConfigStep, configVars, Migrate, Damage, save

LEMMA SameFallback == ASSUME UNCHANGED legacy PROVE Fallback' = Fallback
BY DEF Fallback, LegacyIsGood, hasIdentity, hasWifi

LEMMA SameLoad == ASSUME UNCHANGED <<blob, legacy>> PROVE load' = load
BY SameFallback DEF load, BlobIsGood

LEMMA SaveLoads ==
  ASSUME ConfigTypeOK, NEW c \in Config, Filled(c) = c, save(c)
  PROVE  load' = IF configPlausible(c) THEN c ELSE Fallback
<1>1. blob' = c /\ Fallback' = Fallback
  BY SameFallback DEF save
<1>2. c \notin {NoBlob, Damaged}
  BY ConfigAssumption
<1> QED
  BY <1>1, <1>2 DEF load, BlobIsGood

\* The rest of the types.
LEMMA TypesKept == ASSUME TypeOK, Loaded, [Next]_vars PROVE TypeOK'
<1>1. ConfigTypeOK' /\ asked' \in Config
  BY ConfigStepOf, ConfigTypes
<1>2. TimeTypeOK'
  BY TimeStepOf, TimeTypes DEF TypeOK
<1> DEFINE PcOK == pc \in {"boot", "migrate", "start", "net", "edge", "tail", "acked"}
           FlagsOK == \A flag \in {portal, ever, mqtt, online, wasOnline, ap, torn} : flag \in BOOLEAN
           CloudOK == accepted \subseteq issued /\ issued \subseteq Creds
           BoundsOK == resets \in 0 .. MaxResets /\ faults \in 0 .. MaxFaults
           Rest == cfg \in Config /\ PcOK /\ FlagsOK /\ shown \in {"will", "status"} /\ CloudOK /\ BoundsOK
<1>3. Rest /\ load \in Config /\ TypeOK
  BY LoadIsConfig DEF TypeOK
<1> HIDE DEF PcOK, FlagsOK, CloudOK, BoundsOK
<1>4. Rest'
  <2>1. CASE Boot
    BY <2>1, <1>3 DEF Boot, PcOK, FlagsOK, CloudOK, BoundsOK, wifiVars, linkVars, cloudVars, bounds
  <2>2. CASE Migrate
    BY <2>2, <1>3 DEF Migrate, PcOK, FlagsOK, CloudOK, BoundsOK, wifiVars, linkVars, cloudVars, bounds
  <2>3. CASE Begin
    <3>1. cfg' \in Config
      BY <2>3, <1>3, LifecycleAssumption DEF Begin, Config
    <3> QED
      BY <2>3, <1>3, <3>1 DEF Begin, PcOK, FlagsOK, CloudOK, BoundsOK, hasWifi, linkVars, cloudVars, bounds
  <2>4. CASE NetPass
    BY <2>4, <1>3 DEF NetPass, WifiUp, PcOK, FlagsOK, CloudOK, BoundsOK, wifiVars, linkVars, cloudVars, bounds
  <2>5. CASE Edge
    BY <2>5, <1>3 DEF Edge, PcOK, FlagsOK, CloudOK, BoundsOK, wifiVars, linkVars, cloudVars, bounds
  <2>6. CASE TailQuiet \/ TailTime \/ TailStatus
    BY <2>6, <1>3 DEF TailQuiet, TailTime, TailStatus, PcOK, FlagsOK, CloudOK, BoundsOK, wifiVars, linkVars, cloudVars, bounds
  <2>7. CASE RotateSave
    <3>1. torn' \in BOOLEAN
      BY <2>7, <1>3 DEF RotateSave, FlagsOK, configPlausible
    <3> QED
      BY <2>7, <1>3, <3>1, SetupIsConfig DEF RotateSave, Restarts, PcOK, FlagsOK, CloudOK, BoundsOK, cloudVars, bounds
  <2>8. CASE PortalOpens
    BY <2>8, <1>3 DEF PortalOpens, PcOK, FlagsOK, CloudOK, BoundsOK, wifiVars, linkVars, cloudVars, bounds
  <2>9. ASSUME NEW new \in Creds \ issued, Rotate(new) PROVE Rest'
    <3>1. cfg' \in Config
      <4>1. new[1] \in Users /\ new[2] \in Passes
        BY LifecycleAssumption
      <4> QED
        BY <2>9, <4>1, <1>3 DEF Rotate, Config
    <3>2. CloudOK'
      BY <2>9, <1>3 DEF Rotate, CloudOK
    <3> QED
      BY <2>9, <1>3, <3>1, <3>2 DEF Rotate, PcOK, FlagsOK, BoundsOK, wifiVars, linkVars, bounds
  <2>10. ASSUME NEW e \in Entries, HandleSave(e) PROVE Rest'
    <3>1. torn' \in BOOLEAN
      BY <2>10, <1>3 DEF HandleSave, FlagsOK, configPlausible, Kept, Entered
    <3>2. resets' \in 0 .. MaxResets
      BY <2>10, <1>3, LifecycleAssumption DEF HandleSave, BoundsOK
    <3> QED
      BY <2>10, <1>3, <3>1, <3>2, SetupIsConfig
      DEF HandleSave, Restarts, PcOK, FlagsOK, CloudOK, BoundsOK, cloudVars
  <2>11. ASSUME NEW kind \in {"cold", "brownout", "warm"}, ResetAnywhere(kind) PROVE Rest'
    <3>1. torn' \in BOOLEAN
      BY <2>11 DEF ResetAnywhere
    <3>2. resets' \in 0 .. MaxResets
      BY <2>11, <1>3, LifecycleAssumption DEF ResetAnywhere, BoundsOK
    <3> QED
      BY <2>11, <1>3, <3>1, <3>2, SetupIsConfig
      DEF ResetAnywhere, Restarts, PcOK, FlagsOK, CloudOK, BoundsOK, cloudVars
  <2>12. CASE Drop \/ ApChanges \/ Damage
    <3>1. faults' \in 0 .. MaxFaults
      BY <2>12, <1>3, LifecycleAssumption DEF Drop, ApChanges, Damage, BoundsOK
    <3>2. ap' \in BOOLEAN /\ mqtt' \in BOOLEAN /\ torn' \in BOOLEAN
      BY <2>12, <1>3 DEF Drop, ApChanges, Damage, FlagsOK, linkVars
    <3> QED
      BY <2>12, <1>3, <3>1, <3>2 DEF Drop, ApChanges, Damage, PcOK, FlagsOK, CloudOK, BoundsOK, wifiVars, linkVars, cloudVars
  <2>13. CASE NtpAnswers \/ TimePasses
    BY <2>13, <1>3 DEF NtpAnswers, TimePasses, PcOK, FlagsOK, CloudOK, BoundsOK, wifiVars, linkVars, cloudVars, bounds
  <2>14. CASE UNCHANGED vars
    BY <2>14, <1>3 DEF vars, PcOK, FlagsOK, CloudOK, BoundsOK, wifiVars, linkVars, cloudVars, bounds
  <2> QED
    BY <2>1, <2>2, <2>3, <2>4, <2>5, <2>6, <2>7, <2>8, <2>9, <2>10, <2>11, <2>12, <2>13, <2>14 DEF Next, Loop
<1> QED
  BY <1>1, <1>2, <1>4 DEF TypeOK, PcOK, FlagsOK, CloudOK, BoundsOK

LEMMA LoadedKept == ASSUME LInv, [Next]_vars PROVE Loaded'
<1>0. TypeOK /\ Loaded
  BY DEF LInv
<1>1. CASE Boot
  <2>1. cfg' = load /\ UNCHANGED <<blob, legacy>> /\ (pc' = "migrate" => Migrated)
    BY <1>1 DEF Boot, configVars
  <2>2. Filled(cfg') = cfg'
    BY <2>1, <1>0, LoadIsConfig DEF TypeOK
  <2>3. pc' = "migrate" => cfg' = Filled(legacy)
    BY <2>1 DEF load, Migrated, Fallback
  <2> QED
    BY <2>1, <2>2, <2>3, <1>0 DEF Loaded, Migrated, LegacyIsGood, hasIdentity, hasWifi, BlobIsGood
<1>2. CASE Migrate
  BY <1>2, <1>0 DEF Migrate, save, Loaded
<1>3. CASE NetPass \/ Edge \/ TailQuiet \/ TailTime \/ TailStatus \/ PortalOpens
  BY <1>3, <1>0 DEF NetPass, Edge, TailQuiet, TailTime, TailStatus, PortalOpens, configVars, Loaded
<1>4. CASE Begin
  <2>1. Filled(cfg') = cfg'
    <3>1. CASE cfg.type # NoType
      BY <1>4, <1>0, <3>1 DEF Begin, Loaded
    <3>2. CASE cfg.type = NoType
      <4>1. cfg' = [cfg EXCEPT !.type = SketchType]
        BY <1>4, <3>2 DEF Begin
      <4>2. ~(cfg.user = NoUser /\ cfg.id)
        <5> SUFFICES ASSUME cfg.user = NoUser, cfg.id PROVE FALSE
          OBVIOUS
        <5>1. cfg = [cfg EXCEPT !.user = DeviceUser]
          BY <1>0 DEF Loaded, Filled
        <5>2. cfg.user = DeviceUser
          BY <5>1, <1>0 DEF TypeOK, Config
        <5> QED
          BY <5>2, ConfigAssumption
      <4>3. cfg'.user = cfg.user /\ cfg'.id = cfg.id
        BY <4>1, <1>0 DEF TypeOK, Config
      <4> QED
        BY <4>2, <4>3 DEF Filled
    <3> QED
      BY <3>1, <3>2
  <2> QED
    BY <1>4, <1>0, <2>1 DEF Begin, configVars, Loaded
<1>5. CASE RotateSave
  BY <1>5, <1>0, SetupIsConfig DEF RotateSave, Restarts, save, Loaded
<1>6. ASSUME NEW new \in Creds \ issued, Rotate(new) PROVE Loaded'
  <2>1. cfg'.user = new[1]
    BY <1>6, <1>0 DEF Rotate, TypeOK, Config
  <2>2. new[1] # NoUser
    BY LifecycleAssumption, ConfigAssumption
  <2> QED
    BY <1>6, <1>0, <2>1, <2>2 DEF Rotate, configVars, Loaded, Filled
<1>7. ASSUME NEW e \in Entries, HandleSave(e) PROVE Loaded'
  <2>1. Filled(Form(e)) = Form(e)
    BY <1>0, FormIsConfig DEF TypeOK
  <2> QED
    BY <1>7, <2>1, SetupIsConfig DEF HandleSave, Restarts, save, Loaded
<1>8. ASSUME NEW kind \in {"cold", "brownout", "warm"}, ResetAnywhere(kind) PROVE Loaded'
  BY <1>8, <1>0, SetupIsConfig DEF ResetAnywhere, Restarts, configVars, Loaded
<1>9. CASE Drop \/ ApChanges \/ NtpAnswers \/ TimePasses
  BY <1>9, <1>0 DEF Drop, ApChanges, NtpAnswers, TimePasses, configVars, Loaded, LegacyIsGood, hasIdentity,
                    hasWifi, BlobIsGood
<1>10. CASE Damage
  BY <1>10, <1>0 DEF Damage, Loaded, LegacyIsGood, hasIdentity, hasWifi, BlobIsGood
<1>11. CASE UNCHANGED vars
  BY <1>11, <1>0 DEF vars, configVars, Loaded, LegacyIsGood, hasIdentity, hasWifi, BlobIsGood
<1> QED
  BY <1>1, <1>2, <1>3, <1>4, <1>5, <1>6, <1>7, <1>8, <1>9, <1>10, <1>11 DEF Next, Loop

LEMMA UsableKept == ASSUME LInv, [Next]_vars PROVE Usable'
<1> USE DEF KeepsAccess
<1>0. TypeOK /\ Loaded /\ Usable
  BY DEF LInv
<1>1. CASE Boot
  BY <1>1, <1>0, SameLoad DEF Boot, configVars, cloudVars, Usable
<1>2. CASE Migrate
  <2>1. load' = (IF configPlausible(cfg) THEN cfg ELSE Fallback) /\ load = Fallback /\ Fallback = cfg
    BY <1>2, <1>0, SaveLoads DEF Migrate, Loaded, TypeOK, load, Fallback
  <2> QED
    BY <1>2, <1>0, <2>1 DEF Migrate, cloudVars, Usable
<1>3. CASE Begin
  <2>1. CredsOf(cfg') = CredsOf(cfg) /\ cfg'.pass = cfg.pass
    BY <1>3, <1>0 DEF Begin, CredsOf, TypeOK, Config
  <2> QED
    BY <1>3, <1>0, <2>1, SameLoad DEF Begin, configVars, cloudVars, Usable
<1>4. CASE NetPass \/ Edge \/ TailQuiet \/ TailTime \/ TailStatus \/ PortalOpens
  BY <1>4, <1>0, SameLoad
  DEF NetPass, Edge, TailQuiet, TailTime, TailStatus, PortalOpens, configVars, cloudVars, Usable, CredsOf
<1>5. CASE RotateSave
  <2>1. load' = (IF configPlausible(cfg) THEN cfg ELSE Fallback)
    BY <1>5, <1>0, SaveLoads DEF RotateSave, Loaded, TypeOK
  <2>2. torn' = (torn \/ ~configPlausible(cfg)) /\ accepted' = accepted /\ pc' = "boot"
    BY <1>5 DEF RotateSave, Restarts, cloudVars
  <2>3. configPlausible(cfg) => CredsOf(load') \in accepted'
    BY <1>5, <1>0, <2>1, <2>2 DEF RotateSave, Usable
  <2> QED
    BY <2>2, <2>3 DEF Usable, CredsOf
<1>6. ASSUME NEW new \in Creds \ issued, Rotate(new) PROVE Usable'
  <2>1. new = <<new[1], new[2]>>
    BY LifecycleAssumption
  <2>2. CredsOf(cfg)' = new
    BY <1>6, <1>0, <2>1 DEF Rotate, CredsOf, TypeOK, Config
  <2>3. new \in accepted' /\ pc' = "acked"
    BY <1>6 DEF Rotate
  <2> QED
    BY <2>2, <2>3 DEF Usable
<1>7. ASSUME NEW e \in Entries, HandleSave(e) PROVE Usable'
  <2>1. pc' = "boot" /\ accepted' = accepted
    BY <1>7 DEF HandleSave, Restarts, cloudVars
  <2>2. torn' = ((Kept(e) /\ torn) \/ ~(Kept(e) \/ Entered(e)) \/ ~configPlausible(Form(e)))
    BY <1>7 DEF HandleSave
  <2>3. load' = IF configPlausible(Form(e)) THEN Form(e) ELSE Fallback
    BY <1>7, <1>0, FormIsConfig, SaveLoads DEF HandleSave, TypeOK
  <2>4. torn \/ CredsOf(cfg) \in accepted \/ cfg.pass = NoPass
    BY <1>7, <1>0 DEF HandleSave, Usable
  <2>5. Kept(e) => Form(e).user = cfg.user /\ Form(e).pass = cfg.pass
    <3> DEFINE c == [cfg EXCEPT !.net = e.net, !.id = e.id, !.user = e.user,
                                !.pass = IF e.pass = NoPass THEN @ ELSE e.pass]
    <3>1. c \in Config
      BY <1>0, LifecycleAssumption DEF Config, TypeOK
    <3>2. Form(e).pass = c.pass
      BY <3>1, FilledIsConfig DEF Form
    <3>3. e.pass = NoPass => c.pass = cfg.pass
      BY <1>0 DEF TypeOK, Config
    <3> QED
      BY <3>2, <3>3 DEF Kept
  <2>6. Kept(e) => CredsOf(Form(e)) = CredsOf(cfg) /\ Form(e).pass = cfg.pass
    BY <2>5 DEF CredsOf
  <2>7. torn' \/ CredsOf(Form(e)) \in accepted \/ Form(e).pass = NoPass
    BY <2>2, <2>4, <2>6 DEF Entered
  <2>8. torn' \/ load' = Form(e)
    BY <2>2, <2>3
  <2>9. KeepsAccess'
    BY <2>1, <2>7, <2>8 DEF CredsOf
  <2> QED
    BY <2>1, <2>9 DEF Usable
<1>8. ASSUME NEW kind \in {"cold", "brownout", "warm"}, ResetAnywhere(kind) PROVE Usable'
  <2>1. load' = load /\ accepted' = accepted /\ torn' = (torn \/ pc = "acked") /\ pc' = "boot"
    BY <1>8, SameLoad DEF ResetAnywhere, Restarts, configVars, cloudVars
  <2> QED
    BY <2>1, <1>0 DEF Usable, CredsOf
<1>9. CASE Drop \/ ApChanges \/ NtpAnswers \/ TimePasses
  BY <1>9, <1>0, SameLoad DEF Drop, ApChanges, NtpAnswers, TimePasses, configVars, cloudVars, Usable, CredsOf
<1>10. CASE Damage
  BY <1>10, <1>0 DEF Damage, cloudVars, Usable, CredsOf
<1>11. CASE UNCHANGED vars
  BY <1>11, <1>0, SameLoad DEF vars, configVars, cloudVars, Usable, CredsOf
<1> QED
  BY <1>1, <1>2, <1>3, <1>4, <1>5, <1>6, <1>7, <1>8, <1>9, <1>10, <1>11 DEF Next, Loop

LEMMA FaultsStay == ASSUME TypeOK, [Next]_vars PROVE faults' >= faults
<1>1. faults \in Nat
  BY LifecycleAssumption DEF TypeOK
<1>2. CASE Boot \/ Migrate \/ Begin \/ NetPass \/ Edge \/ PortalOpens
  <2>1. UNCHANGED faults
    BY <1>2 DEF Boot, Migrate, Begin, NetPass, Edge, PortalOpens, bounds
  <2> QED
    BY <1>1, <2>1
<1>3. CASE TailQuiet \/ TailTime \/ TailStatus \/ RotateSave
  <2>1. UNCHANGED faults
    BY <1>3 DEF TailQuiet, TailTime, TailStatus, RotateSave, bounds
  <2> QED
    BY <1>1, <2>1
<1>4. CASE \/ \E new \in Creds \ issued : Rotate(new)
           \/ \E e \in Entries : HandleSave(e)
           \/ \E kind \in {"cold", "brownout", "warm"} : ResetAnywhere(kind)
  <2>1. UNCHANGED faults
    BY <1>4 DEF Rotate, HandleSave, ResetAnywhere, bounds
  <2> QED
    BY <1>1, <2>1
<1>5. CASE Drop \/ ApChanges \/ Damage \/ NtpAnswers \/ TimePasses
  BY <1>1, <1>5 DEF Drop, ApChanges, Damage, NtpAnswers, TimePasses, bounds
<1>6. CASE UNCHANGED vars
  BY <1>1, <1>6 DEF vars, bounds
<1> QED
  BY <1>2, <1>3, <1>4, <1>5, <1>6 DEF Next, Loop

-------------------------------------------------------------------------------
(* Theorems.                                                                *)

LEMMA InitInv == ASSUME Init PROVE LInv
<1>1. TypeOK
  <2>1. ConfigTypeOK /\ cfg \in Config
    BY SetupIsConfig, FirstIsConfig, LifecycleAssumption DEF Init, ConfigTypeOK
  <2>2. asked \in Config
    BY <2>1, LoadIsConfig DEF Init
  <2>3. TimeTypeOK
    <3>1. now \in 1 .. MaxTime /\ clock \in 0 .. now /\ lkg \in 0 .. now
      BY TimeAssumption DEF Init, TimeInit
    <3>2. synced \in BOOLEAN /\ ntp \in BOOLEAN /\ hasty \in BOOLEAN
      BY DEF Init, TimeInit
    <3> QED
      BY <3>1, <3>2 DEF Init, TimeInit, TimeTypeOK
  <2>4. \A flag \in {portal, ever, mqtt, online, wasOnline, ap, torn} : flag \in BOOLEAN
    BY DEF Init
  <2>5. accepted \subseteq issued /\ issued \subseteq Creds
    BY LifecycleAssumption DEF Init
  <2>6. resets \in 0 .. MaxResets /\ faults \in 0 .. MaxFaults
    BY LifecycleAssumption DEF Init
  <2> QED
    BY <2>1, <2>2, <2>3, <2>4, <2>5, <2>6 DEF Init, TypeOK
<1>2. Counting
  BY DEF Init, TimeInit, Counting
<1>3. Loaded
  BY SetupIsConfig, FirstIsConfig, LifecycleAssumption DEF Init, Loaded
<1>4. Usable
  <2>1. load \in {Factory} \union {FirstSetup(type) : type \in Types}
    <3>1. legacy \in {Factory} \union {FirstSetup(type) : type \in Types}
      BY DEF Init
    <3>2. Filled(legacy) = legacy
      BY <3>1, SetupIsConfig, FirstIsConfig
    <3>3. blob # NoBlob => blob \in {FirstSetup(type) : type \in Types} /\ Filled(blob) = blob
      BY FirstIsConfig, LifecycleAssumption DEF Init
    <3> QED
      BY <3>1, <3>2, <3>3 DEF load, BlobIsGood, Fallback
  <2>2. CredsOf(load) = First \/ load.pass = NoPass
    BY <2>1, SetupIsConfig, FirstIsConfig
  <2> QED
    BY <2>2 DEF Init, Usable, KeepsAccess
<1> QED
  BY <1>1, <1>2, <1>3, <1>4 DEF LInv

LEMMA Always == Spec => []LInv
<1>1. LInv /\ [Next]_vars => LInv'
  BY TypesKept, TimeStepOf, CountingKept, LoadedKept, UsableKept DEF LInv, TypeOK
<1> QED
  BY InitInv, <1>1, PTL DEF Spec

\* Every variable keeps its type, for every number of resets and faults.
THEOREM LifecycleTypes == Spec => []TypeOK
<1>1. LInv => TypeOK
  BY DEF LInv
<1> QED
  BY Always, <1>1, PTL

\* A restart finds a user and a password that the broker accepts, or none, for
\* every rotation and every form with texts of any length, outside the cases
\* that torn records: a reset between the ack of a rotation and its save, damage,
\* a store of what configPlausible() refuses, and credentials entered that are
\* none.
THEOREM AccessKept == Spec => []KeepsAccess
<1>1. LInv => KeepsAccess
  BY DEF LInv, Usable
<1> QED
  BY Always, <1>1, PTL

\* The count of brown-outs is right once begin() has read the reset reason,
\* unless another reset overtook it.
THEOREM CountRight == Spec => []BrownoutsCounted
<1>1. LInv => BrownoutsCounted
  BY DEF LInv, Counting, BrownoutsCounted
<1> QED
  BY Always, <1>1, PTL

\* While the power lasts the clock does not step back, and it never runs ahead.
THEOREM ClockForward == Spec => ClockMovesForward
<1>1. LInv /\ LInv' /\ [Next]_vars => [clock # 0 /\ clock' # 0 => clock <= clock' /\ clock' <= now']_timeVars
  BY TimeStepOf, ClockStep DEF LInv, TypeOK
<1> QED
  BY Always, <1>1, PTL DEF Spec, ClockMovesForward

\* The configuration implements the register: every step stores a value whole,
\* falls back to what there is without the entry, or leaves what a restart would
\* load alone; and what no load would take it stores too.
THEOREM RegisterImplemented == Spec => ImplementsRegister
<1>1. Init => Register!Init
  <2> SUFFICES ASSUME Init PROVE Register!Init
    OBVIOUS
  <2>1. TypeOK
    BY InitInv DEF LInv
  <2> QED
    BY <2>1, LoadIsConfig, FallbackIsConfig DEF Register!Init, TypeOK
<1>2. LInv /\ [Next]_vars => [Register!Next]_(Register!vars)
  <2> SUFFICES ASSUME LInv, [Next]_vars PROVE [Register!Next]_(Register!vars)
    OBVIOUS
  <2>1. ConfigStep /\ TypeOK /\ ConfigTypeOK /\ Loaded
    BY ConfigStepOf DEF LInv, TypeOK
  <2>2. CASE UNCHANGED configVars
    BY <2>2, SameFallback, SameLoad DEF Register!vars, configVars
  <2>3. CASE Migrate
    <3>1. load' = load /\ UNCHANGED <<asked, legacy>>
      BY <2>3, <2>1, SaveLoads DEF Migrate, Loaded, TypeOK, load, Fallback, save
    <3> QED
      BY <3>1, SameFallback DEF Register!vars
  <2>4. ASSUME NEW c \in Config, Filled(c) = c, save(c), asked' = c PROVE Register!Next
    <3>1. load' = (IF configPlausible(c) THEN c ELSE Fallback) /\ UNCHANGED legacy
      BY <2>4, <2>1, SaveLoads DEF save
    <3>2. Register!Store(c)
      BY <2>4, <3>1, SameFallback DEF Register!Store
    <3> QED
      BY <3>2 DEF Register!Next
  <2>5. CASE Damage
    <3>1. load' = Fallback /\ UNCHANGED <<asked, legacy>>
      BY <2>5, SameFallback DEF Damage, load, BlobIsGood
    <3> QED
      BY <3>1, SameFallback DEF Register!Next, Register!Lose
  <2> QED
    BY <2>1, <2>2, <2>3, <2>4, <2>5 DEF ConfigStep
<1> QED
  BY Always, <1>1, <1>2, PTL DEF Spec, ImplementsRegister, Register!Spec

\* What a restart loads is what was stored last.  Otherwise it is what there is
\* without the entry: where that store was not plausible, or a fault has damaged
\* it.
WhatWasStored ==
  \/ load = IF configPlausible(asked) THEN asked ELSE Fallback
  \/ load = Fallback /\ faults > 0

\* From begin() to the next reset the device works with a plausible
\* configuration, except in the handler of a rotation: if the sketch names a
\* type that configPlausible() knows, and the old keys are plausible.
WorksPlausibly ==
  SketchType \in Kinds /\ configPlausible(Fallback) => pc = "acked" \/ configPlausible(cfg)

\* No sequence of saves, migrations, rotations, forms, damage and resets makes
\* a restart find anything but the configuration stored last, or, where that is
\* refused or has been damaged, that of the old keys or of the factory; and what
\* a rotation puts into cfg_ unchecked is gone at the restart that follows it
\* (load, save, begin, handleBuiltin).
THEOREM OnlyWhatWasStored == Spec => [](WhatWasStored /\ WorksPlausibly)
<1>1. Init => WhatWasStored /\ WorksPlausibly
  <2> SUFFICES ASSUME Init PROVE WhatWasStored /\ WorksPlausibly
    OBVIOUS
  <2>1. blob # NoBlob => Filled(blob) = blob
    BY FirstIsConfig, LifecycleAssumption DEF Init
  <2>2. asked = load /\ load \in {blob, Fallback}
    BY <2>1 DEF Init, load, BlobIsGood
  <2>3. load = Fallback \/ configPlausible(load)
    BY <2>1 DEF Init, load, BlobIsGood
  <2> QED
    BY <2>2, <2>3, SetupIsConfig DEF Init, WhatWasStored, WorksPlausibly
<1>2. LInv /\ WhatWasStored /\ [Next]_vars => WhatWasStored'
  <2> SUFFICES ASSUME LInv, WhatWasStored, [Next]_vars PROVE WhatWasStored'
    OBVIOUS
  <2>1. ConfigStep /\ TypeOK /\ TypeOK' /\ ConfigTypeOK /\ Loaded
    BY ConfigStepOf, TypesKept DEF LInv, TypeOK
  <2>2. faults > 0 => faults' > 0
    BY <2>1, FaultsStay, LifecycleAssumption DEF TypeOK
  <2>3. CASE UNCHANGED configVars
    BY <2>2, <2>3, SameFallback, SameLoad DEF WhatWasStored, configVars, configPlausible
  <2>4. CASE Migrate
    <3>1. load' = load /\ asked' = asked /\ Fallback' = Fallback
      BY <2>4, <2>1, SaveLoads, SameFallback DEF Migrate, Loaded, TypeOK, load, Fallback, save
    <3> QED
      BY <2>2, <3>1 DEF WhatWasStored, configPlausible
  <2>5. ASSUME NEW c \in Config, Filled(c) = c, save(c), asked' = c PROVE WhatWasStored'
    <3>1. load' = (IF configPlausible(c) THEN c ELSE Fallback) /\ Fallback' = Fallback
      BY <2>1, <2>5, SaveLoads, SameFallback DEF save
    <3> QED
      BY <2>5, <3>1 DEF WhatWasStored, configPlausible
  <2>6. CASE Damage
    <3>1. load' = Fallback /\ Fallback' = Fallback
      BY <2>6, SameFallback DEF Damage, load, BlobIsGood
    <3>2. faults' > 0
      BY <2>6, <2>1 DEF Damage, TypeOK
    <3> QED
      BY <3>1, <3>2 DEF WhatWasStored
  <2> QED
    BY <2>1, <2>3, <2>4, <2>5, <2>6 DEF ConfigStep
<1>3. LInv /\ WorksPlausibly /\ [Next]_vars => WorksPlausibly'
  <2> SUFFICES ASSUME LInv, WorksPlausibly, [Next]_vars, SketchType \in Kinds, configPlausible(Fallback')
               PROVE  pc' = "acked" \/ configPlausible(cfg')
    BY DEF WorksPlausibly, configPlausible
  <2>1. Fallback' = Fallback /\ (pc = "acked" \/ configPlausible(cfg)) /\ Loaded /\ TypeOK
    <3>1. UNCHANGED legacy
      BY ConfigStepOf DEF LInv, ConfigStep, configVars, Migrate, save, Damage
    <3> QED
      BY <3>1, SameFallback DEF WorksPlausibly, LInv
  <2>2. CASE Boot
    <3>1. BlobIsGood => load = blob /\ configPlausible(blob)
      BY <2>1 DEF BlobIsGood, load, Loaded
    <3> QED
      BY <2>1, <2>2, <3>1 DEF Boot, load
  <2>3. CASE Begin
    <3>1. configPlausible(cfg)
      BY <2>1, <2>3 DEF Begin
    <3>2. cfg'.net = cfg.net /\ cfg'.user = cfg.user /\ cfg'.pass = cfg.pass /\ cfg'.type \in {cfg.type, SketchType}
      BY <2>1, <2>3 DEF Begin, TypeOK, Config
    <3> QED
      BY <3>1, <3>2 DEF configPlausible
  <2>4. CASE RotateSave \/ \E e \in Entries : HandleSave(e)
    BY <2>4, SetupIsConfig DEF RotateSave, HandleSave, Restarts
  <2>5. CASE \E kind \in {"cold", "brownout", "warm"} : ResetAnywhere(kind)
    BY <2>5, SetupIsConfig DEF ResetAnywhere, Restarts
  <2>6. CASE \E new \in Creds \ issued : Rotate(new)
    BY <2>6 DEF Rotate
  <2>7. CASE Migrate \/ NetPass \/ Edge \/ TailQuiet \/ TailTime \/ TailStatus \/ PortalOpens
    BY <2>1, <2>7 DEF Migrate, NetPass, Edge, TailQuiet, TailTime, TailStatus, PortalOpens
  <2>8. CASE Drop \/ ApChanges \/ Damage \/ NtpAnswers \/ TimePasses
    BY <2>1, <2>8 DEF Drop, ApChanges, Damage, NtpAnswers, TimePasses
  <2>9. CASE UNCHANGED vars
    BY <2>1, <2>9 DEF vars
  <2> QED
    BY <2>2, <2>3, <2>4, <2>5, <2>6, <2>7, <2>8, <2>9 DEF Next, Loop
<1> QED
  BY Always, <1>1, <1>2, <1>3, PTL DEF Spec
===============================================================================
