# smart-pet-device-sdk in TLA+

A verification development kept beside the ESP32 device SDK: TLA+ modules of
its core logic, TLC runs that check them on small instances, and theorems about
them checked by TLAPS. File and line references are to the repository;
`spd_x.h` stands for `src/src/spd_x.h`.

## 1. The system

One Arduino sketch runs `SmartPetDevice::loop()` over and over. Everything is on
one thread: application callbacks run inside `loop()`, command handlers inside
`mqtt_.loop()`. What makes the SDK hard is what happens *between* the steps of a
pass: links drop while a motor runs, the broker disappears without the socket
noticing, the power goes between two flash writes, the clock wraps, the UTC day
ends, messages overtake each other.

| Component | State it keeps | Operations | Interacts with |
|---|---|---|---|
| SmartPetDevice (`spd_device.h`) | `wasOnline_`, `safeMode_`, `crashReported_`, `otaBegun_`, timers | `begin`, `loop`, `reportAction`, `onMqtt`, builtins, `tickSchedule` | owns all parts below |
| OfflineJournal (`spd_offline_journal.h`) | open flag, up to 64 missed actions, `dropped_` | `markOffline`, `record`, `closeOnline`, `serialize`, `deserialize` | NVS blob `journal` through the orchestrator |
| ScheduleCache (`spd_schedule.h`) | sorted entries, the slot fired last and its day | `set`, `due`, `markFired`, `minutesUntilNext` | NVS blob `sched`; clock of TimeSync |
| MqttTransport, Backoff (`spd_mqtt.h`, `spd_backoff.h`) | connection, `nextAttemptMs_`, `attempt_`, trace context | `loop`, `connectOnce`, `onRaw`, `publish*` | broker: sessions, will, retained messages |
| TimeSync (`spd_time.h`) | `synced_`, the clock, the last known time | `restoreLastKnown`, `poll`, `minuteOfDay`, `dayIndex` | SNTP; NVS blob `time_lkg` |
| ConfigStore and codec (`spd_config*.h`) | NVS entry `cfg`, legacy keys | `load`, `save`, `erase` | portal, `rotate_credentials`, migration in `begin` |
| WifiManager (`spd_wifi.h`) | `portalActive_`, `everConnected_` | `begin`, `poll`, `handleSave` | config, restart |
| OtaUpdater (`spd_ota*.h`) | RAM-only download progress | `applyFromUrl` | the `ota` command, flash partition |
| Crash, brown-out (`spd_crash.h`, `spd_brownout.h`) | reset reason, RTC counter | `readCrashInfo`, `brownoutBootCheck` | events and status |
| HealthMonitor (`spd_health.h`) | last verdict on memory | `poll` | status and event messages |
| DoorModule | latch, pulse, reed switch | `begin`, `apply`, `poll` | door commands, the sketch's `loop()` |
| TwoWayAudioModule | clip, talk stream | `play`, `startTalk`, `stopTalk` | audio commands; blocks `loop()` while a clip plays |
| Other device modules (`src/src/modules`) | scale reference, jam flag, ... | `dispense`, `stableWeight`, ... | called by the sketch |
| Topics, mu-law (`spd_topics.h`, `spd_ulaw.h`) | none | pure functions | every message; audio |
| External | broker, PubSubClient, HTTP server, boot loader, portal's user, NVS, SNTP | | modelled from their use |

What is hard, and what makes each part correct:

* **Reporting actions.** An action is published directly or journalled, and the
  journal is mirrored in NVS and replayed on the next edge to online. Correct
  means: the cloud sees an action at most once and in order; NVS mirrors the
  journal whenever the power may go; no journal is stranded behind an online
  flag; a saved journal is taken up in the end.
* **Schedule.** A slot fires once in its window and is not starved, across links,
  the kill switch, restarts and new schedules; an acknowledged schedule is
  durable.
* **Kill switch.** Control messages race commands over sessions that break; a
  device must end up with the kennel's state and reject what was routed behind a
  halt.
* **Link.** Attempts to connect are neither crowded nor late, at any uptime.
* **Configuration, time, provisioning.** What a restart finds, after a cut at any
  step, is a configuration somebody stored, whole; its credentials are good;
  the clock never steps back while the power lasts; the device comes back after an
  outage and its will is replaced.
* **OTA.** Only the announced image is ever booted, however often the download was
  resumed, and every download ends.
* **Door.** A timed opening lasts as long as its hold and then ends; an unlock that
  is not timed stays.
* **Pure parts.** Text that was written is read back, and saving it again does not
  change it; a topic is never taken for another device's; speech keeps its loudness.

`PROJECT.json` lists every component with its status, and under `hazards` every
place where this code is hard to test.

## 2. The modules

| Module | What it is | EXTENDS |
|---|---|---|
| `OfflineJournal` | the class as a data type: one operator per method | |
| `ActionReporting` | `loop()` around reporting, over an unreliable link, with crashes | `OfflineJournal` |
| `ActionLedger` | abstract specification: the fate of every action | |
| `ActionReportingProofs`, `ActionReportingRefinement` | theorems | `ActionReporting` |
| `ScheduleCache` | the class as a data type | |
| `ScheduleTick` | `tickSchedule()`, `schedule_set`, restore, clock, links | `ScheduleCache` |
| `MCScheduleTick` | schedules for TLC | `ScheduleTick` |
| `ScheduleTickProofs` | theorems | `ScheduleTick` |
| `KillSwitch`, `KillSwitchProofs` | device, broker session and control topic; theorems | |
| `MqttLink`, `MqttLinkProofs` | reconnecting with backoff on a wrapping clock; theorems | |
| `OtaUpdater` | `applyFromUrl()` against a server whose file may be replaced | |
| `DoorModule` | the latch, the pulse and the reed switch | |
| `DoorStation` | the thread of `examples/audio/audio.ino`: downloads, clips and the door | `OtaUpdater`, `DoorModule` |
| `MCDoorStation`, `DoorStationProofs` | images for TLC; theorems | `DoorStation` |
| `ConfigStore` | `load()`, `save()` and the legacy keys | |
| `TimeSync` | clock, last known time, trust, count of brown-outs | |
| `DeviceLifecycle` | `begin()` and `loop()` around configuration, time, Wi-Fi, portal and link | `ConfigStore`, `TimeSync` |
| `ConfigRegister` | abstract specification of the configuration store | |
| `MCDeviceLifecycle` | credentials and entered forms for TLC | `DeviceLifecycle` |
| `LifecycleProofs` | theorems | `DeviceLifecycle` |
| `MuLaw`, `ConfigCodec`, `Topics` | pure functions | |
| `MCCodecs` | walks over their inputs, and their properties | the three |
| `CodecProofs` | theorems | `MCCodecs` |

Definitions named `...NoReset`, `...Unsaved` and the like, each with a comment
"Variant of", are the action above or below them with one plausible mistake.
They are used by no specification; substituting one breaks the property it is
listed with in `PROJECT.json` (`mutants`).

### ActionReporting

One pass of `loop()` is a walk of `pc` (see the module's head). Steps are cut
where the code blocks or writes flash, because there the link may change and
the power may go: `Persist` is `persistJournal()`, `Publish` the
`offline_recovered` event after it, `Act` the start of a physical action (sketch
code, a command handler, or the scheduled callback), `ReportLive` and
`ReportDark` the two branches of `reportAction()`. `wifiUp` and `online` are
locals of `loop()`, as stale as there. `conn = "half"` is a connection whose
broker is gone: `connected()` is still true and what is published is lost.
`Crash` keeps NVS and nothing else. Actions are numbered in the order performed,
so "in order" is "increasing"; their time, kind and amount decide nothing and are
left out. `report` is the local of `flushJournal()` between the clearing of NVS
and the publication.

`ActionLedger` says what all this amounts to: an action is pending, then
delivered directly, or made durable, or lost; a durable one is only ever taken
up for replay; a replay is delivered whole and in order, or lost. The refinement
mapping `FateOf` reads the fate of an action off `pc`, the journal, NVS, the
report and what the cloud has seen. `ImplementsLedger` therefore shows that an
action in flash cannot be lost by any crash or link failure *there*, and names
the two gaps the code does have (pending and in flight).

### ScheduleTick

The clock has a local minute, a local day, and a UTC day that begins at the
local minute `Rollover`. `ReadMinute` and `NotDue`/`Fire` are the two readings of
`tickSchedule()`; the minute may change in between. `SetSchedule`,
`PersistSchedule`, `Ack` are `schedule_set`; what a restart reads back (`Stored`)
has amounts with one decimal. `Gates` moves link, synchronisation and kill switch
between passes; messages are handled between passes too.

Firings are counted per slot since its window last opened (`fires`), and so are
reloads of the cache, which forgets. `covered` says whether a pass with every
gate open looked at the present minute.

### KillSwitch

`pc` alternates between `mqtt_.loop()`, which reads at most one message, and
`tickSchedule()`. The broker processes the subscriptions of `connectOnce()` in
the order sent, answers the one to the control topic with the retained message,
routes in order, and forgets a broken session (`cleanSession`). `lateCommand`
is a command the broker routed while the kennel was halted to a device that has
the control subscription.

### MqttLink

`MqttTransport::loop()` and `Backoff`. `Delays(a)` is the set of delays `next()`
may draw after `a` attempts. Times are natural numbers, `millis` is time modulo
`Wrap`. The clock is read before `connect()` blocks, as in the code. `attempt_`
is a `uint32_t`; at a quarter of a second per attempt at least it does not wrap
before decades have passed, and its wrap is not modelled.

### OtaUpdater, DoorModule, DoorStation

`applyFromUrl()` is the loop of `ota`: `"attempt"` (before a GET), `"stream"`
(reading one response), `"verify"` (after the loop), and `Forget` for every return
with an error. A file is a sequence of chunks, a digest is the image it is
the digest of. `Response` carries what the Range asked for (or the whole file, at
the start); `RangeIgnored`, `BeginFails`, `WriteFails`, `Refuse` are the error
returns; `EndResponse` is the end of a response for whatever reason, and
`Retry` the next turn of the `for`. `Swap` replaces the file at the url at any
moment. The length of the first response decides how long the image is, as in
the code; with a file that was replaced in between, the flash may hold the
beginning of one and the end of another.

`DoorModule` counts ticks since the pulse began instead of subtracting
`millis()`; the code compares unsigned differences, which do not mind a wrap. The
hold of a command takes one of the values `Holds`. `wish`, `limit` and `since` are
what an observer remembers of the last command. `DoorStation` puts both on the one
thread they share: a command's handler runs inside `dev.loop()`, then
`door.poll()`. A download and a clip hold the thread; time and the reed
switch go on. Power cuts come at every step and forget everything but the boot
image.

### ConfigStore, TimeSync, DeviceLifecycle

A configuration is reduced to the fields that decide something: the network it names
(SSID and password as one value), whether kennel and device id are there, the device
type, and the broker's user and password. `TooLong` are the texts of more than 256
characters, `Kinds` the types that `configPlausible()` knows. `save` looks at nothing;
`load` is the three cases of the code (a plausible entry, the legacy keys, the
factory value), each with a blank user name filled in (`Filled`). The legacy keys are
taken without a check, as in the code. `ConfigRegister` says what they amount to: a
register that holds what was stored last or, if that was implausible or damaged, what
there is without the entry. The refinement maps the register's value to what a restart
*would* load, at every step.

`TimeSync` has true time, the chip's clock (0 is not plausible), the time in NVS and
`synced_`. The clock and RTC memory survive a warm reset and a brown-out, and nothing
survives a power cut. `DeviceLifecycle` is one device: `begin()` in three steps between
which the power may go (`Boot`, `Migrate`, `Begin`, which fills a blank type with the
sketch's, unchecked), `loop()` in three (`NetPass`, `Edge`, the tail with the periodic
save of the time or status), the portal's form, and `rotate_credentials`, whose ack and
save are two steps. A rotation brings any pair of `Creds`, with texts of any length: the
handler asks only that they are not empty. `HandleSave(e)` stores `Form(e)`, all that
was entered but for a password left blank, so a new user may be stored with the old
password; `Entries` are what people enter. A sketch whose own type is not in `Kinds`
would have every store refused; this falls under `~configPlausible(cfg)`. `accepted` is
the broker's side: both credentials until the ack arrives, if it does, and the new ones
only from then on. `shown` is the retained status topic, where the will and the device's
own status replace each other.

### MuLaw, ConfigCodec, Topics

Functions, checked against what they promise. `MuLaw` computes in 8 and 16 bits
(`Int16`). `ConfigCodec` has texts as sequences of characters, with `|` and `%` for
the four that are escaped, and the CRC as something that tells any two bodies apart.
The loops of `enc`, `dec`, `split` and `serializeConfig` are recursive functions over
the number of turns made, with one operator for a turn (`Escaped`, `Taken`, `Cut`,
`Written`). `Topics` has a topic as the sequence of its levels, and a name that
contains `/` as more than one level. `MCCodecs` walks over the inputs: a state is a
sample, a text or a list of levels.

## 3. What TLC checks

| Run | Result | Shows |
|---|---|---|
| `reporting` | passes | `TypeOK`, `DeliveredInOrder`, `NvsHoldsJournal`, `NothingHeldWhileOnline`, `CrashReportedOnce`, `ImplementsLedger`, and under fairness `SavedJournalIsTakenUp`, `SavedReachesCloudWhenQuiet` |
| `schedule` | passes | `TypeOK`, `OncePerWindow`, `DueSlotsHaveFired`, `AckedSurvives`, `NextIsNext` for `GoodTables` |
| `schedule_overlap` | violated | two slots at most a window apart fire in turns for minutes |
| `kill_switch` | passes | `TypeOK`, `Agreement`, `LateCommandRejected`, `HeardHaltStopsActs`, and under fairness `TakesHold` |
| `kill_switch_clear` | violated | clearing the control topic does not release a halted device |
| `mqtt_link` | passes | `TypeOK`, `DueSoon`, `QuickReturn`, `AttemptsSpaced` while the clock does not wrap |
| `mqtt_wrap` | violated | a connection that drops after the wrap is not tried again for up to 49 days |
| `door_station` | passes | `TypeOK`, `ResumeContinues`, `OnlyAnnounced`, `TimedOpeningLasts`, and under fairness `TimedOpeningEnds`, `DownloadEnds` |
| `door_unlock` | violated | an unlock is undone by the pulse of an earlier timed opening |
| `lifecycle` | passes | `TypeOK`, `KeepsAccess`, `BrownoutsCounted`, `ClockMovesForward`, `ImplementsRegister`, and under fairness `ComesBack` |
| `clock_trust` | violated | a clock restored from NVS is trusted before any NTP sync |
| `codecs` | passes | `WithinStep`, `UlawMonotone`, `FieldsSurvive`, `SavedStays`, `TopicsUnambiguous`, `MatchesAsMqtt` |

Each violated run checks one property that states what a document or comment of
the repository says; `findings` in `PROJECT.json` quotes it.

**Behaviours of the models worth knowing.** These have no run of their own; they are
steps the models take because the code does.

* A report made without a connection before any edge has opened the journal is
  ignored (`ReportDark`; `record()` returns at once, `spd_device.h:177`), although
  `spd_device.h:11` promises a journal. It takes no more than a drop during the action.
* `flushJournal()` clears NVS before it publishes (`spd_device.h:228`): a crash or a
  dead link in between loses the window. In `ActionLedger` this is the step from in
  flight to lost. A report longer than the client's buffer is lost there with nothing
  going wrong (`spd_mqtt.h:27`; `Arrives`).
* `tickSchedule()` runs only while online (`spd_device.h:117`), against
  `spd_schedule.h:2` and `src/README.md:17`.
* After a restart the kill switch is off until the retained control message has been
  read (`spd_device.h:431`), and the pass that connects may already fire a slot.
* The sample -32768 has no negation in 16 bits and is heard as 0 (`spd_ulaw.h:17`);
  `WithinStep` and `UlawMonotone` leave out this one sample.
* `load()` fills a blank user name with `device:` and the id. For an id of 250 to 256
  characters the result, once saved, is too long for `configPlausible()`, and the next
  load falls back (`spd_config.h:135`); `SavedStays` asks for an id that leaves room.
* `save()` never removes the legacy keys, so a damaged entry brings a migrated
  device back to its first identity (`Lose` in `ConfigRegister`).
* `KeepsAccess` says that a restart finds a pair of user and password that the broker
  accepts, or no password, except where `torn` is set, and `torn` is set in four places:
  a reset between the ack of `rotate_credentials` and its save (`spd_device.h:364`), a
  damaged entry, a store (by a rotation, `spd_device.h:367`, or by the form,
  `spd_wifi.h:87`) of what `configPlausible()` will refuse, and a form in which people
  entered a pair that is none of the broker's. A form that leaves user and password as
  they were repairs nothing. The third place needs neither a reset nor a fault: a
  rotation is checked for being non-empty only (`spd_device.h:360`), so one of more than
  256 characters, for which the 1024-byte message has room, is acknowledged and saved,
  and the next boot falls back to the old keys or to the factory value.
  `rotate_credentials` says at `spd_device.h:354` that the boot path reconnects with
  what is in NVS; here it does not.
* Without a `sha256`, a download resumed after the file was replaced may be booted as a
  mixture, if its length is right; `OnlyAnnounced` promises nothing there.
* Nothing ends a clip from a server that keeps the stream open
  (`TwoWayAudioModule.h:83`), and the door is not polled meanwhile.

**Bounds.** `reporting`: three actions, a journal of two, a report of one that fits, two
crashes, two breaks. Three actions overflow the journal; two crashes cut a replay and
then the boot that follows it; two breaks give a half-open connection and a second edge.
`schedule`: a day of ten minutes and windows of two, two local days, three schedules
(two slots and a disabled one, one of them alone, none), two reloads: enough for each
slot's window to open twice with a UTC midnight between the two, for a slot to be
removed and brought back, and for a crash in the middle of `schedule_set`.
`kill_switch`: three control messages, three commands or scheduled actions, two breaks
or restarts: a halt, a resume and a halt on the way together. `mqtt_link`: base delay 8,
longest 20, 40 ms of uptime: the backoff saturates (8, 16, 20) and several attempts fail
in a row. `door_station`: two images of two and three chunks, one replacement, three
attempts, one restart, holds of none and two ticks: a download resumed twice, once after
the file became longer or shorter, an opening renewed while an older pulse runs, and one
that waits for a download. `lifecycle`: two networks (and none), two users and three
passwords, one of them too long, in three pairs that the cloud may mint and six forms
(each good pair, another network with the rest blank, a new user with the old password,
a password too long, nothing), a first setup with a type that `configPlausible()` knows
or does not, two ticks of time, two resets and one fault: a rotation cut by a reset and
a second one during the boot that follows, an over-long rotation and then a form, a
damaged entry on a migrated device, a drop of the link after a visit to the portal.
`codecs`: all 65536 samples; texts of up to five of the characters that matter (both
special ones, the digits of an escape, and the letter of one), cut in two at every
place, with a limit of three characters for a field instead of 256, so that texts on
both sides of it occur; topics of up to five levels, one of them of a character that is
not allowed, one empty, against every filter of up to three levels. Deadlock is not
checked in the `mqtt_` runs, where the bound on uptime ends every behaviour, and in
`codecs`, where every walk ends; everywhere else it is.

**Fairness.** `loop()` keeps being called (`WF` on the loop's steps), the broker
works through its packets. Wi-Fi comes back in `ActionReporting` (`WF` on `WifiBack`):
without it nothing is ever delivered. Attempts to connect: the code retries for
ever, so in a behaviour without a connection attempts recur; that not every one of
them fails is `SF` on the successful attempt (`ConnectOk`, `ConnectOnce`, `Connects`),
an assumption about the broker. `SF` on `PortalOpens` and `TailStatus` stands for
`millis()`, which in the end passes `provisionAfterMs` and the status interval while
`loop()` comes by again and again. In `DoorStation` time passes, clips end (part of
`Loop`), and so does each response of a download, by `kStallMs`; nothing says that
any attempt succeeds. No fairness is assumed of crashes, breaks, commands, control
messages, portal visits or SNTP. `SavedReachesCloudWhenQuiet` begins when the bounded
disturbances are used up, and only for reports that fit the client's buffer
(`ReportRoom`, from the 1024 bytes at `spd_mqtt.h:27`). `ComesBack` is about
behaviours in which the access point stays up from some time on, and lets the device
end in the portal, which it never leaves by itself (`spd_wifi.h:33`).

**`GoodTables`.** `OncePerWindow` and `DueSlotsHaveFired` hold for schedules
whose enabled slots are more than a window apart (`Spaced`) and away from UTC
midnight (`Clear`), and are false otherwise: `schedule_overlap` shows the first;
the second is the same effect by `dayIndex()` (UTC) and `minuteOfDay()` (local)
disagreeing about the day (`spd_time.h:77`). Two more limits are visible in the
statements. `OncePerWindow` allows one more firing per reload: a restart or a
`schedule_set` in a window fires the slot again, because the memory is reset and
is not stored. And a window ends with the local day: `due()` does not take the
difference modulo a day, so a slot at 23:57 has two minutes of tolerance.

## 4. What TLAPS proves

For every value of the constants, from the assumptions named beside the
constants:

* `ActionReportingProofs`: `TypeCorrect`, `OrderedDelivery`, `NvsMirror`,
  `NothingStranded`, `OneCrashEvent`. The invariant says where actions can be: the
  cloud's sequence, followed by the report, the journal and the action in hand, is
  increasing, and what is in NVS when it differs from the journal (during boot and
  between a change and its write) is still behind what the cloud has seen. That
  order is what `DeliveredInOrder` needs to be inductive: a crash replaces the
  journal by NVS.
* `ActionReportingRefinement`: `Refinement`, that every step is a step of
  `ActionLedger` or a stutter. One lemma per action says how it moves fates.
  `FatesAreFinal` and `HolesStay` say what follows for the device: which fate can
  follow which, and that nothing older than what the cloud has seen still waits.
* `ScheduleTickProofs`: `ScheduleTypes`, `FiresOnce`, `NoneStarved` under
  `GoodTables`, and `AckIsDurable` without it. The invariant ties the one
  remembered slot to the clock: while a window is open, the slot's count is
  explained by the memory (same slot, same UTC day) or by a reload; `Spaced`
  makes the slot in a window unique, `Clear` keeps the UTC day constant in it,
  and the reading of the minute is at most one minute old. `CountdownEnds` needs a
  least element of the set of distances, which is the well-foundedness of the
  natural numbers.
* `KillSwitchProofs`: `KillSwitchTypes`, `FleetAgreement`, `LateCommands`,
  `HeardHalt`. The invariant describes the inbox: after the last control message
  in it come only commands; a late command is preceded by the halt it is behind
  or finds `safeMode_` set.
* `MqttLinkProofs`: `LinkTypes`, `NextIsNear`, `NoPenalty`, `Unhurried`, each
  under `NoWrap`. The invariant: the pending delay was drawn when the last attempt
  began and is at most the base after a success.
* `DoorStationProofs`: `StationTypes`, `ResumedDownloads`, `BootsAnnounced`,
  `OpeningsLast`, for all images, numbers of attempts and holds. A resumed
  download is whole because a response carries exactly what the flash lacks of the
  file (`Carried`), an opening lasts because the pulse that runs is its own
  (`Pulsing`); `ResumeContinues` and `TimedOpeningLasts` are not inductive without
  them.
* `LifecycleProofs`: `LifecycleTypes`, `AccessKept`, `CountRight`, `ClockForward`,
  `RegisterImplemented`, the refinement of `ConfigRegister`, and `OnlyWhatWasStored`.
  `AccessKept` is for rotations and forms with texts of any length, and is as strong as
  its exceptions are few (`torn`, above). `OnlyWhatWasStored` has two parts: what a
  restart loads is exactly what was stored last if that is plausible, and otherwise, or
  after damage, the old keys or the factory value (`WhatWasStored`); and if the sketch
  names a known type and the old keys are plausible, `cfg_` is implausible only in the
  handler of a rotation (`WorksPlausibly`). Without these two conditions it may be
  implausible at any time: the old keys are taken unchecked (`spd_config.h:60`), and so
  is the sketch's type (`spd_device.h:62`). Time and configuration share the steps of
  `begin()` and `loop()` but no variable, so each is followed through a relation of its
  own that every step implies (`TimeStep`, `ConfigStep`). `Counting` says by how much
  the count is behind before `begin()` has read the reset reason; `Loaded`, that
  migration writes what is loaded anyway and that no user name is left to be filled in,
  so that a store and a load give the same; `Usable`, that the credentials in RAM, which
  the portal's form and the rotation carry on, are as good as those in flash.
* `CodecProofs`: `SpeechKeepsLoudness`, `SpeechKeepsOrder`, `FieldsAreRead`,
  `SavedIsKept`, `NoOthersTopic`, `FiltersAsMqtt`, and `AnyConfigIsRead`, which is about
  every configuration rather than the walked ones. The invariant (`Walk`) is only that
  the walk stays among samples, texts and levels; the content is in lemmas about the
  functions:
  - *Speech.* A magnitude lies in the segment that `Exponent` finds (`ExponentIs`,
    `SegmentExists`), so encoding and decoding give the middle of its step (`SoundIs`).
    `LoudnessNear` bounds the distance, `LoudnessMonotone` compares two steps of one
    segment and then two segments.
  - *Configuration.* `DecIs`: `dec(enc(t)) = t`, because the place at which `dec` reads
    is always the start of an escaped character. `SplitIs`: a separator that occurs
    in no piece cuts what was laid together back into the pieces, and `enc` writes none.
    `DefaultsAre` and `SavedIs` follow the defaults through a second save: they fill what
    was blank, so they find nothing blank the second time, and the bound on the id keeps
    the user name plausible.
  - *Topics.* The levels of a built topic are those of the four names, one behind the
    other; `parseTopic` accepts exactly four behind `kennel`, so each name was one
    level. `topicMatches` is a recursion over the positions of the filter; `Rest` is its solution in
    closed form, and `SolutionIs` says that there is no other.

  The assumptions are `FieldAssumption` (a field may have one character) and
  `TopicAssumption` (the device kinds are valid segments). Nothing is assumed about the
  characters: the text of an escape may occur in a text, a separator too.

**Recursive functions.** That such a function is what its equation says needs an
induction, and the library's induction theorems take an operator as a parameter, which
these provers cannot instantiate. `CodecProofs` does without: `UpTo` takes the least
counterexample of a *set* of numbers (the natural numbers are well-founded), and
`Recursion` uses it to show that a function with the step given by a function exists on
every initial segment. The same argument is behind `CountdownEnds`.

What the theorems rest on beyond this: what the models leave out (section 5), and the
assumptions named beside the constants, which TLC evaluates in every run.

Only model-checked: the liveness properties (`SavedJournalIsTakenUp`,
`SavedReachesCloudWhenQuiet`, `TakesHold`, `TimedOpeningEnds`, `DownloadEnds`,
`ComesBack`), which are beyond this prover, and the violations. Every other property of
a passing run is a theorem.

## 5. What is not modelled

* Content of messages: status and event fields, so neither the verdicts of
  HealthMonitor and the offset metric in them, nor the escaping of schedule ids.
  `spd_mqtt.h:61` deserves a look: `doc.to<JsonObject>()` clears the envelope and the
  field `status` just written. The model has this publication as one that replaces
  the will, whatever it says.
* The pages of the portal. Its form shows the Wi-Fi password blank and stores what
  comes back (`spd_wifi.h:80`); a password is not told apart from its network here.
* Clock steps and daylight saving, `minuteOfDay()` failing, drift.
* QoS and duplicated delivery (the SDK has no deduplication of commands by id),
  memory pressure, a half-open link in `DeviceLifecycle` (it is in `ActionReporting`).
* `identify`, `set_interval`, the talk path of TwoWayAudioModule, uploads over
  ArduinoOTA: flags and streams on which no other part depends.
* FeederModule, WaterModule, ScaleModule, PresenceScanner, EnvSensorModule: blocking
  calls and floating-point formulas over hardware that the repository does not
  describe. What they share with the rest, a blocking action followed by a report,
  is `Act` in `ActionReporting`.
* `SHA-256` and `CRC-32` as functions. `dropped_` is in the journal's model and, as
  in the code, not in its NVS form.

The components without a module are listed in `PROJECT.json` with the reason.

## 6. Plan

Done: reporting, schedule, kill switch, link, door station with downloads, lifecycle
with configuration and time, and the pure functions, each with its properties and
the theorems about it: every safety and action property of a passing run is proved, and
both refinements.

Left to prove:

* The conditions under which the violated statements hold: an unlock stays when no pulse
  runs (`door_unlock`), the clock is trusted only after NTP when nothing was restored
  (`clock_trust`).
* The safety half of the liveness properties: the states in which they wait are left by
  each fair step.

Left to model, in this order:

1. The content of the status topic: the fields of the envelope, the verdict on memory,
   the offset metric, and the takeover of a session by a second connection.
2. A half-open link in `DeviceLifecycle`, composed with the backoff of `MqttLink`.
3. The talk path, and the keepalive that passes while a download holds the loop, so that
   its ack has no connection.
4. A refinement of `OtaUpdater` by a specification with one atomic step per download.
