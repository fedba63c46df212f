--------------------------- MODULE ActionReporting ---------------------------
(***************************************************************************)
(* How SmartPetDevice (src/spd_device.h) gets its physical actions to the  *)
(* cloud: reportAction(), the offline journal and its copy in NVS, the     *)
(* connectivity edge at the end of which the journal is replayed, and the  *)
(* crash event of the previous boot.                                       *)
(*                                                                         *)
(* One pass of loop() is a walk of pc:                                     *)
(*                                                                         *)
(*   top -> [pump ->] check -> [up -> flush ->] [persist -> publish ->]    *)
(*   tick -> top                                                           *)
(*                                                                         *)
(* Each step is code between two points at which the connection may be     *)
(* found changed or the power may go: the driver calls that block (Wi-Fi,  *)
(* connect, the motor run) and the flash writes.  An action is performed   *)
(* by the sketch's own loop code (pc = "top"), by a command handler inside *)
(* mqtt_.loop() ("pump") or by a scheduled callback ("tick").              *)
(*                                                                         *)
(* The connection is what mqtt_.connected() says and what is true: "open", *)
(* "half" (the broker is gone and the socket does not know it yet: a       *)
(* publish succeeds and never arrives) or "down".                          *)
(***************************************************************************)
EXTENDS OfflineJournal, Functions

CONSTANTS
  MaxActs,                      \* bound: actions performed in a behaviour
  ReportRoom,                   \* missed actions that fit PubSubClient's buffer
  MaxCrashes,                   \* bound: power cuts and panics
  MaxBreaks                     \* bound: Wi-Fi losses and broken connections

ASSUME BoundsAssumption ==
  /\ MaxActs \in Nat
  /\ ReportRoom \in Nat
  /\ MaxCrashes \in Nat
  /\ MaxBreaks \in Nat

VARIABLES
  pc,                           \* where loop() is
  ret,                          \* where it goes after reportAction/persistJournal
  wifi,                         \* WiFi.status() = WL_CONNECTED
  conn,                         \* the MQTT connection
  wifiUp, online,               \* locals of loop()
  wasOnline,                    \* wasOnline_
  journal,                      \* journal_
  nvs,                          \* the blob "journal" in NVS
  report,                       \* the actions of flushJournal's local rep
  act,                          \* the action being performed; 0: none
  bootCrash, crashReported,     \* bootCrash_.isCrash, crashReported_
  acted,                        \* history: actions performed so far
  seen,                         \* history: the actions the cloud has seen
  crashEvents,                  \* history: crash events published this boot
  crashes, breaks               \* counters for the bounds

loopVars  == <<pc, ret, wifiUp, online, wasOnline>>
netVars   == <<wifi, conn>>
storeVars == <<journal, nvs, report>>
actVars   == <<act, acted, seen>>
crashVars == <<bootCrash, crashReported, crashEvents>>
bounds    == <<crashes, breaks>>
vars == <<loopVars, netVars, storeVars, actVars, crashVars, bounds>>

connected == conn # "down"
Goto(l) == pc' = l

-------------------------------------------------------------------------------
Init ==
  /\ pc = "boot" /\ ret = "top"
  /\ wifi \in BOOLEAN /\ conn = "down"
  /\ wifiUp = FALSE /\ online = FALSE /\ wasOnline = FALSE
  /\ journal = Closed /\ nvs = NoBlob /\ report = <<>>
  /\ act = 0 /\ acted = 0 /\ seen = <<>>
  /\ bootCrash \in BOOLEAN /\ crashReported = FALSE /\ crashEvents = 0
  /\ crashes = 0 /\ breaks = 0

\* Variant of Boot: the saved journal is not restored.
BootBlank ==
  /\ pc = "boot"
  /\ Goto("top")
  /\ UNCHANGED <<ret, wifiUp, online, wasOnline, netVars, storeVars, actVars, crashVars, bounds>>

\* begin(): a journal left open by the last power cycle is open again.
Boot ==
  /\ pc = "boot"
  /\ journal' = IF nvs.present THEN Deserialize(journal, nvs) ELSE journal
  /\ Goto("top")
  /\ UNCHANGED <<ret, wifiUp, online, wasOnline, netVars, nvs, report, actVars, crashVars, bounds>>

\* loop() begins: wifi_.poll() is read once for the whole pass.
LoopTop ==
  /\ pc = "top"
  /\ wifiUp' = wifi
  /\ Goto(IF wifi THEN "pump" ELSE "check")
  /\ UNCHANGED <<ret, online, wasOnline, netVars, storeVars, actVars, crashVars, bounds>>

\* mqtt_.loop() with a connection: nothing, or a message that performs no
\* action (see Act for one that does).
Pump ==
  /\ pc = "pump" /\ connected
  /\ Goto("check")
  /\ UNCHANGED <<ret, wifiUp, online, wasOnline, netVars, storeVars, actVars, crashVars, bounds>>

\* mqtt_.loop() without one: the attempt succeeds, and returns to loop().
ConnectOk ==
  /\ pc = "pump" /\ ~connected /\ wifi
  /\ conn' = "open"
  /\ Goto("check")
  /\ UNCHANGED <<ret, wifiUp, online, wasOnline, wifi, storeVars, actVars, crashVars, bounds>>

\* ... or fails, or is not due yet.
ConnectFail ==
  /\ pc = "pump" /\ ~connected
  /\ Goto("check")
  /\ UNCHANGED <<ret, wifiUp, online, wasOnline, netVars, storeVars, actVars, crashVars, bounds>>

-------------------------------------------------------------------------------
(* handleConnectivity() acts on an edge of `online` only.                   *)

NowOnline == wifiUp /\ connected

NoEdge ==
  /\ pc = "check" /\ NowOnline = wasOnline
  /\ online' = NowOnline
  /\ Goto("tick")
  /\ UNCHANGED <<ret, wifiUp, wasOnline, netVars, storeVars, actVars, crashVars, bounds>>

\* Variant of WentDown: the opened journal is not persisted.
WentDownUnsaved ==
  /\ pc = "check" /\ wasOnline /\ ~NowOnline
  /\ online' = FALSE /\ wasOnline' = FALSE
  /\ journal' = MarkOffline(journal)
  /\ Goto("tick") /\ UNCHANGED ret
  /\ UNCHANGED <<wifiUp, netVars, nvs, report, actVars, crashVars, bounds>>

WentDown ==
  /\ pc = "check" /\ wasOnline /\ ~NowOnline
  /\ online' = FALSE /\ wasOnline' = FALSE
  /\ journal' = MarkOffline(journal)
  /\ Goto("persist") /\ ret' = "tick"
  /\ UNCHANGED <<wifiUp, netVars, nvs, report, actVars, crashVars, bounds>>

\* Variant of CameUp: the edge is noted and the journal not looked at.
CameUpNoFlush ==
  /\ pc = "check" /\ ~wasOnline /\ NowOnline
  /\ online' = TRUE /\ wasOnline' = TRUE
  /\ Goto("tick")
  /\ UNCHANGED <<ret, wifiUp, netVars, storeVars, actVars, crashVars, bounds>>

CameUp ==
  /\ pc = "check" /\ ~wasOnline /\ NowOnline
  /\ online' = TRUE /\ wasOnline' = TRUE
  /\ Goto("up")
  /\ UNCHANGED <<ret, wifiUp, netVars, storeVars, actVars, crashVars, bounds>>

\* Variant of ReportCrash: crashReported_ is not set.
ReportCrashAgain ==
  /\ pc = "up"
  /\ crashEvents' = crashEvents + (IF bootCrash /\ ~crashReported /\ connected THEN 1 ELSE 0)
  /\ Goto("flush")
  /\ UNCHANGED <<ret, wifiUp, online, wasOnline, netVars, storeVars, actVars, bootCrash, crashReported, bounds>>

\* reportCrashOnce(): once published, reported, whether or not it arrives.
ReportCrash ==
  /\ pc = "up"
  /\ IF bootCrash /\ ~crashReported /\ connected
       THEN crashReported' = TRUE /\ crashEvents' = crashEvents + 1
       ELSE UNCHANGED <<crashReported, crashEvents>>
  /\ Goto("flush")
  /\ UNCHANGED <<ret, wifiUp, online, wasOnline, netVars, storeVars, actVars, bootCrash, bounds>>

\* Variant of Flush: the report is filled after the journal was cleared.
FlushEmptied ==
  /\ pc = "flush" /\ journal.open
  /\ journal' = CloseOnline(journal)
  /\ report' = journal'.actions
  /\ Goto("persist") /\ ret' = "publish"
  /\ UNCHANGED <<wifiUp, online, wasOnline, netVars, nvs, actVars, crashVars, bounds>>

\* flushJournal() closes the journal, clears the copy in NVS (Persist) and
\* then publishes.
Flush ==
  /\ pc = "flush" /\ journal.open
  /\ report' = journal.actions
  /\ journal' = CloseOnline(journal)
  /\ Goto("persist") /\ ret' = "publish"
  /\ UNCHANGED <<wifiUp, online, wasOnline, netVars, nvs, actVars, crashVars, bounds>>

NothingToFlush ==
  /\ pc = "flush" /\ ~journal.open
  /\ Goto("tick")
  /\ UNCHANGED <<ret, wifiUp, online, wasOnline, netVars, storeVars, actVars, crashVars, bounds>>

\* Variant of Persist: a closed journal does not clear its copy.
PersistOpenOnly ==
  /\ pc = "persist"
  /\ nvs' = IF journal.open THEN Serialize(journal) ELSE nvs
  /\ Goto(ret)
  /\ UNCHANGED <<ret, wifiUp, online, wasOnline, netVars, journal, report, actVars, crashVars, bounds>>

\* persistJournal(): one NVS entry is written or cleared.
Persist ==
  /\ pc = "persist"
  /\ nvs' = IF journal.open THEN Serialize(journal) ELSE NoBlob
  /\ Goto(ret)
  /\ UNCHANGED <<ret, wifiUp, online, wasOnline, netVars, journal, report, actVars, crashVars, bounds>>

\* The offline_recovered event.  publishEvent returns false without a
\* connection or when the message exceeds the client's buffer; the result is
\* not looked at.
Arrives(s) == conn = "open" /\ Len(s) <= ReportRoom

Publish ==
  /\ pc = "publish"
  /\ seen' = IF Arrives(report) THEN seen \o report ELSE seen
  /\ report' = <<>>
  /\ Goto("tick")
  /\ UNCHANGED <<ret, wifiUp, online, wasOnline, netVars, journal, nvs, act, acted, crashVars, bounds>>

\* The rest of loop().
EndLoop ==
  /\ pc = "tick"
  /\ Goto("top")
  /\ UNCHANGED <<ret, wifiUp, online, wasOnline, netVars, storeVars, actVars, crashVars, bounds>>

-------------------------------------------------------------------------------
(* Physical actions.                                                        *)

\* An action starts.  A command handler runs on a live connection only,
\* tickSchedule() only when this pass found the device online; a handler
\* returns into mqtt_.loop(), which returns to loop().
Act ==
  /\ acted < MaxActs
  /\ \/ pc = "top" /\ ret' = "top"
     \/ pc = "pump" /\ connected /\ ret' = "check"
     \/ pc = "tick" /\ online /\ ret' = "tick"
  /\ acted' = acted + 1 /\ act' = acted + 1
  /\ Goto("acting")
  /\ UNCHANGED <<wifiUp, online, wasOnline, netVars, storeVars, seen, crashVars, bounds>>

\* reportAction() with a connection: an event of its own.
ReportLive ==
  /\ pc = "acting" /\ connected
  /\ seen' = IF conn = "open" THEN Append(seen, act) ELSE seen
  /\ act' = 0
  /\ Goto(ret)
  /\ UNCHANGED <<ret, wifiUp, online, wasOnline, netVars, storeVars, acted, crashVars, bounds>>

\* reportAction() without one: into the journal, which is then persisted.
ReportDark ==
  /\ pc = "acting" /\ ~connected
  /\ journal' = Record(journal, act)
  /\ act' = 0
  /\ Goto("persist")
  /\ UNCHANGED <<ret, wifiUp, online, wasOnline, netVars, nvs, report, acted, seen, crashVars, bounds>>

-------------------------------------------------------------------------------
(* The environment.                                                         *)

\* Wi-Fi goes away; the connection may or may not outlive the gap.
WifiLoss ==
  /\ wifi /\ breaks < MaxBreaks
  /\ wifi' = FALSE
  /\ \/ UNCHANGED conn
     \/ conn = "open" /\ conn' = "half"
  /\ breaks' = breaks + 1
  /\ UNCHANGED <<loopVars, storeVars, actVars, crashVars, crashes>>

WifiBack ==
  /\ ~wifi
  /\ wifi' = TRUE
  /\ UNCHANGED <<loopVars, conn, storeVars, actVars, crashVars, bounds>>

\* The broker or the path to it is gone; the device may learn it at once.
ConnBreak ==
  /\ conn = "open" /\ breaks < MaxBreaks
  /\ conn' \in {"half", "down"}
  /\ breaks' = breaks + 1
  /\ UNCHANGED <<loopVars, wifi, storeVars, actVars, crashVars, crashes>>

\* The keepalive or the socket reports a dead connection.
ConnNoticed ==
  /\ conn = "half"
  /\ conn' = "down"
  /\ UNCHANGED <<loopVars, wifi, storeVars, actVars, crashVars, bounds>>

\* A panic or watchdog reset (panic = TRUE), or a power cut or restart.
\* Everything but NVS is gone.
Crash ==
  /\ crashes < MaxCrashes
  /\ \E panic \in BOOLEAN : bootCrash' = panic
  /\ Goto("boot") /\ ret' = "top"
  /\ conn' = "down" /\ wifiUp' = FALSE /\ online' = FALSE /\ wasOnline' = FALSE
  /\ journal' = Closed /\ report' = <<>> /\ act' = 0
  /\ crashReported' = FALSE /\ crashEvents' = 0
  /\ crashes' = crashes + 1
  /\ UNCHANGED <<wifi, nvs, acted, seen, breaks>>

-------------------------------------------------------------------------------
LoopStep ==
  \/ Boot \/ LoopTop \/ Pump \/ ConnectFail
  \/ NoEdge \/ WentDown \/ CameUp \/ ReportCrash \/ Flush \/ NothingToFlush
  \/ Persist \/ Publish \/ EndLoop
  \/ ReportLive \/ ReportDark

Environment == WifiLoss \/ WifiBack \/ ConnBreak \/ ConnNoticed \/ Crash

Next == LoopStep \/ ConnectOk \/ Act \/ Environment

Spec == Init /\ [][Next]_vars

\* loop() keeps running; Wi-Fi comes back; of the attempts to connect, which
\* recur for ever while there is no connection, one succeeds.
Fairness == WF_vars(LoopStep \/ ConnectOk) /\ WF_vars(WifiBack) /\ SF_vars(ConnectOk)

FairSpec == Spec /\ Fairness

-------------------------------------------------------------------------------
(* Properties.                                                              *)

Locations == {"boot", "top", "pump", "check", "up", "flush", "persist",
              "publish", "tick", "acting"}

Journals(n) == [open : BOOLEAN, actions : Seq(1 .. n), dropped : Nat]
Blobs(n) == [present : BOOLEAN, actions : Seq(1 .. n)]

\* Type invariant; the journal and its copy never exceed kMaxActions.
TypeOK ==
  /\ pc \in Locations /\ ret \in {"top", "check", "tick", "publish"}
  /\ wifi \in BOOLEAN /\ conn \in {"open", "half", "down"}
  /\ wifiUp \in BOOLEAN /\ online \in BOOLEAN /\ wasOnline \in BOOLEAN
  /\ journal \in Journals(acted) /\ nvs \in Blobs(acted)
  /\ Len(journal.actions) <= MaxActions /\ Len(nvs.actions) <= MaxActions
  /\ report \in Seq(1 .. acted) /\ seen \in Seq(1 .. acted)
  /\ acted \in 0 .. MaxActs /\ act \in 0 .. acted
  /\ bootCrash \in BOOLEAN /\ crashReported \in BOOLEAN /\ crashEvents \in Nat
  /\ crashes \in 0 .. MaxCrashes /\ breaks \in 0 .. MaxBreaks

\* s is strictly increasing: no action twice, in the order performed.
Ascending(s) == \A i, j \in DOMAIN s : i < j => s[i] < s[j]

\* The cloud sees no action twice and sees actions in the order in which they
\* were performed, although events overtake the journal and the journal
\* survives crashes (reportAction, flushJournal, begin).
DeliveredInOrder == Ascending(seen)

\* What persistJournal() would write now.
Blob(j) == IF j.open THEN Serialize(j) ELSE NoBlob

\* Whenever the power may go, except during begin() and between a change of
\* the journal and the write that follows it, NVS holds the journal.
NvsHoldsJournal == pc \notin {"boot", "persist"} => nvs = Blob(journal)

\* Only an edge of connectivity replays the journal: a journal that is open
\* while the device counts itself online would never be sent.
NothingHeldWhileOnline == wasOnline /\ journal.open => pc \in {"up", "flush"}

\* One crash event per boot that followed a crash, however often the link
\* comes and goes (reportCrashOnce).
CrashReportedOnce == crashEvents <= (IF bootCrash THEN 1 ELSE 0)

\* The fate of action a, read off the device's state.
FateOf(a) ==
  IF a > acted THEN "none"
  ELSE IF a \in Range(seen) THEN "delivered"
  ELSE IF pc = "publish" /\ a \in Range(report) THEN "inflight"
  ELSE IF a \in Range(nvs.actions) THEN "durable"
  ELSE IF pc = "acting" /\ a = act THEN "pending"
  ELSE IF pc = "persist" /\ a \in Range(journal.actions) THEN "pending"
  ELSE "lost"

Ledger == INSTANCE ActionLedger WITH fate <- [a \in 1 .. MaxActs |-> FateOf(a)]

\* The device keeps the promise of ActionLedger: what has reached flash leaves
\* it only to be replayed, and only the write-to-flash and the
\* clear-to-publish gaps and the direct report can lose an action.
ImplementsLedger == Ledger!Spec

\* A saved journal does not stay in flash for ever: sooner or later an edge
\* of connectivity takes it up (begin, handleConnectivity, flushJournal).
SavedJournalIsTakenUp == nvs.present ~> ~nvs.present

\* Nothing disturbs the device any more, and it is between two passes.
Quiet ==
  /\ breaks = MaxBreaks /\ crashes = MaxCrashes /\ acted = MaxActs
  /\ conn # "half" /\ pc = "top"

\* Once the disturbances end, every saved action reaches the cloud, provided
\* that the report fits the client's buffer.
SavedReachesCloudWhenQuiet ==
  \A a \in 1 .. MaxActs :
    (Quiet /\ a \in Range(nvs.actions) /\ Len(nvs.actions) <= ReportRoom) ~> a \in Range(seen)
===============================================================================
