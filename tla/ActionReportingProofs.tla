------------------------ MODULE ActionReportingProofs ------------------------
(***************************************************************************)
(* Proofs about ActionReporting.  Its safety invariants follow from one    *)
(* inductive invariant, IInv, which says of every place in loop() what the *)
(* journal, its copy in NVS, the report and the cloud hold, and in what    *)
(* order.                                                                  *)
(***************************************************************************)
EXTENDS ActionReporting, TLAPS

\* Everything in s was performed before everything in t.
Before(s, t) == \A i \in DOMAIN s, j \in DOMAIN t : s[i] < t[j]

\* s[i] is at least the i-th action, so s is no longer than acted.
Numbered(s) == \A i \in DOMAIN s : i <= s[i]

\* Every queue is in order, and the cloud's actions come first.
Ordered ==
  /\ Ascending(seen) /\ Ascending(journal.actions)
  /\ Ascending(nvs.actions) /\ Ascending(report)
  /\ Numbered(journal.actions) /\ Numbered(nvs.actions) /\ Numbered(report)
  /\ Before(seen, journal.actions) /\ Before(seen, nvs.actions) /\ Before(seen, report)

\* The action in hand is the latest one and is nowhere else.
InHand ==
  IF pc = "acting"
    THEN /\ act = acted /\ act > 0 /\ ret # "publish"
         /\ Before(seen, <<act>>) /\ Before(journal.actions, <<act>>)
         /\ Before(nvs.actions, <<act>>) /\ Before(report, <<act>>)
    ELSE act = 0

\* What is closed or absent is empty.
ClosedIsEmpty ==
  /\ ~journal.open => journal.actions = <<>>
  /\ ~nvs.present => nvs.actions = <<>>

\* A report exists between flushJournal's close and its publish only; until
\* NVS is cleared it is there too.
Replaying ==
  /\ report # <<>> => pc = "publish" \/ (pc = "persist" /\ ret = "publish")
  /\ pc = "publish" => ~journal.open
  /\ pc = "persist" /\ ret = "publish" =>
       ~journal.open /\ nvs.present /\ nvs.actions = report

\* A write that is due adds at most the latest action to what NVS holds.
Writing ==
  pc = "persist" /\ ret # "publish" =>
    \/ journal.actions = nvs.actions
    \/ acted > 0 /\ journal.actions = Append(nvs.actions, acted)

\* With a connection, actions wait in the journal only on the way from the
\* connect to the flush of the same pass.
Waiting ==
  connected /\ journal.actions # <<>> =>
    \/ pc = "check" /\ wifiUp
    \/ pc \in {"up", "flush"}

\* A device that has not begun holds nothing, and pumps on Wi-Fi only.
Idle ==
  /\ pc = "boot" => journal = Closed /\ ~connected /\ ~wasOnline
  /\ pc = "pump" => wifiUp

\* The crash event's flag agrees with its history.
CrashFlag ==
  /\ crashEvents = 0 \/ (crashEvents = 1 /\ bootCrash /\ crashReported)
  /\ crashReported \/ crashEvents = 0

IInv ==
  /\ TypeOK
  /\ Ordered /\ InHand /\ ClosedIsEmpty /\ Replaying /\ Writing /\ Waiting /\ Idle
  /\ NvsHoldsJournal /\ NothingHeldWhileOnline /\ CrashFlag

-------------------------------------------------------------------------------
(* Sequences of actions.                                                    *)

LEMMA ElementOf ==
  ASSUME NEW n \in Nat, NEW s \in Seq(1 .. n), NEW i \in DOMAIN s
  PROVE  s[i] \in 1 .. n
OBVIOUS

\* A queue of actions among 1..m is a queue of actions among 1..n, m <= n.
LEMMA SeqWiden ==
  ASSUME NEW m \in Nat, NEW n \in Nat, m <= n, NEW s \in Seq(1 .. m)
  PROVE  s \in Seq(1 .. n)
<1>1. Len(s) \in Nat /\ s = [i \in 1 .. Len(s) |-> s[i]]
  OBVIOUS
<1>2. \A i \in 1 .. Len(s) : s[i] \in 1 .. n
  OBVIOUS
<1> QED
  BY <1>1, <1>2

\* Appending an action later than all of s keeps s in order and numbered.
LEMMA AppendOrder ==
  ASSUME NEW n \in Nat, NEW s \in Seq(1 .. n), NEW a \in 1 .. n,
         Ascending(s), Before(s, <<a>>)
  PROVE  /\ Append(s, a) \in Seq(1 .. n)
         /\ Ascending(Append(s, a))
         /\ Numbered(s) => Numbered(Append(s, a))
<1> DEFINE t == Append(s, a)
<1>1. t \in Seq(1 .. n) /\ Len(t) = Len(s) + 1 /\ DOMAIN t = 1 .. Len(s) + 1 /\ DOMAIN s = 1 .. Len(s)
  OBVIOUS
<1>2. \A i \in 1 .. Len(s) : t[i] = s[i] /\ s[i] \in 1 .. n
  OBVIOUS
<1>3. t[Len(s) + 1] = a /\ Len(s) \in Nat
  OBVIOUS
<1>4. \A i \in 1 .. Len(s) : s[i] < a
  BY DEF Before
<1> HIDE DEF t
<1>5. ASSUME NEW i \in DOMAIN t, NEW j \in DOMAIN t, i < j
      PROVE  t[i] < t[j]
  <2>1. i \in 1 .. Len(s)
    BY <1>1, <1>3, <1>5
  <2>2. CASE j \in 1 .. Len(s)
    <3>1. s[i] < s[j]
      BY <1>1, <1>5, <2>1, <2>2 DEF Ascending
    <3> QED
      BY <1>2, <2>1, <2>2, <3>1
  <2>3. CASE j \notin 1 .. Len(s)
    <3>1. j = Len(s) + 1
      BY <1>1, <1>3, <2>3
    <3> QED
      BY <1>2, <1>3, <1>4, <2>1, <3>1
  <2> QED
    BY <2>2, <2>3
<1>6. Numbered(s) => Numbered(t)
  <2>1. CASE Len(s) = 0
    BY <1>1, <1>3, <2>1 DEF Numbered
  <2>2. CASE Len(s) # 0
    <3>1. Len(s) \in 1 .. Len(s)
      BY <1>3, <2>2
    <3>2. s[Len(s)] < a /\ s[Len(s)] \in 1 .. n
      BY <1>2, <1>4, <3>1
    <3>3. Numbered(s) => Len(s) <= s[Len(s)]
      BY <1>1, <3>1 DEF Numbered
    <3>4. Numbered(s) => Len(s) + 1 <= a
      BY <1>3, <3>2, <3>3
    <3>5. ASSUME Numbered(s), NEW i \in DOMAIN t
          PROVE  i <= t[i]
      <4>1. CASE i \in 1 .. Len(s)
        <5>1. i <= s[i]
          BY <1>1, <3>5, <4>1 DEF Numbered
        <5> QED
          BY <1>2, <4>1, <5>1
      <4>2. CASE i = Len(s) + 1
        BY <1>3, <3>4, <3>5, <4>2
      <4> QED
        BY <1>1, <1>3, <4>1, <4>2
    <3> QED
      BY <3>5 DEF Numbered
  <2> QED
    BY <2>1, <2>2
<1>7. Ascending(t)
  BY <1>5 DEF Ascending
<1> QED
  BY <1>1, <1>6, <1>7 DEF t

\* What comes before s and before a comes before s with a appended.
LEMMA BeforeAppend ==
  ASSUME NEW n \in Nat, NEW s \in Seq(1 .. n), NEW t \in Seq(1 .. n), NEW a \in 1 .. n,
         Before(s, t), Before(s, <<a>>)
  PROVE  Before(s, Append(t, a))
<1> DEFINE u == Append(t, a)
<1>1. DOMAIN u = 1 .. Len(t) + 1 /\ DOMAIN t = 1 .. Len(t) /\ Len(t) \in Nat
  OBVIOUS
<1>2. (\A j \in 1 .. Len(t) : u[j] = t[j]) /\ u[Len(t) + 1] = a
  OBVIOUS
<1>3. \A i \in DOMAIN s : s[i] < a
  BY DEF Before
<1> HIDE DEF u
<1>4. ASSUME NEW i \in DOMAIN s, NEW j \in DOMAIN u
      PROVE  s[i] < u[j]
  <2>1. CASE j \in 1 .. Len(t)
    <3>1. s[i] < t[j]
      BY <1>1, <2>1 DEF Before
    <3> QED
      BY <1>2, <2>1, <3>1
  <2>2. CASE j = Len(t) + 1
    BY <1>2, <1>3, <2>2
  <2>3. j \in 1 .. Len(t) \/ j = Len(t) + 1
    BY <1>1
  <2> QED
    BY <2>1, <2>2, <2>3
<1> QED
  BY <1>4 DEF u, Before

\* Two queues in order, one before the other, make one queue in order.
LEMMA ConcatOrder ==
  ASSUME NEW n \in Nat, NEW s \in Seq(1 .. n), NEW t \in Seq(1 .. n),
         Ascending(s), Ascending(t), Before(s, t)
  PROVE  s \o t \in Seq(1 .. n) /\ Ascending(s \o t)
<1> DEFINE c == s \o t
<1>1. c \in Seq(1 .. n) /\ Len(c) = Len(s) + Len(t) /\ DOMAIN c = 1 .. Len(s) + Len(t)
  OBVIOUS
<1>2. Len(s) \in Nat /\ Len(t) \in Nat /\ DOMAIN s = 1 .. Len(s) /\ DOMAIN t = 1 .. Len(t)
  OBVIOUS
<1>3. \A i \in 1 .. Len(s) : c[i] = s[i]
  OBVIOUS
<1>4. \A i \in Len(s) + 1 .. Len(s) + Len(t) : c[i] = t[i - Len(s)] /\ i - Len(s) \in 1 .. Len(t)
  OBVIOUS
<1> HIDE DEF c
<1>5. ASSUME NEW i \in DOMAIN c, NEW j \in DOMAIN c, i < j
      PROVE  c[i] < c[j]
  <2>1. CASE j \in 1 .. Len(s)
    <3>1. i \in 1 .. Len(s)
      BY <1>1, <1>2, <1>5, <2>1
    <3>2. s[i] < s[j]
      BY <1>2, <1>5, <2>1, <3>1 DEF Ascending
    <3> QED
      BY <1>3, <2>1, <3>1, <3>2
  <2>2. CASE i \in Len(s) + 1 .. Len(s) + Len(t)
    <3>1. j \in Len(s) + 1 .. Len(s) + Len(t)
      BY <1>1, <1>2, <1>5, <2>2
    <3>2. i - Len(s) < j - Len(s)
      BY <1>1, <1>2, <1>5
    <3>3. t[i - Len(s)] < t[j - Len(s)]
      BY <1>2, <1>4, <2>2, <3>1, <3>2 DEF Ascending
    <3> QED
      BY <1>4, <2>2, <3>1, <3>3
  <2>3. CASE i \in 1 .. Len(s) /\ j \in Len(s) + 1 .. Len(s) + Len(t)
    <3>1. s[i] < t[j - Len(s)]
      BY <1>2, <1>4, <2>3 DEF Before
    <3> QED
      BY <1>3, <1>4, <2>3, <3>1
  <2>4. /\ i \in 1 .. Len(s) \/ i \in Len(s) + 1 .. Len(s) + Len(t)
        /\ j \in 1 .. Len(s) \/ j \in Len(s) + 1 .. Len(s) + Len(t)
    BY <1>1, <1>2, <1>5
  <2> QED
    BY <2>1, <2>2, <2>3, <2>4
<1> QED
  BY <1>1, <1>5 DEF c, Ascending

-------------------------------------------------------------------------------
(* Journals and blobs.                                                      *)

\* The journal's methods keep its type, and record() its bound.
LEMMA JournalTypes ==
  ASSUME NEW n \in Nat, NEW j \in Journals(n)
  PROVE  /\ Closed \in Journals(n) /\ MarkOffline(j) \in Journals(n)
         /\ CloseOnline(j) \in Journals(n)
         /\ \A b \in Blobs(n) : Deserialize(j, b) \in Journals(n)
         /\ NoBlob \in Blobs(n) /\ Serialize(j) \in Blobs(n)
<1>1. Closed \in Journals(n) /\ NoBlob \in Blobs(n) /\ Serialize(j) \in Blobs(n)
  BY DEF Closed, NoBlob, Serialize, Journals, Blobs
<1>2. MarkOffline(j) \in Journals(n) /\ CloseOnline(j) \in Journals(n)
  <2>1. <<>> \in Seq(1 .. n)
    OBVIOUS
  <2>2. [j EXCEPT !.open = TRUE, !.actions = <<>>] \in Journals(n)
    BY <2>1 DEF Journals
  <2>3. [j EXCEPT !.open = FALSE, !.actions = <<>>, !.dropped = 0] \in Journals(n)
    BY <2>1 DEF Journals
  <2> QED
    BY <2>2, <2>3 DEF MarkOffline, CloseOnline
<1>3. \A b \in Blobs(n) : Deserialize(j, b) \in Journals(n)
  BY DEF Deserialize, Journals, Blobs
<1> QED
  BY <1>1, <1>2, <1>3

\* A journal or a blob among 1..m is one among 1..n, m <= n.
LEMMA TypesWiden ==
  ASSUME NEW m \in Nat, NEW n \in Nat, m <= n, NEW j \in Journals(m), NEW b \in Blobs(m)
  PROVE  j \in Journals(n) /\ b \in Blobs(n)
<1>1. j.actions \in Seq(1 .. n) /\ b.actions \in Seq(1 .. n)
  BY SeqWiden DEF Journals, Blobs
<1>2. /\ j = [open |-> j.open, actions |-> j.actions, dropped |-> j.dropped]
      /\ b = [present |-> b.present, actions |-> b.actions]
      /\ j.open \in BOOLEAN /\ j.dropped \in Nat /\ b.present \in BOOLEAN
  BY DEF Journals, Blobs
<1> QED
  BY <1>1, <1>2 DEF Journals, Blobs

-------------------------------------------------------------------------------
(* The inductive invariant.  The definitions every step needs are used      *)
(* throughout; the order of the queues only where a queue changes.          *)

USE MaxActionsAssumption, BoundsAssumption
USE DEF IInv, TypeOK, Locations, Ordered, InHand, ClosedIsEmpty, Replaying, Writing, Waiting,
        Idle, NvsHoldsJournal, Blob, NothingHeldWhileOnline, CrashFlag, connected, Goto,
        vars, loopVars, netVars, storeVars, actVars, crashVars, bounds

LEMMA InitInvariant == Init => IInv
<1> SUFFICES ASSUME Init PROVE IInv
  OBVIOUS
<1>1. TypeOK
  <2>1. <<>> \in Seq(1 .. acted) /\ Len(<<>>) = 0
    OBVIOUS
  <2>2. journal \in Journals(acted) /\ nvs \in Blobs(acted)
    BY <2>1 DEF Init, Closed, NoBlob, Journals, Blobs
  <2>3. journal.actions = <<>> /\ nvs.actions = <<>> /\ report = <<>> /\ seen = <<>>
    BY DEF Init, Closed, NoBlob
  <2>4. report \in Seq(1 .. acted) /\ seen \in Seq(1 .. acted)
    BY <2>1, <2>3
  <2>5. Len(journal.actions) <= MaxActions /\ Len(nvs.actions) <= MaxActions
    BY <2>1, <2>3
  <2>6. acted = 0 /\ act = 0 /\ crashes = 0 /\ breaks = 0 /\ crashEvents = 0
    BY DEF Init
  <2>7. acted \in 0 .. MaxActs /\ act \in 0 .. acted /\ crashes \in 0 .. MaxCrashes
        /\ breaks \in 0 .. MaxBreaks /\ crashEvents \in Nat
    BY <2>6
  <2> QED
    BY <2>2, <2>4, <2>5, <2>7 DEF Init
<1>2. Ordered /\ InHand
  BY DEF Init, Closed, NoBlob, Ascending, Numbered, Before
<1> QED
  BY <1>1, <1>2 DEF Init, Closed, NoBlob

\* Steps that move control or the network and leave every queue alone.
LEMMA ControlStep ==
  ASSUME IInv,
         \/ LoopTop \/ Pump \/ ConnectOk \/ ConnectFail \/ NoEdge \/ CameUp
         \/ NothingToFlush \/ EndLoop \/ WifiBack \/ ConnBreak \/ ConnNoticed
         \/ UNCHANGED vars
  PROVE  IInv'
<1>1. CASE LoopTop
  BY <1>1 DEF LoopTop, Ascending, Numbered, Before
<1>2. CASE Pump
  BY <1>2 DEF Pump, Ascending, Numbered, Before
<1>3. CASE ConnectOk
  BY <1>3 DEF ConnectOk, Ascending, Numbered, Before
<1>4. CASE ConnectFail
  BY <1>4 DEF ConnectFail, Ascending, Numbered, Before
<1>5. CASE NoEdge
  BY <1>5 DEF NoEdge, NowOnline, Ascending, Numbered, Before
<1>6. CASE CameUp
  BY <1>6 DEF CameUp, NowOnline, Ascending, Numbered, Before
<1>7. CASE NothingToFlush
  BY <1>7 DEF NothingToFlush, Ascending, Numbered, Before
<1>8. CASE EndLoop
  BY <1>8 DEF EndLoop, Ascending, Numbered, Before
<1>9. CASE WifiBack
  BY <1>9 DEF WifiBack, Ascending, Numbered, Before
<1>10. CASE ConnBreak
  BY <1>10 DEF ConnBreak, Ascending, Numbered, Before
<1>11. CASE ConnNoticed
  BY <1>11 DEF ConnNoticed, Ascending, Numbered, Before
<1>12. CASE UNCHANGED vars
  BY <1>12 DEF Ascending, Numbered, Before
<1> QED
  BY <1>1, <1>2, <1>3, <1>4, <1>5, <1>6, <1>7, <1>8, <1>9, <1>10, <1>11, <1>12

\* begin(): the journal that NVS holds is in order, as NVS is.
LEMMA BootStep == ASSUME IInv, Boot PROVE IInv'
<1>1. journal' \in Journals(acted)
  <2>1. journal \in Journals(acted) /\ nvs \in Blobs(acted) /\ acted \in Nat
    OBVIOUS
  <2>2. Deserialize(journal, nvs) \in Journals(acted)
    BY <2>1, JournalTypes
  <2> QED
    BY <2>1, <2>2 DEF Boot
<1>2. IF nvs.present THEN journal'.open /\ journal'.actions = nvs.actions ELSE journal' = Closed
  BY DEF Boot, Deserialize, Journals
<1>3. nvs' = Blob(journal')
  <2>1. nvs = [present |-> nvs.present, actions |-> nvs.actions] /\ nvs.present \in BOOLEAN
    BY DEF Blobs
  <2> QED
    BY <1>2, <2>1 DEF Boot, Serialize, Closed, NoBlob
<1>4. TypeOK'
  BY <1>1, <1>2 DEF Boot, Closed
<1>5. Ordered' /\ InHand'
  BY <1>2 DEF Boot, Closed, Ascending, Numbered, Before
<1> QED
  BY <1>2, <1>3, <1>4, <1>5 DEF Boot, Closed

\* The offline edge opens an empty journal.
LEMMA WentDownStep == ASSUME IInv, WentDown PROVE IInv'
<1>1. journal' \in Journals(acted)
  BY JournalTypes DEF WentDown
<1>2. ~journal.open /\ journal.actions = <<>> /\ nvs.actions = <<>>
  BY DEF WentDown, NoBlob
<1>3. journal'.open /\ journal'.actions = <<>>
  BY <1>2 DEF WentDown, MarkOffline, Journals
<1>4. TypeOK'
  BY <1>1, <1>2, <1>3 DEF WentDown
<1>5. Ordered' /\ InHand'
  BY <1>2, <1>3 DEF WentDown, Ascending, Numbered, Before
<1> QED
  BY <1>2, <1>3, <1>4, <1>5 DEF WentDown

LEMMA ReportCrashStep == ASSUME IInv, ReportCrash PROVE IInv'
<1>1. crashEvents' \in Nat /\ crashReported' \in BOOLEAN /\ CrashFlag'
  <2>1. CASE bootCrash /\ ~crashReported /\ connected
    BY <2>1 DEF ReportCrash
  <2>2. CASE ~(bootCrash /\ ~crashReported /\ connected)
    BY <2>2 DEF ReportCrash
  <2> QED
    BY <2>1, <2>2
<1>2. TypeOK'
  BY <1>1 DEF ReportCrash
<1>3. Ordered' /\ InHand'
  BY DEF ReportCrash, Ascending, Numbered, Before
<1> QED
  BY <1>1, <1>2, <1>3 DEF ReportCrash

\* The report takes over the actions; NVS still holds them.
LEMMA FlushStep == ASSUME IInv, Flush PROVE IInv'
<1>1. journal' \in Journals(acted)
  BY JournalTypes DEF Flush
<1>2. ~journal'.open /\ journal'.actions = <<>>
  BY DEF Flush, CloseOnline, Journals
<1>3. nvs.present /\ nvs.actions = journal.actions /\ report' = journal.actions
  BY DEF Flush, Serialize
<1>4. journal.actions \in Seq(1 .. acted)
  BY DEF Journals
<1>5. TypeOK'
  BY <1>1, <1>2, <1>3, <1>4 DEF Flush
<1>6. Ordered' /\ InHand'
  BY <1>2, <1>3 DEF Flush, Ascending, Numbered, Before
<1> QED
  BY <1>2, <1>3, <1>5, <1>6 DEF Flush

\* NVS takes over the journal's order.
LEMMA PersistStep == ASSUME IInv, Persist PROVE IInv'
<1>1. nvs' \in Blobs(acted)
  BY JournalTypes DEF Persist
<1>2. nvs' = Blob(journal) /\ (nvs'.actions = journal.actions)
  BY DEF Persist, Serialize, NoBlob
<1>3. TypeOK'
  BY <1>1, <1>2 DEF Persist
<1>4. Ordered' /\ InHand'
  BY <1>2 DEF Persist, Ascending, Numbered, Before
<1>5. (ClosedIsEmpty /\ Replaying /\ Writing /\ Waiting /\ Idle)'
  BY <1>2 DEF Persist, NoBlob, Serialize
<1> QED
  BY <1>2, <1>3, <1>4, <1>5 DEF Persist

LEMMA WifiLossStep == ASSUME IInv, WifiLoss PROVE IInv'
<1>1. conn' \in {"open", "half", "down"} /\ (connected' <=> connected) /\ breaks' \in 0 .. MaxBreaks
  BY DEF WifiLoss
<1>2. TypeOK'
  <2>1. wifi' \in BOOLEAN
    BY DEF WifiLoss
  <2>2. UNCHANGED <<pc, ret, wifiUp, online, wasOnline, journal, nvs, report, act, acted, seen>>
    BY DEF WifiLoss
  <2>3. UNCHANGED <<bootCrash, crashReported, crashEvents, crashes>>
    BY DEF WifiLoss
  <2> QED
    BY <1>1, <2>1, <2>2, <2>3
<1>3. Ordered' /\ InHand'
  BY DEF WifiLoss, Ascending, Numbered, Before
<1> QED
  BY <1>1, <1>2, <1>3 DEF WifiLoss

\* Only NVS and what the cloud has seen survive.
LEMMA CrashStep == ASSUME IInv, Crash PROVE IInv'
<1>1. journal' = Closed /\ Closed \in Journals(acted) /\ Closed.actions = <<>> /\ ~Closed.open
  <2>1. Closed.actions = <<>> /\ ~Closed.open
    BY DEF Closed
  <2>2. acted \in Nat /\ journal \in Journals(acted)
    OBVIOUS
  <2>3. Closed \in Journals(acted)
    BY <2>2, JournalTypes
  <2> QED
    BY <2>1, <2>3 DEF Crash
<1>2. <<>> \in Seq(1 .. acted) /\ Len(<<>>) = 0
  OBVIOUS
<1>3. TypeOK'
  <2>1. acted' = acted /\ acted' \in 0 .. MaxActs /\ act' \in 0 .. acted' /\ crashes' \in 0 .. MaxCrashes
    BY DEF Crash
  <2>2. journal' \in Journals(acted') /\ Len(journal'.actions) <= MaxActions /\ report' \in Seq(1 .. acted')
    BY <1>1, <1>2, <2>1 DEF Crash
  <2>3. bootCrash' \in BOOLEAN /\ crashEvents' \in Nat /\ crashReported' \in BOOLEAN
    BY DEF Crash
  <2>4. nvs' \in Blobs(acted') /\ seen' \in Seq(1 .. acted') /\ Len(nvs'.actions) <= MaxActions
    BY <2>1 DEF Crash
  <2>5. pc' \in Locations /\ ret' \in {"top", "check", "tick", "publish"}
        /\ conn' \in {"open", "half", "down"} /\ wifi' \in BOOLEAN /\ breaks' \in 0 .. MaxBreaks
        /\ wifiUp' \in BOOLEAN /\ online' \in BOOLEAN /\ wasOnline' \in BOOLEAN
    BY DEF Crash
  <2> QED
    BY <2>1, <2>2, <2>3, <2>4, <2>5
<1>4. Ordered' /\ InHand'
  BY <1>1 DEF Crash, Ascending, Numbered, Before
<1> QED
  BY <1>1, <1>3, <1>4 DEF Crash

\* The action that starts is later than everything recorded.
LEMMA ActStep == ASSUME IInv, Act PROVE IInv'
<1>1. acted \in Nat /\ acted' = acted + 1 /\ act' = acted + 1 /\ acted' \in 0 .. MaxActs
  BY DEF Act
<1>2. journal' \in Journals(acted') /\ nvs' \in Blobs(acted')
  <2>1. journal' = journal /\ nvs' = nvs /\ acted' \in Nat /\ acted <= acted'
    BY <1>1 DEF Act
  <2> QED
    BY <1>1, <2>1, TypesWiden
<1>3. report' \in Seq(1 .. acted') /\ seen' \in Seq(1 .. acted')
  <2>1. report' = report /\ seen' = seen /\ acted' \in Nat /\ acted <= acted'
    BY <1>1 DEF Act
  <2> QED
    BY <1>1, <2>1, SeqWiden
<1>4. ret' \in {"top", "check", "tick"} /\ pc' = "acting"
  BY DEF Act
<1>5. TypeOK'
  BY <1>1, <1>2, <1>3, <1>4 DEF Act
<1>6. \A s : s \in Seq(1 .. acted) => Before(s, <<act'>>)
  <2> SUFFICES ASSUME NEW s, s \in Seq(1 .. acted), NEW i \in DOMAIN s, NEW j \in DOMAIN <<act'>>
               PROVE  s[i] < <<act'>>[j]
    BY DEF Before
  <2>1. s[i] \in 1 .. acted
    BY <1>1, ElementOf
  <2>2. <<act'>>[j] = act'
    OBVIOUS
  <2> QED
    BY <1>1, <2>1, <2>2
<1>7. InHand'
  <2>1. journal.actions \in Seq(1 .. acted) /\ nvs.actions \in Seq(1 .. acted)
    BY DEF Journals, Blobs
  <2>2. UNCHANGED <<journal, nvs, report, seen>>
    BY DEF Act
  <2>3. /\ Before(seen, <<act'>>) /\ Before(journal.actions, <<act'>>)
        /\ Before(nvs.actions, <<act'>>) /\ Before(report, <<act'>>)
    BY <1>6, <2>1
  <2> QED
    BY <1>1, <1>4, <2>2, <2>3
<1>8. Ordered'
  BY DEF Act, Ascending, Numbered, Before
<1> QED
  BY <1>4, <1>5, <1>7, <1>8 DEF Act

\* A report of its own follows all that the cloud has seen, and finds the
\* journal, its copy and the report empty.
LEMMA ReportLiveStep == ASSUME IInv, ReportLive PROVE IInv'
<1>1. journal.actions = <<>> /\ nvs.actions = <<>> /\ report = <<>>
  BY DEF ReportLive, Serialize, NoBlob
<1>2. act \in 1 .. acted /\ acted \in Nat /\ Before(seen, <<act>>)
  BY DEF ReportLive
<1>3. seen' \in Seq(1 .. acted) /\ Ascending(seen')
  BY <1>2, AppendOrder DEF ReportLive
<1>4. ret \in {"top", "check", "tick"} /\ pc' = ret
  BY DEF ReportLive
<1>5. TypeOK'
  BY <1>3, <1>4 DEF ReportLive
<1>6. Ordered'
  BY <1>1, <1>3 DEF ReportLive, Ascending, Numbered, Before
<1> QED
  BY <1>1, <1>4, <1>5, <1>6 DEF ReportLive, Serialize, NoBlob

\* A report into the journal is later than what the journal holds.
LEMMA ReportDarkStep == ASSUME IInv, ReportDark PROVE IInv'
<1>1. act \in 1 .. acted /\ act = acted /\ acted \in Nat /\ journal \in Journals(acted)
  BY DEF ReportDark
<1>2. journal.actions \in Seq(1 .. acted)
  BY <1>1 DEF Journals
<1>3. /\ journal' \in Journals(acted)
      /\ journal'.open = journal.open
      /\ \/ journal'.actions = journal.actions
         \/ journal.open /\ HasRoom(journal) /\ journal'.actions = Append(journal.actions, act)
  <2>1. Append(journal.actions, act) \in Seq(1 .. acted)
    BY <1>1, <1>2
  <2>2. CASE ~journal.open
    BY <1>1, <2>2 DEF ReportDark, Record
  <2>3. CASE journal.open /\ HasRoom(journal)
    BY <1>1, <2>1, <2>3 DEF ReportDark, Record, Journals
  <2>4. CASE journal.open /\ ~HasRoom(journal)
    <3>1. journal' = [journal EXCEPT !.dropped = @ + 1]
      BY <2>4 DEF ReportDark, Record
    <3>2. journal.dropped + 1 \in Nat
      BY <1>1 DEF Journals
    <3> QED
      BY <1>1, <3>1, <3>2 DEF Journals
  <2> QED
    BY <1>1, <2>2, <2>3, <2>4 DEF Journals
<1>4. Len(journal'.actions) <= MaxActions
  BY <1>1, <1>2, <1>3 DEF HasRoom
<1>5. TypeOK'
  BY <1>3, <1>4 DEF ReportDark
<1>6. Ordered'
  <2>1. CASE journal'.actions = journal.actions
    BY <2>1 DEF ReportDark, Ascending, Numbered, Before
  <2>2. CASE journal'.actions = Append(journal.actions, act)
    <3>1. Before(journal.actions, <<act>>) /\ Before(seen, <<act>>)
      BY DEF ReportDark
    <3>2. Ascending(journal'.actions) /\ Numbered(journal'.actions)
      BY <1>1, <1>2, <2>2, <3>1, AppendOrder
    <3>3. Before(seen, journal'.actions)
      BY <1>1, <1>2, <2>2, <3>1, BeforeAppend
    <3>4. seen' = seen /\ nvs' = nvs /\ report' = report
      BY DEF ReportDark
    <3> QED
      BY <3>2, <3>3, <3>4
  <2> QED
    BY <1>3, <2>1, <2>2
<1>7. nvs = Blob(journal) /\ report = <<>> /\ ret # "publish" /\ nvs.actions = journal.actions
  BY DEF ReportDark, Serialize, NoBlob
<1>8. Writing'
  BY <1>1, <1>3, <1>7 DEF ReportDark
<1> QED
  BY <1>3, <1>5, <1>6, <1>7, <1>8 DEF ReportDark, NoBlob

\* The report follows all that the cloud has seen; nothing else is held.
LEMMA PublishStep == ASSUME IInv, Publish PROVE IInv'
<1>1. ~journal.open /\ journal.actions = <<>> /\ nvs = NoBlob /\ nvs.actions = <<>>
  BY DEF Publish, NoBlob
<1>2. seen' \in Seq(1 .. acted) /\ Ascending(seen')
  <2>1. acted \in Nat
    OBVIOUS
  <2> QED
    BY <2>1, ConcatOrder DEF Publish
<1>3. report' = <<>> /\ <<>> \in Seq(1 .. acted)
  BY DEF Publish
<1>4. TypeOK'
  BY <1>2, <1>3 DEF Publish
<1>5. Ordered'
  <2>1. UNCHANGED <<journal, nvs>>
    BY DEF Publish
  <2>2. Ascending(<<>>) /\ Numbered(<<>>) /\ \A s : Before(s, <<>>)
    BY DEF Ascending, Numbered, Before
  <2> QED
    BY <1>1, <1>2, <1>3, <2>1, <2>2
<1> QED
  BY <1>1, <1>3, <1>4, <1>5 DEF Publish

LEMMA StepInvariant == IInv /\ [Next]_vars => IInv'
<1> SUFFICES ASSUME IInv, [Next]_vars PROVE IInv'
  OBVIOUS
<1> QED
  BY ControlStep, BootStep, WentDownStep, ReportCrashStep, FlushStep, PersistStep, WifiLossStep, CrashStep,
     ActStep, ReportLiveStep, ReportDarkStep, PublishStep DEF Next, LoopStep, Environment

HIDE DEF IInv, TypeOK, Locations, Ordered, InHand, ClosedIsEmpty, Replaying, Writing, Waiting,
         Idle, NvsHoldsJournal, Blob, NothingHeldWhileOnline, CrashFlag, connected, Goto,
         vars, loopVars, netVars, storeVars, actVars, crashVars, bounds

\* IInv holds of the whole specification.
THEOREM Invariance == Spec => []IInv
<1> QED
  BY InitInvariant, StepInvariant, PTL DEF Spec

-------------------------------------------------------------------------------
(* What follows.                                                            *)

\* Every variable keeps its type, and neither the journal nor its copy in NVS
\* ever exceeds kMaxActions.
THEOREM TypeCorrect == Spec => []TypeOK
<1>1. IInv => TypeOK
  BY DEF IInv
<1> QED
  BY <1>1, Invariance, PTL

\* The cloud sees no action twice, and actions in the order performed.
THEOREM OrderedDelivery == Spec => []DeliveredInOrder
<1>1. IInv => DeliveredInOrder
  BY DEF IInv, Ordered, DeliveredInOrder
<1> QED
  BY <1>1, Invariance, PTL

\* Wherever the power goes, NVS holds what the journal holds.
THEOREM NvsMirror == Spec => []NvsHoldsJournal
<1>1. IInv => NvsHoldsJournal
  BY DEF IInv
<1> QED
  BY <1>1, Invariance, PTL

\* No open journal is hidden behind an online flag.
THEOREM NothingStranded == Spec => []NothingHeldWhileOnline
<1>1. IInv => NothingHeldWhileOnline
  BY DEF IInv
<1> QED
  BY <1>1, Invariance, PTL

\* At most one crash event per boot, and only after a crash.
THEOREM OneCrashEvent == Spec => []CrashReportedOnce
<1>1. IInv => CrashReportedOnce
  BY DEF IInv, TypeOK, CrashFlag, CrashReportedOnce
<1> QED
  BY <1>1, Invariance, PTL
==============================================================================
