---------------------- MODULE ActionReportingRefinement ----------------------
(***************************************************************************)
(* ActionReporting implements ActionLedger.  Every step of the device      *)
(* either leaves the fate of every action alone, or moves one set of       *)
(* actions to one new fate in a way the ledger allows; what IInv says of   *)
(* the queues tells which.                                                 *)
(***************************************************************************)
EXTENDS ActionReportingProofs

Acts == 1 .. MaxActs

\* The actions of S move to fate f and no other action's fate changes.
Moves(S, f) == \A a \in Acts : FateOf(a)' = IF a \in S THEN f ELSE FateOf(a)

LEMMA RangeAppend ==
  ASSUME NEW n \in Nat, NEW s \in Seq(1 .. n), NEW a \in 1 .. n
  PROVE  Range(Append(s, a)) = Range(s) \union {a}
<1>1. Append(s, a)[Len(s) + 1] = a /\ Len(s) + 1 \in DOMAIN Append(s, a)
  OBVIOUS
<1>2. \A i \in DOMAIN s : Append(s, a)[i] = s[i] /\ i \in DOMAIN Append(s, a)
  OBVIOUS
<1>3. \A i \in DOMAIN Append(s, a) : i \in DOMAIN s \/ i = Len(s) + 1
  OBVIOUS
<1> QED
  BY <1>1, <1>2, <1>3 DEF Range

LEMMA RangeConcat ==
  ASSUME NEW n \in Nat, NEW s \in Seq(1 .. n), NEW t \in Seq(1 .. n)
  PROVE  Range(s \o t) = Range(s) \union Range(t)
<1> DEFINE c == s \o t
<1>1. DOMAIN c = 1 .. Len(s) + Len(t) /\ DOMAIN s = 1 .. Len(s) /\ DOMAIN t = 1 .. Len(t)
      /\ Len(s) \in Nat /\ Len(t) \in Nat
  OBVIOUS
<1>2. \A i \in 1 .. Len(s) : c[i] = s[i]
  OBVIOUS
<1>3. \A i \in 1 .. Len(t) : c[Len(s) + i] = t[i] /\ Len(s) + i \in 1 .. Len(s) + Len(t)
  OBVIOUS
<1>4. \A i \in Len(s) + 1 .. Len(s) + Len(t) : c[i] = t[i - Len(s)] /\ i - Len(s) \in 1 .. Len(t)
  OBVIOUS
<1> HIDE DEF c
<1>5. Range(c) \subseteq Range(s) \union Range(t)
  <2> SUFFICES ASSUME NEW i \in DOMAIN c PROVE c[i] \in Range(s) \union Range(t)
    BY DEF Range
  <2>1. i \in 1 .. Len(s) \/ i \in Len(s) + 1 .. Len(s) + Len(t)
    BY <1>1
  <2> QED
    BY <1>1, <1>2, <1>4, <2>1 DEF Range
<1>6. Range(s) \subseteq Range(c)
  <2> SUFFICES ASSUME NEW i \in DOMAIN s PROVE s[i] \in Range(c)
    BY DEF Range
  <2>1. i \in DOMAIN c /\ c[i] = s[i]
    BY <1>1, <1>2
  <2> QED
    BY <2>1 DEF Range
<1>7. Range(t) \subseteq Range(c)
  <2> SUFFICES ASSUME NEW i \in DOMAIN t PROVE t[i] \in Range(c)
    BY DEF Range
  <2>1. Len(s) + i \in DOMAIN c /\ c[Len(s) + i] = t[i]
    BY <1>1, <1>3
  <2> QED
    BY <2>1 DEF Range
<1> QED
  BY <1>5, <1>6, <1>7 DEF c

LEMMA RangeEmpty == Range(<<>>) = {}
  BY DEF Range

LEMMA RangeNonempty ==
  ASSUME NEW n \in Nat, NEW s \in Seq(1 .. n), s # <<>>
  PROVE  Range(s) # {}
<1>1. 1 \in DOMAIN s
  OBVIOUS
<1> QED
  BY <1>1 DEF Range

\* What comes before is not among what comes after.
LEMMA BeforeDisjoint ==
  ASSUME NEW n \in Nat, NEW s \in Seq(1 .. n), NEW t \in Seq(1 .. n), Before(s, t)
  PROVE  Range(s) \cap Range(t) = {}
<1> SUFFICES ASSUME NEW i \in DOMAIN s, NEW j \in DOMAIN t, s[i] = t[j] PROVE FALSE
  BY DEF Range
<1>1. s[i] \in Nat /\ s[i] < t[j]
  BY DEF Before
<1> QED
  BY <1>1

\* A numbered queue among 1..n has at most n elements.
LEMMA NumberedLen ==
  ASSUME NEW n \in Nat, NEW s \in Seq(1 .. n), Numbered(s)
  PROVE  Len(s) <= n
<1>1. CASE Len(s) = 0
  BY <1>1
<1>2. CASE Len(s) # 0
  <2>1. Len(s) \in DOMAIN s /\ Len(s) \in Nat
    BY <1>2
  <2>2. Len(s) <= s[Len(s)] /\ s[Len(s)] \in 1 .. n
    BY <2>1 DEF Numbered
  <2> QED
    BY <2>1, <2>2
<1> QED
  BY <1>1, <1>2

-------------------------------------------------------------------------------
(* The ledger's steps in terms of Moves.                                    *)

LEMMA MoveIs ==
  ASSUME NEW S, NEW f, Moves(S, f)
  PROVE  [a \in Acts |-> FateOf(a)]' = Ledger!Move(S, f)
  BY DEF Moves, Acts, Ledger!Move, Ledger!Action

LEMMA StutterIs ==
  ASSUME \A a \in Acts : FateOf(a)' = FateOf(a), seen' = seen
  PROVE  [Ledger!Next]_(Ledger!vars)
  BY DEF Acts, Ledger!vars

LEMMA LoseIs ==
  ASSUME NEW S, S # {}, S \subseteq Acts, \A a \in S : FateOf(a) \in {"pending", "inflight"},
         Moves(S, "lost"), seen' = seen
  PROVE  Ledger!Next
<1>1. S \subseteq Ledger!With("pending") \union Ledger!With("inflight")
  BY DEF Acts, Ledger!With, Ledger!Action
<1>2. Ledger!Lose(S)
  BY MoveIs DEF Acts, Ledger!Lose
<1> QED
  BY <1>1, <1>2 DEF Ledger!Next

-------------------------------------------------------------------------------
(* The steps of the device.  InvFacts is what the fates need of IInv.       *)

InvFacts ==
  /\ acted \in 0 .. MaxActs /\ pc \in Locations /\ ret \in {"top", "check", "tick", "publish"}
  /\ seen \in Seq(1 .. acted) /\ report \in Seq(1 .. acted)
  /\ journal \in Journals(acted) /\ nvs \in Blobs(acted)
  /\ journal.actions \in Seq(1 .. acted) /\ nvs.actions \in Seq(1 .. acted)
  /\ Range(seen) \cap Range(journal.actions) = {}
  /\ Range(seen) \cap Range(nvs.actions) = {}
  /\ Range(seen) \cap Range(report) = {}
  /\ Range(seen) \subseteq 1 .. acted /\ Range(report) \subseteq 1 .. acted
  /\ Range(journal.actions) \subseteq 1 .. acted /\ Range(nvs.actions) \subseteq 1 .. acted
  /\ pc = "acting" => /\ act = acted /\ acted > 0 /\ ret # "publish"
                      /\ act \notin Range(seen) \union Range(journal.actions) \union Range(nvs.actions)
  /\ pc # "publish" => \/ report = <<>> 
                       \/ pc = "persist" /\ ret = "publish"
  /\ pc \notin {"boot", "persist"} => nvs.actions = journal.actions
  /\ pc = "publish" => nvs.actions = <<>> /\ journal.actions = <<>>
  /\ pc = "persist" /\ ret = "publish" =>
       journal.actions = <<>> /\ ~journal.open /\ nvs.actions = report
  /\ pc = "boot" => journal.actions = <<>>
  /\ pc = "persist" /\ ret # "publish" =>
       \/ journal.actions = nvs.actions
       \/ acted > 0 /\ journal.actions = Append(nvs.actions, acted)
  /\ journal.open \/ journal.actions = <<>>

LEMMA Facts == IInv => InvFacts
<1> SUFFICES ASSUME IInv PROVE InvFacts
  OBVIOUS
<1>1. /\ acted \in 0 .. MaxActs /\ acted \in Nat /\ pc \in Locations
      /\ ret \in {"top", "check", "tick", "publish"}
      /\ seen \in Seq(1 .. acted) /\ report \in Seq(1 .. acted)
      /\ journal \in Journals(acted) /\ nvs \in Blobs(acted)
      /\ journal.actions \in Seq(1 .. acted) /\ nvs.actions \in Seq(1 .. acted)
  BY BoundsAssumption DEF IInv, TypeOK, Journals, Blobs
<1>2. /\ Before(seen, journal.actions) /\ Before(seen, nvs.actions) /\ Before(seen, report)
      /\ pc = "acting" => /\ act = acted /\ act > 0 /\ ret # "publish" /\ Before(seen, <<act>>)
                          /\ Before(journal.actions, <<act>>) /\ Before(nvs.actions, <<act>>)
  BY DEF IInv, Ordered, InHand
<1>3. /\ Range(seen) \cap Range(journal.actions) = {}
      /\ Range(seen) \cap Range(nvs.actions) = {}
      /\ Range(seen) \cap Range(report) = {}
  BY <1>1, <1>2, BeforeDisjoint
<1>4. \A s : s \in Seq(1 .. acted) => Range(s) \subseteq 1 .. acted
  <2> SUFFICES ASSUME NEW s, s \in Seq(1 .. acted), NEW i \in DOMAIN s PROVE s[i] \in 1 .. acted
    BY DEF Range
  <2> QED
    BY <1>1
<1>5. ASSUME pc = "acting", NEW s \in Seq(1 .. acted), Before(s, <<act>>)
      PROVE  act \notin Range(s)
  <2>1. <<act>> \in Seq(1 .. acted) /\ Range(<<act>>) = {act}
    BY <1>1, <1>2, <1>5 DEF Range
  <2> QED
    BY <1>1, <1>5, <2>1, BeforeDisjoint
<1>6. /\ pc # "publish" => report = <<>> \/ (pc = "persist" /\ ret = "publish")
      /\ pc \notin {"boot", "persist"} => nvs.actions = journal.actions
      /\ pc = "publish" => nvs.actions = <<>> /\ journal.actions = <<>>
      /\ pc = "persist" /\ ret = "publish" =>
           journal.actions = <<>> /\ ~journal.open /\ nvs.actions = report
      /\ pc = "boot" => journal.actions = <<>>
      /\ journal.open \/ journal.actions = <<>>
  BY DEF IInv, Replaying, ClosedIsEmpty, NvsHoldsJournal, Blob, Serialize, NoBlob, Idle, Closed
<1>7. pc = "persist" /\ ret # "publish" =>
        \/ journal.actions = nvs.actions
        \/ acted > 0 /\ journal.actions = Append(nvs.actions, acted)
  BY DEF IInv, Writing
<1> QED
  BY <1>1, <1>2, <1>3, <1>4, <1>5, <1>6, <1>7 DEF InvFacts

\* Control, network, and the steps that only move what is safe.
LEMMA QuietStep ==
  ASSUME InvFacts,
         \/ LoopTop \/ Pump \/ ConnectOk \/ ConnectFail \/ NoEdge \/ CameUp \/ ReportCrash
         \/ NothingToFlush \/ EndLoop \/ WifiLoss \/ WifiBack \/ ConnBreak \/ ConnNoticed
         \/ UNCHANGED vars
  PROVE  [Ledger!Next]_(Ledger!vars)
<1>1. UNCHANGED <<seen, report, nvs, journal, act, acted>>
  BY DEF LoopTop, Pump, ConnectOk, ConnectFail, NoEdge, CameUp, ReportCrash, NothingToFlush, EndLoop,
         WifiLoss, WifiBack, ConnBreak, ConnNoticed, vars, loopVars, netVars, storeVars, actVars
<1>2. \/ pc' = pc
      \/ pc \notin {"acting", "persist", "publish"} /\ pc' \notin {"acting", "persist", "publish"}
  BY DEF LoopTop, Pump, ConnectOk, ConnectFail, NoEdge, CameUp, ReportCrash, NothingToFlush, EndLoop,
         WifiLoss, WifiBack, ConnBreak, ConnNoticed, vars, loopVars, Goto
<1>3. \A a \in Acts : FateOf(a)' = FateOf(a)
  BY <1>1, <1>2 DEF FateOf
<1> QED
  BY <1>1, <1>3, StutterIs

LEMMA BootQuiet ==
  ASSUME InvFacts, Boot
  PROVE  [Ledger!Next]_(Ledger!vars)
<1>1. UNCHANGED <<seen, report, nvs, act, acted>> /\ pc = "boot" /\ pc' = "top"
  BY DEF Boot, Goto, netVars, actVars
<1>2. \A a \in Acts : FateOf(a)' = FateOf(a)
  BY <1>1 DEF FateOf
<1> QED
  BY <1>1, <1>2, StutterIs

LEMMA EdgeQuiet ==
  ASSUME InvFacts, WentDown \/ Flush
  PROVE  [Ledger!Next]_(Ledger!vars)
<1>1. UNCHANGED <<seen, nvs, act, acted>> /\ pc \in {"check", "flush"} /\ pc' = "persist"
  BY DEF WentDown, Flush, Goto, netVars, actVars
<1>2. Range(journal'.actions) \subseteq Range(nvs.actions)
  <2>1. nvs.actions = journal.actions
    BY <1>1 DEF InvFacts
  <2>2. journal'.actions = journal.actions \/ journal'.actions = <<>>
    BY DEF WentDown, Flush, MarkOffline, CloseOnline, InvFacts, Journals
  <2> QED
    BY <2>1, <2>2, RangeEmpty
<1>3. \A a \in Acts : FateOf(a)' = FateOf(a)
  BY <1>1, <1>2 DEF FateOf
<1> QED
  BY <1>1, <1>3, StutterIs

LEMMA NoneFate == \A a \in Acts : (a > acted) <=> (FateOf(a) = "none")
<1> SUFFICES ASSUME NEW a \in Acts PROVE (a > acted) <=> (FateOf(a) = "none")
  OBVIOUS
<1>1. CASE a > acted
  BY <1>1 DEF FateOf
<1>2. CASE ~(a > acted)
  <2>1. FateOf(a) \in {"delivered", "inflight", "durable", "pending", "lost"}
    BY <1>2 DEF FateOf
  <2> QED
    BY <1>2, <2>1
<1> QED
  BY <1>1, <1>2

\* The next action occurs.
LEMMA ActOccurs == ASSUME InvFacts, Act PROVE Ledger!Next
<1>1. acted' = acted + 1 /\ act' = acted + 1 /\ pc' = "acting" /\ acted + 1 \in Acts
      /\ pc \in {"top", "pump", "tick"} /\ UNCHANGED <<seen, report, nvs, journal>>
  BY BoundsAssumption DEF Act, Goto, Acts, InvFacts, netVars, storeVars
<1>2. \A a \in Acts : (a > acted) <=> (FateOf(a) = "none")
  BY NoneFate
<1>3. Moves({acted + 1}, "pending")
  <2> SUFFICES ASSUME NEW a \in Acts PROVE FateOf(a)' = IF a \in {acted + 1} THEN "pending" ELSE FateOf(a)
    BY DEF Moves
  <2>1. CASE a = acted + 1
    <3>1. a \notin Range(seen) /\ a \notin Range(nvs.actions)
      BY <2>1 DEF InvFacts
    <3> QED
      BY <1>1, <2>1, <3>1 DEF FateOf, InvFacts
  <2>2. CASE a # acted + 1
    <3>1. a > acted <=> a > acted'
      BY <1>1, <2>2 DEF Acts, InvFacts
    <3> QED
      BY <1>1, <2>2, <3>1 DEF FateOf
  <2> QED
    BY <2>1, <2>2
<1>4. Ledger!Occur(acted + 1)
  <2>1. FateOf(acted + 1) = "none"
    BY <1>1, <1>2 DEF InvFacts
  <2>2. \A b \in Acts : b < acted + 1 => FateOf(b) # "none"
    BY <1>2 DEF InvFacts, Acts
  <2>3. Acts = Ledger!Action
    BY DEF Acts, Ledger!Action
  <2> QED
    BY <1>1, <1>3, <2>1, <2>2, <2>3, MoveIs DEF Acts, Ledger!Occur
<1> QED
  BY <1>1, <1>4 DEF Acts, Ledger!Next, Ledger!Action

\* A direct report delivers the action in hand, or loses it.
LEMMA LiveDelivers == ASSUME InvFacts, ReportLive PROVE Ledger!Next
<1>1. /\ pc = "acting" /\ pc' \in {"top", "check", "tick"} /\ act \in Acts /\ act \in 1 .. acted
      /\ FateOf(act) = "pending" /\ UNCHANGED <<report, nvs, journal, acted>>
  BY DEF ReportLive, Goto, InvFacts, Acts, Locations, FateOf, storeVars
<1>2. nvs.actions = journal.actions
  BY <1>1 DEF InvFacts
<1>3. CASE conn = "open"
  <2>1. seen' = Append(seen, act) /\ Range(seen') = Range(seen) \union {act}
    BY <1>1, <1>3, RangeAppend DEF ReportLive, InvFacts
  <2>2. Moves({act}, "delivered")
    BY <1>1, <1>2, <2>1 DEF Moves, FateOf
  <2>3. Ledger!DeliverLive(act)
    BY <1>1, <2>1, <2>2, MoveIs DEF Acts, Ledger!DeliverLive
  <2> QED
    BY <1>1, <2>3 DEF Acts, Ledger!Next, Ledger!Action
<1>4. CASE conn # "open"
  <2>1. seen' = seen
    BY <1>4 DEF ReportLive
  <2>2. Moves({act}, "lost")
    BY <1>1, <1>2, <2>1 DEF Moves, FateOf
  <2> QED
    BY <1>1, <2>1, <2>2, LoseIs
<1> QED
  BY <1>3, <1>4

\* A report into the journal keeps the action pending, or loses it.
LEMMA DarkPends == ASSUME InvFacts, ReportDark PROVE [Ledger!Next]_(Ledger!vars)
<1>1. /\ pc = "acting" /\ pc' = "persist" /\ act \in Acts /\ act \in 1 .. acted
      /\ FateOf(act) = "pending" /\ UNCHANGED <<seen, report, nvs, acted>>
  BY DEF ReportDark, Goto, InvFacts, Acts, FateOf
<1>2. nvs.actions = journal.actions
  BY <1>1 DEF InvFacts
<1>3. journal'.actions = journal.actions \/ journal'.actions = Append(journal.actions, act)
  BY DEF ReportDark, Record, InvFacts, Journals
<1>4. CASE journal'.actions = journal.actions
  <2>1. Moves({act}, "lost")
    BY <1>1, <1>2, <1>4 DEF Moves, FateOf, InvFacts
  <2> QED
    BY <1>1, <2>1, LoseIs
<1>5. CASE journal'.actions = Append(journal.actions, act)
  <2>1. Range(journal'.actions) = Range(journal.actions) \union {act}
    <3>1. acted \in Nat /\ journal.actions \in Seq(1 .. acted)
      BY DEF InvFacts
    <3>2. Range(Append(journal.actions, act)) = Range(journal.actions) \union {act}
      BY <1>1, <3>1, RangeAppend
    <3> QED
      BY <1>5, <3>2
  <2>2. \A a \in Acts : FateOf(a)' = FateOf(a)
    BY <1>1, <1>2, <2>1 DEF FateOf, InvFacts
  <2> QED
    BY <1>1, <2>2, StutterIs
<1> QED
  BY <1>3, <1>4, <1>5

\* A write to NVS saves the latest action, or begins the replay of all.
LEMMA PersistSaves == ASSUME InvFacts, Persist PROVE [Ledger!Next]_(Ledger!vars)
<1>1. /\ pc = "persist" /\ pc' = ret /\ nvs'.actions = journal.actions
      /\ UNCHANGED <<seen, report, journal, act, acted>>
  BY DEF Persist, Goto, Serialize, NoBlob, InvFacts, actVars
<1>2. CASE ret # "publish" /\ journal.actions = nvs.actions
  <2>1. \A a \in Acts : FateOf(a)' = FateOf(a)
    <3>1. pc' \notin {"publish", "persist", "acting"}
      BY <1>1, <1>2 DEF InvFacts
    <3> QED
      BY <1>1, <1>2, <3>1 DEF FateOf
  <2> QED
    BY <1>1, <2>1, StutterIs
<1>3. CASE ret # "publish" /\ acted > 0 /\ journal.actions = Append(nvs.actions, acted)
  <2>1. acted \in Acts /\ acted \in 1 .. acted
    BY <1>3 DEF Acts, InvFacts
  <2>2. Range(journal.actions) = Range(nvs.actions) \union {acted}
    BY <1>3, <2>1, RangeAppend DEF InvFacts
  <2>3. pc' \in {"top", "check", "tick"} /\ acted \notin Range(seen)
    BY <1>1, <1>3, <2>2 DEF InvFacts
  <2>4. CASE acted \in Range(nvs.actions)
    <3>1. \A a \in Acts : FateOf(a)' = FateOf(a)
      BY <1>1, <2>2, <2>3, <2>4 DEF FateOf
    <3> QED
      BY <1>1, <3>1, StutterIs
  <2>5. CASE acted \notin Range(nvs.actions)
    <3>1. FateOf(acted) = "pending"
      BY <1>1, <2>1, <2>2, <2>3, <2>5 DEF FateOf
    <3>2. Moves({acted}, "durable")
      BY <1>1, <2>1, <2>2, <2>3, <2>5 DEF FateOf, Moves
    <3>3. Ledger!Persist(acted)
      BY <1>1, <2>1, <3>1, <3>2, MoveIs DEF Acts, Ledger!Persist
    <3> QED
      BY <2>1, <3>3 DEF Acts, Ledger!Next, Ledger!Action
  <2> QED
    BY <2>4, <2>5
<1>4. CASE ret = "publish"
  <2>1. journal.actions = <<>> /\ nvs.actions = report /\ Range(<<>>) = {}
    BY <1>1, <1>4, RangeEmpty DEF InvFacts
  <2>2. \A a \in Acts : (FateOf(a) = "durable") <=> (a \in Range(nvs.actions))
    BY <1>1, <2>1 DEF FateOf, InvFacts
  <2>3. Ledger!With("durable") = {a \in Acts : a \in Range(nvs.actions)}
    BY <2>2 DEF Acts, Ledger!With, Ledger!Action
  <2>4. Moves(Ledger!With("durable"), "inflight")
    BY <1>1, <1>4, <2>1, <2>3 DEF Moves, FateOf, InvFacts
  <2>5. CASE Ledger!With("durable") = {}
    <3>1. \A a \in Acts : FateOf(a)' = FateOf(a)
      BY <2>4, <2>5 DEF Moves
    <3> QED
      BY <1>1, <3>1, StutterIs
  <2>6. CASE Ledger!With("durable") # {}
    <3>1. Ledger!Replay
      BY <1>1, <2>4, <2>6, MoveIs DEF Acts, Ledger!Replay
    <3> QED
      BY <3>1 DEF Ledger!Next
  <2> QED
    BY <2>5, <2>6
<1> QED
  BY <1>1, <1>2, <1>3, <1>4 DEF InvFacts

\* The offline_recovered event delivers all that is in flight, or loses it.
LEMMA PublishReplays ==
  ASSUME InvFacts, Publish, Ascending(report), Numbered(report)
  PROVE  [Ledger!Next]_(Ledger!vars)
<1>1. /\ pc = "publish" /\ pc' = "tick" /\ Range(nvs.actions) = {}
      /\ UNCHANGED <<nvs, journal, act, acted>>
  BY RangeEmpty DEF Publish, Goto, InvFacts
<1>2. Range(report) \subseteq Acts /\ \A a \in Acts : (FateOf(a) = "inflight") <=> (a \in Range(report))
  <2>1. Range(report) \subseteq Acts
    <3>1. acted \in Nat /\ acted <= MaxActs /\ Range(report) \subseteq 1 .. acted
      BY BoundsAssumption DEF InvFacts
    <3> QED
      BY <3>1, BoundsAssumption DEF Acts
  <2>2. \A a \in Range(report) : ~(a > acted) /\ a \notin Range(seen)
    BY DEF InvFacts
  <2>3. \A a \in Acts : a \in Range(report) => FateOf(a) = "inflight"
    BY <1>1, <2>2 DEF FateOf
  <2>4. \A a \in Acts : a \notin Range(report) => FateOf(a) # "inflight"
    BY <1>1 DEF FateOf
  <2> QED
    BY <2>1, <2>3, <2>4
<1>3. Ledger!With("inflight") = Range(report)
  BY <1>2 DEF Acts, Ledger!With, Ledger!Action
<1>4. CASE report = <<>>
  <2>1. seen' = seen /\ Range(report) = {}
    BY <1>4, RangeEmpty DEF Publish, InvFacts
  <2>2. \A a \in Acts : FateOf(a)' = FateOf(a)
    BY <1>1, <2>1 DEF FateOf
  <2> QED
    BY <2>1, <2>2, StutterIs
<1>5. CASE report # <<>> /\ Arrives(report)
  <2>1. Range(report) # {}
    BY <1>5, RangeNonempty DEF InvFacts
  <2>2. seen' = seen \o report /\ Range(seen') = Range(seen) \union Range(report)
    BY <1>5, RangeConcat DEF Publish, InvFacts
  <2>3. Moves(Range(report), "delivered")
    BY <1>1, <1>2, <2>2 DEF Moves, FateOf, InvFacts
  <2>4. Len(report) \in 1 .. MaxActs /\ report \in [1 .. Len(report) -> Range(report)]
    <3>1. Len(report) <= acted
      BY NumberedLen DEF InvFacts
    <3>2. Len(report) \in Nat \ {0} /\ DOMAIN report = 1 .. Len(report)
          /\ report = [i \in 1 .. Len(report) |-> report[i]]
      BY <1>5 DEF InvFacts
    <3>3. \A i \in 1 .. Len(report) : report[i] \in Range(report)
      BY <3>2 DEF Range
    <3>4. acted \in Nat /\ acted <= MaxActs
      BY BoundsAssumption DEF InvFacts
    <3>5. Len(report) \in 1 .. MaxActs
      BY <3>1, <3>2, <3>4, BoundsAssumption
    <3> QED
      BY <3>2, <3>3, <3>5
  <2>5. Ledger!Lists(report, Range(report))
    BY DEF Ledger!Lists, Ascending, Range, Ledger!Range
  <2>6. Ledger!DeliverReplay
    BY <1>3, <2>1, <2>2, <2>3, <2>4, <2>5, MoveIs DEF Acts, Ledger!DeliverReplay
  <2> QED
    BY <2>6 DEF Ledger!Next
<1>6. CASE report # <<>> /\ ~Arrives(report)
  <2>1. Range(report) # {} /\ seen' = seen
    BY <1>6, RangeNonempty DEF Publish, InvFacts
  <2>2. Moves(Range(report), "lost")
    BY <1>1, <1>2, <2>1 DEF Moves, FateOf, InvFacts
  <2> QED
    BY <1>2, <2>1, <2>2, LoseIs
<1> QED
  BY <1>4, <1>5, <1>6

\* A crash loses what is pending or in flight, and nothing else.
LEMMA CrashLoses == ASSUME InvFacts, Crash PROVE [Ledger!Next]_(Ledger!vars)
<1> DEFINE gone == {a \in Acts : FateOf(a) \in {"pending", "inflight"}}
<1>1. pc' = "boot" /\ UNCHANGED <<nvs, seen, acted>>
  BY DEF Crash, Goto
<1>2. Moves(gone, "lost")
  <2> SUFFICES ASSUME NEW a \in Acts PROVE FateOf(a)' = IF a \in gone THEN "lost" ELSE FateOf(a)
    BY DEF Moves
  <2>1. FateOf(a)' = IF a > acted THEN "none"
                     ELSE IF a \in Range(seen) THEN "delivered"
                     ELSE IF a \in Range(nvs.actions) THEN "durable" ELSE "lost"
    BY <1>1 DEF FateOf
  <2>2. a \in Range(nvs.actions) => pc # "publish"
    BY RangeEmpty DEF InvFacts
  <2>3. a \in gone <=> FateOf(a) \in {"pending", "inflight"}
    OBVIOUS
  <2> QED
    BY <1>1, <2>1, <2>2, <2>3 DEF FateOf
<1>3. CASE gone = {}
  BY <1>1, <1>2, <1>3, StutterIs DEF Moves
<1>4. CASE gone # {}
  BY <1>1, <1>2, <1>4, LoseIs
<1> QED
  BY <1>3, <1>4

-------------------------------------------------------------------------------
LEMMA LedgerStep == ASSUME IInv, IInv', [Next]_vars PROVE [Ledger!Next]_(Ledger!vars)
<1>1. InvFacts
  BY Facts
<1>2. Ascending(report) /\ Numbered(report)
  BY DEF IInv, Ordered
<1> QED
  BY <1>1, <1>2, QuietStep, BootQuiet, EdgeQuiet, ActOccurs, LiveDelivers, DarkPends, PersistSaves,
     PublishReplays, CrashLoses DEF Next, LoopStep, Environment

\* The device keeps the promise of ActionLedger, for every bound, every
\* journal size and every buffer size.
THEOREM Refinement == Spec => ImplementsLedger
<1>1. Init => Ledger!Init
  <2> SUFFICES ASSUME Init PROVE Ledger!Init
    OBVIOUS
  <2>1. \A a \in Acts : FateOf(a) = "none"
    BY DEF Init, Acts, FateOf
  <2> QED
    BY <2>1 DEF Init, Acts, Ledger!Init, Ledger!Action
<1>2. IInv /\ IInv' /\ [Next]_vars => [Ledger!Next]_(Ledger!vars)
  BY LedgerStep
<1> QED
  BY <1>1, <1>2, Invariance, PTL DEF Spec, ImplementsLedger, Ledger!Spec

-------------------------------------------------------------------------------
(* What the ledger means for the device.                                    *)

\* Which fates an action may have after one step.
After(f) == CASE f = "none"     -> {"none", "pending"}
              [] f = "pending"  -> {"pending", "durable", "delivered", "lost"}
              [] f = "durable"  -> {"durable", "inflight"}
              [] f = "inflight" -> {"inflight", "delivered", "lost"}
              [] OTHER          -> {f}

LEMMA FateMoves ==
  ASSUME NEW a \in Acts, [Ledger!Next]_(Ledger!vars) PROVE FateOf(a)' \in After(FateOf(a))
<1> DEFINE f == [x \in Acts |-> FateOf(x)]
<1>1. a \in Ledger!Action /\ f[a] = FateOf(a) /\ f'[a] = FateOf(a)'
  BY DEF Acts, Ledger!Action
<1>2. f[a] \in {"none", "pending", "durable", "inflight", "delivered", "lost"}
  BY DEF FateOf
<1>3. CASE UNCHANGED f
  BY <1>1, <1>2, <1>3 DEF After
<1>4. ASSUME NEW S, NEW g, f' = Ledger!Move(S, g) PROVE f'[a] = IF a \in S THEN g ELSE f[a]
  BY <1>1, <1>4 DEF Ledger!Move, Acts, Ledger!Action
<1>5. ASSUME NEW b \in Ledger!Action, Ledger!Occur(b) \/ Ledger!Persist(b) \/ Ledger!DeliverLive(b)
      PROVE  f'[a] \in After(f[a])
  BY <1>1, <1>2, <1>4, <1>5 DEF After, Acts, Ledger!Action, Ledger!Occur, Ledger!Persist, Ledger!DeliverLive
<1>6. CASE Ledger!Replay
  BY <1>1, <1>2, <1>4, <1>6 DEF After, Acts, Ledger!Action, Ledger!Replay, Ledger!With
<1>7. CASE Ledger!DeliverReplay
  <2>1. f' = Ledger!Move(Ledger!With("inflight"), "delivered")
    BY <1>7 DEF Acts, Ledger!Action, Ledger!DeliverReplay
  <2>2. a \in Ledger!With("inflight") => f[a] = "inflight"
    BY <1>1 DEF Ledger!With, Acts, Ledger!Action
  <2>3. f'[a] \in {f[a], "delivered"} /\ (f'[a] = f[a] \/ f[a] = "inflight")
    BY <1>4, <2>1, <2>2
  <2> QED
    BY <1>2, <2>3 DEF After
<1>8. ASSUME NEW S \in SUBSET (Ledger!With("pending") \union Ledger!With("inflight")), Ledger!Lose(S)
      PROVE  f'[a] \in After(f[a])
  BY <1>1, <1>2, <1>4, <1>8 DEF After, Acts, Ledger!Action, Ledger!Lose, Ledger!With
<1> QED
  BY <1>1, <1>3, <1>5, <1>6, <1>7, <1>8 DEF Ledger!Next, Ledger!vars, Acts

FatesMoveOn == [][\A a \in Acts : FateOf(a)' \in After(FateOf(a))]_vars

\* Behind an action that the cloud has seen nothing older waits any more.
OlderAreSettled ==
  \A a, b \in Acts : a < b /\ FateOf(b) = "delivered" => FateOf(a) \in {"delivered", "lost"}

\* No step of the device, a crash included, takes an action back: what is in
\* flash stays there until it is replayed, what was delivered is not reported
\* again, and what was lost is not found again (persistJournal, flushJournal,
\* reportAction, begin).
THEOREM FatesAreFinal == Spec => FatesMoveOn
<1>1. IInv /\ IInv' /\ [Next]_vars => [\A a \in Acts : FateOf(a)' \in After(FateOf(a))]_vars
  <2> SUFFICES ASSUME IInv, IInv', [Next]_vars, NEW a \in Acts
               PROVE  FateOf(a)' \in After(FateOf(a))
    OBVIOUS
  <2> QED
    BY LedgerStep, FateMoves
<1> QED
  BY <1>1, Invariance, PTL DEF Spec, FatesMoveOn

\* The cloud never gets an action whose successor it has: a hole in what was
\* reported stays a hole (flushJournal, reportAction).
THEOREM HolesStay == Spec => []OlderAreSettled
<1>1. IInv => OlderAreSettled
  <2> SUFFICES ASSUME IInv, NEW a \in Acts, NEW b \in Acts, a < b, FateOf(b) = "delivered"
               PROVE  FateOf(a) \in {"delivered", "lost"}
    BY DEF OlderAreSettled
  <2>1. InvFacts
    BY Facts
  <2>2. b \in Range(seen) /\ b <= acted /\ a \in Nat /\ b \in Nat /\ acted \in Nat
    BY <2>1 DEF FateOf, InvFacts, Acts
  <2>3. ASSUME NEW s, Before(seen, s) PROVE a \notin Range(s)
    <3> SUFFICES ASSUME NEW j \in DOMAIN s, a = s[j] PROVE FALSE
      BY DEF Range
    <3>1. PICK i \in DOMAIN seen : b = seen[i]
      BY <2>2 DEF Range
    <3> QED
      BY <2>2, <2>3, <3>1 DEF Before
  <2>4. a \notin Range(report) /\ a \notin Range(nvs.actions) /\ a \notin Range(journal.actions)
    BY <2>3 DEF IInv, Ordered
  <2>5. ~(pc = "acting" /\ a = act)
    BY <2>1, <2>2 DEF InvFacts
  <2> QED
    BY <2>2, <2>4, <2>5 DEF FateOf
<1> QED
  BY <1>1, Invariance, PTL
==============================================================================
