-------------------------- MODULE ScheduleTickProofs --------------------------
(***************************************************************************)
(* Proofs about ScheduleTick.  When the slots of every schedule are more   *)
(* than a window apart and no UTC day begins in or right after a window,   *)
(* remembering one slot is enough: no slot fires twice in one opening of   *)
(* its window, and none is starved.                                        *)
(***************************************************************************)
EXTENDS ScheduleTick, SequenceTheorems, WellFoundedInduction, TLAPS

Good(s) == Spaced(s) /\ \A m \in SlotsOf(s) : Clear(m)

\* The minute that counts: the one being looked at, or the clock's.
Eff == IF pc = "tick" THEN mod ELSE minute

InWindow(x, m) == x - m \in 0 .. Window

\* due() will skip slot m.
Remembered(m) == cache.lastMin = m /\ cache.lastDay = utcDay

\* The clock has not passed Rollover on its way from minute m to minute x.
Arc(m, x) ==
  \/ m <= x /\ ~(m < Rollover /\ Rollover <= x)
  \/ x < m /\ Rollover <= m /\ x < Rollover

\* Every schedule in the device is good.
GoodCache == Good(cache.entries) /\ Good(nvs)

\* A device that has not begun has no schedule and has looked at nothing.
Unbegun == pc = "boot" => cache = Empty /\ covered = "no"

\* What is remembered is an enabled slot and a day that has begun.
Memory ==
  /\ cache.lastMin = -1 <=> cache.lastDay = -1
  /\ cache.lastMin # -1 => cache.lastMin \in SlotsOf(cache.entries)
  /\ cache.lastDay <= utcDay

\* The clock is at most a minute ahead of the minute that was read, and then
\* has just opened a window.
Reading ==
  pc = "tick" /\ mod # minute =>
    /\ minute = (IF mod = DayMinutes - 1 THEN 0 ELSE mod + 1)
    /\ fires[minute] = 0

\* A slot has fired more often than it was reloaded only if due() skips it,
\* for it is remembered or its window is over.
Once ==
  \A m \in Minutes :
    fires[m] <= reloads[m] + (IF Remembered(m) \/ ~InWindow(Eff, m) THEN 1 ELSE 0)

\* A slot that is skipped within its window has fired in that window; the
\* memory of an earlier day does not reach into the next window.
Skipped ==
  \A m \in Minutes :
    Remembered(m) => Arc(m, minute) /\ (InWindow(minute, m) => fires[m] >= 1)

SInv ==
  /\ TypeOK
  /\ GoodCache /\ Unbegun /\ Memory /\ Reading /\ Once /\ Skipped
  /\ DueSlotsHaveFired

\* Between schedule_set and its ack the cloud relies on no table; the ack
\* follows the write.
Saved ==
  /\ AckedSurvives
  /\ pc = "persist" => ~acked.known
  /\ pc = "ack" => nvs = Stored(cache.entries)

-------------------------------------------------------------------------------
(* Schedules.                                                               *)

\* A slot is a minute.
LEMMA SlotIsMinute ==
  ASSUME NEW s \in Seq(Entries), NEW m \in SlotsOf(s)
  PROVE  m \in Minutes
<1>1. \A i \in DOMAIN s : s[i] \in Entries
  OBVIOUS
<1> QED
  BY <1>1 DEF SlotsOf, Entries

\* What NVS gives back is a schedule with the same slots.
LEMMA StoredIsGood ==
  ASSUME NEW s \in Seq(Entries), Good(s)
  PROVE  Stored(s) \in Seq(Entries) /\ Good(Stored(s))
<1>1. DOMAIN s = 1 .. Len(s) /\ Len(s) \in Nat /\ \A i \in 1 .. Len(s) : s[i] \in Entries
  OBVIOUS
<1>2. \A i \in 1 .. Len(s) :
        /\ Stored(s)[i] \in Entries
        /\ Stored(s)[i].min = s[i].min
        /\ Stored(s)[i].enabled = s[i].enabled
  <2> TAKE i \in 1 .. Len(s)
  <2>1. s[i] \in Entries
    BY <1>1
  <2>2. s[i].min \in Minutes /\ s[i].enabled \in BOOLEAN /\ s[i].amount \in Nat
    BY <2>1 DEF Entries
  <2>3. Rounded(s[i].amount) \in Nat
    BY <2>2 DEF Rounded
  <2>4. Stored(s)[i] = [min |-> s[i].min, amount |-> Rounded(s[i].amount), enabled |-> s[i].enabled]
    BY <1>1 DEF Stored
  <2> QED
    BY <2>2, <2>3, <2>4 DEF Entries
<1>3. DOMAIN Stored(s) = 1 .. Len(s) /\ Stored(s) = [i \in 1 .. Len(s) |-> Stored(s)[i]]
  BY <1>1 DEF Stored
<1>4. Stored(s) \in [1 .. Len(s) -> Entries]
  BY <1>2, <1>3
<1>5. Stored(s) \in Seq(Entries)
  BY <1>1, <1>4, SeqDef
<1>6. SlotsOf(Stored(s)) = SlotsOf(s)
  BY <1>1, <1>2, <1>3 DEF SlotsOf
<1>7. Spaced(Stored(s))
  BY <1>1, <1>2, <1>3 DEF Good, Spaced
<1> QED
  BY <1>5, <1>6, <1>7 DEF Good

\* Every schedule the cloud sends is good, and so is no schedule.
LEMMA TablesAreGood ==
  ASSUME GoodTables
  PROVE  /\ \A s \in Tables : s \in Seq(Entries) /\ Good(s)
         /\ <<>> \in Seq(Entries) /\ Good(<<>>)
<1>1. \A s \in Tables : s \in Seq(Entries) /\ Good(s)
  BY TickAssumption DEF GoodTables, Good
<1>2. <<>> \in Seq(Entries) /\ DOMAIN <<>> = {}
  OBVIOUS
<1> QED
  BY <1>1, <1>2 DEF Good, Spaced, SlotsOf

\* Two slots whose windows hold the same minute are within a window.
LEMMA WindowsMeet ==
  ASSUME NEW x \in Int, NEW a \in Int, NEW b \in Int, InWindow(x, a), InWindow(x, b)
  PROVE  ~(a - b > Window) /\ ~(b - a > Window)
BY ScheduleAssumption DEF InWindow

\* Of a good schedule at most one entry is due, and it is the one that due()
\* returns.
LEMMA DueIsHit ==
  ASSUME NEW c, c.entries \in Seq(Entries), Spaced(c.entries),
         NEW x \in Minutes, NEW d, Hits(c, x, d) # {}
  PROVE  \E i \in DOMAIN c.entries :
           /\ Hits(c, x, d) = {i} /\ Due(c, x, d) = c.entries[i]
           /\ c.entries[i] \in Entries /\ c.entries[i].enabled
           /\ InWindow(x, c.entries[i].min)
           /\ ~(d = c.lastDay /\ c.entries[i].min = c.lastMin)
<1>1. PICK i \in Hits(c, x, d) : TRUE
  OBVIOUS
<1>2. i \in DOMAIN c.entries /\ c.entries[i] \in Entries /\ c.entries[i].enabled
      /\ InWindow(x, c.entries[i].min) /\ ~(d = c.lastDay /\ c.entries[i].min = c.lastMin)
  BY <1>1 DEF Hits, InWindow
<1>3. ASSUME NEW j \in Hits(c, x, d)
      PROVE  j = i
  <2>1. j \in DOMAIN c.entries /\ c.entries[j] \in Entries /\ c.entries[j].enabled
        /\ InWindow(x, c.entries[j].min)
    BY <1>3 DEF Hits, InWindow
  <2>2. c.entries[i].min \in Int /\ c.entries[j].min \in Int /\ x \in Int
    BY <1>2, <2>1 DEF Entries, Minutes
  <2>3. ~(c.entries[i].min - c.entries[j].min > Window)
        /\ ~(c.entries[j].min - c.entries[i].min > Window)
    BY <1>2, <2>1, <2>2, WindowsMeet
  <2> QED
    BY <1>2, <2>1, <2>3 DEF Spaced
<1>4. Hits(c, x, d) = {i}
  BY <1>1, <1>3
<1>5. i \in Int
  BY <1>2
<1>6. Max({i}) = i
  BY <1>5 DEF Max
<1> QED
  BY <1>2, <1>4, <1>6 DEF Due

-------------------------------------------------------------------------------
(* Minutes.                                                                 *)

\* A window that opens in a minute's time, or is reached over midnight, opens
\* in that minute.
LEMMA WindowOpens ==
  ASSUME NEW x \in Minutes, NEW y \in Minutes, NEW m \in Minutes,
         y = (IF x = DayMinutes - 1 THEN 0 ELSE x + 1),
         InWindow(y, m), ~InWindow(x, m)
  PROVE  m = y
BY ScheduleAssumption DEF InWindow, Minutes

\* No UTC day begins in a clear window.
LEMMA NoRolloverInWindow ==
  ASSUME NEW x \in Minutes, NEW m \in Minutes, Clear(m),
         Rollover = (IF x = DayMinutes - 1 THEN 0 ELSE x + 1)
  PROVE  ~InWindow(x, m) /\ (InWindow(Rollover, m) => m = Rollover)
BY ScheduleAssumption, TickAssumption DEF InWindow, Minutes, Clear

\* From the slot that fires no UTC day has begun, be the minute the one that
\* was read or the next.
LEMMA FiredArc ==
  ASSUME NEW x \in Minutes, NEW y \in Minutes, NEW m \in Minutes, Clear(m), InWindow(x, m),
         y = x \/ y = (IF x = DayMinutes - 1 THEN 0 ELSE x + 1)
  PROVE  Arc(m, y)
BY ScheduleAssumption, TickAssumption DEF InWindow, Minutes, Clear, Arc

\* The clock comes back to a minute by way of Rollover only.
LEMMA ArcGoesOn ==
  ASSUME NEW x \in Minutes, NEW y \in Minutes, NEW m \in Minutes,
         y = (IF x = DayMinutes - 1 THEN 0 ELSE x + 1), y # Rollover, Arc(m, x)
  PROVE  Arc(m, y) /\ y # m
BY ScheduleAssumption, TickAssumption DEF Minutes, Arc

-------------------------------------------------------------------------------
(* Steps.                                                                   *)

\* The parts of the types of the fields of the cache.
LEMMA CacheType ==
  ASSUME TypeOK
  PROVE  /\ cache.entries \in Seq(Entries)
         /\ cache.lastMin \in Minutes \union {-1} /\ cache.lastDay \in Nat \union {-1}
BY DEF TypeOK

LEMMA InitInv == ASSUME GoodTables, Init PROVE SInv
<1>1. TypeOK
  <2>1. <<>> \in Seq(Entries)
    BY TablesAreGood
  <2>2. cache \in [entries : Seq(Entries), lastMin : Minutes \union {-1}, lastDay : Nat \union {-1}]
    BY <2>1 DEF Init, Empty, Loaded
  <2>3. acked \in [known : BOOLEAN, entries : Seq(Entries)] /\ nvs \in Seq(Entries)
    BY <2>1 DEF Init, NoTable
  <2>4. mod \in Minutes /\ localDay \in 0 .. MaxDays /\ loads \in 0 .. MaxReloads /\ utcDay \in Nat
    BY ScheduleAssumption, TickAssumption DEF Init, Minutes
  <2>5. fires \in [Minutes -> Nat] /\ reloads \in [Minutes -> Nat]
    BY DEF Init
  <2> QED
    BY <2>2, <2>3, <2>4, <2>5 DEF Init, TypeOK
<1>2. GoodCache /\ Unbegun
  BY TablesAreGood DEF Init, GoodCache, Unbegun, Empty, Loaded
<1>3. Memory /\ Reading /\ DueSlotsHaveFired
  BY DEF Init, Memory, Reading, DueSlotsHaveFired, Empty, Loaded
<1>4. Once /\ Skipped
  BY DEF Init, Once, Skipped, Remembered, Empty, Loaded, Minutes
<1> QED
  BY <1>1, <1>2, <1>3, <1>4 DEF SInv

\* Steps that neither load the cache, nor fire, nor move the clock.
LEMMA QuietStep ==
  ASSUME SInv, ReadMinute \/ PersistSchedule \/ Ack \/ Gates \/ UNCHANGED vars
  PROVE  SInv'
<1> USE DEF vars, clockVars, gateVars, histVars
<1>1. UNCHANGED <<clockVars, cache, fires, reloads, loads>> /\ Eff' = Eff
      /\ (pc' = "tick" => mod' = minute' \/ (pc = "tick" /\ mod' = mod))
  <2>1. UNCHANGED <<minute, localDay, utcDay, cache, fires, reloads, loads>>
    <3>1. CASE ReadMinute
      BY <3>1 DEF ReadMinute
    <3>2. CASE PersistSchedule \/ Ack
      BY <3>2 DEF PersistSchedule, Ack
    <3>3. CASE Gates \/ UNCHANGED vars
      BY <3>3 DEF Gates
    <3> QED
      BY <3>1, <3>2, <3>3
  <2>2. \/ pc # "tick" /\ pc' # "tick"
        \/ pc # "tick" /\ pc' = "tick" /\ mod' = minute
        \/ UNCHANGED <<pc, mod>>
    BY DEF ReadMinute, PersistSchedule, Ack, Gates
  <2> QED
    BY <2>1, <2>2 DEF Eff
<1>2. (pc' = "boot" => pc = "boot") /\ covered' \in {covered, "no"}
      /\ (pc = "boot" => covered' = covered)
  BY DEF ReadMinute, PersistSchedule, Ack, Gates
<1>3. nvs' \in {nvs, Stored(cache.entries)}
  BY DEF ReadMinute, PersistSchedule, Ack, Gates
<1>4. TypeOK'
  <2>1. nvs' \in Seq(Entries)
    BY <1>3, CacheType, StoredIsGood DEF SInv, TypeOK, GoodCache
  <2>2. TypeOK /\ <<>> \in Seq(Entries)
    BY DEF SInv
  <2>3. pc' \in {"boot", "idle", "tick", "persist", "ack"} /\ mod' \in Minutes
    BY <2>2 DEF ReadMinute, PersistSchedule, Ack, Gates, TypeOK
  <2>4. acked' \in {acked, Acked(cache.entries), NoTable}
    BY DEF ReadMinute, PersistSchedule, Ack, Gates
  <2>5. acked' \in [known : BOOLEAN, entries : Seq(Entries)]
    <3>1. acked \in [known : BOOLEAN, entries : Seq(Entries)] /\ cache.entries \in Seq(Entries)
      BY <2>2, CacheType DEF TypeOK
    <3>2. NoTable \in [known : BOOLEAN, entries : Seq(Entries)]
          /\ Acked(cache.entries) \in [known : BOOLEAN, entries : Seq(Entries)]
      BY <2>2, <3>1 DEF Acked, NoTable
    <3> QED
      BY <2>4, <3>1, <3>2
  <2>6. online' \in BOOLEAN /\ synced' \in BOOLEAN /\ safe' \in BOOLEAN
    BY <2>2 DEF ReadMinute, PersistSchedule, Ack, Gates, TypeOK
  <2> QED
    BY <1>1, <1>2, <2>1, <2>2, <2>3, <2>5, <2>6 DEF TypeOK
<1>5. GoodCache'
  BY <1>1, <1>3, CacheType, StoredIsGood DEF SInv, GoodCache
<1>6. Unbegun' /\ Memory'
  BY <1>1, <1>2 DEF SInv, Unbegun, Memory
<1>7. Reading'
  BY <1>1 DEF SInv, Reading
<1>8. Once' /\ Skipped'
  BY <1>1 DEF SInv, Once, Skipped, Remembered
<1>9. DueSlotsHaveFired'
  BY <1>1, <1>2 DEF SInv, DueSlotsHaveFired
<1> QED
  BY <1>4, <1>5, <1>6, <1>7, <1>8, <1>9 DEF SInv

\* A cache just loaded remembers nothing.
LEMMA LoadedForgets ==
  ASSUME NEW s \in Seq(Entries), cache' = Loaded(s)
  PROVE  /\ cache' \in [entries : Seq(Entries), lastMin : Minutes \union {-1}, lastDay : Nat \union {-1}]
         /\ cache'.entries = s
         /\ cache'.lastMin = -1 /\ cache'.lastDay = -1
         /\ \A m \in Minutes : ~Remembered(m)'
BY DEF Loaded, Remembered, Minutes

\* begin() finds the cache empty, and loads what NVS holds.
LEMMA BootStep == ASSUME GoodTables, SInv, Boot PROVE SInv'
<1> USE DEF vars, clockVars, gateVars, histVars
<1>1. nvs \in Seq(Entries) /\ cache' = Loaded(nvs) /\ pc = "boot" /\ pc' = "idle"
      /\ covered = "no" /\ cache = Empty /\ TypeOK
      /\ UNCHANGED <<clockVars, mod, nvs, gateVars, acked, histVars, loads>>
  BY DEF SInv, TypeOK, Boot, Unbegun
<1>2. \A m \in Minutes : ~Remembered(m) /\ ~Remembered(m)'
  BY <1>1, LoadedForgets DEF Remembered, Empty, Loaded, Minutes
<1>3. TypeOK'
  BY <1>1, LoadedForgets DEF TypeOK
<1>4. GoodCache' /\ Unbegun' /\ Memory' /\ Reading'
  BY <1>1, LoadedForgets DEF SInv, GoodCache, Unbegun, Memory, Reading, TypeOK
<1>5. Once'
  BY <1>1, <1>2 DEF SInv, Once, Eff
<1>6. Skipped' /\ DueSlotsHaveFired'
  BY <1>1, <1>2 DEF Skipped, DueSlotsHaveFired
<1> QED
  BY <1>3, <1>4, <1>5, <1>6 DEF SInv

\* A reload allows every slot one more firing.
LEMMA ReloadStep ==
  ASSUME SInv, Reload, NEW s \in Seq(Entries), Good(s), cache' = Loaded(s),
         UNCHANGED <<clockVars, nvs>>, pc' # "tick", pc' = "boot" => s = <<>>
  PROVE  /\ GoodCache' /\ Unbegun' /\ Memory' /\ Reading' /\ Once' /\ Skipped' /\ DueSlotsHaveFired'
         /\ fires' \in [Minutes -> Nat] /\ reloads' \in [Minutes -> Nat]
<1> USE DEF clockVars
<1>1. fires' = fires /\ reloads' = [m \in Minutes |-> reloads[m] + 1] /\ covered' = "no"
      /\ fires \in [Minutes -> Nat] /\ reloads \in [Minutes -> Nat] /\ utcDay \in Nat
  BY DEF Reload, SInv, TypeOK
<1>2. GoodCache' /\ Memory'
  BY <1>1, LoadedForgets DEF SInv, GoodCache, Memory
<1>3. Unbegun' /\ Reading' /\ DueSlotsHaveFired'
  BY <1>1 DEF Unbegun, Reading, DueSlotsHaveFired, Empty
<1>4. Skipped'
  BY LoadedForgets DEF Skipped
<1>5. \A m \in Minutes : fires[m] \in Nat /\ reloads[m] \in Nat /\ fires[m] <= reloads[m] + 1
  BY <1>1 DEF SInv, Once
<1>6. \A m \in Minutes : fires'[m] <= reloads'[m]
  BY <1>1, <1>5
<1>7. Once'
  <2> SUFFICES ASSUME NEW m \in Minutes
               PROVE  fires'[m] <= reloads'[m] + (IF Remembered(m)' \/ ~InWindow(Eff, m)' THEN 1 ELSE 0)
    BY DEF Once
  <2>1. fires'[m] \in Nat /\ reloads'[m] \in Nat
    BY <1>1
  <2> QED
    BY <1>6, <2>1
<1> QED
  BY <1>1, <1>2, <1>3, <1>4, <1>7

\* schedule_set loads the new schedule.
LEMMA SetStep ==
  ASSUME GoodTables, SInv, NEW s \in Tables, SetSchedule(s)
  PROVE  SInv'
<1> USE DEF vars, clockVars, gateVars, histVars
<1>1. s \in Seq(Entries) /\ Good(s)
  BY TablesAreGood
<1>2. Reload /\ cache' = Loaded(s) /\ pc' = "persist"
      /\ UNCHANGED <<clockVars, mod, nvs, gateVars>>
      /\ acked' = NoTable /\ loads' = loads + 1 /\ loads < MaxReloads
  BY DEF SetSchedule
<1>3. GoodCache' /\ Unbegun' /\ Memory' /\ Reading' /\ Once' /\ Skipped' /\ DueSlotsHaveFired'
      /\ fires' \in [Minutes -> Nat] /\ reloads' \in [Minutes -> Nat]
  BY <1>1, <1>2, ReloadStep
<1>4. acked' \in [known : BOOLEAN, entries : Seq(Entries)]
  BY <1>2, TablesAreGood DEF NoTable
<1>5. loads' \in 0 .. MaxReloads
  BY <1>2, TickAssumption DEF SInv, TypeOK
<1>6. TypeOK'
  BY <1>1, <1>2, <1>3, <1>4, <1>5, LoadedForgets DEF SInv, TypeOK, Reload
<1> QED
  BY <1>3, <1>6 DEF SInv

\* A restart empties the cache.
LEMMA CrashStep == ASSUME GoodTables, SInv, Crash PROVE SInv'
<1> USE DEF vars, clockVars, gateVars, histVars
<1>1. <<>> \in Seq(Entries) /\ Good(<<>>)
  BY TablesAreGood
<1>2. Reload /\ cache' = Loaded(<<>>) /\ pc' = "boot" /\ mod' = 0
      /\ online' = FALSE /\ synced' = FALSE /\ safe' = FALSE
      /\ UNCHANGED <<clockVars, nvs, acked>> /\ loads' = loads + 1 /\ loads < MaxReloads
  BY DEF Crash, Empty
<1>3. GoodCache' /\ Unbegun' /\ Memory' /\ Reading' /\ Once' /\ Skipped' /\ DueSlotsHaveFired'
      /\ fires' \in [Minutes -> Nat] /\ reloads' \in [Minutes -> Nat]
  BY <1>1, <1>2, ReloadStep
<1>4. loads' \in 0 .. MaxReloads /\ mod' \in Minutes
  BY <1>2, TickAssumption, ScheduleAssumption DEF SInv, TypeOK, Minutes
<1>5. TypeOK'
  BY <1>1, <1>2, <1>3, <1>4, LoadedForgets DEF SInv, TypeOK, Reload
<1> QED
  BY <1>3, <1>5 DEF SInv

\* Nothing is due: every slot whose window is open is skipped, so has fired.
LEMMA NotDueStep == ASSUME SInv, NotDue PROVE SInv'
<1> USE DEF vars, clockVars, gateVars, histVars
<1>1. pc = "tick" /\ pc' = "idle" /\ Hits(cache, mod, utcDay) = {}
      /\ covered' = (IF mod = minute THEN "ticked" ELSE "no")
      /\ UNCHANGED <<clockVars, mod, cache, nvs, gateVars, acked, fires, reloads, loads>>
  BY DEF NotDue
<1>2. TypeOK'
  BY <1>1 DEF SInv, TypeOK
<1>3. GoodCache' /\ Unbegun' /\ Memory' /\ Reading'
  BY <1>1 DEF SInv, GoodCache, Unbegun, Memory, Reading
<1>4. Skipped'
  BY <1>1 DEF SInv, Skipped, Remembered
<1>5. Once'
  <2> SUFFICES ASSUME NEW m \in Minutes
               PROVE  fires[m] <= reloads[m] + (IF Remembered(m) \/ ~InWindow(minute, m) THEN 1 ELSE 0)
    BY <1>1 DEF Once, Remembered, Eff
  <2>1. fires[m] <= reloads[m] + (IF Remembered(m) \/ ~InWindow(mod, m) THEN 1 ELSE 0)
        /\ fires[m] \in Nat /\ reloads[m] \in Nat /\ minute \in Minutes /\ mod \in Minutes
    BY <1>1 DEF SInv, Once, TypeOK, Eff
  <2>2. CASE mod # minute /\ ~InWindow(mod, m) /\ InWindow(minute, m)
    <3>1. m = minute /\ fires[minute] = 0
      BY <1>1, <2>1, <2>2, WindowOpens DEF SInv, Reading
    <3> QED
      BY <2>1, <3>1
  <2>3. CASE ~(mod # minute /\ ~InWindow(mod, m) /\ InWindow(minute, m))
    BY <2>1, <2>3
  <2> QED
    BY <2>2, <2>3
<1>6. DueSlotsHaveFired'
  <2> SUFFICES ASSUME mod = minute, NEW m \in SlotsOf(cache.entries), InWindow(minute, m)
               PROVE  fires[m] >= 1
    BY <1>1 DEF DueSlotsHaveFired, InWindow
  <2>1. PICK i \in DOMAIN cache.entries : cache.entries[i].enabled /\ cache.entries[i].min = m
    BY DEF SlotsOf
  <2>2. Remembered(m)
    BY <1>1, <2>1 DEF Hits, InWindow, Remembered
  <2> QED
    BY <2>2, CacheType, SlotIsMinute DEF SInv, Skipped
<1> QED
  BY <1>2, <1>3, <1>4, <1>5, <1>6 DEF SInv

\* The entry that is due is marked and fires; the slot remembered until now
\* is not in a window that is open.
LEMMA FireStep == ASSUME SInv, Fire PROVE SInv'
<1> USE DEF vars, clockVars, gateVars, histVars
<1> DEFINE e == Due(cache, mod, utcDay)
<1>1. pc = "tick" /\ pc' = "idle" /\ Hits(cache, mod, utcDay) # {}
      /\ cache' = MarkFired(cache, e, utcDay)
      /\ fires' = [fires EXCEPT ![e.min] = @ + 1]
      /\ covered' = (IF mod = minute THEN "ticked" ELSE "no")
      /\ UNCHANGED <<clockVars, mod, nvs, gateVars, acked, reloads, loads>>
  BY DEF Fire
<1>2. TypeOK /\ minute \in Minutes /\ mod \in Minutes /\ cache.entries \in Seq(Entries)
      /\ Spaced(cache.entries)
  BY DEF SInv, TypeOK, GoodCache, Good
<1>3. PICK i \in DOMAIN cache.entries :
        /\ Hits(cache, mod, utcDay) = {i} /\ e = cache.entries[i]
        /\ e \in Entries /\ e.enabled /\ InWindow(mod, e.min)
        /\ ~(utcDay = cache.lastDay /\ e.min = cache.lastMin)
  BY <1>1, <1>2, DueIsHit
<1> HIDE DEF e
<1>4. e.min \in Minutes /\ e.min \in SlotsOf(cache.entries) /\ ~Remembered(e.min)
  BY <1>3 DEF Entries, SlotsOf, Remembered
<1>5. cache' = [cache EXCEPT !.lastMin = e.min, !.lastDay = utcDay]
  BY <1>1 DEF MarkFired
<1>6. cache' \in [entries : Seq(Entries), lastMin : Minutes \union {-1}, lastDay : Nat \union {-1}]
      /\ cache'.entries = cache.entries /\ cache'.lastMin = e.min /\ cache'.lastDay = utcDay
  BY <1>2, <1>4, <1>5 DEF TypeOK
<1>7. /\ fires' \in [Minutes -> Nat] /\ fires \in [Minutes -> Nat] /\ reloads \in [Minutes -> Nat]
      /\ fires'[e.min] = fires[e.min] + 1
      /\ \A m \in Minutes : m # e.min => fires'[m] = fires[m]
  <2>1. fires \in [Minutes -> Nat] /\ reloads \in [Minutes -> Nat]
    BY <1>2 DEF TypeOK
  <2>2. fires[e.min] + 1 \in Nat
    BY <1>4, <2>1
  <2> QED
    BY <1>1, <1>4, <2>1, <2>2
<1>8. TypeOK'
  BY <1>1, <1>2, <1>6, <1>7 DEF TypeOK
<1>9. GoodCache' /\ Unbegun' /\ Reading'
  BY <1>1, <1>6 DEF SInv, GoodCache, Unbegun, Reading
<1>10. Memory'
  <2>1. utcDay \in Nat /\ e.min # -1 /\ utcDay # -1
    BY <1>2, <1>4 DEF TypeOK, Minutes
  <2> QED
    BY <1>1, <1>4, <1>6, <2>1 DEF Memory
<1>11. \A m \in Minutes : Remembered(m)' <=> m = e.min
  BY <1>1, <1>6 DEF Remembered
\* Two enabled slots are not in one window.
<1>12. ASSUME NEW m \in SlotsOf(cache.entries), m # e.min
       PROVE  ~InWindow(mod, m)
  <2>1. PICK j \in DOMAIN cache.entries : cache.entries[j].enabled /\ cache.entries[j].min = m
    BY <1>12 DEF SlotsOf
  <2>2. m \in Minutes /\ m \in Int /\ e.min \in Int /\ mod \in Int
    BY <1>2, <1>4, <1>12, SlotIsMinute DEF Minutes
  <2>3. e.min - m > Window \/ m - e.min > Window
    BY <1>3, <1>12, <2>1, <1>2 DEF Spaced
  <2> QED
    BY <1>3, <2>2, <2>3, WindowsMeet
<1>13. Once'
  <2> SUFFICES ASSUME NEW m \in Minutes
               PROVE  fires'[m] <= reloads[m] + (IF m = e.min \/ ~InWindow(minute, m) THEN 1 ELSE 0)
    BY <1>1, <1>11 DEF Once, Eff
  <2>1. fires[m] <= reloads[m] + (IF Remembered(m) \/ ~InWindow(mod, m) THEN 1 ELSE 0)
        /\ fires[m] \in Nat /\ reloads[m] \in Nat
    BY <1>1, <1>7 DEF SInv, Once, Eff
  <2>2. CASE m = e.min
    BY <1>3, <1>4, <1>7, <2>1, <2>2
  <2>3. CASE m # e.min /\ ~InWindow(minute, m)
    BY <1>7, <2>1, <2>3
  <2>4. CASE m # e.min /\ InWindow(minute, m)
    <3>1. CASE InWindow(mod, m)
      <4>1. ~Remembered(m)
        <5>1. Remembered(m) => m \in SlotsOf(cache.entries)
          BY DEF SInv, Memory, Remembered, Minutes
        <5> QED
          BY <1>12, <2>4, <3>1, <5>1
      <4> QED
        BY <1>7, <2>1, <2>4, <3>1, <4>1
    <3>2. CASE ~InWindow(mod, m)
      <4>1. mod # minute
        BY <2>4, <3>2
      <4>2. m = minute /\ fires[minute] = 0
        BY <1>1, <1>2, <2>4, <3>2, <4>1, WindowOpens DEF SInv, Reading
      <4> QED
        BY <1>7, <2>1, <2>4, <4>2
    <3> QED
      BY <3>1, <3>2
  <2> QED
    BY <2>2, <2>3, <2>4
<1>14. Skipped'
  <2>1. Clear(e.min)
    BY <1>4 DEF SInv, GoodCache, Good
  <2>2. Arc(e.min, minute)
    BY <1>1, <1>2, <1>3, <1>4, <2>1, FiredArc DEF SInv, Reading
  <2>3. fires'[e.min] >= 1
    BY <1>4, <1>7
  <2> QED
    BY <1>1, <1>11, <2>2, <2>3 DEF Skipped, Arc, InWindow
<1>15. DueSlotsHaveFired'
  <2> SUFFICES ASSUME mod = minute, NEW m \in SlotsOf(cache.entries), InWindow(minute, m)
               PROVE  fires'[m] >= 1
    BY <1>1, <1>6 DEF DueSlotsHaveFired, InWindow
  <2>1. m = e.min
    BY <1>12
  <2> QED
    BY <1>4, <1>7, <2>1
<1> QED
  BY <1>8, <1>9, <1>10, <1>13, <1>14, <1>15 DEF SInv

\* A minute passes.
LEMMA AdvanceStep == ASSUME SInv, Advance PROVE SInv'
<1> USE DEF vars, clockVars, gateVars, histVars
<1>1. /\ TypeOK /\ minute \in Minutes /\ mod \in Minutes
      /\ pc = "tick" => mod = minute
      /\ UNCHANGED <<pc, mod, cache, nvs, gateVars, acked, loads>> /\ covered' = "no"
      /\ utcDay' = IF minute' = Rollover THEN utcDay + 1 ELSE utcDay
      /\ fires' = [fires EXCEPT ![minute'] = 0] /\ reloads' = [reloads EXCEPT ![minute'] = 0]
  BY DEF SInv, TypeOK, Advance
<1>2. minute' \in Minutes /\ minute' = (IF minute = DayMinutes - 1 THEN 0 ELSE minute + 1)
  BY <1>1, ScheduleAssumption DEF Advance, Minutes
<1>3. localDay' \in 0 .. MaxDays
  BY <1>1, TickAssumption DEF Advance, TypeOK, Minutes
<1>4. utcDay \in Nat /\ utcDay' \in Nat /\ utcDay <= utcDay' /\ (minute' = Rollover => utcDay < utcDay')
  BY <1>1 DEF TypeOK
<1>5. /\ fires \in [Minutes -> Nat] /\ reloads \in [Minutes -> Nat]
      /\ fires' \in [Minutes -> Nat] /\ reloads' \in [Minutes -> Nat]
      /\ fires'[minute'] = 0 /\ reloads'[minute'] = 0
      /\ \A m \in Minutes : m # minute' => fires'[m] = fires[m] /\ reloads'[m] = reloads[m]
  BY <1>1, <1>2 DEF TypeOK
<1>6. TypeOK'
  BY <1>1, <1>2, <1>3, <1>4, <1>5 DEF TypeOK
<1>7. GoodCache' /\ Unbegun' /\ DueSlotsHaveFired'
  BY <1>1 DEF SInv, GoodCache, Unbegun, DueSlotsHaveFired
<1>8. Memory'
  <2>1. cache.lastDay \in Int /\ utcDay \in Int /\ utcDay' \in Int
    BY <1>1, <1>4, CacheType
  <2> QED
    BY <1>1, <1>4, <2>1 DEF SInv, Memory
<1>9. Reading'
  BY <1>1, <1>2, <1>5 DEF Reading
\* What was remembered still is, unless the UTC day begins.
<1>10. ASSUME NEW m \in Minutes
       PROVE  /\ Remembered(m)' => Remembered(m) /\ minute' # Rollover
              /\ Remembered(m) => Remembered(m)' \/ minute' = Rollover
              /\ Remembered(m) => Clear(m)
  <2>1. cache.lastDay \in Int /\ cache.lastDay <= utcDay
    BY <1>1, CacheType DEF SInv, Memory
  <2>2. Remembered(m) => m \in SlotsOf(cache.entries)
    BY DEF SInv, Memory, Remembered, Minutes
  <2> QED
    BY <1>1, <1>4, <2>1, <2>2 DEF Remembered, SInv, GoodCache, Good
<1>11. Once'
  <2> SUFFICES ASSUME NEW m \in Minutes
               PROVE  fires'[m] <= reloads'[m] + (IF Remembered(m)' \/ ~InWindow(Eff', m) THEN 1 ELSE 0)
    BY DEF Once, InWindow
  <2>1. fires[m] <= reloads[m] + (IF Remembered(m) \/ ~InWindow(Eff, m) THEN 1 ELSE 0)
        /\ fires[m] \in Nat /\ reloads[m] \in Nat /\ reloads'[m] \in Nat
    BY <1>5 DEF SInv, Once
  <2>2. CASE m = minute'
    BY <1>5, <2>1, <2>2
  <2>3. CASE m # minute'
    <3>1. Eff = minute /\ Eff' \in {minute, minute'}
      BY <1>1 DEF Eff
    <3>2. InWindow(Eff', m) => InWindow(minute, m)
      BY <1>1, <1>2, <2>3, <3>1, WindowOpens
    <3>3. Remembered(m) /\ InWindow(Eff', m) => Remembered(m)'
      <4> SUFFICES ASSUME Remembered(m), minute' = Rollover PROVE ~InWindow(Eff', m)
        BY <1>10
      <4>1. ~InWindow(minute, m) /\ ~InWindow(minute', m)
        BY <1>1, <1>2, <1>10, <2>3, NoRolloverInWindow
      <4> QED
        BY <3>1, <4>1
    <3> QED
      BY <1>5, <2>1, <2>3, <3>1, <3>2, <3>3
  <2> QED
    BY <2>2, <2>3
<1>12. Skipped'
  <2> SUFFICES ASSUME NEW m \in Minutes, Remembered(m)'
               PROVE  Arc(m, minute') /\ (InWindow(minute', m) => fires'[m] >= 1)
    BY DEF Skipped, Arc, InWindow
  <2>1. Remembered(m) /\ minute' # Rollover
    BY <1>10
  <2>2. Arc(m, minute) /\ (InWindow(minute, m) => fires[m] >= 1)
    BY <2>1 DEF SInv, Skipped
  <2>3. Arc(m, minute') /\ minute' # m
    BY <1>1, <1>2, <2>1, <2>2, ArcGoesOn
  <2>4. InWindow(minute', m) => InWindow(minute, m)
    BY <1>1, <1>2, <2>3, WindowOpens
  <2> QED
    BY <1>5, <2>2, <2>3, <2>4
<1> QED
  BY <1>6, <1>7, <1>8, <1>9, <1>11, <1>12 DEF SInv

-------------------------------------------------------------------------------
(* The theorems.                                                            *)

\* SInv is an invariant: in a device whose schedules are good, the memory of
\* one slot is enough.
THEOREM ScheduleInvariance == ASSUME GoodTables PROVE Spec => []SInv
<1>1. Init => SInv
  BY InitInv
<1>2. SInv /\ [Next]_vars => SInv'
  <2> SUFFICES ASSUME SInv, [Next]_vars PROVE SInv'
    OBVIOUS
  <2>1. CASE \E s \in Tables : SetSchedule(s)
    BY <2>1, SetStep
  <2>2. CASE ~\E s \in Tables : SetSchedule(s)
    BY <2>2, QuietStep, BootStep, CrashStep, NotDueStep, FireStep, AdvanceStep DEF Next
  <2> QED
    BY <2>1, <2>2
<1> QED
  BY <1>1, <1>2, PTL DEF Spec

\* Every value a variable takes is of its type; in particular the entry that
\* due() returns is an entry of the cache.
THEOREM ScheduleTypes == ASSUME GoodTables PROVE Spec => []TypeOK
<1>1. SInv => TypeOK
  BY DEF SInv
<1> QED
  BY <1>1, ScheduleInvariance, PTL

\* No slot fires twice in one opening of its window, but for the reloads:
\* whatever the schedules, the window and the UTC offset, as long as slots
\* are more than a window apart and no UTC day begins in or right after one.
THEOREM FiresOnce == ASSUME GoodTables PROVE Spec => []OncePerWindow
<1>1. SInv => OncePerWindow
  <2> SUFFICES ASSUME SInv, NEW m \in Minutes PROVE fires[m] <= 1 + reloads[m]
    BY DEF OncePerWindow
  <2>1. fires[m] \in Nat /\ reloads[m] \in Nat
    BY DEF SInv, TypeOK
  <2> QED
    BY <2>1 DEF SInv, Once
<1> QED
  BY <1>1, ScheduleInvariance, PTL

\* Under the same conditions no slot is starved: a look at a minute leaves
\* no enabled slot whose window is open unfired.
THEOREM NoneStarved == ASSUME GoodTables PROVE Spec => []DueSlotsHaveFired
<1>1. SInv => DueSlotsHaveFired
  BY DEF SInv
<1> QED
  BY <1>1, ScheduleInvariance, PTL

\* Whatever the schedules and wherever the power goes: a schedule whose ack
\* the cloud has is what a restart restores.
THEOREM AckIsDurable == Spec => []AckedSurvives
<1> USE DEF vars, clockVars, gateVars, histVars, Acked, NoTable
<1>1. Init => Saved
  BY DEF Init, Saved, AckedSurvives
<1>2. Saved /\ [Next]_vars => Saved'
  <2> SUFFICES ASSUME Saved, [Next]_vars PROVE Saved'
    OBVIOUS
  <2>1. CASE \E s \in Tables : SetSchedule(s)
    BY <2>1 DEF SetSchedule, Saved, AckedSurvives
  <2>2. CASE PersistSchedule
    BY <2>2 DEF PersistSchedule, Saved, AckedSurvives
  <2>3. CASE Ack
    BY <2>3 DEF Ack, Saved, AckedSurvives
  <2>4. CASE ReadMinute \/ Gates \/ Boot
    BY <2>4 DEF ReadMinute, Gates, Boot, Saved, AckedSurvives
  <2>5. CASE NotDue \/ Fire
    BY <2>5 DEF NotDue, Fire, Saved, AckedSurvives
  <2>6. CASE Advance \/ Crash \/ UNCHANGED vars
    BY <2>6 DEF Advance, Crash, Saved, AckedSurvives
  <2> QED
    BY <2>1, <2>2, <2>3, <2>4, <2>5, <2>6 DEF Next
<1>3. Saved => AckedSurvives
  BY DEF Saved
<1> QED
  BY <1>1, <1>2, <1>3, PTL DEF Spec

-------------------------------------------------------------------------------
(* The countdown.                                                           *)

LEMMA LeastOf ==
  ASSUME NEW T, T \subseteq Nat, T # {} PROVE Min(T) \in T /\ \A y \in T : Min(T) <= y
<1>1. /\ IsWellFoundedOn(OpToRel(<, Nat), Nat)
      /\ \A x, y \in Nat : x < y => <<x, y>> \in OpToRel(<, Nat)
  BY NatLessThanWellFounded DEF OpToRel
<1>2. \E R : IsWellFoundedOn(R, Nat) /\ \A x, y \in Nat : x < y => <<x, y>> \in R
  BY <1>1
<1>3. PICK R : IsWellFoundedOn(R, Nat) /\ \A x, y \in Nat : x < y => <<x, y>> \in R
  BY <1>2
<1>4. \E x \in T : \A y \in T : ~(<<y, x>> \in R)
  BY <1>3, WFMin, ZenonT(30)
<1>5. PICK x \in T : \A y \in T : ~(<<y, x>> \in R)
  BY <1>4
<1>6. \A y \in T : x <= y
  <2> TAKE y \in T
  <2>1. x \in Nat /\ y \in Nat /\ ~(y < x)
    BY <1>3, <1>5
  <2> QED
    BY <2>1
<1> QED
  BY <1>6 DEF Min

\* From minute b it is Away(a, b) minutes to slot a, and no other number of
\* minutes within a day.
Away(a, b) == 1 + ((a - b - 1) % DayMinutes)

LEMMA AwayIs ==
  ASSUME NEW a \in Minutes, NEW b \in Minutes
  PROVE  /\ Away(a, b) \in 1 .. DayMinutes
         /\ (b + Away(a, b)) % DayMinutes = a
         /\ \A k \in 1 .. DayMinutes : (b + k) % DayMinutes = a => k = Away(a, b)
BY ScheduleAssumption DEF Minutes, Away

\* For every good table of schedules, every day and every minute: the countdown
\* ends at an enabled slot and passes none.
THEOREM CountdownEnds == ASSUME GoodTables PROVE Spec => []NextIsNext
<1>1. TypeOK => NextIsNext
  <2> SUFFICES ASSUME TypeOK PROVE NextIsNext
    OBVIOUS
  <2> DEFINE slots == SlotsOf(cache.entries)
             away == {Away(a, minute) : a \in slots}
             n == IF away = {} THEN -1 ELSE Min(away)
  <2>1. minutesUntilNext(cache, minute) = n
    <3>1. away = {1 + ((cache.entries[i].min - minute - 1) % DayMinutes) :
                    i \in {i \in DOMAIN cache.entries : cache.entries[i].enabled}}
      BY DEF SlotsOf, Away
    <3> QED
      BY <3>1 DEF minutesUntilNext
  <2>2. minute \in Minutes /\ slots \subseteq Minutes /\ DayMinutes \in Nat
    <3>1. cache.entries \in Seq(Entries) /\ minute \in Minutes
      BY DEF TypeOK
    <3>2. ASSUME NEW i \in DOMAIN cache.entries PROVE cache.entries[i].min \in Minutes
      <4>1. cache.entries[i] \in Entries
        BY <3>1
      <4> QED
        BY <4>1 DEF Entries
    <3> QED
      BY <3>1, <3>2, ScheduleAssumption DEF SlotsOf
  <2>3. CASE slots = {}
    BY <2>1, <2>3 DEF NextIsNext
  <2>4. CASE slots # {}
    <3>1. away \subseteq 1 .. DayMinutes /\ away # {}
      BY <2>2, <2>4, AwayIs
    <3>2. n \in away /\ \A y \in away : n <= y
      <4>1. away \subseteq Nat
        BY <2>2, <3>1
      <4>2. n = Min(away)
        BY <3>1
      <4> HIDE DEF away
      <4> QED
        BY <3>1, <4>1, <4>2, LeastOf
    <3>3. n \in 1 .. DayMinutes /\ (minute + n) % DayMinutes \in slots
      BY <2>2, <3>1, <3>2, AwayIs
    <3>4. ASSUME NEW k \in 1 .. n - 1, (minute + k) % DayMinutes \in slots PROVE FALSE
      <4>1. k \in 1 .. DayMinutes /\ k < n
        BY <2>2, <3>3
      <4>2. k = Away((minute + k) % DayMinutes, minute)
        BY <2>2, <3>4, <4>1, AwayIs
      <4>3. k \in away
        BY <3>4, <4>2
      <4> QED
        BY <3>2, <3>3, <4>1, <4>3
    <3> QED
      BY <2>1, <2>4, <3>3, <3>4 DEF NextIsNext
  <2> QED
    BY <2>3, <2>4
<1> QED
  BY <1>1, ScheduleTypes, PTL
===============================================================================
