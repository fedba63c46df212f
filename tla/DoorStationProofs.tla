-------------------------- MODULE DoorStationProofs --------------------------
(***************************************************************************)
(* Proofs about DoorStation.  A resumed download is whole because each     *)
(* response carries exactly what the flash lacks of the file (Carried); an *)
(* opening lasts because the running pulse is its own (Pulsing).           *)
(***************************************************************************)
EXTENDS DoorStation, SequenceTheorems, TLAPS

Written ==
  /\ hashed = flash /\ Len(flash) <= fullLen
  /\ ota = "idle" => flash = <<>> /\ fullLen = 0 /\ attempt = 0

Followed ==
  steady => /\ Len(flash) <= Len(source) /\ fullLen \in {0, Len(source)}
            /\ \A i \in 1 .. Len(flash) : flash[i] = source[i]

Carried ==
  ota = "stream" =>
    /\ fullLen # 0
    /\ steady => /\ Len(rest) = Len(source) - Len(flash)
                 /\ \A i \in 1 .. Len(rest) : rest[i] = source[Len(flash) + i]

OtaInv == OtaTypeOK /\ Written /\ Followed /\ Carried

Pulsing ==
  wish = "timed" /\ ~locked => pulse # 0 /\ pulse = limit /\ age = since

DoorInv == DoorTypeOK /\ Pulsing

SInv == OtaInv /\ DoorInv /\ TypeOK

-------------------------------------------------------------------------------
(* Images and downloads.                                                    *)

LEMMA ImageIs == \A i \in Images : i \in Seq(Chunks) /\ i # <<>> /\ Len(i) \in Nat \ {0}
BY OtaAssumption

LEMMA OtaInitially == ASSUME OtaInit PROVE OtaInv
<1>1. OtaTypeOK
  BY OtaAssumption, ImageIs DEF OtaInit, OtaTypeOK
<1>2. Written /\ Followed /\ Carried
  BY ImageIs DEF OtaInit, Written, Followed, Carried
<1> QED
  BY <1>1, <1>2 DEF OtaInv

LEMMA ForgetStep == ASSUME OtaInv, Forget PROVE OtaInv'
<1>1. OtaTypeOK'
  BY OtaAssumption DEF OtaInv, OtaTypeOK, Forget
<1>2. (Written /\ Followed /\ Carried)'
  BY ImageIs DEF OtaInv, OtaTypeOK, Forget, Written, Followed, Carried
<1> QED
  BY <1>1, <1>2 DEF OtaInv

LEMMA StartStep ==
  ASSUME OtaInv, NEW d \in Images \union {NoDigest}, Start(d) PROVE OtaInv'
<1>1. OtaTypeOK'
  BY OtaAssumption DEF OtaInv, OtaTypeOK, Written, Start
<1>2. (Written /\ Followed /\ Carried)'
  BY ImageIs DEF OtaInv, OtaTypeOK, Start, Written, Followed, Carried
<1> QED
  BY <1>1, <1>2 DEF OtaInv

\* Steps that leave the flash alone.
LEMMA AnswerStep ==
  ASSUME OtaInv, NoResponse \/ EndResponse \/ Accept \/ Swap PROVE OtaInv'
<1> USE ImageIs DEF OtaInv
<1>1. OtaTypeOK'
  <2>1. CASE NoResponse
    BY <2>1, OtaAssumption DEF OtaTypeOK, NoResponse, Retry
  <2>2. CASE EndResponse
    BY <2>2, OtaAssumption DEF OtaTypeOK, EndResponse, Retry
  <2>3. CASE Accept
    BY <2>3, OtaAssumption DEF OtaTypeOK, Accept, locals
  <2>4. CASE Swap
    <3>1. source' \in Images /\ swaps' \in 0 .. MaxSwaps
      BY <2>4, OtaAssumption DEF OtaTypeOK, Swap
    <3>2. steady' \in BOOLEAN
      BY <2>4 DEF Swap
    <3> QED
      BY <2>4, <3>1, <3>2 DEF OtaTypeOK, Swap, locals
  <2> QED
    BY <2>1, <2>2, <2>3, <2>4
<1>2. Written'
  BY DEF OtaTypeOK, Written, NoResponse, EndResponse, Accept, Swap, locals, Retry
<1>3. Followed'
  BY DEF OtaTypeOK, Followed, NoResponse, EndResponse, Accept, Swap, locals
<1>4. Carried'
  BY DEF OtaTypeOK, Carried, NoResponse, EndResponse, Accept, Swap, locals, Retry
<1> QED
  BY <1>1, <1>2, <1>3, <1>4

LEMMA ResponseStep == ASSUME OtaInv, Response PROVE OtaInv'
<1> USE DEF OtaInv
<1>1. /\ source \in Seq(Chunks) /\ Len(source) \in Nat \ {0} /\ Len(flash) \in Nat
      /\ Len(flash) < Len(source) /\ rest' = SubSeq(source, Len(flash) + 1, Len(source))
  BY ImageIs DEF Response, Missing, OtaTypeOK
<1>2. /\ rest' \in Seq(Chunks) /\ Len(rest') = Len(source) - Len(flash)
      /\ \A i \in 1 .. Len(rest') : rest'[i] = source[Len(flash) + i]
  BY <1>1
<1>3. OtaTypeOK'
  BY <1>1, <1>2 DEF OtaTypeOK, Response
<1>4. Written' /\ Followed'
  BY <1>1 DEF OtaTypeOK, Response, Written, Followed
<1>5. Carried'
  BY <1>1, <1>2 DEF OtaTypeOK, Response, Carried
<1> QED
  BY <1>3, <1>4, <1>5

LEMMA ChunkStep == ASSUME OtaInv, Chunk PROVE OtaInv'
<1> USE DEF OtaInv
<1>1. /\ rest \in Seq(Chunks) /\ rest # <<>> /\ flash \in Seq(Chunks) /\ Len(flash) \in Nat
      /\ ota = "stream" /\ Len(flash) < fullLen /\ fullLen \in Nat
  BY DEF Chunk, OtaTypeOK
<1>2. /\ Head(rest) = rest[1] /\ rest[1] \in Chunks /\ Len(rest) \in Nat \ {0}
      /\ rest' \in Seq(Chunks) /\ Len(rest') = Len(rest) - 1
      /\ \A i \in 1 .. Len(rest) - 1 : rest'[i] = rest[i + 1]
  BY <1>1 DEF Chunk
<1>3. /\ flash' \in Seq(Chunks) /\ Len(flash') = Len(flash) + 1
      /\ \A i \in 1 .. Len(flash) : flash'[i] = flash[i]
      /\ flash'[Len(flash) + 1] = rest[1]
  BY <1>1, <1>2 DEF Chunk
<1>4. hashed' = flash'
  BY DEF Chunk, Written
<1>5. OtaTypeOK'
  BY <1>2, <1>3, <1>4 DEF OtaTypeOK, Chunk
<1>6. Written'
  BY <1>1, <1>3, <1>4 DEF Written, Chunk
<1>7. ASSUME steady'
      PROVE  /\ Len(rest) = Len(source) - Len(flash) /\ Len(source) \in Nat
             /\ \A i \in 1 .. Len(rest) : rest[i] = source[Len(flash) + i]
             /\ \A i \in 1 .. Len(flash) : flash[i] = source[i]
             /\ fullLen \in {0, Len(source)} /\ source' = source
  BY <1>1, <1>7, ImageIs DEF Carried, Followed, Chunk, OtaTypeOK
<1>8. Followed'
  BY <1>1, <1>2, <1>3, <1>7 DEF Followed, Chunk
<1>9. Carried'
  BY <1>1, <1>2, <1>3, <1>7 DEF Carried, Chunk
<1> QED
  BY <1>5, <1>6, <1>8, <1>9

LEMMA OtaStepInv == ASSUME OtaInv, OtaStep PROVE OtaInv'
BY AnswerStep, ResponseStep, ChunkStep, ForgetStep
   DEF OtaStep, RangeIgnored, BeginFails, WriteFails, Refuse

\* A partition that is complete, of a download in which the file was not
\* replaced, holds the file.
LEMMA WholeFile == ASSUME OtaInv, Complete, steady PROVE flash = source
<1>1. /\ flash \in Seq(Chunks) /\ source \in Seq(Chunks) /\ Len(flash) = Len(source)
      /\ \A i \in 1 .. Len(flash) : flash[i] = source[i]
  BY ImageIs DEF OtaInv, OtaTypeOK, Followed, Complete
<1> QED
  BY <1>1, SeqEqual

-------------------------------------------------------------------------------
(* The door.                                                                *)

LEMMA DoorStep ==
  ASSUME DoorInv, \/ \E hold \in Holds : Apply(hold)
                  \/ Poll \/ DoorTick \/ Reed \/ DoorBegin
  PROVE  DoorInv'
<1> USE DoorAssumption DEF DoorInv
<1>1. CASE \E hold \in Holds : Apply(hold)
  <2>1. PICK hold \in Holds : Apply(hold)
    BY <1>1
  <2>2. CASE \E to \in {"lock", "unlock"} : Latch(to)
    <3>1. PICK to \in {"lock", "unlock"} : Latch(to)
      BY <2>2
    <3>2. locked' \in BOOLEAN
      BY <3>1 DEF Latch
    <3> QED
      BY <3>1, <3>2 DEF Latch, DoorTypeOK, Pulsing
  <2>3. CASE hold # 0 /\ OpenFor(hold)
    BY <2>3 DEF OpenFor, DoorTypeOK, Pulsing
  <2> QED
    BY <2>1, <2>2, <2>3 DEF Apply
<1>2. CASE Poll
  <2>1. locked' \in BOOLEAN /\ open' \in BOOLEAN /\ ajar' \in BOOLEAN
    BY <1>2 DEF Poll, DoorTypeOK
  <2>2. DoorTypeOK'
    BY <1>2, <2>1 DEF Poll, DoorTypeOK
  <2>3. Pulsing'
    BY <1>2, <2>1 DEF Poll, DoorTypeOK, Pulsing, Expired
  <2> QED
    BY <2>2, <2>3
<1>3. CASE DoorTick
  BY <1>3 DEF DoorTick, Cap, DoorTypeOK, Pulsing
<1>4. CASE Reed
  BY <1>4 DEF Reed, DoorTypeOK, Pulsing
<1>5. CASE DoorBegin
  BY <1>5 DEF DoorBegin, DoorTypeOK, Pulsing
<1> QED
  BY <1>1, <1>2, <1>3, <1>4, <1>5

-------------------------------------------------------------------------------
(* The station.                                                             *)

LEMMA InitSInv == ASSUME Init PROVE SInv
<1>1. DoorInv
  BY DoorAssumption DEF Init, DoorInit, DoorInv, DoorTypeOK, Pulsing
<1>2. OtaInv
  BY OtaInitially DEF Init
<1> QED
  BY <1>1, <1>2, StationAssumption DEF Init, SInv, TypeOK, OtaInv, DoorInv

LEMMA OtaSame == ASSUME OtaInv, UNCHANGED otaVars PROVE OtaInv'
BY DEF otaVars, locals, OtaInv, OtaTypeOK, Written, Followed, Carried

LEMMA DoorSame == ASSUME DoorInv, UNCHANGED doorVars PROVE DoorInv'
BY DEF doorVars, DoorInv, DoorTypeOK, Pulsing

\* What a step of the station is to the download, and to the door.
LEMMA StepIs ==
  ASSUME [Next]_vars
  PROVE  /\ \/ \E d \in Images \union {NoDigest} : Start(d)
            \/ OtaStep \/ Forget \/ Swap \/ UNCHANGED otaVars
         /\ \/ \E hold \in Holds : Apply(hold)
            \/ Poll \/ DoorTick \/ Reed \/ DoorBegin \/ UNCHANGED doorVars
BY DEF Next, Loop, Quiet, DoorCommand, OtaCommand, OtaRuns, PlayBegins, PlayEnds, PollDoor,
       Setup, RestartIntoImage, RestartOrPowerCut, Time, vars

LEMMA ThreadStep ==
  ASSUME TypeOK, [Next]_vars
  PROVE  pc' \in {"mqtt", "ota", "play", "poll"} /\ restarts' \in 0 .. MaxRestarts
BY StationAssumption
   DEF TypeOK, Next, Loop, Quiet, DoorCommand, OtaCommand, OtaRuns, PlayBegins, PlayEnds,
       PollDoor, Setup, RestartIntoImage, RestartOrPowerCut, Time, vars

LEMMA NextSInv == ASSUME SInv, [Next]_vars PROVE SInv'
<1>1. OtaInv'
  BY StepIs, StartStep, OtaStepInv, ForgetStep, AnswerStep, OtaSame DEF SInv
<1>2. DoorInv'
  BY StepIs, DoorStep, DoorSame DEF SInv
<1>3. pc' \in {"mqtt", "ota", "play", "poll"} /\ restarts' \in 0 .. MaxRestarts
  BY ThreadStep DEF SInv
<1> QED
  BY <1>1, <1>2, <1>3 DEF SInv, TypeOK, OtaInv, DoorInv

LEMMA SInvAlways == Spec => []SInv
<1>1. Init => SInv
  BY InitSInv
<1>2. SInv /\ [Next]_vars => SInv'
  BY NextSInv
<1> QED
  BY <1>1, <1>2, PTL DEF Spec

\* Every variable of the station keeps its type.
THEOREM StationTypes == Spec => []TypeOK
<1>1. SInv => TypeOK
  BY DEF SInv
<1> QED
  BY <1>1, SInvAlways, PTL

\* Whatever is resumed and however often: what is written is hashed once and in
\* order, and continues the file (applyFromUrl, otaRangeHeader).
THEOREM ResumedDownloads == Spec => []ResumeContinues
<1>1. ASSUME OtaInv PROVE ResumeContinues
  <2>1. /\ flash \in Seq(Chunks) /\ source \in Seq(Chunks)
        /\ Len(flash) \in Nat /\ Len(source) \in Nat
    BY <1>1, ImageIs DEF OtaInv, OtaTypeOK
  <2>2. ASSUME steady PROVE flash = SubSeq(source, 1, Len(flash))
    <3>1. Len(flash) <= Len(source) /\ \A i \in 1 .. Len(flash) : flash[i] = source[i]
      BY <1>1, <2>2 DEF OtaInv, Followed
    <3>2. /\ SubSeq(source, 1, Len(flash)) \in Seq(Chunks)
          /\ Len(SubSeq(source, 1, Len(flash))) = Len(flash)
          /\ \A i \in 1 .. Len(flash) : SubSeq(source, 1, Len(flash))[i] = source[i]
      BY <2>1, <3>1
    <3> QED
      BY <2>1, <3>1, <3>2, SeqEqual
  <2> QED
    BY <1>1, <2>2 DEF OtaInv, Written, Followed, ResumeContinues
<1>2. SInv => ResumeContinues
  BY <1>1 DEF SInv
<1> QED
  BY <1>2, SInvAlways, PTL

\* No image is booted but the announced one, for all images, attempts,
\* replacements and power cuts (applyFromUrl).
THEOREM BootsAnnounced == Spec => OnlyAnnounced
<1> DEFINE Announced == boot' # boot => IF expect # NoDigest THEN boot' = expect
                                                            ELSE steady => boot' = source
<1>1. ASSUME SInv, [Next]_vars, boot' # boot PROVE Announced
  <2>1. Accept
    BY <1>1, StepIs DEF Start, OtaStep, NoResponse, RangeIgnored, BeginFails, Response, Chunk,
       WriteFails, EndResponse, Refuse, Forget, Swap, otaVars
  <2>2. boot' = flash /\ Complete /\ expect \in {NoDigest, hashed} /\ hashed = flash
    BY <1>1, <2>1 DEF Accept, SInv, OtaInv, Written
  <2>3. steady => flash = source
    BY <1>1, <2>2, WholeFile DEF SInv
  <2> QED
    BY <2>2, <2>3
<1>2. SInv /\ [Next]_vars => [Announced]_otaVars
  BY <1>1
<1> QED
  BY <1>2, SInvAlways, PTL DEF Spec, OnlyAnnounced

\* An opening lasts as long as its hold, for all holds (apply, poll).
THEOREM OpeningsLast == Spec => TimedOpeningLasts
<1> DEFINE Lasts == ~locked /\ wish = "timed" /\ locked' /\ wish' = "timed" => since > limit
<1>1. ASSUME SInv, [Next]_vars, ~locked, wish = "timed", locked', wish' = "timed"
      PROVE  since > limit
  <2>1. Poll
    BY <1>1, StepIs DEF Apply, Latch, OpenFor, DoorTick, Reed, DoorBegin, doorVars, SInv,
       DoorInv, DoorTypeOK
  <2>2. Expired /\ pulse = limit /\ age = since
    BY <1>1, <2>1 DEF Poll, SInv, DoorInv, Pulsing
  <2> QED
    BY <2>2 DEF Expired
<1>2. SInv /\ [Next]_vars => [Lasts]_doorVars
  BY <1>1
<1> QED
  BY <1>2, SInvAlways, PTL DEF Spec, TimedOpeningLasts
===============================================================================
