------------------------------ MODULE OtaUpdater ------------------------------
(***************************************************************************)
(* OtaUpdater::applyFromUrl() (src/spd_ota.h): an image is streamed to the *)
(* flash and into a running SHA-256, over up to MaxAttempts responses; a   *)
(* stalled or dropped one is resumed with an HTTP Range request.           *)
(*                                                                         *)
(* An image is a sequence of chunks.  A digest is modelled by the image it *)
(* is the digest of.  The server is external: it answers or does not,      *)
(* honours the Range or ignores it, and the file it serves may be replaced *)
(* at any time.                                                            *)
(***************************************************************************)
EXTENDS Naturals, Sequences

CONSTANTS
  Chunks,                       \* what a buffer of the download may hold
  Images,                       \* the files the url may hold
  NoDigest,                     \* the command has no sha256
  MaxAttempts,                  \* kMaxAttempts
  MaxSwaps                      \* bound: replacements of the file

ASSUME OtaAssumption ==
  /\ Images \subseteq Seq(Chunks) \ {<<>>}
  /\ NoDigest \notin Images
  /\ MaxAttempts \in Nat \ {0} /\ MaxSwaps \in Nat

VARIABLES
  ota,                          \* "idle", "attempt" (before a GET), "stream"
                                \* (reading a response), "verify", "restart"
  attempt, fullLen,             \* locals; fullLen 0 is the code's -1
  flash, hashed,                \* chunks written (total is its length), hashed
  expect,                       \* expectSha256
  rest,                         \* what the present response still carries
  source, swaps,                \* the file at the url; counter for the bound
  boot,                         \* the image the boot loader starts
  steady                        \* history: no replacement since the command

locals  == <<attempt, fullLen, flash, hashed, expect, rest>>
otaVars == <<ota, locals, source, swaps, boot, steady>>

OtaInit ==
  /\ ota = "idle" /\ attempt = 0 /\ fullLen = 0 /\ flash = <<>> /\ hashed = <<>>
  /\ expect = NoDigest /\ rest = <<>> /\ steady = TRUE
  /\ source \in Images /\ boot \in Images /\ swaps = 0

-------------------------------------------------------------------------------

\* The `ota` command.
Start(digest) ==
  /\ ota = "idle"
  /\ ota' = "attempt" /\ expect' = digest /\ steady' = TRUE
  /\ UNCHANGED <<attempt, fullLen, flash, hashed, rest, source, swaps, boot>>

\* Return, or lose power: the resume state is gone.
Forget ==
  /\ ota' = "idle" /\ attempt' = 0 /\ fullLen' = 0 /\ flash' = <<>> /\ hashed' = <<>>
  /\ expect' = NoDigest /\ rest' = <<>> /\ steady' = TRUE
  /\ UNCHANGED <<source, swaps, boot>>

\* Variant of Retry: one attempt too many.
RetryOnceMore ==
  /\ attempt' = attempt + 1
  /\ ota' = IF attempt < MaxAttempts THEN "attempt" ELSE "verify"

\* continue.
Retry ==
  /\ attempt' = attempt + 1
  /\ ota' = IF attempt + 1 < MaxAttempts THEN "attempt" ELSE "verify"

\* No connection, a status that is not wanted, or nothing left to send.
NoResponse ==
  /\ ota = "attempt" /\ Retry
  /\ UNCHANGED <<fullLen, flash, hashed, expect, rest, source, swaps, boot, steady>>

\* "range-not-honored": 200 to a request for the remainder.
RangeIgnored == ota = "attempt" /\ flash # <<>> /\ Forget

\* "update-begin".
BeginFails == ota = "attempt" /\ fullLen = 0 /\ Forget

\* Variant of Missing: the Range begins at the last byte that was written.
MissingFromLast == SubSeq(source, IF flash = <<>> THEN 1 ELSE Len(flash), Len(source))

\* Range "bytes=total-" (otaRangeHeader).
Missing == SubSeq(source, Len(flash) + 1, Len(source))

\* 200 with the whole file, or 206 with what is missing.
Response ==
  /\ ota = "attempt" /\ Len(flash) < Len(source)
  /\ fullLen' = (IF fullLen = 0 THEN Len(source) ELSE fullLen)
  /\ rest' = Missing
  /\ ota' = "stream"
  /\ UNCHANGED <<attempt, flash, hashed, expect, source, swaps, boot, steady>>

Chunk ==
  /\ ota = "stream" /\ rest # <<>> /\ Len(flash) < fullLen
  /\ flash' = Append(flash, Head(rest)) /\ hashed' = Append(hashed, Head(rest))
  /\ rest' = Tail(rest)
  /\ UNCHANGED <<ota, attempt, fullLen, expect, source, swaps, boot, steady>>

\* "write": the flash fails, or fullLen is passed.
WriteFails == ota = "stream" /\ rest # <<>> /\ Forget

\* Variant of EndResponse: a response that stalls costs no attempt.
EndResponseFree ==
  /\ ota = "stream"
  /\ ota' = IF Len(flash) >= fullLen THEN "verify" ELSE "attempt"
  /\ rest' = <<>>
  /\ UNCHANGED <<attempt, fullLen, flash, hashed, expect, source, swaps, boot, steady>>

\* The response is complete, stalls for kStallMs, or its connection drops.
EndResponse ==
  /\ ota = "stream"
  /\ IF Len(flash) >= fullLen THEN ota' = "verify" /\ UNCHANGED attempt ELSE Retry
  /\ rest' = <<>>
  /\ UNCHANGED <<fullLen, flash, hashed, expect, source, swaps, boot, steady>>

\* Variant of Complete: what came is taken for the image.
CompleteAny == flash # <<>>

Complete == fullLen # 0 /\ Len(flash) = fullLen

\* "short-read", "sha-mismatch", or "update-end".
Refuse == ota = "verify" /\ Forget

Accept ==
  /\ ota = "verify" /\ Complete /\ expect \in {NoDigest, hashed}
  /\ boot' = flash /\ ota' = "restart"
  /\ UNCHANGED <<locals, source, swaps, steady>>

\* Somebody publishes another file under the url.
Swap ==
  /\ swaps < MaxSwaps
  /\ source' \in Images \ {source} /\ steady' = FALSE /\ swaps' = swaps + 1
  /\ UNCHANGED <<ota, locals, boot>>

OtaStep ==
  \/ NoResponse \/ RangeIgnored \/ BeginFails \/ Response \/ Chunk \/ WriteFails
  \/ EndResponse \/ Refuse \/ Accept

-------------------------------------------------------------------------------
(* Properties.                                                              *)

\* Types.
OtaTypeOK ==
  /\ ota \in {"idle", "attempt", "stream", "verify", "restart"}
  /\ attempt \in 0 .. MaxAttempts /\ (ota \in {"attempt", "stream"} => attempt < MaxAttempts)
  /\ flash \in Seq(Chunks) /\ hashed \in Seq(Chunks) /\ rest \in Seq(Chunks)
  /\ boot \in Seq(Chunks) /\ fullLen \in Nat
  /\ expect \in Images \union {NoDigest}
  /\ source \in Images /\ swaps \in 0 .. MaxSwaps /\ steady \in BOOLEAN

\* However often a download is resumed, everything written is hashed once and
\* in order, and is the beginning of the file, unless that was replaced; the
\* partition holds no more than was announced (applyFromUrl, otaRangeHeader).
ResumeContinues ==
  /\ hashed = flash /\ Len(flash) <= fullLen
  /\ steady => /\ flash = SubSeq(source, 1, Len(flash))
               /\ fullLen \in {0, Len(source)}

\* The device comes to boot another image only if it is the one the command
\* announced, whatever was resumed and replaced on the way; without a digest,
\* only the file at the url, if it was not replaced during the download
\* (applyFromUrl).
OnlyAnnounced ==
  [][boot' # boot => IF expect # NoDigest THEN boot' = expect
                                          ELSE steady => boot' = source]_otaVars

\* A download comes to an end, with the device restarting or serving its
\* commands again (kMaxAttempts, kStallMs).
DownloadEnds == ota # "idle" ~> ota = "idle"
===============================================================================
