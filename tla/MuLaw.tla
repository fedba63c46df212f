-------------------------------- MODULE MuLaw --------------------------------
(***************************************************************************)
(* G.711 mu-law as src/spd_ulaw.h computes it, in integers of 8 and 16     *)
(* bits.                                                                   *)
(***************************************************************************)
EXTENDS Integers, FiniteSetsExt

BIAS == 132
CLIP == 32635

Int16(x) == ((x + 32768) % 65536) - 32768

\* Two's complement, also for a negative x.
Bit(x, i) == (x \div 2 ^ i) % 2

\* Variant of Magnitude: the bias is added without a clip.
MagnitudeUnclipped(pcm) == Int16(Int16(IF pcm < 0 THEN -pcm ELSE pcm) + BIAS)

Magnitude(pcm) ==
  LET mag == Int16(IF pcm < 0 THEN -pcm ELSE pcm)
  IN Int16((IF mag > CLIP THEN CLIP ELSE mag) + BIAS)

\* Variant of Exponent: the search stops a segment early.
ExponentFromOne(mag) == Max({1} \union {e \in 1 .. 7 : Bit(mag, e + 7) = 1})

Exponent(mag) == Max({0} \union {e \in 1 .. 7 : Bit(mag, e + 7) = 1})

ulawEncode(pcm) ==
  LET mag == Magnitude(pcm)
      e   == Exponent(mag)
      m   == (mag \div 2 ^ (e + 3)) % 16
  IN 255 - ((IF pcm < 0 THEN 128 ELSE 0) + 16 * e + m)

ulawDecode(u) ==
  LET v == 255 - u
      s == (8 * (v % 16) + BIAS) * 2 ^ ((v \div 16) % 8) - BIAS
  IN IF v >= 128 THEN -s ELSE s
==============================================================================
