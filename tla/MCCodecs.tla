------------------------------- MODULE MCCodecs -------------------------------
(***************************************************************************)
(* Walks over the inputs of the pure parts: every 16-bit sample, every     *)
(* text of up to MaxText characters, every list of up to MaxLevels levels. *)
(***************************************************************************)
EXTENDS MuLaw, ConfigCodec, Topics

CONSTANTS
  Chars, MaxText,               \* characters of a text, bound on its length
  Levels, MaxLevels             \* levels of a topic, bound on their number

\* One device type, the text that Filled() uses.
MCKinds == {<<"7">>}

VARIABLES sample, text, topic
vars == <<sample, text, topic>>

FirstSample == -32768

\* The samples are walked from many places at once.
Init ==
  /\ sample \in {FirstSample + 256 * page : page \in 0 .. 255}
  /\ text = <<>> /\ topic = <<>>

\* Texts and topics are walked at the first sample only.
Walking == sample = FirstSample

NextSample ==
  /\ text = <<>> /\ topic = <<>> /\ sample < 32767
  /\ sample' = sample + 1
  /\ UNCHANGED <<text, topic>>

Type ==
  /\ Walking /\ topic = <<>> /\ Len(text) < MaxText
  /\ \E ch \in Chars : text' = Append(text, ch)
  /\ UNCHANGED <<sample, topic>>

AddLevel ==
  /\ Walking /\ text = <<>> /\ Len(topic) < MaxLevels
  /\ \E level \in Levels : topic' = Append(topic, level)
  /\ UNCHANGED <<sample, text>>

Next == NextSample \/ Type \/ AddLevel

Spec == Init /\ [][Next]_vars

-------------------------------------------------------------------------------
(* Properties.                                                              *)

Heard(s) == ulawDecode(ulawEncode(s))
Abs(x) == IF x < 0 THEN -x ELSE x

\* A sample comes back within the tolerance that the unit test uses for one in
\* 250 of them, for every one but the least, which has no negation in 16 bits
\* (ulawEncode).
WithinStep ==
  sample # FirstSample => Abs(Heard(sample) - sample) <= Abs(sample) \div 8 + 260

\* A louder sample is not heard as a softer one, across all segments.
UlawMonotone == [][sample \notin {sample', FirstSample} => Heard(sample) <= Heard(sample')]_vars

Filled(before, after) ==
  [name \in ToSet(Fields) |->
     CASE name \in {"deviceId", "wifiSsid"} -> before
       [] name \in {"wifiPass", "mqttUser", "timezone"} -> after
       [] name = "mqttPort" -> <<"1883">>
       [] OTHER -> <<"7">>]

\* Two neighbouring fields, the last field, and the separator between them:
\* whatever the texts, the fields that were written are read (enc, dec, split).
FieldsSurvive ==
  Walking => \A cut \in 0 .. Len(text) :
    LET fields == Filled(SubSeq(text, 1, cut), SubSeq(text, cut + 1, Len(text)))
    IN deserializeConfig(serializeConfig(fields)) = fields

\* A configuration that was read and is saved again, as migration and rotation
\* do, is read as the same: its defaults do not change again, nor do they make
\* it implausible, provided the id leaves room for "device:" in the user name
\* (save, load, fromFields, configPlausible).
SavedStays ==
  Walking => \A cut \in 0 .. Len(text) :
    LET once == ReadBack(Filled(SubSeq(text, 1, cut), SubSeq(text, cut + 1, Len(text))))
    IN once # Refused /\ Len(<<"device:">> \o once.deviceId) <= MaxField => ReadBack(once) = once

\* The cuts of a list into four names.
Names(levels) ==
  {<<SubSeq(levels, 1, c[1]), SubSeq(levels, c[1] + 1, c[2]),
     SubSeq(levels, c[2] + 1, c[3]), SubSeq(levels, c[3] + 1, Len(levels))>> :
      c \in {d \in (1 .. Len(levels) - 1) \X (1 .. Len(levels) - 1) \X (1 .. Len(levels) - 1) :
               d[1] < d[2] /\ d[2] < d[3]}}

\* A topic is never taken for another device's, whatever names it was built
\* from, and one of valid names is taken for its own (buildTopic, parseTopic).
TopicsUnambiguous ==
  Walking => \A n \in Names(topic) :
    LET parsed == parseTopic(buildTopic(n[1], n[2], n[3], n[4]))
    IN IF \A i \in 1 .. 4 : Len(n[i]) = 1 /\ isValidSegment(n[i][1]) /\ n[2][1] \in Kinds
       THEN parsed = n ELSE parsed = Invalid

Filters == UNION {[1 .. n -> {"home", "door", "+", "#"}] : n \in 1 .. 3}

\* MQTT's rule.
Covers(filter, levels) ==
  \E n \in 0 .. Len(filter) :
    /\ n <= Len(levels) /\ \A i \in 1 .. n : filter[i] \in {"+", levels[i]}
    /\ \/ n = Len(filter) /\ n = Len(levels)
       \/ n < Len(filter) /\ filter[n + 1] = "#"

\* topicMatches() is MQTT's rule, for topics that do not end in an empty level.
MatchesAsMqtt ==
  Walking /\ Seen(topic) = topic => \A f \in Filters : topicMatches(f, topic) <=> Covers(f, topic)
===============================================================================
