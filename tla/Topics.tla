-------------------------------- MODULE Topics --------------------------------
(***************************************************************************)
(* The topic scheme (src/spd_topics.h).  A topic is the sequence of its    *)
(* levels; a name that contains '/' is a sequence of more than one.        *)
(***************************************************************************)
EXTENDS Naturals, SequencesExt

CONSTANT ValidSegments          \* levels of up to 128 allowed characters

Kinds == {"feeder", "water", "door", "sensor", "gps", "camera", "scale", "hub"}

\* The names of the device types consist of allowed characters.
ASSUME TopicAssumption == Kinds \subseteq ValidSegments

isValidSegment(s) == s \in ValidSegments

buildTopic(kennelId, deviceType, deviceId, leaf) ==
  <<"kennel">> \o kennelId \o deviceType \o deviceId \o leaf

Invalid == <<>>

\* Variant of parseTopic: what follows the fifth level is ignored.
parseTopicPrefix(topic) ==
  IF /\ Len(topic) >= 5 /\ topic[1] = "kennel" /\ topic[3] \in Kinds
     /\ \A i \in {2, 4, 5} : isValidSegment(topic[i])
  THEN [i \in 1 .. 4 |-> <<topic[i + 1]>>] ELSE Invalid

\* kennelId, deviceType, deviceId and leaf.
parseTopic(topic) ==
  IF /\ Len(topic) = 5 /\ topic[1] = "kennel" /\ topic[3] \in Kinds
     /\ \A i \in {2, 4, 5} : isValidSegment(topic[i])
  THEN [i \in 1 .. 4 |-> <<topic[i + 1]>>] ELSE Invalid

\* The levels next() yields: not the empty one behind a final '/'.
Seen(topic) == IF topic # <<>> /\ Last(topic) = "" THEN Front(topic) ELSE topic

\* Variant of topicMatches: a filter that ends before the topic matches.
topicMatchesPrefix(filter, topic) ==
  LET f == Seen(filter)
      t == Seen(topic)
      match[i \in 1 .. Len(f) + 1] ==
        \/ i > Len(f)
        \/ i <= Len(f) /\ f[i] = "#"
        \/ i <= Len(f) /\ i <= Len(t) /\ f[i] \in {"+", t[i]} /\ match[i + 1]
  IN filter = topic \/ match[1]

topicMatches(filter, topic) ==
  LET f == Seen(filter)
      t == Seen(topic)
      match[i \in 1 .. Len(f) + 1] ==
        \/ i > Len(f) /\ i > Len(t)
        \/ i <= Len(f) /\ f[i] = "#"
        \/ i <= Len(f) /\ i <= Len(t) /\ f[i] \in {"+", t[i]} /\ match[i + 1]
  IN filter = topic \/ match[1]
===============================================================================
