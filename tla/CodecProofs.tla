------------------------------ MODULE CodecProofs ------------------------------
(***************************************************************************)
(* Proofs about the pure parts of MCCodecs: speech, topics and the text of *)
(* the configuration, for inputs of every length.                          *)
(***************************************************************************)
EXTENDS MCCodecs, SequenceTheorems, NaturalsInduction, WellFoundedInduction, TLAPS

-------------------------------------------------------------------------------
(* The walk.                                                                *)

Walk ==
  /\ sample \in FirstSample .. 32767
  /\ text \in Seq(Chars) /\ topic \in Seq(Levels)

LEMMA FirstIs == FirstSample \in Int /\ FirstSample + 32768 = 0
BY DEF FirstSample

LEMMA WalkAlways == Spec => []Walk
<1>1. Init => Walk
  <2> SUFFICES ASSUME Init PROVE Walk
    OBVIOUS
  <2>1. PICK page \in 0 .. 255 : sample = FirstSample + 256 * page
    BY DEF Init
  <2>2. sample \in FirstSample .. 32767
    BY <2>1, FirstIs
  <2> QED
    BY <2>2 DEF Init, Walk
<1>2. Walk /\ [Next]_vars => Walk'
  <2> SUFFICES ASSUME Walk, [Next]_vars PROVE Walk'
    OBVIOUS
  <2>1. CASE NextSample
    <3>1. sample < 32767 /\ sample' = sample + 1 /\ text' = text /\ topic' = topic
      BY <2>1 DEF NextSample
    <3> QED
      BY <3>1, FirstIs DEF Walk
  <2>2. CASE Type
    BY <2>2 DEF Walk, Type
  <2>3. CASE AddLevel
    BY <2>3 DEF Walk, AddLevel
  <2>4. CASE UNCHANGED vars
    BY <2>4 DEF Walk, vars
  <2> QED
    BY <2>1, <2>2, <2>3, <2>4 DEF Next
<1> QED
  BY <1>1, <1>2, PTL DEF Spec

-------------------------------------------------------------------------------
(* Topics.                                                                  *)

Joins(T, joined, s, u) ==
  /\ joined \in Seq(T) /\ Len(joined) = Len(s) + Len(u)
  /\ \A i \in 1 .. Len(s) : joined[i] = s[i]
  /\ joined[Len(s) + 1] = u[1]

LEMMA Joined ==
  ASSUME NEW T, NEW s \in Seq(T), NEW u \in Seq(T), Len(u) # 0
  PROVE  Joins(T, s \o u, s, u)
<1>1. Len(s) \in Nat /\ Len(u) \in Nat \ {0}
  OBVIOUS
<1>2. /\ s \o u \in Seq(T) /\ Len(s \o u) = Len(s) + Len(u)
      /\ \A i \in 1 .. Len(s) + Len(u) : (s \o u)[i] = IF i <= Len(s) THEN s[i] ELSE u[i - Len(s)]
  BY ConcatProperties
<1> QED
  BY <1>1, <1>2 DEF Joins

\* A topic of five levels is built from four names of one level.
LEMMA BuildIs ==
  ASSUME NEW S, NEW a \in Seq(S), NEW b \in Seq(S), NEW c \in Seq(S), NEW d \in Seq(S),
         Len(a) # 0, Len(b) # 0, Len(c) # 0, Len(d) # 0,
         NEW levels, levels = buildTopic(a, b, c, d)
  PROVE  \/ /\ Len(a) = 1 /\ Len(b) = 1 /\ Len(c) = 1 /\ Len(d) = 1
            /\ Len(levels) = 5 /\ levels[1] = "kennel"
            /\ levels[2] = a[1] /\ levels[3] = b[1] /\ levels[4] = c[1] /\ levels[5] = d[1]
         \/ /\ ~(Len(a) = 1 /\ Len(b) = 1 /\ Len(c) = 1 /\ Len(d) = 1)
            /\ Len(levels) \in Nat /\ Len(levels) > 5
<1> DEFINE T == S \union {"kennel"}
           k == <<"kennel">>
<1>1. /\ k \in Seq(T) /\ Len(k) = 1 /\ k[1] = "kennel"
      /\ a \in Seq(T) /\ b \in Seq(T) /\ c \in Seq(T) /\ d \in Seq(T)
  OBVIOUS
<1>2. levels = k \o a \o b \o c \o d
  BY DEF buildTopic
<1> HIDE DEF T, k
<1>3. PICK ka, kb, kc : ka = k \o a /\ kb = ka \o b /\ kc = kb \o c
  OBVIOUS
<1>4. levels = kc \o d
  BY <1>2, <1>3
<1>5. Joins(T, ka, k, a) /\ ka \in Seq(T)
  <2>1. Joins(T, ka, k, a)
    BY <1>1, <1>3, Joined
  <2> QED
    BY <2>1 DEF Joins
<1>6. Joins(T, kb, ka, b) /\ kb \in Seq(T)
  <2>1. Joins(T, kb, ka, b)
    BY <1>1, <1>3, <1>5, Joined
  <2> QED
    BY <2>1 DEF Joins
<1>7. Joins(T, kc, kb, c) /\ kc \in Seq(T)
  <2>1. Joins(T, kc, kb, c)
    BY <1>1, <1>3, <1>6, Joined
  <2> QED
    BY <2>1 DEF Joins
<1>8. Joins(T, levels, kc, d)
  BY <1>1, <1>4, <1>7, Joined
<1>9. /\ Len(a) \in Nat \ {0} /\ Len(b) \in Nat \ {0} /\ Len(c) \in Nat \ {0} /\ Len(d) \in Nat \ {0}
      /\ Len(ka) = 1 + Len(a) /\ Len(kb) = Len(ka) + Len(b) /\ Len(kc) = Len(kb) + Len(c)
      /\ Len(levels) = Len(kc) + Len(d)
  <2>1. Len(a) \in Nat /\ Len(b) \in Nat /\ Len(c) \in Nat /\ Len(d) \in Nat
    BY <1>1, LenProperties
  <2> QED
    BY <2>1, <1>1, <1>5, <1>6, <1>7, <1>8 DEF Joins
<1>10. CASE Len(a) = 1 /\ Len(b) = 1 /\ Len(c) = 1 /\ Len(d) = 1
  <2>1. Len(ka) = 2 /\ Len(kb) = 3 /\ Len(kc) = 4 /\ Len(levels) = 5
    BY <1>9, <1>10
  <2>2. ka[1] = "kennel" /\ ka[2] = a[1]
    BY <1>1, <1>5 DEF Joins
  <2>3. kb[1] = "kennel" /\ kb[2] = a[1] /\ kb[3] = b[1]
    BY <2>1, <2>2, <1>6 DEF Joins
  <2>4. kc[1] = "kennel" /\ kc[2] = a[1] /\ kc[3] = b[1] /\ kc[4] = c[1]
    BY <2>1, <2>3, <1>7 DEF Joins
  <2> QED
    BY <2>1, <2>4, <1>8, <1>10 DEF Joins
<1>11. CASE ~(Len(a) = 1 /\ Len(b) = 1 /\ Len(c) = 1 /\ Len(d) = 1)
  <2>1. \A v, x, y, z \in Nat \ {0} : ~(v = 1 /\ x = 1 /\ y = 1 /\ z = 1) => v + x + y + z > 4
    OBVIOUS
  <2>2. Len(a) + Len(b) + Len(c) + Len(d) > 4
    BY <2>1, <1>9, <1>11, Zenon
  <2>3. Len(levels) \in Nat /\ Len(levels) > 5
    BY <2>2, <1>9
  <2> QED
    BY <2>3, <1>11
<1> QED
  BY <1>10, <1>11

LEMMA One == ASSUME NEW S, NEW s \in Seq(S), Len(s) = 1 PROVE s = <<s[1]>> /\ s[1] \in S
<1>1. s[1] \in S /\ <<s[1]>> \in Seq(S) /\ Len(<<s[1]>>) = 1
  OBVIOUS
<1>2. \A i \in 1 .. Len(s) : s[i] = <<s[1]>>[i]
  OBVIOUS
<1> QED
  BY <1>1, <1>2, SeqEqual

LEMMA NamesAre ==
  ASSUME NEW levels \in Seq(Levels), NEW n \in Names(levels)
  PROVE  \E a, b, c, d \in Seq(Levels) :
           /\ n = <<a, b, c, d>>
           /\ Len(a) # 0 /\ Len(b) # 0 /\ Len(c) # 0 /\ Len(d) # 0
<1>1. PICK d1, d2, d3 \in 1 .. Len(levels) - 1 :
        /\ d1 < d2 /\ d2 < d3
        /\ n = <<SubSeq(levels, 1, d1), SubSeq(levels, d1 + 1, d2),
                 SubSeq(levels, d2 + 1, d3), SubSeq(levels, d3 + 1, Len(levels))>>
  BY DEF Names
<1>2. \A i, j \in Nat : 1 <= i /\ i <= j /\ j <= Len(levels) =>
         SubSeq(levels, i, j) \in Seq(Levels) /\ Len(SubSeq(levels, i, j)) # 0
  OBVIOUS
<1> DEFINE a == SubSeq(levels, 1, d1)
           b == SubSeq(levels, d1 + 1, d2)
           c == SubSeq(levels, d2 + 1, d3)
           d == SubSeq(levels, d3 + 1, Len(levels))
<1>3. /\ a \in Seq(Levels) /\ b \in Seq(Levels) /\ c \in Seq(Levels) /\ d \in Seq(Levels)
      /\ Len(a) # 0 /\ Len(b) # 0 /\ Len(c) # 0 /\ Len(d) # 0
  BY <1>1, <1>2, LenProperties, SMTT(60)
<1> QED
  BY <1>1, <1>3

\* A topic is never taken for another device's, whatever names and levels it
\* was built from (buildTopic, parseTopic).
THEOREM NoOthersTopic == Spec => []TopicsUnambiguous
<1>1. Walk => TopicsUnambiguous
  <2> SUFFICES ASSUME Walk, NEW n \in Names(topic)
               PROVE  LET parsed == parseTopic(buildTopic(n[1], n[2], n[3], n[4]))
                      IN IF \A i \in 1 .. 4 : Len(n[i]) = 1 /\ isValidSegment(n[i][1]) /\ n[2][1] \in Kinds
                         THEN parsed = n ELSE parsed = Invalid
    BY DEF TopicsUnambiguous
  <2>1. PICK a, b, c, d \in Seq(Levels) :
          /\ n = <<a, b, c, d>>
          /\ Len(a) # 0 /\ Len(b) # 0 /\ Len(c) # 0 /\ Len(d) # 0
    BY NamesAre DEF Walk
  <2> DEFINE levels == buildTopic(a, b, c, d)
             Short == Len(a) = 1 /\ Len(b) = 1 /\ Len(c) = 1 /\ Len(d) = 1
             Good == /\ isValidSegment(a[1]) /\ isValidSegment(b[1])
                     /\ isValidSegment(c[1]) /\ isValidSegment(d[1]) /\ b[1] \in Kinds
  <2>2. /\ n[1] = a /\ n[2] = b /\ n[3] = c /\ n[4] = d
        /\ (\A i \in 1 .. 4 : Len(n[i]) = 1 /\ isValidSegment(n[i][1]) /\ n[2][1] \in Kinds) <=> Short /\ Good
    BY <2>1
  <2>3. \/ /\ Short /\ Len(levels) = 5 /\ levels[1] = "kennel"
           /\ levels[2] = a[1] /\ levels[3] = b[1] /\ levels[4] = c[1] /\ levels[5] = d[1]
        \/ ~Short /\ Len(levels) \in Nat /\ Len(levels) > 5
    BY <2>1, BuildIs
  <2> HIDE DEF levels
  <2>4. parseTopic(levels) = IF Short /\ Good THEN <<a, b, c, d>> ELSE Invalid
    <3>1. CASE Short
      <4>1. /\ a = <<a[1]>> /\ b = <<b[1]>> /\ c = <<c[1]>> /\ d = <<d[1]>>
        BY <2>1, <3>1, One
      <4>2. [i \in 1 .. 4 |-> <<levels[i + 1]>>] = <<a, b, c, d>>
        BY <2>3, <3>1, <4>1
      <4>3. /\ (\A i \in {2, 4, 5} : isValidSegment(levels[i])) <=>
                  isValidSegment(a[1]) /\ isValidSegment(c[1]) /\ isValidSegment(d[1])
        BY <2>3, <3>1
      <4>4. b[1] \in Kinds => isValidSegment(b[1])
        BY TopicAssumption DEF isValidSegment
      <4> QED
        BY <2>3, <3>1, <4>2, <4>3, <4>4 DEF parseTopic
    <3>2. CASE ~Short
      <4>1. Len(levels) # 5
        <5>1. \A i \in Nat : i > 5 => i # 5
          OBVIOUS
        <5> QED
          BY <5>1, <2>3, <3>2, Zenon
      <4> HIDE DEF Short, Good
      <4> QED
        BY <4>1, <3>2 DEF parseTopic
    <3> QED
      BY <3>1, <3>2
  <2>5. n # Invalid
    BY <2>1 DEF Invalid
  <2> QED
    BY <2>1, <2>2, <2>4 DEF levels
<1> QED
  BY <1>1, WalkAlways, PTL

-------------------------------------------------------------------------------
(* Filters.  Induction is by the least counterexample.                      *)

LEMMA Least == ASSUME NEW T, T \subseteq Nat, T # {} PROVE \E x \in T : \A y \in T : x <= y
<1>1. /\ IsWellFoundedOn(OpToRel(<, Nat), Nat)
      /\ \A x, y \in Nat : x < y => <<x, y>> \in OpToRel(<, Nat)
  BY NatLessThanWellFounded DEF OpToRel
<1>2. \E R : IsWellFoundedOn(R, Nat) /\ \A x, y \in Nat : x < y => <<x, y>> \in R
  BY <1>1
<1>3. PICK R : IsWellFoundedOn(R, Nat) /\ \A x, y \in Nat : x < y => <<x, y>> \in R
  BY <1>2
<1>4. \E x \in T : \A y \in T : ~(<<y, x>> \in R)
  BY <1>3, WFMin, ZenonT(90)
<1>5. PICK x \in T : \A y \in T : ~(<<y, x>> \in R)
  BY <1>4
<1>6. \A y \in T : x <= y
  <2> TAKE y \in T
  <2>1. x \in Nat /\ y \in Nat /\ ~(y < x)
    BY <1>3, <1>5
  <2> QED
    BY <2>1
<1> QED
  BY <1>5, <1>6

\* One turn of the loop over the levels, given the turns behind it.
Turn(f, t, m, i) ==
  \/ i > Len(f) /\ i > Len(t)
  \/ i <= Len(f) /\ f[i] = "#"
  \/ i <= Len(f) /\ i <= Len(t) /\ f[i] \in {"+", t[i]} /\ m[i + 1]

Solves(f, t, m) == m = [i \in 1 .. Len(f) + 1 |-> Turn(f, t, m, i)]

\* What MQTT's rule says of the levels from i on.
Rest(f, t, i) ==
  IF i > Len(t) + 1 THEN i > Len(f) \/ f[i] = "#"
  ELSE \E n \in i - 1 .. Len(f) :
         /\ n <= Len(t) /\ \A k \in i .. n : f[k] \in {"+", t[k]}
         /\ \/ n = Len(f) /\ n = Len(t)
            \/ n < Len(f) /\ f[n + 1] = "#"

LEMMA RestTurns ==
  ASSUME NEW S, NEW f \in Seq(S), NEW t \in Seq(S), NEW i \in 1 .. Len(f) + 1,
         NEW m, i <= Len(f) => m[i + 1] = Rest(f, t, i + 1)
  PROVE  Turn(f, t, m, i) = Rest(f, t, i)
<1>1. Len(f) \in Nat /\ Len(t) \in Nat
  OBVIOUS
<1>2. CASE i > Len(t) + 1
  <2>1. Turn(f, t, m, i) <=> i > Len(f) \/ f[i] = "#"
    BY <1>1, <1>2 DEF Turn
  <2>2. Rest(f, t, i) <=> i > Len(f) \/ f[i] = "#"
    BY <1>1, <1>2 DEF Rest
  <2> QED
    BY <2>1, <2>2 DEF Turn, Rest
<1>3. CASE i <= Len(t) + 1 /\ i = Len(f) + 1
  <2>1. Rest(f, t, i) <=> Len(f) = Len(t)
    BY <1>1, <1>3 DEF Rest
  <2>2. Turn(f, t, m, i) <=> Len(f) = Len(t)
    BY <1>1, <1>3 DEF Turn
  <2> QED
    BY <2>1, <2>2 DEF Turn, Rest
<1>4. CASE i <= Len(t) + 1 /\ i <= Len(f) /\ f[i] = "#"
  <2>1. Rest(f, t, i)
    BY <1>1, <1>4, SMTT(60) DEF Rest
  <2> QED
    BY <2>1, <1>4 DEF Turn
<1>5. CASE i <= Len(t) + 1 /\ i <= Len(f) /\ f[i] # "#"
  <2>1. Rest(f, t, i) <=> i <= Len(t) /\ f[i] \in {"+", t[i]} /\ Rest(f, t, i + 1)
    <3>1. ASSUME Rest(f, t, i) PROVE i <= Len(t) /\ f[i] \in {"+", t[i]} /\ Rest(f, t, i + 1)
      <4>1. PICK n \in i - 1 .. Len(f) :
              /\ n <= Len(t) /\ \A k \in i .. n : f[k] \in {"+", t[k]}
              /\ \/ n = Len(f) /\ n = Len(t)
                 \/ n < Len(f) /\ f[n + 1] = "#"
        BY <1>1, <1>5, <3>1 DEF Rest
      <4>2. n >= i
        BY <1>1, <1>5, <4>1
      <4> QED
        BY <1>1, <1>5, <4>1, <4>2 DEF Rest
    <3>2. ASSUME i <= Len(t), f[i] \in {"+", t[i]}, Rest(f, t, i + 1) PROVE Rest(f, t, i)
      <4>1. PICK n \in i .. Len(f) :
              /\ n <= Len(t) /\ \A k \in i + 1 .. n : f[k] \in {"+", t[k]}
              /\ \/ n = Len(f) /\ n = Len(t)
                 \/ n < Len(f) /\ f[n + 1] = "#"
        BY <1>1, <1>5, <3>2 DEF Rest
      <4>2. \A k \in i .. n : f[k] \in {"+", t[k]}
        BY <1>1, <3>2, <4>1
      <4> QED
        BY <1>1, <1>5, <4>1, <4>2 DEF Rest
    <3> QED
      BY <3>1, <3>2
  <2>2. Turn(f, t, m, i) <=> i <= Len(t) /\ f[i] \in {"+", t[i]} /\ Rest(f, t, i + 1)
    BY <1>1, <1>5 DEF Turn
  <2> QED
    BY <2>1, <2>2 DEF Turn, Rest
<1> QED
  BY <1>1, <1>2, <1>3, <1>4, <1>5

LEMMA SolutionIs ==
  ASSUME NEW S, NEW f \in Seq(S), NEW t \in Seq(S)
  PROVE  /\ Solves(f, t, [i \in 1 .. Len(f) + 1 |-> Rest(f, t, i)])
         /\ \A m : Solves(f, t, m) => m[1] = Rest(f, t, 1)
<1>1. Len(f) \in Nat /\ Len(t) \in Nat
  OBVIOUS
<1>2. Solves(f, t, [i \in 1 .. Len(f) + 1 |-> Rest(f, t, i)])
  <2> DEFINE r == [i \in 1 .. Len(f) + 1 |-> Rest(f, t, i)]
  <2>1. \A i \in 1 .. Len(f) + 1 : Turn(f, t, r, i) = Rest(f, t, i)
    <3> TAKE i \in 1 .. Len(f) + 1
    <3>1. i <= Len(f) => r[i + 1] = Rest(f, t, i + 1)
      BY <1>1
    <3> QED
      BY <3>1, RestTurns
  <2> QED
    BY <2>1 DEF Solves
<1>3. ASSUME NEW m, Solves(f, t, m) PROVE m[1] = Rest(f, t, 1)
  <2> DEFINE T == {n \in 0 .. Len(f) : m[Len(f) + 1 - n] # Rest(f, t, Len(f) + 1 - n)}
  <2>1. CASE T = {}
    <3>1. Len(f) \notin T /\ Len(f) \in 0 .. Len(f)
      BY <2>1, <1>1
    <3>2. m[Len(f) + 1 - Len(f)] = Rest(f, t, Len(f) + 1 - Len(f))
      BY <3>1
    <3>3. Len(f) + 1 - Len(f) = 1
      BY <1>1
    <3> QED
      BY <3>2, <3>3
  <2>2. CASE T # {}
    <3>1. PICK n \in T : \A k \in T : n <= k
      <4>1. T \subseteq Nat
        BY <1>1
      <4> QED
        BY <2>2, <4>1, Least
    <3> DEFINE i == Len(f) + 1 - n
    <3>2. n \in 0 .. Len(f) /\ i \in 1 .. Len(f) + 1 /\ m[i] # Rest(f, t, i)
      BY <3>1, <1>1
    <3>3. i <= Len(f) => m[i + 1] = Rest(f, t, i + 1)
      <4> SUFFICES ASSUME i <= Len(f) PROVE m[i + 1] = Rest(f, t, i + 1)
        OBVIOUS
      <4>1. n - 1 \in 0 .. Len(f) /\ n - 1 < n /\ Len(f) + 1 - (n - 1) = i + 1
        BY <3>2, <1>1
      <4>2. n - 1 \notin T
        BY <3>1, <3>2, <4>1
      <4> QED
        BY <4>1, <4>2
    <3>4. m[i] = Turn(f, t, m, i)
      BY <3>2, <1>3 DEF Solves
    <3> HIDE DEF i
    <3>5. Turn(f, t, m, i) = Rest(f, t, i)
      BY <3>2, <3>3, RestTurns
    <3> QED
      BY <3>2, <3>4, <3>5
  <2> QED
    BY <2>1, <2>2
<1> QED
  BY <1>2, <1>3

\* topicMatches() is MQTT's rule for every filter and topic that do not end in
\* an empty level.
LEMMA MatchIs ==
  ASSUME NEW S, NEW f \in Seq(S), NEW t \in Seq(S), Seen(f) = f, Seen(t) = t
  PROVE  topicMatches(f, t) <=> Covers(f, t)
<1>1. Len(f) \in Nat /\ Len(t) \in Nat
  OBVIOUS
<1>2. topicMatches(f, t) <=> f = t \/ (CHOOSE m : Solves(f, t, m))[1]
  BY DEF topicMatches, Solves, Turn
<1>3. (CHOOSE m : Solves(f, t, m))[1] = Rest(f, t, 1)
  BY SolutionIs
<1>4. Rest(f, t, 1) <=> Covers(f, t)
  BY <1>1 DEF Rest, Covers
<1>5. f = t => Covers(f, t)
  BY <1>1 DEF Covers
<1> QED
  BY <1>2, <1>3, <1>4, <1>5

\* Filters match as MQTT says (topicMatches).
THEOREM FiltersAsMqtt == Spec => []MatchesAsMqtt
<1>1. Walk => MatchesAsMqtt
  <2> SUFFICES ASSUME Walk, Seen(topic) = topic, NEW f \in Filters
               PROVE  topicMatches(f, topic) <=> Covers(f, topic)
    BY DEF MatchesAsMqtt
  <2> DEFINE S == Levels \union {"home", "door", "+", "#"}
  <2>1. topic \in Seq(S)
    BY DEF Walk
  <2>2. f \in Seq(S) /\ Len(f) \in 1 .. 3 /\ f[Len(f)] \in {"home", "door", "+", "#"}
    <3>1. PICK n \in 1 .. 3 : f \in [1 .. n -> {"home", "door", "+", "#"}]
      BY DEF Filters
    <3> HIDE DEF S
    <3>2. f \in Seq({"home", "door", "+", "#"}) /\ Len(f) = n
      BY <3>1
    <3>3. {"home", "door", "+", "#"} \subseteq S
      BY DEF S
    <3> QED
      BY <3>1, <3>2, <3>3, SeqMonotonic
  <2>3. Seen(f) = f
    <3>1. f[Len(f)] # ""
      BY <2>2
    <3> QED
      BY <3>1 DEF Seen, Last
  <2> QED
    BY <2>1, <2>2, <2>3, MatchIs
<1> QED
  BY <1>1, WalkAlways, PTL

-------------------------------------------------------------------------------
(* Speech.                                                                  *)

\* The powers of two that the code shifts by.
LEMMA Powers ==
  /\ 2 ^ 0 = 1 /\ 2 ^ 1 = 2 /\ 2 ^ 2 = 4 /\ 2 ^ 3 = 8 /\ 2 ^ 4 = 16 /\ 2 ^ 5 = 32 /\ 2 ^ 6 = 64
  /\ 2 ^ 7 = 128 /\ 2 ^ 8 = 256 /\ 2 ^ 9 = 512 /\ 2 ^ 10 = 1024 /\ 2 ^ 11 = 2048
  /\ 2 ^ 12 = 4096 /\ 2 ^ 13 = 8192 /\ 2 ^ 14 = 16384
OBVIOUS

\* The width of a segment's smallest unit: 2 ^ e, as a tuple.
Widths == <<1, 2, 4, 8, 16, 32, 64, 128>>

LEMMA WidthIs ==
  ASSUME NEW e \in 0 .. 7
  PROVE  /\ 2 ^ e = Widths[e + 1] /\ 2 ^ (e + 3) = 8 * Widths[e + 1]
         /\ 2 ^ (e + 7) = 128 * Widths[e + 1]
<1>1. CASE e = 0
  BY <1>1, Powers DEF Widths
<1>2. CASE e = 1
  BY <1>2, Powers DEF Widths
<1>3. CASE e = 2
  BY <1>3, Powers DEF Widths
<1>4. CASE e = 3
  BY <1>4, Powers DEF Widths
<1>5. CASE e = 4
  BY <1>5, Powers DEF Widths
<1>6. CASE e = 5
  BY <1>6, Powers DEF Widths
<1>7. CASE e = 6
  BY <1>7, Powers DEF Widths
<1>8. CASE e = 7
  BY <1>8, Powers DEF Widths
<1> QED
  BY <1>1, <1>2, <1>3, <1>4, <1>5, <1>6, <1>7, <1>8

\* A sample's loudness, as far as it is kept, with the bias.
Clipped(a) == 132 + (IF a > 32635 THEN 32635 ELSE a)

LEMMA AbsIs ==
  ASSUME NEW s \in Int, s + 32767 >= 0, s <= 32767
  PROVE  Abs(s) \in Int /\ Abs(s) >= 0 /\ Abs(s) <= 32767
<1>1. Abs(s) = IF s < 0 THEN -s ELSE s
  BY DEF Abs
<1> QED
  BY <1>1

LEMMA ClippedIs ==
  ASSUME NEW a \in Int, a >= 0, a <= 32767
  PROVE  Clipped(a) \in Int /\ Clipped(a) >= 132 /\ Clipped(a) <= 32767
<1>1. Clipped(a) = 132 + (IF a > 32635 THEN 32635 ELSE a)
  BY DEF Clipped
<1> QED
  BY <1>1

\* Nothing overflows but for the least sample.
LEMMA MagnitudeIs ==
  ASSUME NEW s \in Int, s + 32767 >= 0, s <= 32767
  PROVE  Magnitude(s) = Clipped(Abs(s))
<1>1. Abs(s) \in Int /\ Abs(s) >= 0 /\ Abs(s) <= 32767
  BY AbsIs
<1>2. Int16(Abs(s)) = Abs(s)
  BY <1>1 DEF Int16
<1>3. Int16(Clipped(Abs(s))) = Clipped(Abs(s))
  <2>1. Clipped(Abs(s)) \in Int /\ Clipped(Abs(s)) >= 132 /\ Clipped(Abs(s)) <= 32767
    BY <1>1, ClippedIs
  <2> QED
    BY <2>1 DEF Int16
<1> QED
  BY <1>2, <1>3 DEF Abs, Magnitude, Clipped, BIAS, CLIP

LEMMA BitIs ==
  ASSUME NEW k \in 1 .. 7, NEW mag \in Nat
  PROVE  /\ mag < 128 * Widths[k + 1] => Bit(mag, k + 7) = 0
         /\ mag >= 128 * Widths[k + 1] /\ mag < 256 * Widths[k + 1] => Bit(mag, k + 7) = 1
<1>0. k \in 0 .. 7
  OBVIOUS
<1>1. Bit(mag, k + 7) = (mag \div (128 * Widths[k + 1])) % 2
  <2>1. 2 ^ (k + 7) = 128 * Widths[k + 1]
    BY <1>0, WidthIs
  <2> QED
    BY <2>1 DEF Bit
<1>2. CASE k = 1
  BY <1>1, <1>2 DEF Widths
<1>3. CASE k = 2
  BY <1>1, <1>3 DEF Widths
<1>4. CASE k = 3
  BY <1>1, <1>4 DEF Widths
<1>5. CASE k = 4
  BY <1>1, <1>5 DEF Widths
<1>6. CASE k = 5
  BY <1>1, <1>6 DEF Widths
<1>7. CASE k = 6
  BY <1>1, <1>7 DEF Widths
<1>8. CASE k = 7
  BY <1>1, <1>8 DEF Widths
<1> QED
  BY <1>2, <1>3, <1>4, <1>5, <1>6, <1>7, <1>8

\* mag lies in segment e.
Within(mag, e) == (e = 0 \/ mag >= 128 * Widths[e + 1]) /\ mag < 256 * Widths[e + 1]

LEMMA ExponentIs ==
  ASSUME NEW e \in 0 .. 7, NEW mag \in Nat, Within(mag, e)
  PROVE  Exponent(mag) = e
<1> DEFINE S == {0} \union {k \in 1 .. 7 : Bit(mag, k + 7) = 1}
<1>1. e \in S
  BY BitIs DEF Within
<1>2. ASSUME NEW k \in S PROVE k <= e
  <2> SUFFICES ASSUME k > e PROVE FALSE
    OBVIOUS
  <2>1. k \in 1 .. 7 /\ Bit(mag, k + 7) = 1
    OBVIOUS
  <2>2. 256 * Widths[e + 1] <= 128 * Widths[k + 1]
    BY <2>1 DEF Widths
  <2>3. mag < 128 * Widths[k + 1]
    BY <2>1, <2>2 DEF Within, Widths
  <2> QED
    BY <2>1, <2>3, BitIs
<1>3. S \subseteq Int
  OBVIOUS
<1> HIDE DEF S
<1>4. Max(S) = e
  <2>1. \A k \in S : e >= k
    BY <1>1, <1>2, <1>3
  <2>2. Max(S) \in S /\ \A k \in S : Max(S) >= k
    BY <1>1, <2>1, Zenon DEF Max
  <2>3. Max(S) \in Int /\ e >= Max(S)
    BY <2>1, <2>2, <1>3
  <2>4. Max(S) >= e
    BY <1>1, <2>2
  <2> QED
    BY <2>3, <2>4
<1> QED
  BY <1>4 DEF Exponent, S

\* mag lies in step q of segment e.
Placed(mag, e, q) == 8 * Widths[e + 1] * q <= mag /\ mag < 8 * Widths[e + 1] * (q + 1)

StepOf(mag, e) == mag \div (8 * Widths[e + 1])

LEMMA SegmentExists ==
  ASSUME NEW mag \in Int, mag >= 132, mag <= 32767
  PROVE  \E e \in 0 .. 7 : mag >= 128 * Widths[e + 1] /\ mag < 256 * Widths[e + 1]
<1>1. \/ 128 <= mag /\ mag < 256
      \/ 256 <= mag /\ mag < 512
      \/ 512 <= mag /\ mag < 1024
      \/ 1024 <= mag /\ mag < 2048
      \/ 2048 <= mag /\ mag < 4096
      \/ 4096 <= mag /\ mag < 8192
      \/ 8192 <= mag /\ mag < 16384
      \/ 16384 <= mag /\ mag < 32768
  OBVIOUS
<1>2. /\ 128 * Widths[0 + 1] = 128 /\ 256 * Widths[0 + 1] = 256
      /\ 128 * Widths[1 + 1] = 256 /\ 256 * Widths[1 + 1] = 512
      /\ 128 * Widths[2 + 1] = 512 /\ 256 * Widths[2 + 1] = 1024
      /\ 128 * Widths[3 + 1] = 1024 /\ 256 * Widths[3 + 1] = 2048
      /\ 128 * Widths[4 + 1] = 2048 /\ 256 * Widths[4 + 1] = 4096
      /\ 128 * Widths[5 + 1] = 4096 /\ 256 * Widths[5 + 1] = 8192
      /\ 128 * Widths[6 + 1] = 8192 /\ 256 * Widths[6 + 1] = 16384
      /\ 128 * Widths[7 + 1] = 16384 /\ 256 * Widths[7 + 1] = 32768
  BY DEF Widths
<1> QED
  BY <1>1, <1>2

LEMMA PlaceIs ==
  ASSUME NEW mag \in Nat, NEW e \in 0 .. 7,
         mag >= 128 * Widths[e + 1], mag < 256 * Widths[e + 1]
  PROVE  Within(mag, e) /\ StepOf(mag, e) \in 16 .. 31 /\ Placed(mag, e, StepOf(mag, e))
<1> DEFINE w == Widths[e + 1]
<1> DEFINE q == StepOf(mag, e)
<1>1. w \in {1, 2, 4, 8, 16, 32, 64, 128}
  BY DEF Widths
<1>2. 128 * w <= mag /\ mag < 256 * w /\ q = mag \div (8 * w)
  BY DEF StepOf
<1>3. q \in 16 .. 31 /\ 8 * w * q <= mag /\ mag < 8 * w * (q + 1)
  <2> HIDE DEF w, q
  <2> QED
    BY <1>1, <1>2
<1>4. Within(mag, e)
  BY <1>2 DEF Within
<1> HIDE DEF q
<1>5. Placed(mag, e, q)
  BY <1>3 DEF Placed
<1> QED
  BY <1>3, <1>4, <1>5 DEF q

\* How loud a sample in step q of segment e is heard.
Loudness(e, q) == (8 * q + 4) * Widths[e + 1] - 132

Sounds(s, e, q) ==
  /\ e \in 0 .. 7 /\ q \in 16 .. 31 /\ Placed(Magnitude(s), e, q)
  /\ Heard(s) = IF s < 0 THEN -Loudness(e, q) ELSE Loudness(e, q)

\* The code of step q of segment e.
Coded(sign, e, q) == 255 - (sign + 16 * e + (q - 16))

Sign(s) == IF s < 0 THEN 128 ELSE 0

LEMMA EncodeIs ==
  ASSUME NEW s, NEW e \in 0 .. 7, NEW q \in 16 .. 31,
         Exponent(Magnitude(s)) = e, Magnitude(s) \div (8 * Widths[e + 1]) = q
  PROVE  ulawEncode(s) = Coded(Sign(s), e, q)
<1>1. 2 ^ (e + 3) = 8 * Widths[e + 1]
  BY WidthIs
<1>2. (Magnitude(s) \div 2 ^ (e + 3)) % 16 = q - 16
  <2>1. q % 16 = q - 16
    OBVIOUS
  <2> QED
    BY <1>1, <2>1
<1> QED
  BY <1>2 DEF ulawEncode, Coded, Sign

LEMMA DecodeIs ==
  ASSUME NEW sign \in {0, 128}, NEW e \in 0 .. 7, NEW q \in 16 .. 31
  PROVE  ulawDecode(Coded(sign, e, q)) = IF sign = 128 THEN -Loudness(e, q) ELSE Loudness(e, q)
<1> DEFINE v == sign + 16 * e + (q - 16)
<1>1. 255 - Coded(sign, e, q) = v
  BY DEF Coded
<1>2. v % 16 = q - 16 /\ (v \div 16) % 8 = e /\ (v >= 128 <=> sign = 128)
  OBVIOUS
<1> HIDE DEF v
<1>3. (8 * (v % 16) + BIAS) * 2 ^ ((v \div 16) % 8) - BIAS = Loudness(e, q)
  <2>1. 8 * (v % 16) + BIAS = 8 * q + 4
    BY <1>2 DEF BIAS
  <2>2. 2 ^ e = Widths[e + 1]
    BY WidthIs
  <2> QED
    BY <1>2, <2>1, <2>2 DEF Loudness, BIAS
<1> QED
  BY <1>1, <1>2, <1>3 DEF ulawDecode

\* What a sample is heard as (ulawEncode, ulawDecode).
LEMMA SoundIs ==
  ASSUME NEW s \in Int, s + 32767 >= 0, s <= 32767
  PROVE  \E e, q : Sounds(s, e, q)
<1> DEFINE M == Magnitude(s)
<1>1. M \in Int /\ M >= 132 /\ M <= 32767
  BY AbsIs, MagnitudeIs, ClippedIs
<1> HIDE DEF M
<1>2. M \in Nat
  BY <1>1
<1>3. PICK e \in 0 .. 7 : M >= 128 * Widths[e + 1] /\ M < 256 * Widths[e + 1]
  BY <1>1, SegmentExists
<1> DEFINE q == StepOf(M, e)
<1>4. Within(M, e) /\ q \in 16 .. 31 /\ Placed(M, e, q)
  BY <1>2, <1>3, PlaceIs
<1>5. Exponent(M) = e
  BY <1>2, <1>4, ExponentIs
<1>6. M \div (8 * Widths[e + 1]) = q
  BY DEF StepOf
<1> HIDE DEF q
<1>7. ulawEncode(s) = Coded(Sign(s), e, q)
  BY <1>4, <1>5, <1>6, EncodeIs DEF M
<1>8. Heard(s) = IF s < 0 THEN -Loudness(e, q) ELSE Loudness(e, q)
  <2>1. Sign(s) \in {0, 128} /\ (Sign(s) = 128 <=> s < 0)
    BY DEF Sign
  <2>2. ulawDecode(Coded(Sign(s), e, q))
          = IF Sign(s) = 128 THEN -Loudness(e, q) ELSE Loudness(e, q)
    BY <1>4, <2>1, DecodeIs
  <2> QED
    BY <1>7, <2>1, <2>2 DEF Heard
<1>9. Sounds(s, e, q)
  BY <1>4, <1>8 DEF Sounds, M
<1> QED
  BY <1>9

LEMMA LoudnessNat ==
  ASSUME NEW e \in 0 .. 7, NEW q \in 16 .. 31
  PROVE  Loudness(e, q) \in Nat
<1>1. Widths[e + 1] \in {1, 2, 4, 8, 16, 32, 64, 128}
  BY DEF Widths
<1>2. Loudness(e, q) = (8 * q + 4) * Widths[e + 1] - 132
  BY DEF Loudness
<1> QED
  BY <1>1, <1>2

\* The step is no wider than the tolerance.
LEMMA LoudnessNear ==
  ASSUME NEW a \in Int, a >= 0, a <= 32767,
         NEW e \in 0 .. 7, NEW q \in 16 .. 31, Placed(Clipped(a), e, q)
  PROVE  /\ Loudness(e, q) \in Nat
         /\ Loudness(e, q) - a <= a \div 8 + 260 /\ a - Loudness(e, q) <= a \div 8 + 260
<1> DEFINE w == Widths[e + 1]
<1> DEFINE M == Clipped(a)
<1>1. w \in {1, 2, 4, 8, 16, 32, 64, 128}
  BY DEF Widths
<1>2. 8 * w * q <= M /\ M < 8 * w * (q + 1)
  BY DEF Placed
<1>3. M = 132 + (IF a > 32635 THEN 32635 ELSE a)
  BY DEF Clipped
<1>4. Loudness(e, q) = (8 * q + 4) * w - 132
  BY DEF Loudness
<1> HIDE DEF w, M
<1>5. M \in Int /\ M >= 132 /\ M <= a + 132 /\ M >= a
  BY <1>3
<1>6. Loudness(e, q) \in Nat
  BY LoudnessNat
<1>7. Loudness(e, q) - M <= 4 * w - 132 /\ M - Loudness(e, q) <= 4 * w + 132
  BY <1>1, <1>2, <1>4, <1>5
<1>8. 128 * w <= M
  BY <1>1, <1>2, <1>5
<1> QED
  BY <1>1, <1>3, <1>5, <1>6, <1>7, <1>8

LEMMA WithinStepIs ==
  ASSUME NEW s \in Int, s + 32767 >= 0, s <= 32767
  PROVE  Abs(Heard(s) - s) <= Abs(s) \div 8 + 260
<1>1. PICK e, q : Sounds(s, e, q)
  BY SoundIs
<1> DEFINE a == Abs(s)
<1> DEFINE L == Loudness(e, q)
<1>2. a \in Int /\ a >= 0 /\ a <= 32767
  BY AbsIs
<1>3. e \in 0 .. 7 /\ q \in 16 .. 31 /\ Placed(Clipped(a), e, q)
  BY <1>1, MagnitudeIs DEF Sounds
<1> HIDE DEF a
<1>4. L \in Nat /\ L - a <= a \div 8 + 260 /\ a - L <= a \div 8 + 260
  BY <1>2, <1>3, LoudnessNear, SMTT(60)
<1>5. Heard(s) = (IF s < 0 THEN -L ELSE L) /\ a = IF s < 0 THEN -s ELSE s
  BY <1>1 DEF Sounds, a, Abs
<1> HIDE DEF L
<1>6. Abs(Heard(s) - s) = IF L < a THEN a - L ELSE L - a
  BY <1>2, <1>4, <1>5 DEF Abs
<1>7. a \div 8 + 260 = Abs(s) \div 8 + 260
  BY DEF a
<1> QED
  BY <1>2, <1>4, <1>6, <1>7

Located(mag, e, q) == mag \in Nat /\ e \in 0 .. 7 /\ q \in 16 .. 31 /\ Placed(mag, e, q)

\* A louder magnitude is not heard as a softer one, across segments.
LEMMA LoudnessMonotone ==
  ASSUME NEW M1, NEW e1, NEW q1, Located(M1, e1, q1),
         NEW M2, NEW e2, NEW q2, Located(M2, e2, q2), M1 <= M2
  PROVE  Loudness(e1, q1) <= Loudness(e2, q2)
<1> DEFINE w1 == Widths[e1 + 1]
<1> DEFINE w2 == Widths[e2 + 1]
<1>0. /\ M1 \in Nat /\ e1 \in 0 .. 7 /\ q1 \in 16 .. 31
      /\ M2 \in Nat /\ e2 \in 0 .. 7 /\ q2 \in 16 .. 31
  BY DEF Located
<1>1. w1 \in {1, 2, 4, 8, 16, 32, 64, 128} /\ w2 \in {1, 2, 4, 8, 16, 32, 64, 128}
  BY <1>0 DEF Widths
<1>2. /\ 8 * w1 * q1 <= M1 /\ M1 < 8 * w1 * (q1 + 1)
      /\ 8 * w2 * q2 <= M2 /\ M2 < 8 * w2 * (q2 + 1)
  BY DEF Located, Placed
<1>3. w1 = w2 \/ 2 * w1 <= w2 \/ 2 * w2 <= w1
  BY <1>1
<1>4. Loudness(e1, q1) = (8 * q1 + 4) * w1 - 132 /\ Loudness(e2, q2) = (8 * q2 + 4) * w2 - 132
  BY DEF Loudness
<1> HIDE DEF w1, w2
<1>5. CASE w1 = w2
  <2>1. q1 <= q2
    BY <1>0, <1>1, <1>2, <1>5
  <2> QED
    BY <1>0, <1>1, <1>4, <1>5, <2>1
<1>6. CASE 2 * w1 <= w2
  BY <1>0, <1>1, <1>4, <1>6
<1>7. CASE 2 * w2 <= w1
  <2>1. 128 * w1 <= M1 /\ M2 < 256 * w2
    BY <1>0, <1>1, <1>2
  <2> QED
    BY <1>0, <1>1, <1>7, <2>1
<1> QED
  BY <1>3, <1>5, <1>6, <1>7

\* A magnitude no smaller is clipped no smaller.
LEMMA ClippedMonotone ==
  ASSUME NEW a \in Int, NEW b \in Int, 0 <= a, a <= b, b <= 32767
  PROVE  Clipped(a) \in Nat /\ Clipped(b) \in Nat /\ Clipped(a) <= Clipped(b)
<1>1. /\ Clipped(a) = 132 + (IF a > 32635 THEN 32635 ELSE a)
      /\ Clipped(b) = 132 + (IF b > 32635 THEN 32635 ELSE b)
  BY DEF Clipped
<1> QED
  BY <1>1

LEMMA MonotoneIs ==
  ASSUME NEW s \in Int, s + 32767 >= 0, s < 32767
  PROVE  Heard(s) <= Heard(s + 1)
<1> DEFINE r == s + 1
<1>1. PICK e1, q1 : Sounds(s, e1, q1)
  BY SoundIs
<1>2. PICK e2, q2 : Sounds(r, e2, q2)
  <2>1. r \in Int /\ r + 32767 >= 0 /\ r <= 32767
    OBVIOUS
  <2> HIDE DEF r
  <2> QED
    BY <2>1, SoundIs
<1>3. /\ e1 \in 0 .. 7 /\ q1 \in 16 .. 31 /\ Placed(Clipped(Abs(s)), e1, q1)
      /\ Heard(s) = IF s < 0 THEN -Loudness(e1, q1) ELSE Loudness(e1, q1)
  BY <1>1, MagnitudeIs DEF Sounds
<1>4. /\ e2 \in 0 .. 7 /\ q2 \in 16 .. 31 /\ Placed(Clipped(Abs(r)), e2, q2)
      /\ Heard(r) = IF r < 0 THEN -Loudness(e2, q2) ELSE Loudness(e2, q2)
  BY <1>2, MagnitudeIs DEF Sounds
<1>5. /\ Abs(s) \in Int /\ Abs(s) >= 0 /\ Abs(s) <= 32767
      /\ Abs(r) \in Int /\ Abs(r) >= 0 /\ Abs(r) <= 32767
  BY AbsIs
<1>6. Loudness(e1, q1) \in Nat /\ Loudness(e2, q2) \in Nat
  BY <1>3, <1>4, LoudnessNat
<1>7. CASE s >= 0
  <2>1. Abs(s) <= Abs(r)
    BY <1>7 DEF Abs
  <2>2. /\ Clipped(Abs(s)) \in Nat /\ Clipped(Abs(r)) \in Nat
        /\ Clipped(Abs(s)) <= Clipped(Abs(r))
    BY <1>5, <2>1, ClippedMonotone
  <2>3. Loudness(e1, q1) <= Loudness(e2, q2)
    BY <1>3, <1>4, <2>2, LoudnessMonotone DEF Located
  <2> QED
    BY <1>3, <1>4, <1>7, <2>3
<1>8. CASE s < 0 /\ r < 0
  <2>1. Abs(r) <= Abs(s)
    BY <1>8 DEF Abs
  <2>2. /\ Clipped(Abs(s)) \in Nat /\ Clipped(Abs(r)) \in Nat
        /\ Clipped(Abs(r)) <= Clipped(Abs(s))
    BY <1>5, <2>1, ClippedMonotone
  <2>3. Loudness(e2, q2) <= Loudness(e1, q1)
    BY <1>3, <1>4, <2>2, LoudnessMonotone DEF Located
  <2> QED
    BY <1>3, <1>4, <1>6, <1>8, <2>3
<1>9. CASE s < 0 /\ r >= 0
  BY <1>3, <1>4, <1>6, <1>9
<1> QED
  BY <1>7, <1>8, <1>9

\* A sample comes back within the tolerance (ulawEncode, ulawDecode).
THEOREM SpeechKeepsLoudness == Spec => []WithinStep
<1>1. Walk => WithinStep
  <2> SUFFICES ASSUME Walk, sample # FirstSample
               PROVE  Abs(Heard(sample) - sample) <= Abs(sample) \div 8 + 260
    BY DEF WithinStep
  <2>1. sample \in Int /\ sample + 32767 >= 0 /\ sample <= 32767
    BY FirstIs DEF Walk
  <2> QED
    BY <2>1, WithinStepIs
<1> QED
  BY <1>1, WalkAlways, PTL

\* A louder sample is not heard as a softer one (ulawEncode, ulawDecode).
THEOREM SpeechKeepsOrder == Spec => UlawMonotone
<1>1. Walk /\ [Next]_vars
        => [sample \notin {sample', FirstSample} => Heard(sample) <= Heard(sample')]_vars
  <2> SUFFICES ASSUME Walk, Next, sample \notin {sample', FirstSample}
               PROVE  Heard(sample) <= Heard(sample')
    OBVIOUS
  <2>1. sample < 32767 /\ sample' = sample + 1
    BY DEF Next, NextSample, Type, AddLevel
  <2>2. sample \in Int /\ sample + 32767 >= 0
    BY FirstIs DEF Walk
  <2>3. Heard(sample) <= Heard(sample + 1)
    BY <2>1, <2>2, MonotoneIs
  <2> QED
    BY <2>1, <2>3
<1> QED
  BY <1>1, WalkAlways, PTL DEF Spec, UlawMonotone

-------------------------------------------------------------------------------
(* Loops and pieces.                                                        *)

\* Induction over a set.
LEMMA UpTo ==
  ASSUME NEW N \in Nat, NEW T, 0 \in T, \A n \in 0 .. N - 1 : n \in T => n + 1 \in T
  PROVE  \A n \in 0 .. N : n \in T
<1> DEFINE U == {n \in 0 .. N : n \notin T}
<1> SUFFICES ASSUME U # {} PROVE FALSE
  OBVIOUS
<1>1. U \subseteq Nat
  OBVIOUS
<1> HIDE DEF U
<1>2. PICK x \in U : \A y \in U : x <= y
  BY <1>1, Least
<1>3. x \in 0 .. N /\ x \notin T
  BY DEF U
<1>4. x - 1 \in 0 .. N - 1
  BY <1>3
<1>5. x - 1 \in T
  BY <1>2, <1>3, <1>4 DEF U
<1> QED
  BY <1>3, <1>4, <1>5

\* A loop that adds up is a function of how often it turned.
Turns(r, N, A, base, step) ==
  /\ r \in [0 .. N -> A] /\ r[0] = base
  /\ \A n \in 1 .. N : r[n] = step[<<n, r[n - 1]>>]

LEMMA Recursion ==
  ASSUME NEW N \in Nat, NEW A, NEW base \in A, NEW step \in [(1 .. N) \X A -> A]
  PROVE  \E r : Turns(r, N, A, base, step)
<1> DEFINE T == {n \in 0 .. N : \E r : Turns(r, n, A, base, step)}
<1>1. 0 \in T
  <2>1. Turns([n \in 0 .. 0 |-> base], 0, A, base, step)
    BY DEF Turns
  <2> QED
    BY <2>1
<1>2. ASSUME NEW n \in 0 .. N - 1, n \in T PROVE n + 1 \in T
  <2>1. PICK r : Turns(r, n, A, base, step)
    BY <1>2
  <2> DEFINE q == [i \in 0 .. n + 1 |-> IF i <= n THEN r[i] ELSE step[<<n + 1, r[n]>>]]
  <2>2. r \in [0 .. n -> A] /\ r[0] = base /\ \A i \in 1 .. n : r[i] = step[<<i, r[i - 1]>>]
    BY <2>1 DEF Turns
  <2>3. step[<<n + 1, r[n]>>] \in A
    <3>1. <<n + 1, r[n]>> \in (1 .. N) \X A
      BY <2>2
    <3> QED
      BY <3>1
  <2>4. q \in [0 .. n + 1 -> A] /\ q[0] = base
    BY <2>2, <2>3
  <2>5. ASSUME NEW i \in 1 .. n + 1 PROVE q[i] = step[<<i, q[i - 1]>>]
    <3>1. CASE i <= n
      BY <2>2, <3>1
    <3>2. CASE i = n + 1
      <4>1. i - 1 = n /\ n \in 0 .. n
        BY <3>2
      <4>2. q[n] = r[n] /\ q[n + 1] = step[<<n + 1, r[n]>>]
        OBVIOUS
      <4> HIDE DEF q
      <4> QED
        BY <3>2, <4>1, <4>2
    <3> QED
      BY <3>1, <3>2
  <2>6. Turns(q, n + 1, A, base, step)
    BY <2>4, <2>5 DEF Turns
  <2> QED
    BY <2>6
<1> HIDE DEF T
<1>3. \A m \in 0 .. N : m \in T
  BY <1>1, <1>2, UpTo
<1>4. N \in T
  BY <1>3
<1> QED
  BY <1>4 DEF T

\* Pieces put one behind the other.
Concats(o, N, base, w) == o = [n \in 0 .. N |-> IF n = 0 THEN base ELSE o[n - 1] \o w[n]]

Laid(o, N, A, base, w) ==
  /\ o \in [0 .. N -> Seq(A)] /\ o[0] = base
  /\ \A n \in 1 .. N : o[n] = o[n - 1] \o w[n]

LEMMA ConcatsExist ==
  ASSUME NEW N \in Nat, NEW A, NEW base \in Seq(A), NEW w \in [1 .. N -> Seq(A)]
  PROVE  \E o : Concats(o, N, base, w)
<1> DEFINE step == [x \in (1 .. N) \X Seq(A) |-> x[2] \o w[x[1]]]
<1>1. step \in [(1 .. N) \X Seq(A) -> Seq(A)]
  <2> SUFFICES ASSUME NEW x \in (1 .. N) \X Seq(A) PROVE x[2] \o w[x[1]] \in Seq(A)
    OBVIOUS
  <2>1. x[2] \in Seq(A) /\ w[x[1]] \in Seq(A)
    OBVIOUS
  <2> QED
    BY <2>1, ConcatProperties
<1>2. \A n \in 1 .. N, s \in Seq(A) : step[<<n, s>>] = s \o w[n]
  OBVIOUS
<1> HIDE DEF step
<1>3. PICK o : Turns(o, N, Seq(A), base, step)
  BY <1>1, Recursion
<1>4. o \in [0 .. N -> Seq(A)] /\ o[0] = base /\ \A n \in 1 .. N : o[n] = step[<<n, o[n - 1]>>]
  BY <1>3 DEF Turns
<1>5. ASSUME NEW n \in 1 .. N PROVE o[n] = o[n - 1] \o w[n]
  <2>1. n - 1 \in 0 .. N
    OBVIOUS
  <2>2. o[n - 1] \in Seq(A)
    BY <1>4, <2>1
  <2>3. o[n] = step[<<n, o[n - 1]>>]
    BY <1>4
  <2> QED
    BY <1>2, <2>2, <2>3
<1>6. \A n \in 0 .. N : o[n] = IF n = 0 THEN base ELSE o[n - 1] \o w[n]
  <2> TAKE n \in 0 .. N
  <2>1. CASE n = 0
    BY <1>4, <2>1
  <2>2. CASE n # 0
    <3>1. n \in 1 .. N
      BY <2>2
    <3> QED
      BY <1>5, <2>2, <3>1
  <2> QED
    BY <2>1, <2>2
<1>7. o = [n \in 0 .. N |-> o[n]]
  BY <1>4
<1>8. Concats(o, N, base, w)
  BY <1>6, <1>7, Zenon DEF Concats
<1> QED
  BY <1>8

LEMMA ConcatsAre ==
  ASSUME NEW N \in Nat, NEW A, NEW base \in Seq(A), NEW w \in [1 .. N -> Seq(A)],
         NEW o, Concats(o, N, base, w)
  PROVE  Laid(o, N, A, base, w)
<1>0. ASSUME NEW n \in 0 .. N PROVE o[n] = IF n = 0 THEN base ELSE o[n - 1] \o w[n]
  BY Zenon DEF Concats
<1>1. o[0] = base
  BY <1>0
<1>2. ASSUME NEW n \in 1 .. N PROVE o[n] = o[n - 1] \o w[n]
  <2>1. n \in 0 .. N /\ n # 0
    OBVIOUS
  <2> QED
    BY <1>0, <2>1
<1> DEFINE T == {n \in 0 .. N : o[n] \in Seq(A)}
<1>3. 0 \in T
  BY <1>1
<1>4. ASSUME NEW n \in 0 .. N - 1, n \in T PROVE n + 1 \in T
  <2>1. n + 1 \in 1 .. N /\ o[n] \in Seq(A)
    BY <1>4
  <2>2. o[n + 1] = o[n] \o w[n + 1] /\ w[n + 1] \in Seq(A)
    <3>1. (n + 1) - 1 = n
      OBVIOUS
    <3>2. o[n + 1] = o[(n + 1) - 1] \o w[n + 1]
      BY <1>2, <2>1
    <3> QED
      BY <2>1, <3>1, <3>2
  <2>3. o[n + 1] \in Seq(A)
    BY <2>1, <2>2, ConcatProperties
  <2> QED
    BY <2>1, <2>3
<1> HIDE DEF T
<1>5. \A n \in 0 .. N : n \in T
  BY <1>3, <1>4, UpTo
<1>6. \A n \in 0 .. N : o[n] \in Seq(A)
  BY <1>5 DEF T
<1>7. o \in [0 .. N -> Seq(A)]
  <2>1. o = [n \in 0 .. N |-> o[n]]
    BY DEF Concats
  <2> QED
    BY <1>6, <2>1
<1> QED
  BY <1>1, <1>2, <1>7 DEF Laid

Pieces(o, N, w) ==
  \A n \in 1 .. N :
    /\ Len(o[n]) = Len(o[n - 1]) + Len(w[n])
    /\ \A j \in 1 .. Len(w[n]) : o[n][Len(o[n - 1]) + j] = w[n][j]
    /\ \A i \in 1 .. Len(o[n - 1]) : o[n][i] = o[n - 1][i]

\* Each piece is found where the pieces before it end.
LEMMA PieceAt ==
  ASSUME NEW N \in Nat, NEW A, NEW base \in Seq(A), NEW w \in [1 .. N -> Seq(A)],
         NEW o, Laid(o, N, A, base, w)
  PROVE  Pieces(o, N, w)
<1> SUFFICES ASSUME NEW n \in 1 .. N
             PROVE  /\ Len(o[n]) = Len(o[n - 1]) + Len(w[n])
                    /\ \A j \in 1 .. Len(w[n]) : o[n][Len(o[n - 1]) + j] = w[n][j]
                    /\ \A i \in 1 .. Len(o[n - 1]) : o[n][i] = o[n - 1][i]
  BY DEF Pieces
<1> DEFINE s == o[n - 1]
<1> DEFINE u == w[n]
<1>1. s \in Seq(A) /\ u \in Seq(A) /\ o[n] = s \o u
  <2>1. n - 1 \in 0 .. N
    OBVIOUS
  <2> QED
    BY <2>1 DEF Laid
<1> HIDE DEF s, u
<1>2. Len(s) \in Nat /\ Len(u) \in Nat
  BY <1>1
<1>3. /\ Len(s \o u) = Len(s) + Len(u)
      /\ \A i \in 1 .. Len(s) + Len(u) : (s \o u)[i] = IF i <= Len(s) THEN s[i] ELSE u[i - Len(s)]
  BY <1>1, ConcatProperties
<1>4. \A j \in 1 .. Len(u) : (s \o u)[Len(s) + j] = u[j]
  <2> TAKE j \in 1 .. Len(u)
  <2>1. Len(s) + j \in 1 .. Len(s) + Len(u) /\ ~(Len(s) + j <= Len(s)) /\ (Len(s) + j) - Len(s) = j
    BY <1>2
  <2> QED
    BY <1>3, <2>1
<1>5. \A i \in 1 .. Len(s) : (s \o u)[i] = s[i]
  BY <1>2, <1>3
<1> QED
  BY <1>1, <1>3, <1>4, <1>5, Zenon DEF s, u

Starts(o, N) ==
  \A n \in 0 .. N :
    Len(o[n]) <= Len(o[N]) /\ \A i \in 1 .. Len(o[n]) : o[N][i] = o[n][i]

LEMMA PrefixOf ==
  ASSUME NEW N \in Nat, NEW A, NEW base \in Seq(A), NEW w \in [1 .. N -> Seq(A)],
         NEW o, Laid(o, N, A, base, w)
  PROVE  Starts(o, N)
<1> SUFFICES ASSUME NEW n \in 0 .. N
             PROVE  Len(o[n]) <= Len(o[N]) /\ \A i \in 1 .. Len(o[n]) : o[N][i] = o[n][i]
  BY DEF Starts
<1> DEFINE Q(m) == n <= m => Len(o[n]) <= Len(o[m]) /\ \A i \in 1 .. Len(o[n]) : o[m][i] = o[n][i]
<1> DEFINE T == {m \in 0 .. N : Q(m)}
<1>0. \A m \in 0 .. N : o[m] \in Seq(A) /\ Len(o[m]) \in Nat
  BY DEF Laid
<1>1. 0 \in T
  BY <1>0
<1>a. Pieces(o, N, w)
  BY PieceAt
<1>2. ASSUME NEW m \in 0 .. N - 1, m \in T PROVE m + 1 \in T
  <2>0. PICK k \in 1 .. N : k = m + 1
    OBVIOUS
  <2>1. k \in 1 .. N /\ k - 1 = m /\ m \in 0 .. N /\ (n <= k <=> n <= m \/ n = k)
    BY <2>0
  <2>2. Len(o[k]) = Len(o[m]) + Len(w[k]) /\ \A i \in 1 .. Len(o[m]) : o[k][i] = o[m][i]
    <3>1. /\ Len(o[k]) = Len(o[k - 1]) + Len(w[k])
          /\ \A i \in 1 .. Len(o[k - 1]) : o[k][i] = o[k - 1][i]
      BY <1>a, <2>1 DEF Pieces
    <3>2. k - 1 = m
      BY <2>1
    <3> QED
      BY <3>1, <3>2, Zenon
  <2>3. Len(w[k]) \in Nat /\ Len(o[n]) \in Nat /\ Len(o[m]) \in Nat /\ Len(o[k]) \in Nat
    BY <1>0, <2>1
  <2>4. Q(m)
    BY <1>2
  <2>5. CASE n <= m
    <3>1. Len(o[n]) <= Len(o[m]) /\ \A i \in 1 .. Len(o[n]) : o[m][i] = o[n][i]
      BY <2>4, <2>5
    <3>2. Len(o[n]) <= Len(o[k])
      <4>1. Len(o[n]) <= Len(o[m]) /\ Len(o[k]) = Len(o[m]) + Len(w[k])
        BY <2>2, <3>1
      <4> QED
        BY <2>3, <4>1
    <3>3. ASSUME NEW i \in 1 .. Len(o[n]) PROVE o[k][i] = o[n][i]
      <4>1. i \in 1 .. Len(o[m])
        BY <2>3, <3>1
      <4> QED
        BY <2>2, <3>1, <4>1
    <3>4. Q(k)
      BY <3>2, <3>3
    <3> QED
      BY <2>0, <3>4
  <2>6. CASE n = k
    BY <2>0, <2>3, <2>6
  <2>7. CASE ~(n <= k)
    BY <2>0, <2>7
  <2> QED
    BY <2>1, <2>5, <2>6, <2>7
<1> HIDE DEF T
<1>3. \A m \in 0 .. N : m \in T
  BY <1>1, <1>2, UpTo
<1>4. N \in T
  BY <1>3
<1> QED
  BY <1>4 DEF T

Whole(o, N, A, base, w) ==
  /\ o \in [0 .. N -> Seq(A)] /\ o[0] = base
  /\ \A n \in 0 .. N : Len(o[n]) <= Len(o[N])
  /\ \A n \in 1 .. N :
       /\ Len(o[n]) = Len(o[n - 1]) + Len(w[n])
       /\ \A j \in 1 .. Len(w[n]) : o[N][Len(o[n - 1]) + j] = w[n][j]
  /\ \A i \in 1 .. Len(base) : o[N][i] = base[i]

\* In the whole, each piece is found where the pieces before it end.
LEMMA WholeIs ==
  ASSUME NEW N \in Nat, NEW A, NEW base \in Seq(A), NEW w \in [1 .. N -> Seq(A)],
         NEW o, Concats(o, N, base, w)
  PROVE  Whole(o, N, A, base, w)
<1>1. Laid(o, N, A, base, w)
  BY ConcatsAre
<1>2. Pieces(o, N, w)
  BY <1>1, PieceAt
<1>3. Starts(o, N)
  BY <1>1, PrefixOf
<1>4. o \in [0 .. N -> Seq(A)] /\ o[0] = base
  BY <1>1 DEF Laid
<1>5. \A n \in 0 .. N :
        Len(o[n]) <= Len(o[N]) /\ \A i \in 1 .. Len(o[n]) : o[N][i] = o[n][i]
  BY <1>3 DEF Starts
<1>6. ASSUME NEW n \in 1 .. N
      PROVE  /\ Len(o[n]) = Len(o[n - 1]) + Len(w[n])
             /\ \A j \in 1 .. Len(w[n]) : o[N][Len(o[n - 1]) + j] = w[n][j]
  <2>1. Len(o[n]) = Len(o[n - 1]) + Len(w[n])
    BY <1>2 DEF Pieces
  <2>2. ASSUME NEW j \in 1 .. Len(w[n]) PROVE o[N][Len(o[n - 1]) + j] = w[n][j]
    <3>1. PICK i \in Int : i = Len(o[n - 1]) + j
      <4>1. n - 1 \in 0 .. N /\ w[n] \in Seq(A)
        OBVIOUS
      <4>2. Len(o[n - 1]) \in Nat
        BY <1>4, <4>1
      <4> QED
        BY <4>2
    <3>2. i \in 1 .. Len(o[n])
      <4>1. n - 1 \in 0 .. N /\ w[n] \in Seq(A)
        OBVIOUS
      <4>2. Len(o[n - 1]) \in Nat /\ Len(w[n]) \in Nat
        BY <1>4, <4>1
      <4> QED
        BY <2>1, <3>1, <4>2
    <3>3. o[n][Len(o[n - 1]) + j] = w[n][j]
      BY <1>2 DEF Pieces
    <3>4. n \in 0 .. N
      OBVIOUS
    <3>5. o[N][i] = o[n][i]
      BY <1>5, <3>2, <3>4
    <3> QED
      BY <3>1, <3>3, <3>5
  <2> QED
    BY <2>1, <2>2
<1>7. \A i \in 1 .. Len(base) : o[N][i] = base[i]
  <2>1. 0 \in 0 .. N
    OBVIOUS
  <2> QED
    BY <1>4, <1>5, <2>1
<1> QED
  BY <1>4, <1>5, <1>6, <1>7 DEF Whole

-------------------------------------------------------------------------------
(* The configuration's text.                                                *)

Marks == {"|", "%", "7", "C", "2", "5", "?"}

Escapes(A, e, ch) ==
  /\ e \in Seq(A)
  /\ \/ ch \notin Special /\ Len(e) = 1 /\ e[1] = ch
     \/ ch \in Special /\ Len(e) = 3 /\ e[1] = "%" /\ Char(<<e[2], e[3]>>) = ch

LEMMA CodeIs ==
  /\ Code["|"] = <<"7", "C">> /\ Code["%"] = <<"2", "5">>
  /\ Char(<<"7", "C">>) = "|" /\ Char(<<"2", "5">>) = "%"
<1>1. Code["|"] = <<"7", "C">> /\ Code["%"] = <<"2", "5">>
  BY DEF Code, Special
<1>2. <<"7", "C">> # <<"2", "5">>
  OBVIOUS
<1>3. Char(<<"7", "C">>) = "|"
  BY <1>1, <1>2 DEF Char, Special
<1>4. Char(<<"2", "5">>) = "%"
  BY <1>1, <1>2 DEF Char, Special
<1> QED
  BY <1>1, <1>3, <1>4

\* A character is escaped without a separator, and can be told again.
LEMMA EscapedIs ==
  ASSUME NEW S, Marks \subseteq S, NEW ch \in S
  PROVE  Escapes(S \ {"|"}, Escaped(ch), ch)
<1>1. CASE ch \notin Special
  <2>1. Escaped(ch) = <<ch>> /\ ch # "|"
    BY <1>1 DEF Escaped, Special
  <2> QED
    BY <1>1, <2>1 DEF Escapes
<1>2. CASE ch = "|"
  <2>1. Escaped(ch) = <<"%">> \o <<"7", "C">>
    BY <1>2, CodeIs DEF Escaped, Special
  <2>2. /\ <<"%">> \in Seq(S \ {"|"}) /\ <<"7", "C">> \in Seq(S \ {"|"})
        /\ Len(<<"%">>) = 1 /\ Len(<<"7", "C">>) = 2
    BY DEF Marks
  <2>3. /\ Escaped(ch) \in Seq(S \ {"|"}) /\ Len(Escaped(ch)) = 3
        /\ Escaped(ch)[1] = "%" /\ Escaped(ch)[2] = "7" /\ Escaped(ch)[3] = "C"
    BY <2>1, <2>2, ConcatProperties
  <2> QED
    BY <1>2, <2>3, CodeIs DEF Escapes, Special
<1>3. CASE ch = "%"
  <2>1. Escaped(ch) = <<"%">> \o <<"2", "5">>
    BY <1>3, CodeIs DEF Escaped, Special
  <2>2. /\ <<"%">> \in Seq(S \ {"|"}) /\ <<"2", "5">> \in Seq(S \ {"|"})
        /\ Len(<<"%">>) = 1 /\ Len(<<"2", "5">>) = 2
    BY DEF Marks
  <2>3. /\ Escaped(ch) \in Seq(S \ {"|"}) /\ Len(Escaped(ch)) = 3
        /\ Escaped(ch)[1] = "%" /\ Escaped(ch)[2] = "2" /\ Escaped(ch)[3] = "5"
    BY <2>1, <2>2, ConcatProperties
  <2> QED
    BY <1>3, <2>3, CodeIs DEF Escapes, Special
<1> QED
  BY <1>1, <1>2, <1>3 DEF Special

Encodes(t, o) ==
  o = [n \in 0 .. Len(t) |-> IF n = 0 THEN <<>> ELSE o[n - 1] \o Escaped(t[n])]

Codes(t) == [n \in 1 .. Len(t) |-> Escaped(t[n])]

\* o[n] is the code of the first n characters.
Encoded(S, t, o) ==
  Whole(o, Len(t), S \ {"|"}, <<>>, Codes(t)) /\ enc(t) = o[Len(t)]

LEMMA EncIs ==
  ASSUME NEW S, Marks \subseteq S, NEW t \in Seq(S)
  PROVE  \E o : Encoded(S, t, o)
<1> DEFINE N == Len(t)
<1> DEFINE A == S \ {"|"}
<1> DEFINE w == Codes(t)
<1>1. N \in Nat
  OBVIOUS
<1>2. w \in [1 .. N -> Seq(A)]
  <2> SUFFICES ASSUME NEW n \in 1 .. N PROVE Escaped(t[n]) \in Seq(A)
    BY DEF Codes
  <2>1. t[n] \in S
    OBVIOUS
  <2> QED
    BY <2>1, EscapedIs DEF Escapes
<1>3. <<>> \in Seq(A)
  OBVIOUS
<1>4. ASSUME NEW o PROVE Concats(o, N, <<>>, w) <=> Encodes(t, o)
  <2>1. ASSUME NEW n \in 0 .. N
        PROVE  (IF n = 0 THEN <<>> ELSE o[n - 1] \o w[n])
                 = (IF n = 0 THEN <<>> ELSE o[n - 1] \o Escaped(t[n]))
    <3>1. CASE n = 0
      BY <3>1
    <3>2. CASE n # 0
      <4>1. n \in 1 .. N
        BY <3>2
      <4>2. w[n] = Escaped(t[n])
        BY <4>1 DEF Codes
      <4> QED
        BY <3>2, <4>2
    <3> QED
      BY <3>1, <3>2
  <2>2. [n \in 0 .. N |-> IF n = 0 THEN <<>> ELSE o[n - 1] \o w[n]]
          = [n \in 0 .. N |-> IF n = 0 THEN <<>> ELSE o[n - 1] \o Escaped(t[n])]
    BY <2>1, Zenon
  <2> QED
    BY <2>2, Zenon DEF Concats, Encodes
<1> HIDE DEF N, A, w
<1>5. \E o : Concats(o, N, <<>>, w)
  BY <1>1, <1>2, <1>3, ConcatsExist
<1>6. \E o : Encodes(t, o)
  BY <1>4, <1>5
<1> DEFINE o == CHOOSE x : Encodes(t, x)
<1>7. Encodes(t, o)
  BY <1>6
<1>8. enc(t) = o[N]
  BY DEF enc, Encodes, N
<1> HIDE DEF o
<1>9. Whole(o, N, A, <<>>, w)
  BY <1>1, <1>2, <1>3, <1>4, <1>7, WholeIs
<1> QED
  BY <1>8, <1>9 DEF Encoded, N, A, w

\* The same, a character at a time.
Spelt(S, t, o) ==
  /\ enc(t) \in Seq(S \ {"|"}) /\ enc(t) = o[Len(t)] /\ Len(o[0]) = 0
  /\ \A n \in 0 .. Len(t) : Len(o[n]) \in Nat /\ Len(o[n]) <= Len(enc(t))
  /\ \A n \in 1 .. Len(t) :
       /\ Len(o[n]) = Len(o[n - 1]) + Len(Escaped(t[n]))
       /\ \A j \in 1 .. Len(Escaped(t[n])) :
            enc(t)[Len(o[n - 1]) + j] = Escaped(t[n])[j]

LEMMA SpeltIs ==
  ASSUME NEW S, Marks \subseteq S, NEW t \in Seq(S), NEW o, Encoded(S, t, o)
  PROVE  Spelt(S, t, o)
<1>1. Len(t) \in Nat
  OBVIOUS
<1>2. \A n \in 1 .. Len(t) : Codes(t)[n] = Escaped(t[n])
  BY DEF Codes
<1>3. /\ o \in [0 .. Len(t) -> Seq(S \ {"|"})] /\ o[0] = <<>> /\ enc(t) = o[Len(t)]
      /\ \A n \in 0 .. Len(t) : Len(o[n]) <= Len(o[Len(t)])
      /\ \A n \in 1 .. Len(t) :
           /\ Len(o[n]) = Len(o[n - 1]) + Len(Codes(t)[n])
           /\ \A j \in 1 .. Len(Codes(t)[n]) :
                o[Len(t)][Len(o[n - 1]) + j] = Codes(t)[n][j]
  BY DEF Encoded, Whole
<1>4. \A n \in 0 .. Len(t) : Len(o[n]) \in Nat
  BY <1>3
<1> QED
  BY <1>1, <1>2, <1>3, <1>4 DEF Spelt

\* Where the code of the first n characters ends is no earlier than n.
LEMMA CodeNotShorter ==
  ASSUME NEW S, Marks \subseteq S, NEW t \in Seq(S), NEW o, Spelt(S, t, o)
  PROVE  Len(t) <= Len(enc(t))
<1>1. /\ enc(t) = o[Len(t)] /\ Len(o[0]) = 0
      /\ \A n \in 0 .. Len(t) : Len(o[n]) \in Nat
      /\ \A n \in 1 .. Len(t) : Len(o[n]) = Len(o[n - 1]) + Len(Escaped(t[n]))
  BY DEF Spelt
<1> DEFINE T == {n \in 0 .. Len(t) : n <= Len(o[n])}
<1>2. Len(t) \in Nat
  OBVIOUS
<1>3. 0 \in T
  BY <1>1, <1>2
<1>4. ASSUME NEW n \in 0 .. Len(t) - 1, n \in T PROVE n + 1 \in T
  <2>1. PICK k \in 1 .. Len(t) : k = n + 1
    BY <1>2
  <2>2. Escapes(S \ {"|"}, Escaped(t[k]), t[k])
    BY EscapedIs
  <2>3. Len(Escaped(t[k])) \in Nat \ {0}
    BY <2>2 DEF Escapes
  <2>4. Len(o[k]) = Len(o[n]) + Len(Escaped(t[k]))
    <3>1. k - 1 = n
      BY <2>1
    <3>2. Len(o[k]) = Len(o[k - 1]) + Len(Escaped(t[k]))
      BY <1>1
    <3> QED
      BY <3>1, <3>2
  <2>5. n <= Len(o[n]) /\ Len(o[n]) \in Nat
    BY <1>1, <1>4
  <2>6. k <= Len(o[k])
    <3> DEFINE a == Len(o[n])
    <3> DEFINE b == Len(Escaped(t[k]))
    <3>1. a \in Nat /\ b \in Nat \ {0} /\ n <= a /\ n \in Nat /\ Len(o[k]) = a + b
      BY <2>3, <2>4, <2>5
    <3> HIDE DEF a, b
    <3>2. n + 1 <= a + b
      BY <3>1
    <3> QED
      BY <2>1, <3>1, <3>2
  <2> QED
    BY <2>1, <2>6
<1> HIDE DEF T
<1>5. \A n \in 0 .. Len(t) : n \in T
  BY <1>2, <1>3, <1>4, UpTo
<1>6. Len(t) \in T
  BY <1>2, <1>5
<1> QED
  BY <1>1, <1>6 DEF T

Readings(S) == [at : Nat \ {0}, o : Seq(S)]
Start == [at |-> 1, o |-> <<>>]

\* A turn of the loop of dec() keeps to characters.
LEMMA TakenIn ==
  ASSUME NEW S, Marks \subseteq S, NEW code \in Seq(S), NEW r \in Readings(S)
  PROVE  Taken(code, r) \in Readings(S)
<1>1. r.at \in Nat \ {0} /\ r.o \in Seq(S)
  BY DEF Readings
<1>2. \A d : Char(d) \in S
  BY DEF Char, Special, Marks
<1>3. CASE r.at > Len(code)
  BY <1>3 DEF Taken
<1>4. CASE ~(r.at > Len(code))
  <2>1. code[r.at] \in S
    BY <1>1, <1>4
  <2>2. \A ch \in S, k \in Nat : [at |-> r.at + 1 + k, o |-> Append(r.o, ch)] \in Readings(S)
    BY <1>1 DEF Readings
  <2>3. [at |-> r.at + 1, o |-> Append(r.o, code[r.at])] \in Readings(S)
    BY <1>1, <2>1 DEF Readings
  <2>4. [at |-> r.at + 3, o |-> Append(r.o, Char(<<code[r.at + 1], code[r.at + 2]>>))] \in Readings(S)
    BY <1>1, <1>2 DEF Readings
  <2> QED
    BY <1>4, <2>3, <2>4 DEF Taken
<1> QED
  BY <1>3, <1>4

Decodes(code, r) ==
  r = [n \in 0 .. Len(code) |-> IF n = 0 THEN Start ELSE Taken(code, r[n - 1])]

LEMMA DecLoops ==
  ASSUME NEW S, Marks \subseteq S, NEW code \in Seq(S)
  PROVE  \E r : /\ dec(code) = r[Len(code)].o /\ r[0] = Start
                /\ \A n \in 1 .. Len(code) : r[n] = Taken(code, r[n - 1])
<1> DEFINE A == Readings(S)
<1> DEFINE N == Len(code)
<1> DEFINE step == [x \in (1 .. N) \X A |-> Taken(code, x[2])]
<1>1. N \in Nat /\ Start \in A
  BY DEF Readings, Start
<1>2. step \in [(1 .. N) \X A -> A]
  <2> SUFFICES ASSUME NEW x \in (1 .. N) \X A PROVE Taken(code, x[2]) \in A
    OBVIOUS
  <2>1. x[2] \in A
    OBVIOUS
  <2> QED
    BY <2>1, TakenIn
<1>3. \A n \in 1 .. N, x \in A : step[<<n, x>>] = Taken(code, x)
  OBVIOUS
<1> HIDE DEF step, A
<1>4. PICK r : Turns(r, N, A, Start, step)
  BY <1>1, <1>2, Recursion
<1>5. r \in [0 .. N -> A] /\ r[0] = Start /\ \A n \in 1 .. N : r[n] = step[<<n, r[n - 1]>>]
  BY <1>4 DEF Turns
<1>6. ASSUME NEW n \in 1 .. N PROVE r[n] = Taken(code, r[n - 1])
  <2>1. n - 1 \in 0 .. N
    OBVIOUS
  <2>2. r[n - 1] \in A
    BY <1>5, <2>1
  <2>3. r[n] = step[<<n, r[n - 1]>>]
    BY <1>5
  <2> QED
    BY <1>3, <2>2, <2>3
<1>7. \A n \in 0 .. N : r[n] = IF n = 0 THEN Start ELSE Taken(code, r[n - 1])
  <2> TAKE n \in 0 .. N
  <2>1. CASE n = 0
    BY <1>5, <2>1
  <2>2. CASE n # 0
    <3>1. n \in 1 .. N
      BY <2>2
    <3> QED
      BY <1>6, <2>2, <3>1
  <2> QED
    BY <2>1, <2>2
<1>8. r = [n \in 0 .. N |-> r[n]]
  BY <1>5
<1>9. Decodes(code, r)
  BY <1>7, <1>8, Zenon DEF Decodes, N
<1> DEFINE d == CHOOSE x : Decodes(code, x)
<1>10. Decodes(code, d)
  BY <1>9
<1>11. dec(code) = d[N].o
  BY DEF dec, Decodes, Start
<1> HIDE DEF d
<1>12. ASSUME NEW n \in 0 .. N PROVE d[n] = IF n = 0 THEN Start ELSE Taken(code, d[n - 1])
  BY <1>10, Zenon DEF Decodes
<1>13. d[0] = Start
  BY <1>1, <1>12
<1>14. ASSUME NEW n \in 1 .. N PROVE d[n] = Taken(code, d[n - 1])
  <2>1. n \in 0 .. N /\ n # 0
    OBVIOUS
  <2> QED
    BY <1>12, <2>1
<1> QED
  BY <1>11, <1>13, <1>14

\* What dec() has read of the code of t when it has read n characters.
Reads(S, t, o, n, r) ==
  /\ r.at = Len(o[n]) + 1 /\ r.o \in Seq(S) /\ Len(r.o) = n
  /\ \A i \in 1 .. n : r.o[i] = t[i]

\* It reads one more character in one turn.
LEMMA ReadsOn ==
  ASSUME NEW S, Marks \subseteq S, NEW t \in Seq(S), NEW o, Spelt(S, t, o),
         NEW n \in 1 .. Len(t), NEW r, Reads(S, t, o, n - 1, r)
  PROVE  Reads(S, t, o, n, Taken(enc(t), r))
<1> DEFINE code == enc(t)
<1> DEFINE e == Escaped(t[n])
<1> DEFINE a == Len(o[n - 1])
<1>1. Escapes(S \ {"|"}, e, t[n])
  <2>1. t[n] \in S
    OBVIOUS
  <2> QED
    BY <2>1, EscapedIs
<1>2. /\ a \in Nat /\ Len(o[n]) \in Nat /\ Len(o[n]) <= Len(code) /\ Len(o[n]) = a + Len(e)
      /\ \A j \in 1 .. Len(e) : code[a + j] = e[j]
  <2>1. n - 1 \in 0 .. Len(t) /\ n \in 0 .. Len(t)
    OBVIOUS
  <2> QED
    BY <2>1 DEF Spelt
<1>3. code \in Seq(S \ {"|"}) /\ Len(code) \in Nat
  BY DEF Spelt
<1>4. /\ r.at = a + 1 /\ r.o \in Seq(S) /\ Len(r.o) = n - 1
      /\ \A i \in 1 .. n - 1 : r.o[i] = t[i]
  BY DEF Reads
<1> HIDE DEF a, e, code
<1>5. ASSUME NEW q, q.at = Len(o[n]) + 1, q.o = Append(r.o, t[n]) PROVE Reads(S, t, o, n, q)
  <2>1. t[n] \in S
    OBVIOUS
  <2>2. q.o \in Seq(S) /\ Len(q.o) = n /\ \A i \in 1 .. n : q.o[i] = t[i]
    BY <1>4, <1>5, <2>1
  <2> QED
    BY <1>5, <2>2 DEF Reads
<1>6. CASE t[n] \notin Special /\ Len(e) = 1 /\ e[1] = t[n]
  <2>1. r.at <= Len(code) /\ code[r.at] = t[n] /\ t[n] # "%"
    BY <1>2, <1>3, <1>4, <1>6 DEF Special
  <2>2. Taken(code, r) = [at |-> r.at + 1, o |-> Append(r.o, t[n])]
    BY <1>2, <1>3, <1>4, <2>1 DEF Taken
  <2>3. Taken(code, r).at = Len(o[n]) + 1 /\ Taken(code, r).o = Append(r.o, t[n])
    BY <1>2, <1>4, <1>6, <2>2
  <2> QED
    BY <1>5, <2>3 DEF code
<1>7. CASE t[n] \in Special /\ Len(e) = 3 /\ e[1] = "%" /\ Char(<<e[2], e[3]>>) = t[n]
  <2>1. /\ r.at <= Len(code) /\ r.at + 2 <= Len(code) /\ r.at \in Nat
        /\ r.at + 1 = a + 2 /\ r.at + 2 = a + 3
    BY <1>2, <1>3, <1>4, <1>7
  <2>2. code[r.at] = "%" /\ code[r.at + 1] = e[2] /\ code[r.at + 2] = e[3]
    BY <1>2, <1>4, <1>7, <2>1
  <2>3. Taken(code, r) = [at |-> r.at + 3, o |-> Append(r.o, t[n])]
    <3>1. Char(<<code[r.at + 1], code[r.at + 2]>>) = t[n]
      BY <1>7, <2>2
    <3>2. ~(r.at > Len(code))
      BY <1>3, <2>1
    <3> QED
      BY <2>1, <2>2, <3>1, <3>2, Zenon DEF Taken
  <2>4. Taken(code, r).at = Len(o[n]) + 1 /\ Taken(code, r).o = Append(r.o, t[n])
    BY <1>2, <1>4, <1>7, <2>3
  <2> QED
    BY <1>5, <2>4 DEF code
<1> QED
  BY <1>1, <1>6, <1>7 DEF Escapes

\* What was escaped is read again (enc, dec).
LEMMA DecIs ==
  ASSUME NEW S, Marks \subseteq S, NEW t \in Seq(S)
  PROVE  dec(enc(t)) = t
<1>1. PICK o : Encoded(S, t, o)
  BY EncIs
<1>2. Spelt(S, t, o)
  BY <1>1, SpeltIs
<1> DEFINE code == enc(t)
<1>3. code \in Seq(S) /\ Len(code) \in Nat /\ code = o[Len(t)] /\ Len(o[0]) = 0
  BY <1>2 DEF Spelt
<1>4. Len(t) \in Nat /\ Len(t) <= Len(code)
  BY <1>2, CodeNotShorter
<1> HIDE DEF code
<1>5. PICK r : /\ dec(code) = r[Len(code)].o /\ r[0] = Start
               /\ \A n \in 1 .. Len(code) : r[n] = Taken(code, r[n - 1])
  BY <1>3, DecLoops
<1> DEFINE T == {n \in 0 .. Len(code) : Reads(S, t, o, IF n <= Len(t) THEN n ELSE Len(t), r[n])}
<1>6. 0 \in T
  <2>1. Reads(S, t, o, 0, r[0])
    BY <1>3, <1>5 DEF Reads, Start
  <2> QED
    BY <1>3, <1>4, <2>1
<1>7. ASSUME NEW n \in 0 .. Len(code) - 1, n \in T PROVE n + 1 \in T
  <2>1. PICK k \in 1 .. Len(code) : k = n + 1
    BY <1>3
  <2>2. k - 1 = n
    BY <2>1
  <2>3. r[k] = Taken(code, r[n])
    <3>1. r[k] = Taken(code, r[k - 1])
      BY <1>5
    <3> QED
      BY <2>2, <3>1
  <2>4. CASE k <= Len(t)
    <3>1. k \in 1 .. Len(t)
      BY <2>4
    <3>2. Reads(S, t, o, k - 1, r[n])
      <4>1. n <= Len(t)
        BY <1>4, <2>1, <2>4
      <4>2. Reads(S, t, o, n, r[n])
        BY <1>7, <4>1
      <4> QED
        BY <2>2, <4>2
    <3>3. Reads(S, t, o, k, r[k])
      BY <1>2, <2>3, <3>1, <3>2, ReadsOn DEF code
    <3>4. k \in T
      BY <2>4, <3>3
    <3> QED
      BY <2>1, <3>4
  <2>5. CASE ~(k <= Len(t))
    <3>1. n >= Len(t) /\ n \in Nat
      BY <1>4, <2>1, <2>5
    <3>2. Reads(S, t, o, Len(t), r[n])
      <4>1. CASE n = Len(t)
        BY <1>4, <1>7, <4>1
      <4>2. CASE ~(n <= Len(t))
        BY <1>7, <4>2
      <4> QED
        BY <1>4, <3>1, <4>1, <4>2
    <3>3. r[n].at > Len(code)
      BY <1>3, <3>2 DEF Reads
    <3>4. r[k] = r[n]
      BY <2>3, <3>3 DEF Taken
    <3>5. Reads(S, t, o, Len(t), r[k])
      BY <3>2, <3>4
    <3>6. k \in T
      BY <2>5, <3>5
    <3> QED
      BY <2>1, <3>6
  <2> QED
    BY <2>4, <2>5
<1> HIDE DEF T
<1>8. \A n \in 0 .. Len(code) : n \in T
  BY <1>3, <1>6, <1>7, UpTo
<1>9. Len(code) \in T
  BY <1>3, <1>8
<1>10. Reads(S, t, o, Len(t), r[Len(code)])
  <2>1. CASE Len(code) = Len(t)
    BY <1>4, <1>9, <2>1 DEF T
  <2>2. CASE ~(Len(code) <= Len(t))
    BY <1>9, <2>2 DEF T
  <2> QED
    BY <1>3, <1>4, <2>1, <2>2
<1>11. /\ dec(code) \in Seq(S) /\ Len(dec(code)) = Len(t)
       /\ \A i \in 1 .. Len(t) : dec(code)[i] = t[i]
  BY <1>5, <1>10 DEF Reads
<1>12. dec(code) = t
  BY <1>11, SeqEqual
<1> QED
  BY <1>12 DEF code

Splits(t, out) ==
  out = [n \in 0 .. Len(t) |-> IF n = 0 THEN <<<<>>>> ELSE Cut(out[n - 1], t[n], "|")]

Lists(S) == {x \in Seq(Seq(S)) : Len(x) # 0}

LEMMA CutIn ==
  ASSUME NEW S, NEW x \in Lists(S), NEW ch \in S
  PROVE  Cut(x, ch, "|") \in Lists(S)
<1>1. x \in Seq(Seq(S)) /\ Len(x) \in Nat \ {0}
  BY DEF Lists
<1>2. CASE ch = "|"
  <2>1. Append(x, <<>>) \in Seq(Seq(S)) /\ Len(Append(x, <<>>)) = Len(x) + 1
    BY <1>1
  <2>2. Append(x, <<>>) \in Lists(S)
    BY <1>1, <2>1 DEF Lists
  <2> QED
    BY <1>2, <2>2 DEF Cut
<1>3. CASE ch # "|"
  <2>1. Len(x) \in 1 .. Len(x) /\ x[Len(x)] \in Seq(S)
    BY <1>1
  <2>2. Append(x[Len(x)], ch) \in Seq(S)
    BY <2>1
  <2> DEFINE y == [x EXCEPT ![Len(x)] = Append(x[Len(x)], ch)]
  <2>3. y \in Seq(Seq(S)) /\ Len(y) = Len(x)
    BY <1>1, <2>1, <2>2, ExceptSeq
  <2>4. y \in Lists(S)
    BY <1>1, <2>3 DEF Lists
  <2> QED
    BY <1>3, <2>4 DEF Cut
<1> QED
  BY <1>2, <1>3

CutsThrough(t, out) ==
  /\ split(t, "|") = out[Len(t)] /\ out[0] = <<<<>>>>
  /\ \A n \in 1 .. Len(t) : out[n] = Cut(out[n - 1], t[n], "|")

LEMMA SplitLoops ==
  ASSUME NEW S, NEW t \in Seq(S)
  PROVE  \E out : CutsThrough(t, out)
<1> DEFINE A == Lists(S)
<1> DEFINE N == Len(t)
<1> DEFINE base == <<<<>>>>
<1> DEFINE step == [x \in (1 .. N) \X A |-> Cut(x[2], t[x[1]], "|")]
<1>1. N \in Nat /\ base \in A
  BY DEF Lists
<1>2. step \in [(1 .. N) \X A -> A]
  <2> SUFFICES ASSUME NEW x \in (1 .. N) \X A PROVE Cut(x[2], t[x[1]], "|") \in A
    OBVIOUS
  <2>1. x[2] \in A /\ t[x[1]] \in S
    OBVIOUS
  <2> QED
    BY <2>1, CutIn
<1>3. \A n \in 1 .. N, x \in A : step[<<n, x>>] = Cut(x, t[n], "|")
  OBVIOUS
<1> HIDE DEF step, A, base
<1>4. PICK r : Turns(r, N, A, base, step)
  BY <1>1, <1>2, Recursion
<1>5. r \in [0 .. N -> A] /\ r[0] = base /\ \A n \in 1 .. N : r[n] = step[<<n, r[n - 1]>>]
  BY <1>4 DEF Turns
<1>6. ASSUME NEW n \in 1 .. N PROVE r[n] = Cut(r[n - 1], t[n], "|")
  <2>1. n - 1 \in 0 .. N
    OBVIOUS
  <2>2. r[n - 1] \in A
    BY <1>5, <2>1
  <2>3. r[n] = step[<<n, r[n - 1]>>]
    BY <1>5
  <2> QED
    BY <1>3, <2>2, <2>3
<1>7. \A n \in 0 .. N : r[n] = IF n = 0 THEN base ELSE Cut(r[n - 1], t[n], "|")
  <2> TAKE n \in 0 .. N
  <2>1. CASE n = 0
    BY <1>5, <2>1
  <2>2. CASE n # 0
    <3>1. n \in 1 .. N
      BY <2>2
    <3> QED
      BY <1>6, <2>2, <3>1
  <2> QED
    BY <2>1, <2>2
<1>8. r = [n \in 0 .. N |-> r[n]]
  BY <1>5
<1>9. Splits(t, r)
  BY <1>7, <1>8, Zenon DEF Splits, N, base
<1> DEFINE d == CHOOSE x : Splits(t, x)
<1>10. Splits(t, d)
  BY <1>9
<1>11. split(t, "|") = d[N]
  BY DEF split, Splits
<1> HIDE DEF d
<1>12. ASSUME NEW n \in 0 .. N PROVE d[n] = IF n = 0 THEN base ELSE Cut(d[n - 1], t[n], "|")
  BY <1>10, Zenon DEF Splits, base
<1>13. d[0] = base
  BY <1>1, <1>12
<1>14. ASSUME NEW n \in 1 .. N PROVE d[n] = Cut(d[n - 1], t[n], "|")
  <2>1. n \in 0 .. N /\ n # 0
    OBVIOUS
  <2> QED
    BY <1>12, <2>1
<1>15. CutsThrough(t, d)
  BY <1>11, <1>13, <1>14 DEF CutsThrough, base
<1> QED
  BY <1>15

\* m parts are split off, and j characters of the next.
Shares(S, p, x, m, j) ==
  /\ x \in Seq(Seq(S)) /\ Len(x) = m + 1
  /\ \A i \in 1 .. m : x[i] = p[i]
  /\ Len(x[m + 1]) = j /\ \A i \in 1 .. j : x[m + 1][i] = p[m + 1][i]

LEMMA CutPlain ==
  ASSUME NEW S, NEW p, NEW x, NEW m \in Nat, NEW j \in Nat, Shares(S, p, x, m, j),
         NEW ch \in S, ch # "|", ch = p[m + 1][j + 1]
  PROVE  Shares(S, p, Cut(x, ch, "|"), m, j + 1)
<1>0. /\ x \in Seq(Seq(S)) /\ Len(x) = m + 1
      /\ \A i \in 1 .. m : x[i] = p[i]
      /\ Len(x[m + 1]) = j /\ \A i \in 1 .. j : x[m + 1][i] = p[m + 1][i]
  BY Zenon DEF Shares
<1>1. /\ x \in Seq(Seq(S)) /\ Len(x) = m + 1 /\ m + 1 \in 1 .. Len(x)
      /\ \A i \in 1 .. m : x[i] = p[i]
      /\ Len(x[m + 1]) = j /\ \A i \in 1 .. j : x[m + 1][i] = p[m + 1][i]
  <2>1. m + 1 \in 1 .. m + 1
    OBVIOUS
  <2> QED
    BY <1>0, <2>1, Zenon
<1> DEFINE u == x[m + 1]
<1> DEFINE v == Append(u, ch)
<1> DEFINE y == [x EXCEPT ![m + 1] = v]
<1>2. Cut(x, ch, "|") = y
  BY <1>1 DEF Cut
<1>3. u \in Seq(S)
  BY <1>1
<1>4. v \in Seq(S) /\ Len(v) = j + 1 /\ \A i \in 1 .. j + 1 : v[i] = p[m + 1][i]
  <2>1. v \in Seq(S) /\ Len(v) = j + 1 /\ v[j + 1] = ch /\ \A i \in 1 .. j : v[i] = u[i]
    BY <1>1, <1>3
  <2> HIDE DEF v
  <2>2. ASSUME NEW i \in 1 .. j + 1 PROVE v[i] = p[m + 1][i]
    <3>1. CASE i = j + 1
      BY <2>1, <3>1
    <3>2. CASE i \in 1 .. j
      BY <1>1, <2>1, <3>2
    <3> QED
      BY <3>1, <3>2
  <2> QED
    BY <2>1, <2>2
<1> HIDE DEF v
<1>5. y \in Seq(Seq(S)) /\ Len(y) = Len(x)
  BY <1>1, <1>4, ExceptSeq
<1>6. y[m + 1] = v /\ \A i \in 1 .. m : y[i] = x[i]
  BY <1>1
<1> HIDE DEF y
<1> QED
  BY <1>1, <1>2, <1>4, <1>5, <1>6 DEF Shares

LEMMA CutBar ==
  ASSUME NEW S, NEW p, NEW x, NEW m \in Nat, p[m + 1] \in Seq(S),
         Shares(S, p, x, m, Len(p[m + 1]))
  PROVE  Shares(S, p, Cut(x, "|", "|"), m + 1, 0)
<1>1. /\ x \in Seq(Seq(S)) /\ Len(x) = m + 1 /\ m + 1 \in 1 .. Len(x)
      /\ \A i \in 1 .. m : x[i] = p[i]
      /\ Len(x[m + 1]) = Len(p[m + 1])
      /\ \A i \in 1 .. Len(p[m + 1]) : x[m + 1][i] = p[m + 1][i]
  BY DEF Shares
<1>2. x[m + 1] = p[m + 1]
  <2>1. x[m + 1] \in Seq(S)
    BY <1>1
  <2> QED
    BY <1>1, <2>1, SeqEqual
<1> DEFINE y == Append(x, <<>>)
<1>3. /\ y \in Seq(Seq(S)) /\ Len(y) = m + 2 /\ y[m + 2] = <<>>
      /\ \A i \in 1 .. m + 1 : y[i] = x[i]
  BY <1>1
<1>4. Cut(x, "|", "|") = y
  BY DEF Cut
<1> HIDE DEF y
<1>5. \A i \in 1 .. m + 1 : y[i] = p[i]
  <2> TAKE i \in 1 .. m + 1
  <2>1. CASE i = m + 1
    BY <1>2, <1>3, <2>1
  <2>2. CASE i \in 1 .. m
    BY <1>1, <1>3, <2>2
  <2> QED
    BY <2>1, <2>2
<1>6. y[(m + 1) + 1] = <<>> /\ (m + 1) + 1 = m + 2
  BY <1>3
<1>7. Shares(S, p, y, m + 1, 0)
  BY <1>3, <1>5, <1>6 DEF Shares
<1> QED
  BY <1>4, <1>7

\* One part is split off, from s on.
LEMMA ShareOn ==
  ASSUME NEW S, NEW p, NEW t \in Seq(S), NEW out, CutsThrough(t, out),
         NEW m \in Nat, p[m + 1] \in Seq(S \ {"|"}),
         NEW s \in Nat, s + Len(p[m + 1]) <= Len(t),
         \A j \in 1 .. Len(p[m + 1]) : t[s + j] = p[m + 1][j],
         Shares(S, p, out[s], m, 0)
  PROVE  Shares(S, p, out[s + Len(p[m + 1])], m, Len(p[m + 1]))
<1> DEFINE u == p[m + 1]
<1> DEFINE L == Len(u)
<1>1. L \in Nat /\ Len(t) \in Nat
  OBVIOUS
<1> DEFINE T == {j \in 0 .. L : Shares(S, p, out[s + j], m, j)}
<1>2. 0 \in T
  BY <1>1
<1>3. ASSUME NEW j \in 0 .. L - 1, j \in T PROVE j + 1 \in T
  <2>1. PICK k \in 1 .. L : k = j + 1
    BY <1>1
  <2>2. PICK n \in 1 .. Len(t) : n = s + k
    BY <1>1
  <2>3. n - 1 = s + j
    BY <2>1, <2>2
  <2>4. out[n] = Cut(out[s + j], t[n], "|")
    <3>1. out[n] = Cut(out[n - 1], t[n], "|")
      BY DEF CutsThrough
    <3> QED
      BY <2>3, <3>1
  <2>5. t[n] = u[k] /\ u[k] \in S \ {"|"}
    BY <2>2
  <2>6. t[n] \in S /\ t[n] # "|" /\ t[n] = p[m + 1][j + 1]
    BY <2>1, <2>5
  <2>7. Shares(S, p, out[s + j], m, j) /\ j \in Nat
    BY <1>3
  <2>8. Shares(S, p, Cut(out[s + j], t[n], "|"), m, j + 1)
    BY <2>6, <2>7, CutPlain
  <2>9. Shares(S, p, out[s + k], m, k)
    BY <2>1, <2>2, <2>4, <2>8
  <2>10. k \in T
    BY <2>9
  <2> QED
    BY <2>1, <2>10
<1> HIDE DEF T
<1>4. \A j \in 0 .. L : j \in T
  BY <1>1, <1>2, <1>3, UpTo
<1>5. L \in T
  BY <1>1, <1>4
<1> QED
  BY <1>5 DEF T

SplitInto(t, p, N) ==
  Len(split(t, "|")) = N + 1 /\ \A i \in 1 .. N + 1 : split(t, "|")[i] = p[i]

\* split() undoes a join of parts without separators.
LEMMA SplitIs ==
  ASSUME NEW S, "|" \in S, NEW N \in Nat, NEW p \in [1 .. N + 1 -> Seq(S \ {"|"})],
         NEW w, w = [n \in 1 .. N |-> <<"|">> \o p[n + 1]],
         NEW o, Whole(o, N, S, p[1], w)
  PROVE  SplitInto(o[N], p, N)
<1> DEFINE t == o[N]
<1>1. /\ o \in [0 .. N -> Seq(S)] /\ o[0] = p[1]
      /\ \A n \in 0 .. N : Len(o[n]) <= Len(t)
      /\ \A n \in 1 .. N :
           /\ Len(o[n]) = Len(o[n - 1]) + Len(w[n])
           /\ \A j \in 1 .. Len(w[n]) : t[Len(o[n - 1]) + j] = w[n][j]
      /\ \A i \in 1 .. Len(p[1]) : t[i] = p[1][i]
  BY DEF Whole
<1>2. t \in Seq(S) /\ Len(t) \in Nat
  BY <1>1
<1>3. ASSUME NEW n \in 1 .. N
      PROVE  /\ p[n + 1] \in Seq(S \ {"|"}) /\ Len(p[n + 1]) \in Nat
             /\ Len(w[n]) = Len(p[n + 1]) + 1 /\ w[n][1] = "|"
             /\ \A j \in 1 .. Len(p[n + 1]) : w[n][1 + j] = p[n + 1][j]
  <2> DEFINE u == p[n + 1]
  <2>1. u \in Seq(S \ {"|"})
    OBVIOUS
  <2>2. u \in Seq(S) /\ <<"|">> \in Seq(S) /\ Len(<<"|">>) = 1 /\ <<"|">>[1] = "|"
    BY <2>1
  <2>3. w[n] = <<"|">> \o u
    OBVIOUS
  <2> HIDE DEF u
  <2>4. /\ Len(w[n]) = 1 + Len(u)
        /\ \A i \in 1 .. 1 + Len(u) : w[n][i] = IF i <= 1 THEN <<"|">>[i] ELSE u[i - 1]
    BY <2>2, <2>3, ConcatProperties
  <2>5. Len(u) \in Nat
    BY <2>2
  <2>6. w[n][1] = "|"
    BY <2>2, <2>4, <2>5
  <2>7. ASSUME NEW j \in 1 .. Len(u) PROVE w[n][1 + j] = u[j]
    <3>1. 1 + j \in 1 .. 1 + Len(u) /\ ~(1 + j <= 1) /\ (1 + j) - 1 = j
      BY <2>5
    <3> QED
      BY <2>4, <3>1
  <2> QED
    BY <2>1, <2>4, <2>5, <2>6, <2>7 DEF u
<1> HIDE DEF t
<1>4. PICK out : CutsThrough(t, out)
  BY <1>2, SplitLoops
<1> DEFINE Q(m) == Shares(S, p, out[Len(o[m])], m, Len(p[m + 1]))
<1> DEFINE T == {m \in 0 .. N : Q(m)}
<1>5. 0 \in T
  <2>1. p[0 + 1] \in Seq(S \ {"|"}) /\ 0 + 1 = 1 /\ Len(p[1]) \in Nat
    OBVIOUS
  <2>2. Shares(S, p, out[0], 0, 0)
    <3>1. out[0] = <<<<>>>>
      BY <1>4 DEF CutsThrough
    <3> QED
      BY <3>1 DEF Shares
  <2>3. 0 + Len(p[0 + 1]) <= Len(t) /\ \A j \in 1 .. Len(p[0 + 1]) : t[0 + j] = p[0 + 1][j]
    BY <1>1, <1>2, <2>1
  <2>4. Shares(S, p, out[0 + Len(p[0 + 1])], 0, Len(p[0 + 1]))
    BY <1>2, <1>4, <2>1, <2>2, <2>3, ShareOn
  <2>5. Q(0)
    <3>1. Len(o[0]) = 0 + Len(p[0 + 1])
      BY <1>1, <2>1
    <3> QED
      BY <2>4, <3>1
  <2> HIDE DEF Q
  <2> QED
    BY <2>5
<1>6. ASSUME NEW m \in 0 .. N - 1, m \in T PROVE m + 1 \in T
  <2>1. PICK n \in 1 .. N : n = m + 1
    OBVIOUS
  <2>2. n - 1 = m /\ m \in 0 .. N /\ n \in 0 .. N
    BY <2>1
  <2> DEFINE a == Len(o[m])
  <2>3. a \in Nat
    BY <1>1, <2>2
  <2>4. /\ Len(o[n]) = a + Len(w[n]) /\ Len(o[n]) <= Len(t)
        /\ \A j \in 1 .. Len(w[n]) : t[a + j] = w[n][j]
    <3>1. /\ Len(o[n]) = Len(o[n - 1]) + Len(w[n])
          /\ \A j \in 1 .. Len(w[n]) : t[Len(o[n - 1]) + j] = w[n][j]
      BY <1>1
    <3> QED
      BY <1>1, <2>2, <3>1
  <2>5. Shares(S, p, out[a], m, Len(p[m + 1]))
    BY <1>6
  <2> HIDE DEF a
  <2>6. PICK s \in 1 .. Len(t) : s = a + 1
    BY <1>2, <1>3, <2>3, <2>4
  <2>7. out[s] = Cut(out[a], "|", "|")
    <3>1. out[s] = Cut(out[s - 1], t[s], "|")
      BY <1>4 DEF CutsThrough
    <3>2. s - 1 = a
      BY <2>3, <2>6
    <3>3. t[s] = "|"
      <4>1. 1 \in 1 .. Len(w[n]) /\ w[n][1] = "|"
        BY <1>3
      <4>2. t[a + 1] = w[n][1]
        BY <2>4, <4>1
      <4> QED
        BY <2>6, <4>1, <4>2
    <3> QED
      BY <3>1, <3>2, <3>3
  <2>8. Shares(S, p, out[s], n, 0)
    <3>1. p[m + 1] \in Seq(S) /\ m \in Nat
      OBVIOUS
    <3>2. Shares(S, p, Cut(out[a], "|", "|"), m + 1, 0)
      BY <2>5, <3>1, CutBar
    <3> QED
      BY <2>1, <2>7, <3>2
  <2> DEFINE u == p[n + 1]
  <2>9. u \in Seq(S \ {"|"}) /\ Len(u) \in Nat
    BY <1>3
  <2>10. s + Len(u) <= Len(t) /\ Len(o[n]) = s + Len(u)
    <3>1. Len(w[n]) = Len(u) + 1
      BY <1>3
    <3>2. Len(o[n]) = a + Len(w[n]) /\ Len(o[n]) <= Len(t) /\ s = a + 1
      BY <2>4, <2>6
    <3> HIDE DEF u
    <3> QED
      BY <1>2, <2>3, <2>9, <3>1, <3>2
  <2>11. ASSUME NEW j \in 1 .. Len(u) PROVE t[s + j] = u[j]
    <3>1. 1 + j \in 1 .. Len(w[n]) /\ a + (1 + j) = s + j
      BY <1>3, <2>3, <2>6
    <3>2. t[a + (1 + j)] = w[n][1 + j]
      BY <2>4, <3>1
    <3> QED
      BY <1>3, <3>1, <3>2
  <2>12. Shares(S, p, out[s + Len(u)], n, Len(u))
    <3>1. n \in Nat /\ s \in Nat
      OBVIOUS
    <3> QED
      BY <1>2, <1>4, <2>8, <2>9, <2>10, <2>11, <3>1, ShareOn
  <2>13. Q(n)
    BY <2>10, <2>12
  <2> HIDE DEF Q
  <2> QED
    BY <2>1, <2>2, <2>13
<1> HIDE DEF T
<1>7. \A m \in 0 .. N : m \in T
  BY <1>5, <1>6, UpTo
<1>8. N \in T
  BY <1>7
<1>9. Shares(S, p, out[Len(t)], N, Len(p[N + 1]))
  <2>1. Q(N)
    <3> HIDE DEF Q
    <3> QED
      BY <1>8 DEF T
  <2> QED
    BY <2>1 DEF t
<1> DEFINE x == split(t, "|")
<1>10. x = out[Len(t)]
  BY <1>4 DEF CutsThrough
<1> HIDE DEF x
<1>11. /\ x \in Seq(Seq(S)) /\ Len(x) = N + 1 /\ \A i \in 1 .. N : x[i] = p[i]
       /\ Len(x[N + 1]) = Len(p[N + 1])
       /\ \A i \in 1 .. Len(p[N + 1]) : x[N + 1][i] = p[N + 1][i]
  BY <1>9, <1>10, Zenon DEF Shares
<1>12. x[N + 1] = p[N + 1]
  <2>1. N + 1 \in 1 .. Len(x) /\ N + 1 \in 1 .. N + 1
    BY <1>11
  <2>2. x[N + 1] \in Seq(S)
    BY <1>11, <2>1
  <2>3. p[N + 1] \in Seq(S)
    BY <2>1
  <2> QED
    BY <1>11, <2>2, <2>3, SeqEqual
<1>13. ASSUME NEW i \in 1 .. N + 1 PROVE x[i] = p[i]
  <2>1. CASE i = N + 1
    BY <1>12, <2>1
  <2>2. CASE i \in 1 .. N
    BY <1>11, <2>2
  <2> QED
    BY <2>1, <2>2
<1> QED
  BY <1>11, <1>13 DEF x, t, SplitInto

-------------------------------------------------------------------------------
(* The whole configuration.                                                 *)

\* What the fields of a configuration may be: any text, and a port of digits.
Texting(S, f) ==
  /\ Marks \union {"1"} \subseteq S
  /\ \A name \in ToSet(Fields) : f[name] \in Seq(S)
  /\ f["mqttPort"] \in Seq(S \ {"|"})

LEMMA FieldsAre ==
  /\ Len(Fields) = 11 /\ DOMAIN Fields = 1 .. 11 /\ ToSet(Fields) = {Fields[i] : i \in 1 .. 11}
  /\ \A i, k \in 1 .. 11 : Fields[i] = Fields[k] => i = k
<1>1. Len(Fields) = 11 /\ DOMAIN Fields = 1 .. 11
  BY DEF Fields
<1>2. ToSet(Fields) = {Fields[i] : i \in 1 .. 11}
  BY <1>1 DEF ToSet
<1>3. \A i, k \in 1 .. 11 : Fields[i] = Fields[k] => i = k
  BY DEF Fields
<1> QED
  BY <1>1, <1>2, <1>3

LEMMA WrittenIs ==
  ASSUME NEW S, NEW f, Texting(S, f), NEW name \in ToSet(Fields)
  PROVE  Written(f, name) \in Seq(S \ {"|"})
<1>1. CASE name = "mqttPort"
  BY <1>1 DEF Written, Texting
<1>2. CASE name # "mqttPort"
  <2>1. f[name] \in Seq(S) /\ Marks \subseteq S
    BY DEF Texting
  <2>2. PICK o : Encoded(S, f[name], o)
    BY <2>1, EncIs
  <2>3. enc(f[name]) \in Seq(S \ {"|"})
    BY <2>1, <2>2, SpeltIs DEF Spelt
  <2> QED
    BY <1>2, <2>3 DEF Written
<1> QED
  BY <1>1, <1>2

\* What serializeConfig() writes between the separators.
Parts(f) == [i \in 1 .. 12 |-> IF i = 1 THEN <<"1">> ELSE Written(f, Fields[i - 1])]

Sections(f) == [n \in 1 .. 11 |-> <<"|">> \o Parts(f)[n + 1]]

LEMMA PartsAre ==
  ASSUME NEW S, NEW f, Texting(S, f)
  PROVE  /\ Parts(f) \in [1 .. 12 -> Seq(S \ {"|"})] /\ Parts(f)[1] = <<"1">>
         /\ \A n \in 1 .. 11 : Parts(f)[n + 1] = Written(f, Fields[n])
<1>1. \A n \in 1 .. 11 : Written(f, Fields[n]) \in Seq(S \ {"|"})
  <2> TAKE n \in 1 .. 11
  <2>1. Fields[n] \in ToSet(Fields)
    BY FieldsAre
  <2> QED
    BY <2>1, WrittenIs
<1>2. ASSUME NEW i \in 1 .. 12
      PROVE  (IF i = 1 THEN <<"1">> ELSE Written(f, Fields[i - 1])) \in Seq(S \ {"|"})
  <2>1. CASE i = 1
    <3>1. "1" \in S \ {"|"}
      BY DEF Texting
    <3> QED
      BY <2>1, <3>1
  <2>2. CASE i # 1
    <3>1. i - 1 \in 1 .. 11
      BY <2>2
    <3>2. Written(f, Fields[i - 1]) \in Seq(S \ {"|"})
      BY <1>1, <3>1
    <3> QED
      BY <2>2, <3>2
  <2> QED
    BY <2>1, <2>2
<1>3. Parts(f) \in [1 .. 12 -> Seq(S \ {"|"})] /\ Parts(f)[1] = <<"1">>
  BY <1>2 DEF Parts
<1>4. ASSUME NEW n \in 1 .. 11 PROVE Parts(f)[n + 1] = Written(f, Fields[n])
  <2>1. PICK i \in 1 .. 12 : i = n + 1
    OBVIOUS
  <2>2. i # 1 /\ i - 1 = n
    BY <2>1
  <2>3. Parts(f)[i] = Written(f, Fields[i - 1])
    BY <2>2 DEF Parts
  <2> QED
    BY <2>1, <2>2, <2>3
<1> QED
  BY <1>3, <1>4

Bodies(f, o) ==
  o = [n \in 0 .. Len(Fields) |->
         IF n = 0 THEN <<"1">> ELSE o[n - 1] \o (<<"|">> \o Written(f, Fields[n]))]

BodyOf(S, f, o) ==
  /\ Whole(o, 11, S, Parts(f)[1], Sections(f))
  /\ serializeConfig(f) = [body |-> o[11], crc |-> o[11]]

LEMMA BodyIs ==
  ASSUME NEW S, NEW f, Texting(S, f)
  PROVE  \E o : BodyOf(S, f, o)
<1> DEFINE w == Sections(f)
<1> DEFINE first == <<"1">>
<1>1. /\ Parts(f) \in [1 .. 12 -> Seq(S \ {"|"})] /\ Parts(f)[1] = first
      /\ \A n \in 1 .. 11 : Parts(f)[n + 1] = Written(f, Fields[n])
  BY PartsAre
<1>2. "|" \in S /\ "1" \in S
  BY DEF Texting, Marks
<1>3. first \in Seq(S)
  BY <1>2
<1>4. w \in [1 .. 11 -> Seq(S)]
  <2> SUFFICES ASSUME NEW n \in 1 .. 11 PROVE <<"|">> \o Parts(f)[n + 1] \in Seq(S)
    BY DEF Sections
  <2>1. n + 1 \in 1 .. 12
    OBVIOUS
  <2>2. Parts(f)[n + 1] \in Seq(S)
    <3>1. Parts(f)[n + 1] \in Seq(S \ {"|"})
      BY <1>1, <2>1
    <3> QED
      BY <3>1
  <2>3. <<"|">> \in Seq(S)
    BY <1>2
  <2> QED
    BY <2>2, <2>3, ConcatProperties
<1>5. ASSUME NEW o PROVE Concats(o, 11, first, w) <=> Bodies(f, o)
  <2>1. ASSUME NEW n \in 0 .. 11
        PROVE  (IF n = 0 THEN first ELSE o[n - 1] \o w[n])
                 = (IF n = 0 THEN first ELSE o[n - 1] \o (<<"|">> \o Written(f, Fields[n])))
    <3>1. CASE n = 0
      BY <3>1
    <3>2. CASE n # 0
      <4>1. n \in 1 .. 11
        BY <3>2
      <4>2. w[n] = <<"|">> \o Parts(f)[n + 1]
        BY <4>1 DEF Sections
      <4>3. Parts(f)[n + 1] = Written(f, Fields[n])
        BY <1>1, <4>1
      <4> QED
        BY <3>2, <4>2, <4>3
    <3> QED
      BY <3>1, <3>2
  <2>2. [n \in 0 .. 11 |-> IF n = 0 THEN first ELSE o[n - 1] \o w[n]]
          = [n \in 0 .. 11 |->
               IF n = 0 THEN first ELSE o[n - 1] \o (<<"|">> \o Written(f, Fields[n]))]
    BY <2>1, Zenon
  <2>3. Len(Fields) = 11
    BY FieldsAre
  <2> QED
    BY <2>2, <2>3, Zenon DEF Concats, Bodies
<1>6. Len(Fields) = 11
  BY FieldsAre
<1> HIDE DEF w, first
<1>7. \E o : Concats(o, 11, first, w)
  BY <1>3, <1>4, ConcatsExist
<1>8. \E o : Bodies(f, o)
  BY <1>5, <1>7
<1> DEFINE o == CHOOSE x : Bodies(f, x)
<1>9. Bodies(f, o)
  BY <1>8
<1>10. serializeConfig(f) = [body |-> o[11], crc |-> o[11]]
  <2>1. serializeConfig(f) = [body |-> o[Len(Fields)], crc |-> o[Len(Fields)]]
    BY DEF serializeConfig, Bodies
  <2> QED
    BY <1>6, <2>1
<1> HIDE DEF o
<1>11. Whole(o, 11, S, first, w)
  <2>1. Concats(o, 11, first, w)
    BY <1>5, <1>9
  <2> QED
    BY <1>3, <1>4, <2>1, WholeIs
<1> QED
  BY <1>1, <1>10, <1>11 DEF BodyOf, w

\* A configuration's text is read as it was written (serializeConfig,
\* deserializeConfig).
LEMMA ReadAsWritten ==
  ASSUME NEW S, NEW f, Texting(S, f), Port(f["mqttPort"]) = f["mqttPort"]
  PROVE  deserializeConfig(serializeConfig(f)) = [name \in ToSet(Fields) |-> f[name]]
<1>1. PICK o : BodyOf(S, f, o)
  BY BodyIs
<1> DEFINE blob == serializeConfig(f)
<1> DEFINE parts == split(blob.body, "|")
<1>2. blob.body = o[11] /\ blob.crc = blob.body
  BY <1>1 DEF BodyOf
<1>3. /\ Parts(f) \in [1 .. 12 -> Seq(S \ {"|"})] /\ Parts(f)[1] = <<"1">>
      /\ \A n \in 1 .. 11 : Parts(f)[n + 1] = Written(f, Fields[n])
  BY PartsAre
<1>4. Len(parts) = 12 /\ \A i \in 1 .. 12 : parts[i] = Parts(f)[i]
  <2>1. "|" \in S
    BY DEF Texting, Marks
  <2>2. 11 \in Nat /\ 11 + 1 = 12
    OBVIOUS
  <2>3. Whole(o, 11, S, Parts(f)[1], Sections(f))
    BY <1>1 DEF BodyOf
  <2>4. Sections(f) = [n \in 1 .. 11 |-> <<"|">> \o Parts(f)[n + 1]]
    BY DEF Sections
  <2>5. SplitInto(o[11], Parts(f), 11)
    <3>1. Parts(f) \in [1 .. 11 + 1 -> Seq(S \ {"|"})]
      BY <1>3, <2>2
    <3> QED
      BY <2>1, <2>2, <2>3, <2>4, <3>1, SplitIs
  <2> QED
    BY <1>2, <2>2, <2>5 DEF SplitInto
<1> DEFINE At(name) == parts[1 + CHOOSE i \in DOMAIN Fields : Fields[i] = name]
<1> DEFINE Kept(name) == IF name = "mqttPort" THEN Port(At(name)) ELSE dec(At(name))
<1>5. deserializeConfig(blob) = [name \in ToSet(Fields) |-> Kept(name)]
  <2>1. Len(parts) = 1 + Len(Fields) /\ parts[1] = <<"1">>
    <3>1. 1 + Len(Fields) = 12 /\ 1 \in 1 .. 12
      BY FieldsAre
    <3> HIDE DEF parts
    <3> QED
      BY <1>3, <1>4, <3>1
  <2> HIDE DEF blob
  <2> QED
    BY <1>2, <2>1, Zenon DEF deserializeConfig
<1> HIDE DEF parts, blob
<1>6. ASSUME NEW name \in ToSet(Fields) PROVE Kept(name) = f[name]
  <2>1. PICK n \in 1 .. 11 : name = Fields[n]
    BY FieldsAre
  <2>2. (CHOOSE i \in DOMAIN Fields : Fields[i] = name) = n
    BY <2>1, FieldsAre
  <2>3. At(name) = Written(f, name)
    <3>1. PICK k \in 1 .. 12 : k = 1 + n
      OBVIOUS
    <3>2. At(name) = parts[k]
      BY <2>2, <3>1
    <3>3. k = n + 1
      BY <3>1
    <3>4. parts[k] = Written(f, Fields[n])
      BY <1>3, <1>4, <3>3
    <3> QED
      BY <2>1, <3>2, <3>4
  <2> HIDE DEF At
  <2>4. CASE name = "mqttPort"
    BY <2>3, <2>4 DEF Written
  <2>5. CASE name # "mqttPort"
    <3>1. Marks \subseteq S /\ f[name] \in Seq(S)
      BY DEF Texting
    <3>2. dec(enc(f[name])) = f[name]
      BY <3>1, DecIs
    <3> QED
      BY <2>3, <2>5, <3>2 DEF Written
  <2> QED
    BY <2>4, <2>5
<1> HIDE DEF Kept
<1>7. [name \in ToSet(Fields) |-> Kept(name)] = [name \in ToSet(Fields) |-> f[name]]
  BY <1>6, Zenon
<1> QED
  BY <1>5, <1>7 DEF blob

\* What a configuration is: a text for each field, and a port that is kept.
Config(S, f) ==
  /\ Texting(S, f) /\ f = [name \in ToSet(Fields) |-> f[name]]
  /\ Port(f["mqttPort"]) = f["mqttPort"]

\* Any configuration is read as it was written (serializeConfig,
\* deserializeConfig).
THEOREM AnyConfigIsRead ==
  ASSUME NEW S, NEW f, Config(S, f)
  PROVE  deserializeConfig(serializeConfig(f)) = f
<1>1. deserializeConfig(serializeConfig(f)) = [name \in ToSet(Fields) |-> f[name]]
  BY ReadAsWritten DEF Config
<1> QED
  BY <1>1 DEF Config

LEMMA NamedIs ==
  {"kennelId", "deviceType", "deviceId", "mqttPort", "mqttUser", "timezone"} \subseteq ToSet(Fields)
<1>1. /\ Fields[1] = "kennelId" /\ Fields[2] = "deviceType" /\ Fields[3] = "deviceId"
      /\ Fields[7] = "mqttPort" /\ Fields[8] = "mqttUser" /\ Fields[11] = "timezone"
  BY DEF Fields
<1> QED
  BY <1>1, FieldsAre

LEMMA NotNoConfig ==
  ASSUME NEW S, NEW f, Config(S, f)
  PROVE  f # NoConfig
<1>1. DOMAIN f = ToSet(Fields)
  BY DEF Config
<1>2. DOMAIN NoConfig = {"body"}
  BY DEF NoConfig
<1> QED
  BY <1>1, <1>2, NamedIs

LEMMA ReadBackIs ==
  ASSUME NEW S, NEW f, Config(S, f)
  PROVE  ReadBack(f) = IF configPlausible(f) THEN fromFields(f) ELSE Refused
BY AnyConfigIsRead, NotNoConfig DEF ReadBack

\* The defaults are filled in once.
LEMMA DefaultsAre ==
  ASSUME NEW S, {"UTC0", "device:"} \subseteq S, NEW f, Config(S, f),
         NEW g, g = fromFields(f)
  PROVE  /\ Config(S, g) /\ fromFields(g) = g
         /\ \A name \in ToSet(Fields) \ {"timezone", "mqttUser"} : g[name] = f[name]
         /\ g["timezone"] = IF f["timezone"] = <<>> THEN <<"UTC0">> ELSE f["timezone"]
         /\ g["mqttUser"] = IF f["mqttUser"] = <<>> /\ f["deviceId"] # <<>>
                            THEN <<"device:">> \o f["deviceId"] ELSE f["mqttUser"]
<1> DEFINE D == ToSet(Fields)
<1> DEFINE zone == IF f["timezone"] = <<>> THEN <<"UTC0">> ELSE f["timezone"]
<1> DEFINE user == IF f["mqttUser"] = <<>> /\ f["deviceId"] # <<>>
                   THEN <<"device:">> \o f["deviceId"] ELSE f["mqttUser"]
<1>1. /\ f = [name \in D |-> f[name]] /\ Port(f["mqttPort"]) = f["mqttPort"]
      /\ Marks \union {"1"} \subseteq S /\ \A name \in D : f[name] \in Seq(S)
      /\ f["mqttPort"] \in Seq(S \ {"|"})
  BY DEF Config, Texting
<1>2. "timezone" \in D /\ "mqttUser" \in D /\ "deviceId" \in D /\ "mqttPort" \in D
  BY NamedIs
<1>3. g = [f EXCEPT !["timezone"] = zone, !["mqttUser"] = user]
  BY DEF fromFields
<1>4. zone \in Seq(S) /\ zone # <<>>
  BY <1>1, <1>2
<1>5. user \in Seq(S) /\ (user = <<>> => f["deviceId"] = <<>>)
  <2>1. f["deviceId"] \in Seq(S) /\ f["mqttUser"] \in Seq(S) /\ <<"device:">> \in Seq(S)
    BY <1>1, <1>2
  <2>2. <<"device:">> \o f["deviceId"] \in Seq(S) /\ <<"device:">> \o f["deviceId"] # <<>>
    <3>1. /\ <<"device:">> \o f["deviceId"] \in Seq(S)
          /\ Len(<<"device:">> \o f["deviceId"]) = Len(<<"device:">>) + Len(f["deviceId"])
      BY <2>1, ConcatProperties
    <3>2. Len(<<"device:">>) = 1 /\ Len(f["deviceId"]) \in Nat /\ Len(<<>>) = 0
      BY <2>1
    <3> QED
      BY <3>1, <3>2
  <2> QED
    BY <2>1, <2>2
<1> HIDE DEF zone, user, D
<1>6. /\ g = [name \in D |-> g[name]] /\ g["timezone"] = zone /\ g["mqttUser"] = user
      /\ \A name \in D \ {"timezone", "mqttUser"} : g[name] = f[name]
  BY <1>1, <1>2, <1>3
<1>7. \A name \in D : g[name] \in Seq(S)
  BY <1>1, <1>4, <1>5, <1>6
<1>8. g["mqttPort"] = f["mqttPort"] /\ g["deviceId"] = f["deviceId"]
  BY <1>2, <1>6
<1>9. Config(S, g)
  BY <1>1, <1>6, <1>7, <1>8 DEF Config, Texting, D
<1>10. fromFields(g) = g
  <2>1. g["timezone"] # <<>> /\ ~(g["mqttUser"] = <<>> /\ g["deviceId"] # <<>>)
    BY <1>4, <1>5, <1>6, <1>8
  <2>2. fromFields(g) = [g EXCEPT !["timezone"] = g["timezone"], !["mqttUser"] = g["mqttUser"]]
    BY <2>1 DEF fromFields
  <2> QED
    BY <1>6, <2>2
<1> QED
  BY <1>6, <1>9, <1>10 DEF zone, user, D

\* What was read once and is saved is read as the same.
LEMMA SavedIs ==
  ASSUME NEW S, {"UTC0", "device:"} \subseteq S, NEW f, Config(S, f),
         NEW once, once = ReadBack(f), once # Refused,
         Len(<<"device:">> \o once["deviceId"]) <= MaxField
  PROVE  ReadBack(once) = once
<1>1. configPlausible(f) /\ once = fromFields(f)
  BY ReadBackIs
<1>2. /\ Config(S, once) /\ fromFields(once) = once
      /\ \A name \in ToSet(Fields) \ {"timezone", "mqttUser"} : once[name] = f[name]
      /\ once["timezone"] = IF f["timezone"] = <<>> THEN <<"UTC0">> ELSE f["timezone"]
      /\ once["mqttUser"] = IF f["mqttUser"] = <<>> /\ f["deviceId"] # <<>>
                            THEN <<"device:">> \o f["deviceId"] ELSE f["mqttUser"]
  BY <1>1, DefaultsAre
<1>3. /\ \A name \in Texts : Len(f[name]) <= MaxField
      /\ f["mqttPort"] # <<"0">> /\ f["deviceType"] \in DeviceKinds \union {<<>>}
  BY <1>1 DEF configPlausible
<1>4. /\ once["mqttPort"] = f["mqttPort"] /\ once["deviceType"] = f["deviceType"]
      /\ once["deviceId"] = f["deviceId"]
  BY <1>2, NamedIs
<1>5. ASSUME NEW name \in Texts PROVE Len(once[name]) <= MaxField
  <2>1. name \in ToSet(Fields) /\ Len(f[name]) <= MaxField
    BY <1>3 DEF Texts
  <2>2. CASE name = "timezone"
    <3>1. Len(<<"UTC0">>) <= MaxField
      BY FieldAssumption
    <3> QED
      BY <1>2, <2>1, <2>2, <3>1
  <2>3. CASE name = "mqttUser"
    BY <1>2, <1>4, <2>1, <2>3
  <2>4. CASE name \notin {"timezone", "mqttUser"}
    BY <1>2, <2>1, <2>4
  <2> QED
    BY <2>2, <2>3, <2>4
<1>6. configPlausible(once)
  BY <1>3, <1>4, <1>5 DEF configPlausible
<1> QED
  BY <1>2, <1>6, ReadBackIs

FilledWith == Chars \union Marks \union {"1", "7", "1883", "UTC0", "device:"}

\* The configurations of the walk are configurations.
LEMMA FilledIs ==
  ASSUME NEW t \in Seq(Chars), NEW cut \in 0 .. Len(t)
  PROVE  Config(FilledWith, Filled(SubSeq(t, 1, cut), SubSeq(t, cut + 1, Len(t))))
<1> DEFINE S == FilledWith
<1> DEFINE before == SubSeq(t, 1, cut)
<1> DEFINE after == SubSeq(t, cut + 1, Len(t))
<1> DEFINE f == Filled(before, after)
<1>1. before \in Seq(S) /\ after \in Seq(S)
  <2>1. Len(t) \in Nat /\ \A i \in 1 .. Len(t) : t[i] \in S
    BY DEF FilledWith
  <2> HIDE DEF S
  <2>2. before \in Seq(S)
    BY <2>1, SubSeqProperties
  <2>3. after \in Seq(S)
    BY <2>1, SubSeqProperties
  <2> QED
    BY <2>2, <2>3
<1>2. /\ <<"1883">> \in Seq(S) /\ <<"7">> \in Seq(S) /\ <<"1883">> \in Seq(S \ {"|"})
  BY DEF FilledWith
<1>3. Marks \union {"1"} \subseteq S
  BY DEF FilledWith
<1> HIDE DEF S, before, after
<1>4. f = [name \in ToSet(Fields) |-> f[name]]
  BY DEF Filled
<1>5. ASSUME NEW name \in ToSet(Fields) PROVE f[name] \in Seq(S)
  BY <1>1, <1>2 DEF Filled
<1>6. f["mqttPort"] = <<"1883">>
  BY NamedIs DEF Filled
<1>7. Port(<<"1883">>) = <<"1883">>
  BY DEF Port
<1> HIDE DEF f
<1>8. Config(S, f)
  BY <1>2, <1>3, <1>4, <1>5, <1>6, <1>7 DEF Config, Texting
<1> QED
  BY <1>8 DEF f, S, before, after

\* The fields of a configuration are read as they were written (enc, dec,
\* split, serializeConfig, deserializeConfig).
THEOREM FieldsAreRead == Spec => []FieldsSurvive
<1>1. Walk => FieldsSurvive
  <2> SUFFICES ASSUME Walk, NEW cut \in 0 .. Len(text)
               PROVE  LET fields == Filled(SubSeq(text, 1, cut), SubSeq(text, cut + 1, Len(text)))
                      IN  deserializeConfig(serializeConfig(fields)) = fields
    BY DEF FieldsSurvive
  <2> DEFINE f == Filled(SubSeq(text, 1, cut), SubSeq(text, cut + 1, Len(text)))
  <2>1. Config(FilledWith, f)
    BY FilledIs DEF Walk
  <2> HIDE DEF f
  <2>2. deserializeConfig(serializeConfig(f)) = f
    BY <2>1, AnyConfigIsRead
  <2> QED
    BY <2>2 DEF f
<1> QED
  BY <1>1, WalkAlways, PTL

\* A configuration that was read and is saved again is read as the same (save,
\* load, fromFields, configPlausible).
THEOREM SavedIsKept == Spec => []SavedStays
<1>1. Walk => SavedStays
  <2> SUFFICES ASSUME Walk, NEW cut \in 0 .. Len(text)
               PROVE  LET once == ReadBack(Filled(SubSeq(text, 1, cut), SubSeq(text, cut + 1, Len(text))))
                      IN  once # Refused /\ Len(<<"device:">> \o once.deviceId) <= MaxField
                            => ReadBack(once) = once
    BY DEF SavedStays
  <2> DEFINE f == Filled(SubSeq(text, 1, cut), SubSeq(text, cut + 1, Len(text)))
  <2>1. Config(FilledWith, f)
    BY FilledIs DEF Walk
  <2> HIDE DEF f
  <2> DEFINE once == ReadBack(f)
  <2>2. {"UTC0", "device:"} \subseteq FilledWith
    BY DEF FilledWith
  <2>3. once # Refused /\ Len(<<"device:">> \o once["deviceId"]) <= MaxField
          => ReadBack(once) = once
    <3> HIDE DEF once
    <3> SUFFICES ASSUME once # Refused, Len(<<"device:">> \o once["deviceId"]) <= MaxField
                 PROVE  ReadBack(once) = once
      OBVIOUS
    <3>1. once = ReadBack(f)
      BY DEF once
    <3> QED
      BY <2>1, <2>2, <3>1, SavedIs
  <2> QED
    BY <2>3 DEF f
<1> QED
  BY <1>1, WalkAlways, PTL
===============================================================================
