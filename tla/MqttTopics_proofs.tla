------------------------- MODULE MqttTopics_proofs -------------------------
(* What MatchFilter computes on valid filters, for topics and filters of   *)
(* any length.                                                             *)
EXTENDS MqttTopics, FiniteSetTheorems, SequenceTheorems, TLAPS

Levels == Seq(Seq(Nat))

(* In a valid filter "#" can only be the last level.                       *)
LEMMA HashIsLast ==
  ASSUME NEW fl \in Levels, ValidLevels(fl), NEW i \in 1..Len(fl),
         fl[i] = Hash
  PROVE  i = Len(fl)
<1>1. Contains(fl[i], HashCh)
  BY DEF Contains, Hash, HashCh
<1> QED  BY <1>1 DEF ValidLevels, BadMulti

(* A valid filter that ends in "#" matches the topics that agree with it   *)
(* on the levels before.                                                   *)
LEMMA OpenFilter ==
  ASSUME NEW fl \in Levels, NEW tl \in Levels, ValidLevels(fl),
         Len(fl) > 0, fl[Len(fl)] = Hash
  PROVE  MatchLevels(fl, tl) <=> LevelsMatch(fl, tl)
<1> DEFINE Leaves(i) == \/ fl[i] = Hash
                        \/ i > Len(tl)
                        \/ fl[i] # Plus /\ fl[i] # tl[i]
<1>1. MatchLevels(fl, tl) <=> \A j \in 1..(Len(fl) - 1) : ~Leaves(j)
  <2> DEFINE n == Len(fl)
  <2>1. n \in Nat /\ n \in 1..n
    BY DEF Levels
  <2>2. Leaves(n)
    OBVIOUS
  <2>3. ASSUME MatchLevels(fl, tl)
        PROVE  \A j \in 1..(n - 1) : ~Leaves(j)
    <3>1. \E i \in 1..n : /\ \A j \in 1..(i - 1) : ~Leaves(j)
                          /\ fl[i] = Hash /\ i = n
      BY <2>1, <2>2, <2>3 DEF MatchLevels
    <3> QED  BY <3>1
  <2>4. ASSUME \A j \in 1..(n - 1) : ~Leaves(j)
        PROVE  MatchLevels(fl, tl)
    BY <2>1, <2>4 DEF MatchLevels
  <2> QED  BY <2>3, <2>4
<1>2. \A j \in 1..(Len(fl) - 1) : fl[j] # Hash
  BY HashIsLast DEF Levels
<1>3. LevelsMatch(fl, tl) <=> /\ Len(tl) >= Len(fl) - 1
                              /\ \A j \in 1..(Len(fl) - 1) :
                                   fl[j] = Plus \/ fl[j] = tl[j]
  BY DEF LevelsMatch
<1>4. (\A j \in 1..(Len(fl) - 1) : ~Leaves(j)) => Len(tl) >= Len(fl) - 1
  <2> SUFFICES ASSUME \A j \in 1..(Len(fl) - 1) : ~Leaves(j),
                      Len(tl) < Len(fl) - 1
               PROVE  FALSE
    BY DEF Levels
  <2> ~Leaves(Len(fl) - 1)
    BY DEF Levels
  <2> QED  BY DEF Levels
<1> QED  BY SMTT(30), <1>1, <1>2, <1>3, <1>4 DEF Levels

(* A filter without "#" matches the topics of its length that agree with   *)
(* it on every level.                                                      *)
LEMMA ClosedFilter ==
  ASSUME NEW fl \in Levels, NEW tl \in Levels, ValidLevels(fl),
         ~(Len(fl) > 0 /\ fl[Len(fl)] = Hash)
  PROVE  MatchLevels(fl, tl) <=> LevelsMatch(fl, tl)
<1>1. \A j \in 1..Len(fl) : fl[j] # Hash
  BY HashIsLast DEF Levels
<1>2. MatchLevels(fl, tl) <=> /\ Len(fl) = Len(tl)
                              /\ \A j \in 1..Len(fl) :
                                   fl[j] = Plus \/ fl[j] = tl[j]
  BY <1>1 DEF MatchLevels, Levels
<1>3. LevelsMatch(fl, tl) <=> /\ Len(tl) = Len(fl)
                              /\ \A j \in 1..Len(fl) :
                                   fl[j] = Plus \/ fl[j] = tl[j]
  BY DEF LevelsMatch
<1> QED  BY <1>2, <1>3 DEF Levels

(* The loop of MatchFilter (src/interop/broker.go:314-327) decides exactly *)
(* the relation of MQTT 3.1.1, section 4.7, for every filter that passes   *)
(* ValidatePattern and every topic.                                        *)
THEOREM MatchLevelsCorrect ==
  ASSUME NEW fl \in Levels, NEW tl \in Levels, ValidLevels(fl)
  PROVE  MatchLevels(fl, tl) <=> LevelsMatch(fl, tl)
BY OpenFilter, ClosedFilter

(* A filter without wildcards, such as a topic name, matches no other      *)
(* topic: fan-out never leaks to a subscriber of a different name.         *)
THEOREM PlainFilterExact ==
  ASSUME NEW fl \in Levels, NEW tl \in Levels,
         \A i \in 1..Len(fl) : /\ ~Contains(fl[i], HashCh)
                               /\ ~Contains(fl[i], PlusCh)
  PROVE  MatchLevels(fl, tl) <=> fl = tl
<1>1. \A i \in 1..Len(fl) : fl[i] # Hash /\ fl[i] # Plus
  <2>1. Contains(Hash, HashCh)
    BY DEF Contains, Hash
  <2>2. Contains(Plus, PlusCh)
    BY DEF Contains, Plus
  <2> QED  BY <2>1, <2>2
<1>2. MatchLevels(fl, tl) <=> /\ Len(fl) = Len(tl)
                              /\ \A j \in 1..Len(fl) : fl[j] = tl[j]
  BY <1>1 DEF MatchLevels, Levels
<1>3. fl = tl <=> /\ Len(fl) = Len(tl)
                  /\ \A j \in 1..Len(fl) : fl[j] = tl[j]
  BY SeqEqual DEF Levels
<1> QED  BY <1>2, <1>3

-----------------------------------------------------------------------------
(* Counting intervals.                                                     *)
LEMMA CountUpTo ==
  ASSUME NEW k \in Nat
  PROVE  IsFiniteSet(1..k) /\ Cardinality(1..k) = k
<1>1. /\ IsFiniteSet(1..k)
      /\ Cardinality(1..k) = IF 1 > k THEN 0 ELSE k - 1 + 1
  BY ONLY 1 \in Int, k \in Int, FS_Interval
<1>2. QED
  BY <1>1

LEMMA CountFromZero ==
  ASSUME NEW k \in Nat
  PROVE  IsFiniteSet(0..k) /\ Cardinality(0..k) = k + 1
<1>1. /\ IsFiniteSet(0..k)
      /\ Cardinality(0..k) = IF 0 > k THEN 0 ELSE k - 0 + 1
  BY ONLY 0 \in Int, k \in Int, FS_Interval
<1>2. QED
  BY <1>1

(* What strings.Split yields for a string that passes ValidUTF8String.     *)
LEMMA SplitFacts ==
  ASSUME NEW s, Len(s) \in Nat \ {0}, ValidUTF8String(s)
  PROVE  /\ Split(s) \in Levels /\ Len(Split(s)) >= 1
         /\ \A ch : ch # SlashCh =>
              (HasPrefix(Split(s)[1], ch) <=> HasPrefix(s, ch))
<1> DEFINE L == Len(s)
           n == Slashes(s, L) + 1
           first(i) == LevelStart(s, i)
           size(i) == (LevelStart(s, i + 1) - 1) - first(i)
           level(i) == [j \in 1..size(i) |-> s[first(i) + j - 1]]
           before(i) == {k \in 0..L : Slashes(s, k) + 1 < i}
<1>1. L \in Nat \ {0} /\ \A i \in 1..L : s[i] \in 1..127
  BY DEF ValidUTF8String
<1>2. ASSUME NEW k \in 0..L PROVE Slashes(s, k) \in 0..k
  <2>1. IsFiniteSet(1..k) /\ Cardinality(1..k) = k
    BY <1>1, CountUpTo
  <2>2. {i \in 1..k : s[i] = SlashCh} \subseteq 1..k
    OBVIOUS
  <2>3. Cardinality({i \in 1..k : s[i] = SlashCh}) \in Nat
        /\ Cardinality({i \in 1..k : s[i] = SlashCh}) <= Cardinality(1..k)
    BY <2>1, <2>2, FS_Subset, FS_CardinalityType
  <2>4. QED
    BY <2>1, <2>3 DEF Slashes
<1>3. ASSUME NEW i
      PROVE  /\ IsFiniteSet(before(i))
             /\ first(i) \in Nat /\ first(i) >= 1 /\ first(i) <= L + 2
  <2>1. IsFiniteSet(0..L) /\ Cardinality(0..L) = L + 1
    BY <1>1, CountFromZero
  <2>2. before(i) \subseteq 0..L
    OBVIOUS
  <2>3. /\ IsFiniteSet(before(i)) /\ Cardinality(before(i)) \in Nat
        /\ Cardinality(before(i)) <= Cardinality(0..L)
    <3> HIDE DEF before
    <3>1. QED
      BY <2>1, <2>2, FS_Subset, FS_CardinalityType
  <2>4. first(i) = 1 + Cardinality(before(i))
    BY DEF LevelStart
  <2> HIDE DEF first, before
  <2>5. QED
    BY <1>1, <2>1, <2>3, <2>4
<1>4. n \in Nat /\ n >= 1
  <2>1. Slashes(s, L) \in 0..L
    BY <1>1, <1>2
  <2>2. QED
    BY <1>1, <2>1
<1>5. Split(s) = [i \in 1..n |-> level(i)]
  BY DEF Split
<1>6. ASSUME NEW i \in 1..n PROVE level(i) \in Seq(Nat)
  <2>1. first(i) \in Nat /\ first(i) >= 1 /\ size(i) \in Int
        /\ first(i) + size(i) <= L + 1
    <3>1. first(i) \in Nat /\ first(i) >= 1
      BY <1>3
    <3>2. first(i + 1) \in Nat /\ first(i + 1) <= L + 2
      BY <1>3
    <3>3. size(i) = (first(i + 1) - 1) - first(i)
      OBVIOUS
    <3> HIDE DEF first, size
    <3>4. QED
      BY <1>1, <3>1, <3>2, <3>3
  <2> HIDE DEF first, size
  <2>2. ASSUME NEW j \in 1..size(i) PROVE s[first(i) + j - 1] \in Nat
    <3>1. first(i) + j - 1 \in 1..L
      BY <1>1, <2>1
    <3>2. PICK x : x = first(i) + j - 1
      OBVIOUS
    <3>3. s[x] \in 1..127
      BY <1>1, <3>1, <3>2
    <3>4. \A y \in 1..127 : y \in Nat
      OBVIOUS
    <3>5. s[x] \in Nat
      BY <3>3, <3>4
    <3>6. QED
      BY <3>2, <3>5
  <2>3. level(i) \in [1..size(i) -> Nat]
    BY <2>2
  <2>4. CASE size(i) >= 0
    <3>1. size(i) \in Nat
      BY <2>1, <2>4
    <3> HIDE DEF level
    <3>2. QED
      BY <2>3, <3>1
  <2>5. CASE size(i) < 0
    <3>1. 1..size(i) = 1..0
      BY <2>1, <2>5
    <3>2. level(i) \in [1..0 -> Nat] /\ 0 \in Nat
      BY <2>3, <3>1
    <3> HIDE DEF level
    <3>3. QED
      BY <3>2
  <2>6. QED
    BY <2>1, <2>4, <2>5
<1>7. Split(s) \in Levels /\ Len(Split(s)) = n
  <2> HIDE DEF n, level
  <2>1. Split(s) \in [1..n -> Seq(Nat)]
    BY <1>5, <1>6
  <2>2. QED
    BY <1>4, <2>1 DEF Levels
<1>8. first(1) = 1
  <2>1. before(1) = {}
    <3> SUFFICES ASSUME NEW k \in 0..L, Slashes(s, k) + 1 < 1 PROVE FALSE
      OBVIOUS
    <3>1. Slashes(s, k) \in 0..k
      BY <1>2
    <3>2. QED
      BY <1>1, <3>1
  <2>2. Cardinality(before(1)) = 0
    BY <2>1, FS_EmptySet
  <2>3. QED
    BY <2>2 DEF LevelStart
<1>9. s[1] # SlashCh => size(1) >= 1
  <2> SUFFICES ASSUME s[1] # SlashCh PROVE size(1) >= 1
    OBVIOUS
  <2>1. Slashes(s, 0) = 0 /\ Slashes(s, 1) = 0
    <3>1. {i \in 1..0 : s[i] = SlashCh} = {}
      OBVIOUS
    <3>2. {i \in 1..1 : s[i] = SlashCh} = {}
      OBVIOUS
    <3>3. QED
      BY <3>1, <3>2, FS_EmptySet DEF Slashes
  <2>2. {0, 1} \subseteq before(2)
    BY <1>1, <2>1
  <2>3. IsFiniteSet(before(2)) /\ Cardinality({0, 1}) = 2
    <3>1. IsFiniteSet(before(2))
      BY <1>3
    <3>2. IsFiniteSet({0}) /\ Cardinality({0}) = 1
      BY FS_Singleton
    <3>3. Cardinality({0} \cup {1}) = 2
      BY <3>2, FS_AddElement
    <3>4. {0} \cup {1} = {0, 1}
      OBVIOUS
    <3>5. QED
      BY <3>1, <3>3, <3>4
  <2>4. /\ Cardinality(before(2)) \in Nat
        /\ Cardinality({0, 1}) <= Cardinality(before(2))
    <3> HIDE DEF before
    <3>1. QED
      BY <2>2, <2>3, FS_Subset, FS_CardinalityType
  <2>5. first(2) = 1 + Cardinality(before(2)) /\ size(1) = (first(2) - 1) - 1
    BY <1>8 DEF LevelStart
  <2> HIDE DEF first, before, size
  <2>6. QED
    BY <2>3, <2>4, <2>5
<1>10. Split(s)[1] = level(1)
  BY <1>4, <1>5
<1>11. ASSUME size(1) >= 1 PROVE Len(level(1)) = size(1) /\ level(1)[1] = s[1]
  <2>1. size(1) \in Nat
    <3>1. first(2) \in Nat
      BY <1>3
    <3>2. QED
      BY <1>8, <1>11, <3>1
  <2>2. level(1) \in Seq(Nat)
    BY <1>4, <1>6
  <2>3. DOMAIN level(1) = 1..size(1)
    OBVIOUS
  <2>4. level(1)[1] = s[1]
    BY <1>8, <1>11, <2>1
  <2> HIDE DEF level, size
  <2>5. QED
    BY <2>1, <2>2, <2>3, <2>4, LenProperties
<1>12. ASSUME ~(size(1) >= 1) PROVE Len(level(1)) = 0
  <2>1. level(1) \in Seq(Nat)
    BY <1>4, <1>6
  <2>2. DOMAIN level(1) = {}
    <3>1. first(2) \in Nat
      BY <1>3
    <3>2. QED
      BY <1>8, <1>12, <3>1
  <2> HIDE DEF level
  <2>3. QED
    BY <2>1, <2>2, LenProperties
<1>13. ASSUME NEW ch, ch # SlashCh
       PROVE  HasPrefix(Split(s)[1], ch) <=> HasPrefix(s, ch)
  <2> HIDE DEF level, size
  <2>1. CASE size(1) >= 1
    BY <1>1, <1>10, <1>11, <2>1 DEF HasPrefix
  <2>2. CASE ~(size(1) >= 1)
    BY <1>1, <1>9, <1>10, <1>12, <1>13, <2>2 DEF HasPrefix
  <2>3. QED
    BY <2>1, <2>2
<1>14. QED
  BY <1>4, <1>7, <1>13

(* MatchFilter on a filter and a topic that pass their validation: what    *)
(* section 4.7 of MQTT 3.1.1 says of the levels, and no leading wildcard   *)
(* for a topic that begins with "$".                                       *)
THEOREM MatchFilterCorrect ==
  ASSUME NEW f, NEW t, ValidatePattern(f), ValidateTopic(t)
  PROVE  MatchFilter(f, t) <=>
           /\ LevelsMatch(Split(f), Split(t))
           /\ HasPrefix(Split(t)[1], DollarCh)
                => Split(f)[1] \notin {Hash, Plus}
<1> DEFINE fl == Split(f)
           tl == Split(t)
<1>1. /\ Len(f) \in Nat \ {0} /\ ValidUTF8String(f) /\ ValidLevels(fl)
      /\ Len(t) \in Nat \ {0} /\ ValidUTF8String(t)
  BY MaxFieldType DEF ValidatePattern, ValidateTopic
<1>2. /\ fl \in Levels /\ Len(fl) >= 1
      /\ \A ch : ch # SlashCh => (HasPrefix(fl[1], ch) <=> HasPrefix(f, ch))
  BY <1>1, SplitFacts
<1>3. /\ tl \in Levels
      /\ \A ch : ch # SlashCh => (HasPrefix(tl[1], ch) <=> HasPrefix(t, ch))
  BY <1>1, SplitFacts
<1>4. MatchFilter(f, t) <=> /\ ~ /\ HasPrefix(t, DollarCh)
                                 /\ HasPrefix(f, HashCh) \/ HasPrefix(f, PlusCh)
                            /\ MatchLevels(fl, tl)
  BY DEF MatchFilter
<1> HIDE DEF fl, tl
<1>5. MatchLevels(fl, tl) <=> LevelsMatch(fl, tl)
  BY <1>1, <1>2, <1>3, MatchLevelsCorrect
<1>6. 1 \in 1..Len(fl) /\ fl[1] \in Seq(Nat)
  BY <1>2 DEF Levels
<1>7. HasPrefix(fl[1], HashCh) <=> fl[1] = Hash
  <2>1. HasPrefix(fl[1], HashCh) => Contains(fl[1], HashCh)
    BY <1>6 DEF HasPrefix, Contains
  <2>2. Contains(fl[1], HashCh) => fl[1] = Hash
    BY <1>1, <1>6 DEF ValidLevels, BadMulti
  <2>3. HasPrefix(Hash, HashCh)
    BY DEF HasPrefix, Hash
  <2>4. QED
    BY <2>1, <2>2, <2>3
<1>8. HasPrefix(fl[1], PlusCh) <=> fl[1] = Plus
  <2>1. HasPrefix(fl[1], PlusCh) => Contains(fl[1], PlusCh)
    BY <1>6 DEF HasPrefix, Contains
  <2>2. Contains(fl[1], PlusCh) => fl[1] = Plus
    BY <1>1, <1>6 DEF ValidLevels, BadSingle
  <2>3. HasPrefix(Plus, PlusCh)
    BY DEF HasPrefix, Plus
  <2>4. QED
    BY <2>1, <2>2, <2>3
<1>9. HashCh # SlashCh /\ PlusCh # SlashCh /\ DollarCh # SlashCh
  BY DEF HashCh, PlusCh, DollarCh, SlashCh
<1>10. QED
  BY <1>2, <1>3, <1>4, <1>5, <1>7, <1>8, <1>9 DEF fl, tl
=============================================================================
