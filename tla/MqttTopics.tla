----------------------------- MODULE MqttTopics -----------------------------
(***************************************************************************)
(* Topic names and topic filters (src/packets/mqtt/utils.go) and how the   *)
(* broker matches them (src/interop/broker.go).  A string is a sequence of *)
(* bytes.  Of UTF-8 only what matters here is kept: byte 0 is U+0000, and  *)
(* the bytes from 128 on stand for ill-formed text.                        *)
(***************************************************************************)
EXTENDS Naturals, SequencesExt

CONSTANT MaxField    \* maxFieldLength: 65535 in the code
ASSUME MaxFieldType == MaxField \in Nat \ {0} /\ MaxField < 65536

HashCh   == 35
DollarCh == 36
PlusCh   == 43
SlashCh  == 47
Hash == <<HashCh>>
Plus == <<PlusCh>>

HasPrefix(s, ch) == Len(s) > 0 /\ s[1] = ch

(* strings.Split(s, "/"): a level begins behind the slash before it and    *)
(* ends before the next.                                                   *)
Slashes(s, k) == Cardinality({i \in 1..k : s[i] = SlashCh})

LevelStart(s, i) == 1 + Cardinality({k \in 0..Len(s) : Slashes(s, k) + 1 < i})

Split(s) ==
  [i \in 1..(Slashes(s, Len(s)) + 1) |->
     LET first == LevelStart(s, i)
         after == LevelStart(s, i + 1) - 1
     IN  [j \in 1..(after - first) |-> s[first + j - 1]]]

ValidUTF8String(s) == \A i \in 1..Len(s) : s[i] \in 1..127

(* Level i of a pattern misuses a wildcard.                                *)
BadMulti(p, i)  == Contains(p[i], HashCh) /\ (p[i] # Hash \/ i # Len(p))
BadSingle(p, i) == Contains(p[i], PlusCh) /\ p[i] # Plus
ValidLevels(p)  == \A i \in 1..Len(p) : ~BadMulti(p, i) /\ ~BadSingle(p, i)

ValidatePattern(s) == /\ Len(s) \in 1..MaxField
                      /\ ValidUTF8String(s)
                      /\ ValidLevels(Split(s))

ValidateTopic(s) == /\ ~Contains(s, HashCh) /\ ~Contains(s, PlusCh)
                    /\ ValidatePattern(s)

(* Mutant: the end of the topic is looked at before "#".                   *)
MatchLevelsLate(fl, tl) ==
  LET Leaves(i) == \/ i > Len(tl)
                   \/ fl[i] = Hash
                   \/ fl[i] # Plus /\ fl[i] # tl[i]
  IN  \/ /\ \A i \in 1..Len(fl) : ~Leaves(i)
         /\ Len(fl) = Len(tl)
      \/ \E i \in 1..Len(fl) : /\ \A j \in 1..(i - 1) : ~Leaves(j)
                               /\ i <= Len(tl) /\ fl[i] = Hash /\ i = Len(fl)

(* The loop over the levels of the filter leaves at the first level that   *)
(* settles the answer: "#" says whether it is the last, the two others say *)
(* no.  When no level does, the lengths settle it.                         *)
MatchLevels(fl, tl) ==
  LET Leaves(i) == \/ fl[i] = Hash
                   \/ i > Len(tl)
                   \/ fl[i] # Plus /\ fl[i] # tl[i]
  IN  \/ /\ \A i \in 1..Len(fl) : ~Leaves(i)
         /\ Len(fl) = Len(tl)
      \/ \E i \in 1..Len(fl) : /\ \A j \in 1..(i - 1) : ~Leaves(j)
                               /\ fl[i] = Hash /\ i = Len(fl)

MatchFilter(filter, topic) ==
  /\ ~ /\ HasPrefix(topic, DollarCh)
       /\ HasPrefix(filter, HashCh) \/ HasPrefix(filter, PlusCh)
  /\ MatchLevels(Split(filter), Split(topic))

-----------------------------------------------------------------------------
(* What section 4.7 of MQTT 3.1.1 says of a valid filter: "+" stands for   *)
(* one level, a final "#" for any number of them, none included.           *)
LevelsMatch(fl, tl) ==
  LET open  == Len(fl) > 0 /\ fl[Len(fl)] = Hash
      fixed == IF open THEN Len(fl) - 1 ELSE Len(fl)
  IN  /\ IF open THEN Len(tl) >= fixed ELSE Len(tl) = fixed
      /\ \A i \in 1..fixed : fl[i] \in {Plus, tl[i]}
=============================================================================
