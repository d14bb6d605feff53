------------------------ MODULE MqttPackets_proofs ------------------------
(***************************************************************************)
(* The packet encodings of src/packets/mqtt: Unpack undoes what WriteTo    *)
(* writes, for packets of any content, and WriteTo what Unpack read.       *)
(***************************************************************************)
EXTENDS MqttCodec, MqttTopics_proofs, FiniteSetTheorems, SequenceTheorems,
        TLAPS

(* Induction over the natural numbers, from the fact that the proper       *)
(* subset relation is well-founded on the subsets of a finite set.         *)
LEMMA Least ==
  ASSUME NEW T \in SUBSET Nat, T # {}
  PROVE  \E x \in T : \A y \in T : x <= y
<1>1. PICK N \in T : TRUE
  OBVIOUS
<1> DEFINE S == 1..N
           I == {1..k : k \in {t \in T : t <= N}}
<1>2. IsWellFoundedOn(StrictSubsetOrdering(S), SUBSET S)
  <2>1. IsFiniteSet(S)
    BY FS_Interval
  <2> HIDE DEF S
  <2>2. FiniteSubsetsOf(S) = SUBSET S
    BY <2>1, FS_FiniteSubsetsOfFinite
  <2>3. QED
    BY <2>2, FS_StrictSubsetOrderingWellFounded
<1>3. I \subseteq SUBSET S /\ I # {}
  BY <1>1
<1>4. PICK X \in I : \A Y \in I : <<Y, X>> \notin StrictSubsetOrdering(S)
  <2> HIDE DEF S, I
  <2>1. QED
    BY <1>2, <1>3, WFMin
<1>5. PICK x \in T : x <= N /\ X = 1..x
  BY <1>4
<1>6. ASSUME NEW y \in T, y < x PROVE FALSE
  <2>1. 1..y \in I
    BY <1>1, <1>5, <1>6
  <2>2. x \in 1..x /\ x \notin 1..y /\ 1..y \subseteq 1..x
    BY <1>6
  <2>3. 1..y \in SUBSET S /\ 1..x \in SUBSET S
    BY <1>1, <1>5, <1>6
  <2>4. <<1..y, 1..x>> \in StrictSubsetOrdering(S)
    BY <2>2, <2>3 DEF StrictSubsetOrdering
  <2>5. QED
    BY <1>4, <1>5, <2>1, <2>4
<1>7. QED
  BY <1>5, <1>6

LEMMA Induction ==
  ASSUME NEW T \in SUBSET Nat, 0 \in T, \A k \in T : k + 1 \in T
  PROVE  T = Nat
<1> SUFFICES ASSUME Nat \ T # {} PROVE FALSE
  OBVIOUS
<1>1. PICK x \in Nat \ T : \A y \in Nat \ T : x <= y
  BY Least
<1>2. x - 1 \in T
  BY <1>1
<1>3. QED
  BY <1>1, <1>2

-----------------------------------------------------------------------------
(* Division with remainder, and the digits of a number. *)

LEMMA DivMod ==
  ASSUME NEW a \in Nat, NEW m \in Nat \ {0}
  PROVE  /\ a \div m \in Nat /\ a % m \in 0..(m - 1)
         /\ a = (a \div m) * m + (a % m)
OBVIOUS

LEMMA ModUnique ==
  ASSUME NEW m \in Nat \ {0}, NEW k \in Nat, NEW r \in 0..(m - 1),
         NEW j \in Nat, NEW s \in 0..(m - 1), k * m + r = j * m + s
  PROVE  r = s
<1>1. CASE k < j
  <2>1. j * m = (j - k - 1) * m + k * m + m
    OBVIOUS
  <2>2. (j - k - 1) * m >= 0
    BY <1>1
  <2>3. QED
    BY <2>1, <2>2
<1>2. CASE j < k
  <2>1. k * m = (k - j - 1) * m + j * m + m
    OBVIOUS
  <2>2. (k - j - 1) * m >= 0
    BY <1>2
  <2>3. QED
    BY <2>1, <2>2
<1>3. QED
  BY <1>1, <1>2

LEMMA ModIs ==
  ASSUME NEW m \in Nat \ {0}, NEW k \in Nat, NEW r \in 0..(m - 1)
  PROVE  (k * m + r) % m = r
<1> DEFINE a == k * m + r
<1>1. a \in Nat
  OBVIOUS
<1>2. /\ a \div m \in Nat /\ a % m \in 0..(m - 1)
      /\ a = (a \div m) * m + (a % m)
  <2> HIDE DEF a
  <2>1. QED
    BY <1>1, DivMod
<1>3. QED
  BY <1>2, ModUnique

LEMMA DigitStep ==
  ASSUME NEW l \in Nat, NEW e \in Nat \ {0}, NEW B \in Nat \ {0}
  PROVE  (l % e) + ((l \div e) % B) * e = l % (B * e)
<1> DEFINE q  == l \div e
           r  == l % e
           q2 == q \div B
           r2 == q % B
<1>1. q \in Nat /\ r \in 0..(e - 1) /\ l = q * e + r
  BY DivMod
<1>2. q2 \in Nat /\ r2 \in 0..(B - 1) /\ q = q2 * B + r2
  BY <1>1, DivMod
<1> HIDE DEF q, r, q2, r2
<1>3. l = q2 * (B * e) + (r2 * e + r)
  <2>1. q * e = q2 * (B * e) + r2 * e
    BY <1>2
  <2>2. QED
    BY <1>1, <1>2, <2>1
<1>4. r2 * e + r \in 0..(B * e - 1)
  <2>1. r2 * e <= (B - 1) * e
    BY <1>2
  <2>2. (B - 1) * e = B * e - e
    OBVIOUS
  <2>3. r2 * e \in Nat
    BY <1>2
  <2>4. QED
    BY <1>1, <2>1, <2>2, <2>3
<1>5. B * e \in Nat \ {0}
  OBVIOUS
<1>6. l % (B * e) = r2 * e + r
  BY <1>2, <1>3, <1>4, <1>5, ModIs
<1>7. QED
  BY <1>6 DEF r, r2, q

-----------------------------------------------------------------------------
(* Sequences. *)

LEMMA ConcatFacts ==
  ASSUME NEW S, NEW s \in Seq(S), NEW t \in Seq(S)
  PROVE  /\ s \o t \in Seq(S) /\ Len(s \o t) = Len(s) + Len(t)
         /\ \A k \in 1..Len(s) : (s \o t)[k] = s[k]
         /\ \A k \in 1..Len(t) : (s \o t)[Len(s) + k] = t[k]
OBVIOUS

LEMMA DropFacts ==
  ASSUME NEW S, NEW s \in Seq(S), NEW k \in 0..Len(s)
  PROVE  /\ Drop(s, k) \in Seq(S) /\ Len(Drop(s, k)) = Len(s) - k
         /\ \A j \in 1..(Len(s) - k) : Drop(s, k)[j] = s[j + k]
BY DEF Drop

LEMMA PrefixFacts ==
  ASSUME NEW S, NEW s \in Seq(S), NEW k \in 0..Len(s)
  PROVE  /\ SubSeq(s, 1, k) \in Seq(S) /\ Len(SubSeq(s, 1, k)) = k
         /\ \A j \in 1..k : SubSeq(s, 1, k)[j] = s[j]
OBVIOUS

(* A function given by its first value and a step exists.                  *)
IsRun(f, S, x, G, k) == /\ f \in [0..k -> S] /\ f[0] = x
                        /\ \A j \in 1..k : f[j] = G[j][f[j - 1]]

LEMMA Recursion ==
  ASSUME NEW S, NEW x \in S, NEW G \in [Nat -> [S -> S]], NEW k \in Nat
  PROVE  \E f : IsRun(f, S, x, G, k)
<1> DEFINE Run(f, n) == /\ f \in [0..n -> S] /\ f[0] = x
                        /\ \A j \in 1..n : f[j] = G[j][f[j - 1]]
           T == {n \in Nat : \E f : Run(f, n)}
<1>1. 0 \in T
  <2> DEFINE g == [j \in 0..0 |-> x]
  <2>1. Run(g, 0)
    OBVIOUS
  <2>2. QED
    BY <2>1
<1>2. ASSUME NEW n \in T PROVE n + 1 \in T
  <2>1. PICK f : Run(f, n)
    OBVIOUS
  <2>2. n \in Nat /\ n \in 0..n /\ f[n] \in S /\ G[n + 1] \in [S -> S]
    BY <2>1
  <2>3. PICK y \in S : y = G[n + 1][f[n]]
    BY <2>2
  <2> DEFINE g == [j \in 0..(n + 1) |-> IF j <= n THEN f[j] ELSE y]
  <2>4. /\ g \in [0..(n + 1) -> S] /\ g[n + 1] = y
        /\ \A j \in 0..n : g[j] = f[j]
    BY <2>1, <2>2, <2>3
  <2> HIDE DEF g
  <2>5. g[0] = x
    BY <2>1, <2>2, <2>4
  <2>6. ASSUME NEW j \in 1..(n + 1) PROVE g[j] = G[j][g[j - 1]]
    <3>1. CASE j \in 1..n
      <4>1. j - 1 \in 0..n /\ j \in 0..n
        BY <2>2, <3>1
      <4>2. QED
        BY <2>1, <2>4, <3>1, <4>1
    <3>2. CASE j = n + 1
      <4>1. j - 1 = n
        BY <2>2, <3>2
      <4>2. QED
        BY <2>2, <2>3, <2>4, <3>2, <4>1
    <3>3. QED
      BY <2>2, <3>1, <3>2
  <2>7. QED
    BY <2>2, <2>4, <2>5, <2>6
<1>3. T = Nat
  <2> HIDE DEF T
  <2>1. T \in SUBSET Nat
    BY DEF T
  <2>2. QED
    BY <1>1, <1>2, <2>1, Induction
<1>4. PICK f : Run(f, k)
  BY <1>3
<1>5. QED
  BY <1>4 DEF IsRun

(* FlattenSeq goes through the sequence from the left.                     *)
LEMMA FlattenRun ==
  ASSUME NEW S, NEW e \in Seq(Seq(S))
  PROVE  \E f \in [0..Len(e) -> Seq(S)] :
           /\ f[0] = <<>> /\ FlattenSeq(e) = f[Len(e)]
           /\ \A j \in 1..Len(e) : f[j] = f[j - 1] \o e[j]
<1> DEFINE n == Len(e)
           G == [j \in Nat |-> [s \in Seq(S) |->
                  IF j \in 1..n THEN s \o e[j] ELSE s]]
<1>1. n \in Nat /\ \A j \in 1..n : e[j] \in Seq(S)
  OBVIOUS
<1>2. <<>> \in Seq(S) /\ G \in [Nat -> [Seq(S) -> Seq(S)]]
  <2>1. ASSUME NEW j \in Nat, NEW s \in Seq(S)
        PROVE  (IF j \in 1..n THEN s \o e[j] ELSE s) \in Seq(S)
    BY <1>1, ConcatFacts
  <2>2. QED
    BY <2>1
<1>3. PICK f \in [0..n -> Seq(S)] :
             f[0] = <<>> /\ \A j \in 1..n : f[j] = G[j][f[j - 1]]
  <2>1. PICK U : U = Seq(S)
    OBVIOUS
  <2> HIDE DEF G, n
  <2>2. PICK x \in U : x = <<>>
    BY <1>2, <2>1
  <2>3. n \in Nat /\ G \in [Nat -> [U -> U]]
    BY <1>1, <1>2, <2>1
  <2>4. PICK f : IsRun(f, U, x, G, n)
    BY <2>3, Recursion
  <2>5. QED
    BY <2>1, <2>2, <2>4 DEF IsRun
<1>4. \A j \in 1..n : f[j - 1] \in Seq(S) /\ f[j] = f[j - 1] \o e[j]
  <2> SUFFICES ASSUME NEW j \in 1..n
               PROVE  f[j - 1] \in Seq(S) /\ f[j] = f[j - 1] \o e[j]
    OBVIOUS
  <2>1. j \in Nat /\ j - 1 \in 0..n
    BY <1>1
  <2>2. f[j - 1] \in Seq(S)
    BY <1>3, <2>1
  <2>3. QED
    BY <1>3, <2>1, <2>2
<1> HIDE DEF G
<1>5. ASSUME 1 \in 1..n PROVE f[1] = e[1]
  <2>1. PICK i \in 1..n : i = 1
    BY <1>5
  <2>2. e[i] \in Seq(S)
    BY <1>1
  <2>3. f[i] = f[i - 1] \o e[i]
    BY <1>4
  <2>4. i - 1 = 0
    BY <2>1
  <2>5. f[i] = <<>> \o e[i]
    BY <1>3, <2>3, <2>4
  <2>6. QED
    BY <2>1, <2>2, <2>5, ConcatEmptySeq
<1>6. CASE n = 0
  <2>1. FlattenSeq(e) = <<>>
    BY <1>6 DEF FlattenSeq
  <2>2. QED
    BY <1>3, <1>4, <1>6, <2>1
<1>7. CASE n # 0
  <2> DEFINE F(g) == [i \in 1..n |-> IF i = 1 THEN e[i] ELSE g[i - 1] \o e[i]]
             flatten == CHOOSE g : g = F(g)
             h == [i \in 1..n |-> f[i]]
  <2>1. FlattenSeq(e) = flatten[n]
    BY <1>7 DEF FlattenSeq
  <2>2. h = F(h)
    <3>1. ASSUME NEW i \in 1..n
          PROVE  f[i] = IF i = 1 THEN e[i] ELSE h[i - 1] \o e[i]
      <4>1. CASE i = 1
        BY <1>5, <4>1
      <4>2. CASE i # 1
        <5>1. i - 1 \in 1..n /\ h[i - 1] = f[i - 1]
          BY <1>1, <4>2
        <5>2. QED
          BY <1>4, <4>2, <5>1
      <4>3. QED
        BY <4>1, <4>2
    <3>2. QED
      BY <3>1
  <2>3. flatten = F(flatten)
    <3> HIDE DEF F, h
    <3>1. QED
      BY <2>2
  <2> HIDE DEF flatten
  <2>4. PICK g : g = flatten /\ g = F(g)
    BY <2>3
  <2> DEFINE T == {k \in Nat : k + 1 \in 1..n => g[k + 1] = f[k + 1]}
  <2>5. 0 \in T
    <3>1. 1 \in 1..n
      BY <1>1, <1>7
    <3>2. g[1] = e[1]
      BY <2>4, <3>1
    <3>3. QED
      BY <1>5, <3>1, <3>2
  <2>6. ASSUME NEW k \in T PROVE k + 1 \in T
    <3> SUFFICES ASSUME (k + 1) + 1 \in 1..n
                 PROVE  g[(k + 1) + 1] = f[(k + 1) + 1]
      OBVIOUS
    <3>1. k + 1 \in 1..n /\ ((k + 1) + 1) - 1 = k + 1 /\ (k + 1) + 1 # 1
      BY <1>1
    <3>2. g[(k + 1) + 1] = g[k + 1] \o e[(k + 1) + 1]
      BY <2>4, <3>1
    <3>3. QED
      BY <1>4, <3>1, <3>2
  <2>7. T = Nat
    <3> HIDE DEF T
    <3>1. T \in SUBSET Nat
      BY DEF T
    <3>2. QED
      BY <2>5, <2>6, <3>1, Induction
  <2>8. n - 1 \in Nat /\ (n - 1) + 1 = n /\ n \in 1..n
    BY <1>1, <1>7
  <2>9. g[n] = f[n]
    BY <2>7, <2>8
  <2>10. QED
    BY <1>3, <1>4, <2>1, <2>4, <2>9
<1>8. QED
  BY <1>6, <1>7

LEMMA FlattenFacts ==
  ASSUME NEW S, NEW e \in Seq(Seq(S))
  PROVE  FlattenSeq(e) \in Seq(S) /\ (Len(e) = 0 => FlattenSeq(e) = <<>>)
<1>1. PICK f \in [0..Len(e) -> Seq(S)] :
             f[0] = <<>> /\ FlattenSeq(e) = f[Len(e)]
  BY FlattenRun
<1>2. Len(e) \in Nat /\ Len(e) \in 0..Len(e)
  OBVIOUS
<1>3. QED
  BY <1>1, <1>2

LEMMA FlattenAppend ==
  ASSUME NEW S, NEW e \in Seq(Seq(S)), NEW x \in Seq(S)
  PROVE  FlattenSeq(Append(e, x)) = FlattenSeq(e) \o x
<1> DEFINE n == Len(e)
<1>1. PICK d \in Seq(Seq(S)) :
             /\ d = Append(e, x) /\ Len(d) = n + 1 /\ d[n + 1] = x
             /\ n \in Nat /\ \A j \in 1..n : d[j] = e[j]
  <2>1. PICK U : U = Seq(S)
    OBVIOUS
  <2>2. e \in Seq(U) /\ x \in U
    BY <2>1
  <2>3. /\ Append(e, x) \in Seq(U) /\ Len(Append(e, x)) = n + 1
        /\ Append(e, x)[n + 1] = x /\ n \in Nat
        /\ \A j \in 1..n : Append(e, x)[j] = e[j]
    BY <2>2
  <2>4. QED
    BY <2>1, <2>3
<1>2. PICK f \in [0..n -> Seq(S)] :
             /\ f[0] = <<>> /\ FlattenSeq(e) = f[n]
             /\ \A j \in 1..n : f[j] = f[j - 1] \o e[j]
  BY FlattenRun
<1>3. PICK g \in [0..Len(d) -> Seq(S)] :
             /\ g[0] = <<>> /\ FlattenSeq(d) = g[Len(d)]
             /\ \A j \in 1..Len(d) : g[j] = g[j - 1] \o d[j]
  BY FlattenRun
<1> DEFINE T == {k \in Nat : k <= n => g[k] = f[k]}
<1>4. 0 \in T
  BY <1>2, <1>3
<1>5. ASSUME NEW k \in T PROVE k + 1 \in T
  <2> SUFFICES ASSUME k + 1 <= n PROVE g[k + 1] = f[k + 1]
    OBVIOUS
  <2>1. /\ k <= n /\ k + 1 \in 1..n /\ k + 1 \in 1..(n + 1)
        /\ (k + 1) - 1 = k
    BY <1>1
  <2>2. QED
    BY ZenonT(40), <1>1, <1>2, <1>3, <2>1
<1>6. T = Nat
  <2> HIDE DEF T
  <2>1. T \in SUBSET Nat
    BY DEF T
  <2>2. QED
    BY <1>4, <1>5, <2>1, Induction
<1>7. g[n] = f[n]
  BY <1>1, <1>6
<1>8. n + 1 \in 1..Len(d) /\ (n + 1) - 1 = n
  BY <1>1
<1>9. QED
  BY <1>1, <1>2, <1>3, <1>7, <1>8

-----------------------------------------------------------------------------
(* Two-byte numbers and length-prefixed strings. *)

LEMMA Words ==
  ASSUME NEW n \in Uint16s
  PROVE  /\ n \div 256 \in Byte /\ n % 256 \in Byte
         /\ (n \div 256) * 256 + (n % 256) = n
BY DEF Uint16s, Byte

LEMMA WordOfBytes ==
  ASSUME NEW a \in Byte, NEW c \in Byte
  PROVE  /\ a * 256 + c \in Uint16s
         /\ (a * 256 + c) \div 256 = a /\ (a * 256 + c) % 256 = c
<1>1. a \in Nat /\ c \in 0..(256 - 1)
  BY SMT DEF Byte
<1>2. PICK m \in Nat \ {0} : m = 256
  OBVIOUS
<1>3. (a * m + c) % m = c
  BY <1>1, <1>2, ModIs
<1>4. PICK x \in Nat : x = a * 256 + c /\ x < 65536
  <2>1. a * 256 + c \in Nat /\ a * 256 + c < 65536
    BY SMT DEF Byte
  <2>2. QED
    BY SMT, <2>1
<1>5. x \div m \in Nat /\ x = (x \div m) * m + (x % m)
  BY DivMod
<1>6. PICK q \in Nat : q = x \div 256 /\ x = q * 256 + c
  BY <1>2, <1>3, <1>4, <1>5
<1>7. q = a
  BY <1>1, <1>4, <1>6
<1>8. x \in Uint16s
  BY SMT, <1>4 DEF Uint16s
<1>9. QED
  BY SMT, <1>2, <1>3, <1>4, <1>6, <1>7, <1>8

LEMMA Uint16Facts ==
  ASSUME NEW n \in Uint16s
  PROVE  /\ Uint16(n) \in String /\ Len(Uint16(n)) = 2
         /\ U16(Uint16(n)) = n
<1>1. PICK a \in Byte : a = n \div 256
  BY Words
<1>2. PICK c \in Byte : c = n % 256
  BY Words
<1>3. Uint16(n) = <<a, c>>
  BY <1>1, <1>2 DEF Uint16
<1>4. <<a, c>> \in String /\ Len(<<a, c>>) = 2 /\ U16(<<a, c>>) = a * 256 + c
  BY DEF String, U16
<1>5. a * 256 + c = n
  BY <1>1, <1>2, Words
<1>6. QED
  BY <1>3, <1>4, <1>5

(* The first two bytes of a string of bytes.                               *)
LEMMA U16Facts ==
  ASSUME NEW b \in String, Len(b) >= 2
  PROVE  U16(b) \in Uint16s /\ Uint16(U16(b)) = <<b[1], b[2]>>
<1>1. b[1] \in Byte /\ b[2] \in Byte
  <2>1. 1 \in 1..Len(b) /\ 2 \in 1..Len(b)
    BY DEF String
  <2>2. QED
    BY <2>1 DEF String
<1>2. PICK a \in Byte : a = b[1]
  BY <1>1
<1>3. PICK c \in Byte : c = b[2]
  BY <1>1
<1>4. U16(b) = a * 256 + c
  BY <1>2, <1>3 DEF U16
<1>5. Uint16(a * 256 + c) = <<a, c>>
  BY WordOfBytes DEF Uint16
<1>6. QED
  BY <1>2, <1>3, <1>4, <1>5, WordOfBytes

LEMMA U16OfConcat ==
  ASSUME NEW n \in Uint16s, NEW t \in String
  PROVE  /\ U16(Uint16(n) \o t) = n /\ Drop(Uint16(n) \o t, 2) = t
         /\ Uint16(n) \o t \in String /\ Len(Uint16(n) \o t) = 2 + Len(t)
<1>1. PICK w \in Seq(Byte) : w = Uint16(n) /\ Len(w) = 2 /\ U16(w) = n
  BY Uint16Facts DEF String
<1>2. t \in Seq(Byte)
  BY DEF String
<1> DEFINE v == w \o t
<1>3. /\ v \in Seq(Byte) /\ Len(v) = Len(w) + Len(t)
      /\ \A k \in 1..Len(w) : v[k] = w[k]
      /\ \A k \in 1..Len(t) : v[Len(w) + k] = t[k]
  BY <1>2
<1> HIDE DEF v
<1>4. v[1] = w[1] /\ v[2] = w[2] /\ U16(v) = U16(w)
  BY <1>1, <1>3 DEF U16
<1>5. Len(v) \in Nat /\ Len(t) \in Nat /\ 2 \in 0..Len(v)
      /\ Len(v) - 2 = Len(t)
  BY <1>1, <1>2, <1>3
<1>6. /\ Drop(v, 2) \in Seq(Byte) /\ Len(Drop(v, 2)) = Len(t)
      /\ \A j \in 1..Len(t) : Drop(v, 2)[j] = v[j + 2]
  <2>1. /\ Drop(v, 2) \in Seq(Byte) /\ Len(Drop(v, 2)) = Len(v) - 2
        /\ \A j \in 1..(Len(v) - 2) : Drop(v, 2)[j] = v[j + 2]
    BY ZenonT(40), <1>3, <1>5, DropFacts
  <2>2. QED
    BY <1>5, <2>1
<1>7. \A j \in 1..Len(t) : Drop(v, 2)[j] = t[j]
  <2> SUFFICES ASSUME NEW j \in 1..Len(t) PROVE Drop(v, 2)[j] = t[j]
    OBVIOUS
  <2>1. j + 2 = Len(w) + j
    BY <1>1, <1>5
  <2>2. QED
    BY <1>3, <1>6, <2>1
<1>8. Drop(v, 2) = t
  BY <1>2, <1>6, <1>7, SeqEqual
<1>9. QED
  BY <1>1, <1>3, <1>4, <1>8 DEF String, v

LEMMA PrefixedFacts ==
  ASSUME NEW s \in String
  PROVE  /\ LengthPrefixed(s) \in String
         /\ Len(LengthPrefixed(s)) = 2 + Len(s)
         /\ Len(s) <= MaxField => LengthPrefixed(s) = Uint16(Len(s)) \o s
<1>1. Len(s) \in Nat /\ MaxField \in Nat /\ MaxField < 65536
  <2>1. s \in Seq(Byte)
    BY DEF String
  <2>2. QED
    BY <2>1, MaxFieldType
<1>2. PICK n : n = Len(s) % (MaxField + 1)
  OBVIOUS
<1>3. n \in Uint16s
  <2>1. PICK m \in Nat \ {0} : m = MaxField + 1
    BY <1>1
  <2>2. n \in 0..(m - 1)
    BY <1>1, <1>2, <2>1, DivMod
  <2>3. n \in Nat /\ n < 65536
    BY SMT, <1>1, <2>1, <2>2
  <2>4. QED
    BY SMT, <2>3 DEF Uint16s
<1>4. LengthPrefixed(s) = Uint16(n) \o s
  BY <1>2 DEF LengthPrefixed
<1>5. Len(s) <= MaxField => n = Len(s)
  <2> SUFFICES ASSUME Len(s) <= MaxField PROVE n = Len(s)
    OBVIOUS
  <2>1. PICK m \in Nat \ {0} : m = MaxField + 1
    BY <1>1
  <2>2. PICK l \in 0..(m - 1) : l = Len(s)
    BY <1>1, <2>1
  <2>3. (0 * m + l) % m = l
    BY ModIs
  <2>4. 0 * m + l = l
    OBVIOUS
  <2>5. QED
    BY <1>2, <2>1, <2>2, <2>3, <2>4
<1>6. QED
  BY <1>3, <1>4, <1>5, U16OfConcat

-----------------------------------------------------------------------------
(* Cutting a string of bytes and putting it together again. *)

LEMMA Cut ==
  ASSUME NEW S, NEW b \in Seq(S), NEW i \in Nat, NEW j \in Nat,
         i <= j, j <= Len(b)
  PROVE  /\ SubSeq(b, i + 1, j) \in Seq(S)
         /\ Len(SubSeq(b, i + 1, j)) = j - i
         /\ Drop(b, j) \in Seq(S) /\ Len(Drop(b, j)) = Len(b) - j
         /\ SubSeq(b, i + 1, j) \o Drop(b, j) = Drop(b, i)
<1> DEFINE u == SubSeq(b, i + 1, j)
           v == Drop(b, j)
           w == Drop(b, i)
<1>1. Len(b) \in Nat /\ i \in 0..Len(b) /\ j \in 0..Len(b)
  OBVIOUS
<1>2. /\ u \in Seq(S) /\ Len(u) = j - i
      /\ \A k \in 1..(j - i) : u[k] = b[i + k]
  <2>1. \A k \in (i + 1)..j : b[k] \in S
    BY <1>1
  <2>2. /\ u \in Seq(S) /\ Len(u) = IF i + 1 <= j THEN j - (i + 1) + 1 ELSE 0
        /\ \A k \in 1..(j - (i + 1) + 1) : u[k] = b[(i + 1) + k - 1]
    BY <2>1, SubSeqProperties
  <2>3. /\ j - (i + 1) + 1 = j - i /\ (~(i + 1 <= j) => j - i = 0)
        /\ \A k \in 1..(j - i) : (i + 1) + k - 1 = i + k
    OBVIOUS
  <2> HIDE DEF u
  <2>4. QED
    BY <2>2, <2>3
<1>3. /\ v \in Seq(S) /\ Len(v) = Len(b) - j
      /\ \A k \in 1..(Len(b) - j) : v[k] = b[k + j]
  BY <1>1, DropFacts
<1>4. /\ w \in Seq(S) /\ Len(w) = Len(b) - i
      /\ \A k \in 1..(Len(b) - i) : w[k] = b[k + i]
  BY <1>1, DropFacts
<1> HIDE DEF u, v, w
<1> DEFINE x == u \o v
<1>5. /\ x \in Seq(S) /\ Len(x) = Len(u) + Len(v)
      /\ \A k \in 1..Len(u) : x[k] = u[k]
      /\ \A k \in 1..Len(v) : x[Len(u) + k] = v[k]
  <2>1. u \in Seq(S) /\ v \in Seq(S)
    BY <1>2, <1>3
  <2>2. QED
    BY <2>1
<1> HIDE DEF x
<1>6. Len(x) = Len(w)
  <2>1. \A a, c, d \in Nat : c <= a /\ d <= c => (c - d) + (a - c) = a - d
    OBVIOUS
  <2>2. QED
    BY <1>1, <1>2, <1>3, <1>4, <1>5, <2>1
<1>7. ASSUME NEW k \in 1..Len(x) PROVE x[k] = w[k]
  <2>1. w[k] = b[k + i]
    BY <1>1, <1>4, <1>6
  <2>2. CASE k \in 1..(j - i)
    BY <1>2, <1>5, <2>1, <2>2
  <2>3. CASE k \notin 1..(j - i)
    <3>1. PICK q \in Nat : k = (j - i) + q /\ q \in 1..(Len(b) - j)
      <4>1. k - (j - i) \in 1..(Len(b) - j)
        BY <1>1, <1>2, <1>3, <1>5, <2>3
      <4>2. QED
        BY <4>1
    <3>2. x[k] = v[q] /\ v[q] = b[q + j] /\ q + j = k + i
      BY <1>2, <1>3, <1>5, <3>1
    <3>3. QED
      BY <2>1, <3>2
  <2>4. QED
    BY <2>2, <2>3
<1>8. x = w
  BY <1>4, <1>5, <1>6, <1>7, SeqEqual
<1>9. QED
  BY <1>2, <1>3, <1>8 DEF u, v, w, x

LEMMA DropNone ==
  ASSUME NEW S, NEW b \in Seq(S)
  PROVE  Drop(b, 0) = b
BY SubSeqFull DEF Drop

LEMMA DropPrefix ==
  ASSUME NEW S, NEW p \in Seq(S), NEW t \in Seq(S)
  PROVE  Drop(p \o t, Len(p)) = t
<1> DEFINE b == p \o t
<1>1. /\ b \in Seq(S) /\ Len(b) = Len(p) + Len(t)
      /\ \A k \in 1..Len(t) : b[Len(p) + k] = t[k]
  OBVIOUS
<1> HIDE DEF b
<1>2. Len(p) \in 0..Len(b) /\ Len(b) - Len(p) = Len(t)
      /\ Len(p) \in Nat /\ Len(t) \in Nat
  BY <1>1
<1>3. /\ Drop(b, Len(p)) \in Seq(S) /\ Len(Drop(b, Len(p))) = Len(t)
      /\ \A k \in 1..Len(t) : Drop(b, Len(p))[k] = b[k + Len(p)]
  <2>1. /\ Drop(b, Len(p)) \in Seq(S)
        /\ Len(Drop(b, Len(p))) = Len(b) - Len(p)
        /\ \A k \in 1..(Len(b) - Len(p)) :
             Drop(b, Len(p))[k] = b[k + Len(p)]
    BY <1>1, <1>2, DropFacts
  <2>2. QED
    BY <1>2, <2>1
<1>4. \A k \in 1..Len(t) : k + Len(p) = Len(p) + k
  BY <1>2
<1>5. \A k \in 1..Len(t) : Drop(b, Len(p))[k] = t[k]
  BY <1>1, <1>3, <1>4
<1>6. Drop(b, Len(p)) = t
  BY <1>3, <1>5, SeqEqual
<1>7. QED
  BY <1>6 DEF b

LEMMA CancelLeft ==
  ASSUME NEW S, NEW s \in Seq(S), NEW t \in Seq(S), NEW v \in Seq(S),
         s \o t = s \o v
  PROVE  t = v
BY ConcatSimplifications

LEMMA CancelRight ==
  ASSUME NEW S, NEW s \in Seq(S), NEW t \in Seq(S), NEW v \in Seq(S),
         s \o v = t \o v
  PROVE  s = t
BY ConcatSimplifications

IsMiddle(a, p, q) == SubSeq(a, Len(p) + 1, Len(p) + Len(q)) = q

LEMMA Middle ==
  ASSUME NEW S, NEW p \in Seq(S), NEW q \in Seq(S), NEW t \in Seq(S),
         NEW a, NEW r, r = q \o t, a = p \o r
  PROVE  IsMiddle(a, p, q)
<1> DEFINE b == p \o (q \o t)
           i == Len(p)
           n == Len(p) + Len(q)
<1>1. q \o t \in Seq(S) /\ i \in Nat /\ Len(q) \in Nat
  OBVIOUS
<1>2. b \in Seq(S) /\ Len(b) = i + (Len(q) + Len(t))
  BY <1>1
<1>3. b = (p \o q) \o t /\ p \o q \in Seq(S) /\ Len(p \o q) = n
  BY SMT
<1> HIDE DEF b
<1>4. i <= n /\ n <= Len(b) /\ n \in Nat
  BY <1>1, <1>2
<1> HIDE DEF n
<1>5. /\ SubSeq(b, i + 1, n) \in Seq(S)
      /\ SubSeq(b, i + 1, n) \o Drop(b, n) = Drop(b, i)
  <2> HIDE DEF i
  <2>1. QED
    BY <1>1, <1>2, <1>4, Cut
<1>6. Drop(b, i) = q \o t
  BY <1>1, DropPrefix DEF b
<1>7. Drop(b, n) = t
  BY <1>3, DropPrefix
<1>8. SubSeq(b, i + 1, n) \o t = q \o t
  BY <1>5, <1>6, <1>7
<1>9. SubSeq(b, i + 1, n) = q
  BY <1>5, <1>8, CancelRight
<1>10. QED
  BY <1>9 DEF b, n, IsMiddle

-----------------------------------------------------------------------------
(* One item of a list: a string and the byte behind it, if x = 1. *)

ItemState == [ok : BOOLEAN, strs : Seq(String), more : String, rest : String]

FirstItem(b) == [ok |-> TRUE, strs |-> <<>>, more |-> <<>>, rest |-> b]

(* What an item that is there is made of.                                  *)
IsItem(b, x, s, y, t) ==
  /\ s = SubSeq(b, 3, 2 + U16(b)) /\ Len(s) = U16(b)
  /\ y = SubSeq(b, 2 + U16(b) + 1, 2 + U16(b) + x) /\ Len(y) = x
  /\ t = Drop(b, 2 + U16(b) + x)
  /\ Len(b) = 2 + U16(b) + x + Len(t)
  /\ U16(b) \in Uint16s /\ Uint16(U16(b)) \o (s \o (y \o t)) = b

LEMMA ItemCut ==
  ASSUME NEW b \in String, NEW x \in {0, 1}, HasString(b),
         ~(Len(b) < 2 + U16(b) + x)
  PROVE  \E s, y, t \in String : IsItem(b, x, s, y, t)
<1>1. b \in Seq(Byte) /\ Len(b) \in Nat /\ Len(b) >= 2
  BY DEF String, HasString
<1>2. PICK u \in Nat : u = U16(b) /\ U16(b) \in Uint16s
  BY <1>1, U16Facts DEF Uint16s
<1>3. PICK n \in Nat : n = 2 + u
  OBVIOUS
<1>4. PICK m \in Nat : m = n + x
  OBVIOUS
<1>5. m <= Len(b) /\ n <= m /\ 2 <= n
  <2>1. ~(Len(b) < (2 + u) + x)
    BY <1>2
  <2>2. x \in Nat
    OBVIOUS
  <2>3. QED
    BY <1>1, <1>3, <1>4, <2>1, <2>2
<1>6. PICK d \in Seq(Byte) : d = Drop(b, 2)
  BY <1>1, <1>5, DropFacts
<1>7. /\ SubSeq(b, 1, 2) \in Seq(Byte) /\ SubSeq(b, 1, 2) \o d = b
  <2>1. PICK z \in Nat : z = 0 /\ z + 1 = 1 /\ z <= 2
    OBVIOUS
  <2>2. PICK j \in Nat : j = 2
    OBVIOUS
  <2>3. z <= j /\ j <= Len(b)
    BY <1>1, <2>1, <2>2
  <2>4. /\ SubSeq(b, z + 1, j) \in Seq(Byte)
        /\ SubSeq(b, z + 1, j) \o Drop(b, j) = Drop(b, z)
    BY Zenon, <1>1, <2>3, Cut
  <2>5. Drop(b, z) = b
    BY Zenon, <1>1, <2>1, DropNone
  <2>6. QED
    BY Zenon, <1>6, <2>1, <2>2, <2>4, <2>5
<1>8. SubSeq(b, 1, 2) = Uint16(u)
  <2>1. Uint16(u) = <<b[1], b[2]>>
    BY <1>1, <1>2, U16Facts
  <2>2. b[1] \in Byte /\ b[2] \in Byte
    BY <1>1
  <2>3. SubSeq(b, 1, 2) = <<b[1], b[2]>>
    <3> DEFINE v == SubSeq(b, 1, 2)
    <3>1. /\ v \in Seq(Byte) /\ Len(v) = 2
          /\ \A j \in 1..2 : v[j] = b[j]
      BY <1>1, PrefixFacts
    <3> HIDE DEF v
    <3>2. v[1] = b[1] /\ v[2] = b[2]
      BY <3>1
    <3>3. v = <<b[1], b[2]>>
      BY <3>1, <3>2
    <3>4. QED
      BY <3>3 DEF v
  <2>4. QED
    BY <2>1, <2>3
<1>9. PICK s \in Seq(Byte) : s = SubSeq(b, 3, n) /\ Len(s) = u
                             /\ s \o Drop(b, n) = d
  <2>1. n <= Len(b)
    BY <1>1, <1>5
  <2>2. /\ SubSeq(b, 2 + 1, n) \in Seq(Byte)
        /\ Len(SubSeq(b, 2 + 1, n)) = n - 2
        /\ SubSeq(b, 2 + 1, n) \o Drop(b, n) = Drop(b, 2)
    BY SMTT(30), <1>1, <1>5, <2>1, Cut
  <2>3. n - 2 = u /\ 2 + 1 = 3
    BY <1>3
  <2>4. QED
    BY <1>6, <2>2, <2>3
<1>10. PICK t \in Seq(Byte) : t = Drop(b, m) /\ Len(t) = Len(b) - m
  <2>1. m \in 0..Len(b)
    BY <1>1, <1>5
  <2>2. QED
    BY <1>1, <2>1, DropFacts
<1>11. PICK y \in Seq(Byte) : y = SubSeq(b, n + 1, m) /\ Len(y) = x
                              /\ y \o t = Drop(b, n)
  <2>1. /\ SubSeq(b, n + 1, m) \in Seq(Byte)
        /\ Len(SubSeq(b, n + 1, m)) = m - n
        /\ SubSeq(b, n + 1, m) \o Drop(b, m) = Drop(b, n)
    <3>1. PICK i \in Nat : i = n /\ i <= m
      BY <1>5
    <3>2. PICK j \in Nat : j = m /\ j <= Len(b) /\ i <= j
      BY <1>5, <3>1
    <3>3. /\ SubSeq(b, i + 1, j) \in Seq(Byte)
          /\ SubSeq(b, i + 1, j) \o Drop(b, j) = Drop(b, i)
      BY Zenon, <1>1, <3>2, Cut
    <3>4. Len(SubSeq(b, i + 1, j)) = j - i
      BY <1>1, <3>2, Cut
    <3>5. QED
      BY Zenon, <3>1, <3>2, <3>3, <3>4
  <2>2. m - n = x
    BY <1>4
  <2>3. QED
    BY <1>10, <2>1, <2>2
<1>12. Uint16(u) \o (s \o (y \o t)) = b
  BY <1>7, <1>8, <1>9, <1>11
<1>13. Len(b) = m + Len(t)
  BY <1>1, <1>5, <1>10
<1>14. s \in String /\ y \in String /\ t \in String
  BY DEF String
<1>15. IsItem(b, x, s, y, t)
  BY Zenon, <1>2, <1>3, <1>4, <1>9, <1>10, <1>11, <1>12, <1>13 DEF IsItem
<1>16. QED
  BY Zenon, <1>14, <1>15

Grouped(w, s, y, t, v, yt, syt, vy) ==
  /\ v = w \o s /\ yt = y \o t /\ syt = s \o yt /\ vy = v \o y
  /\ Len(v) = Len(w) + Len(s) /\ Len(yt) = Len(y) + Len(t)
  /\ Len(syt) = Len(s) + Len(yt) /\ Len(vy) = Len(v) + Len(y)
  /\ vy \o t = w \o syt /\ vy \o t = v \o yt

LEMMA Regroup ==
  ASSUME NEW S, NEW w \in Seq(S), NEW s \in Seq(S), NEW y \in Seq(S),
         NEW t \in Seq(S)
  PROVE  \E v, yt, syt, vy \in Seq(S) : Grouped(w, s, y, t, v, yt, syt, vy)
<1>1. PICK v \in Seq(S) : v = w \o s /\ Len(v) = Len(w) + Len(s)
  BY Zenon, ConcatFacts
<1>2. PICK yt \in Seq(S) : yt = y \o t /\ Len(yt) = Len(y) + Len(t)
  BY Zenon, ConcatFacts
<1>3. PICK syt \in Seq(S) : syt = s \o yt /\ Len(syt) = Len(s) + Len(yt)
  BY Zenon, ConcatFacts
<1>4. PICK vy \in Seq(S) : vy = v \o y /\ Len(vy) = Len(v) + Len(y)
  BY Zenon, ConcatFacts
<1>5. vy \o t = v \o yt
  <2>1. (v \o y) \o t = v \o (y \o t)
    BY SMT
  <2>2. QED
    BY <1>2, <1>4, <2>1
<1>6. v \o yt = w \o syt
  <2>1. (w \o s) \o yt = w \o (s \o yt)
    BY SMTT(30)
  <2>2. QED
    BY <1>1, <1>3, <2>1
<1>7. QED
  BY ZenonT(40), <1>1, <1>2, <1>3, <1>4, <1>5, <1>6 DEF Grouped

(* ItemStep on a string that is there.                                     *)
ItemIs(r, x, all, s, y, t) ==
  ItemStep(r, x, all) =
    [ok |-> TRUE, strs |-> Append(r.strs, s), more |-> r.more \o y,
     rest |-> t]

LEMMA ItemRead ==
  ASSUME NEW r \in ItemState, NEW x \in {0, 1}, NEW all \in BOOLEAN, r.ok,
         NEW s \in String, Len(s) <= MaxField, NEW y \in String, Len(y) = x,
         NEW t \in String, NEW d, d = LengthPrefixed(s) \o y,
         r.rest = d \o t
  PROVE  ItemIs(r, x, all, s, y, t)
<1>1. /\ s \in Seq(Byte) /\ y \in Seq(Byte) /\ t \in Seq(Byte)
      /\ Len(s) \in Nat /\ Len(t) \in Nat
  BY DEF String
<1>2. PICK n \in Uint16s : n = Len(s) /\ LengthPrefixed(s) = Uint16(n) \o s
  <2>1. Len(s) \in Uint16s
    BY <1>1, MaxFieldType DEF Uint16s
  <2>2. QED
    BY <2>1, PrefixedFacts
<1>3. PICK w \in Seq(Byte) : w = Uint16(n) /\ Len(w) = 2
  BY Uint16Facts DEF String
<1>4. PICK v, yt, syt, vy \in Seq(Byte) :
             /\ v = w \o s /\ yt = y \o t /\ syt = s \o yt /\ vy = v \o y
             /\ Len(v) = Len(w) + Len(s) /\ Len(yt) = Len(y) + Len(t)
             /\ Len(syt) = Len(s) + Len(yt) /\ Len(vy) = Len(v) + Len(y)
             /\ vy \o t = w \o syt /\ vy \o t = v \o yt
  <2>1. \E v, yt, syt, vy \in Seq(Byte) : Grouped(w, s, y, t, v, yt, syt, vy)
    BY <1>1, Regroup
  <2>2. QED
    BY Zenon, <2>1 DEF Grouped
<1>5. PICK b \in Seq(Byte) : b = r.rest /\ r.rest \in String
  BY DEF ItemState, String
<1>6. b = vy \o t /\ b = w \o syt /\ b = v \o yt
  <2>1. b = ((w \o s) \o y) \o t
    BY <1>2, <1>3, <1>5
  <2>2. QED
    BY <1>4, <2>1
<1>7. n \in Nat /\ x \in Nat
  BY DEF Uint16s
<1>8. U16(b) = n /\ Len(b) = 2 + Len(syt)
  <2>1. syt \in String
    BY DEF String
  <2>2. QED
    BY ZenonT(40), <1>3, <1>6, <2>1, U16OfConcat
<1>9. Len(b) = 2 + n + x + Len(t)
  BY <1>1, <1>2, <1>4, <1>7, <1>8
<1>10. HasString(b) /\ ~(Len(b) < 2 + U16(b) + x) /\ b # <<>>
  <2>1. Len(b) >= 2 /\ Len(b) >= 2 + n /\ ~(Len(b) < 2 + n + x)
    <3>1. \A l \in Nat : /\ 2 + n + x + l >= 2 /\ 2 + n + x + l >= 2 + n
                         /\ ~(2 + n + x + l < 2 + n + x)
      BY <1>7
    <3>2. QED
      BY <1>1, <1>9, <3>1
  <2>2. b # <<>>
    BY <2>1
  <2>3. QED
    BY <1>8, <2>1, <2>2 DEF HasString
<1>11. SubSeq(b, 3, 2 + U16(b)) = s
  <2>1. PICK m \in Nat : m = 2 + n /\ m = Len(w) + Len(s) /\ Len(w) + 1 = 3
    BY <1>2, <1>3, <1>7
  <2>2. IsMiddle(b, w, s)
    BY Zenon, <1>1, <1>4, <1>6, Middle
  <2>3. QED
    BY <1>8, <2>1, <2>2 DEF IsMiddle
<1>12. SubSeq(b, 2 + U16(b) + 1, 2 + U16(b) + x) = y
  <2>1. PICK m \in Nat : /\ m = 2 + n + x /\ m = Len(v) + Len(y)
                         /\ Len(v) + 1 = 2 + n + 1
    BY <1>2, <1>3, <1>4, <1>7
  <2>2. IsMiddle(b, v, y)
    BY Zenon, <1>1, <1>4, <1>6, Middle
  <2>3. QED
    BY <1>8, <2>1, <2>2 DEF IsMiddle
<1>13. Drop(b, 2 + U16(b) + x) = t
  <2>1. Len(vy) = 2 + n + x
    BY <1>2, <1>3, <1>4, <1>7
  <2>2. Drop(vy \o t, Len(vy)) = t
    BY <1>1, DropPrefix
  <2>3. QED
    BY <1>6, <1>8, <2>1, <2>2
<1>14. QED
  BY <1>5, <1>10, <1>11, <1>12, <1>13 DEF ItemStep, ItemIs

LEMMA ItemType ==
  ASSUME NEW r \in ItemState, NEW x \in {0, 1}, NEW all \in BOOLEAN
  PROVE  ItemStep(r, x, all) \in ItemState
<1> DEFINE b == r.rest
           n == 2 + U16(b)
           q == [ok   |-> TRUE,
                 strs |-> Append(r.strs, SubSeq(b, 3, n)),
                 more |-> r.more \o SubSeq(b, n + 1, n + x),
                 rest |-> Drop(b, n + x)]
<1>1. /\ r.strs \in Seq(String) /\ r.more \in String /\ b \in String
      /\ [r EXCEPT !.ok = FALSE] \in ItemState
  BY DEF ItemState
<1>2. ItemStep(r, x, all) =
        IF ~r.ok \/ (all /\ b = <<>>) THEN r
        ELSE IF ~HasString(b) \/ Len(b) < n + x
        THEN [r EXCEPT !.ok = FALSE] ELSE q
  BY DEF ItemStep
<1>3. ASSUME HasString(b), ~(Len(b) < n + x) PROVE q \in ItemState
  <2>1. PICK s \in String, y \in String, t \in String : IsItem(b, x, s, y, t)
    BY Zenon, <1>1, <1>3, ItemCut
  <2>2. Append(r.strs, s) \in Seq(String)
    BY <1>1
  <2>3. r.more \o y \in String
    BY <1>1 DEF String
  <2>4. QED
    BY Zenon, <2>1, <2>2, <2>3 DEF ItemState, IsItem
<1> HIDE DEF q, n, b
<1>4. QED
  BY Zenon, <1>1, <1>2, <1>3

(* Items goes through the bytes one item at a time.                        *)
IsItems(it, b, k, x, all) ==
  /\ it \in [0..k -> ItemState] /\ it[0] = FirstItem(b)
  /\ \A j \in 1..k : it[j] = ItemStep(it[j - 1], x, all)

LEMMA ItemsRun ==
  ASSUME NEW b \in String, NEW k \in Nat, NEW x \in {0, 1},
         NEW all \in BOOLEAN
  PROVE  \E it : IsItems(it, b, k, x, all) /\ Items(b, k, x, all) = it[k]
<1> DEFINE G == [j \in Nat |-> [r \in ItemState |-> ItemStep(r, x, all)]]
           F(g) == [j \in 0..k |-> IF j = 0 THEN FirstItem(b)
                                   ELSE ItemStep(g[j - 1], x, all)]
           Item == CHOOSE g : g = F(g)
<1>1. G \in [Nat -> [ItemState -> ItemState]]
  <2>1. \A r \in ItemState : ItemStep(r, x, all) \in ItemState
    BY ItemType
  <2>2. QED
    BY <2>1
<1>2. FirstItem(b) \in ItemState
  BY DEF FirstItem, ItemState, String
<1>3. PICK f : IsRun(f, ItemState, FirstItem(b), G, k)
  <2> HIDE DEF G
  <2>1. QED
    BY <1>1, <1>2, Recursion
<1>4. /\ f \in [0..k -> ItemState] /\ f[0] = FirstItem(b)
      /\ \A j \in 1..k : f[j] = ItemStep(f[j - 1], x, all)
  <2>1. f \in [0..k -> ItemState] /\ f[0] = FirstItem(b)
    BY <1>3 DEF IsRun
  <2>2. ASSUME NEW j \in 1..k PROVE f[j] = ItemStep(f[j - 1], x, all)
    <3>1. f[j] = G[j][f[j - 1]]
      BY <1>3 DEF IsRun
    <3>2. j \in Nat /\ j - 1 \in 0..k
      OBVIOUS
    <3>3. f[j - 1] \in ItemState
      BY <2>1, <3>2
    <3> HIDE DEF ItemState
    <3>4. QED
      BY <3>1, <3>2, <3>3
  <2>3. QED
    BY <2>1, <2>2
<1>5. f = F(f)
  <2>1. \A j \in 0..k : f[j] = IF j = 0 THEN FirstItem(b)
                               ELSE ItemStep(f[j - 1], x, all)
    BY <1>4
  <2>2. QED
    BY <1>4, <2>1
<1>6. Item = F(Item)
  <2> HIDE DEF F
  <2>1. QED
    BY <1>5
<1>7. Items(b, k, x, all) = Item[k]
  BY DEF Items, FirstItem
<1> HIDE DEF Item
<1>8. PICK g : g = Item /\ g = F(g)
  BY <1>6
<1>9. /\ 0 \in 0..k /\ g[0] = FirstItem(b)
      /\ \A j \in 1..k : g[j] = ItemStep(g[j - 1], x, all)
  <2>1. \A j \in 0..k : g[j] = IF j = 0 THEN FirstItem(b)
                               ELSE ItemStep(g[j - 1], x, all)
    BY <1>8
  <2> HIDE DEF F
  <2>2. QED
    BY <2>1
<1> DEFINE T == {j \in Nat : j <= k => g[j] = f[j]}
<1>10. 0 \in T
  BY <1>4, <1>9
<1>11. ASSUME NEW j \in T PROVE j + 1 \in T
  <2> SUFFICES ASSUME j + 1 <= k PROVE g[j + 1] = f[j + 1]
    OBVIOUS
  <2>1. j + 1 \in 1..k /\ (j + 1) - 1 = j /\ j <= k
    OBVIOUS
  <2>2. g[j] = f[j]
    BY <2>1
  <2> HIDE DEF F, T
  <2>3. QED
    BY <1>4, <1>9, <2>1, <2>2
<1>12. T = Nat
  <2> HIDE DEF T
  <2>1. T \in SUBSET Nat
    BY DEF T
  <2>2. QED
    BY <1>10, <1>11, <2>1, Induction
<1>13. g[k] = f[k]
  BY <1>12
<1> HIDE DEF F, T
<1>14. QED
  BY <1>4, <1>7, <1>8, <1>13 DEF IsItems

-----------------------------------------------------------------------------
(* The encoding of a list: the strings ss, each with a byte of m behind it *)
(* if x = 1.                                                               *)

Extra(m, i, x) == IF x = 1 THEN <<m[i]>> ELSE <<>>

Chunk(s, m, i, x) == LengthPrefixed(s) \o Extra(m, i, x)

Chunks(ss, m, x) == [i \in 1..Len(ss) |-> Chunk(ss[i], m, i, x)]

List(ss, m, x) == FlattenSeq(Chunks(ss, m, x))

LEMMA ChunkFacts ==
  ASSUME NEW s \in String, NEW m \in String, NEW i \in Nat \ {0},
         NEW x \in {0, 1}, x = 1 => i <= Len(m)
  PROVE  /\ Extra(m, i, x) \in String /\ Len(Extra(m, i, x)) = x
         /\ Chunk(s, m, i, x) \in String /\ Len(Chunk(s, m, i, x)) >= 2
<1>1. PICK y : y = Extra(m, i, x)
  OBVIOUS
<1>2. y \in Seq(Byte) /\ Len(y) = x
  <2>1. CASE x = 1
    <3>1. m \in Seq(Byte) /\ i \in 1..Len(m)
      BY <2>1 DEF String
    <3>2. PICK c \in Byte : c = m[i]
      BY <3>1
    <3>3. y = <<c>>
      BY <1>1, <2>1, <3>2 DEF Extra
    <3>4. QED
      BY <2>1, <3>3
  <2>2. CASE x = 0
    BY <1>1, <2>2 DEF Extra
  <2>3. QED
    BY <2>1, <2>2
<1>3. PICK p \in Seq(Byte) : p = LengthPrefixed(s) /\ Len(p) >= 2
  <2>1. /\ LengthPrefixed(s) \in Seq(Byte) /\ Len(s) \in Nat
        /\ Len(LengthPrefixed(s)) = 2 + Len(s)
    BY PrefixedFacts DEF String
  <2>2. QED
    BY <2>1
<1>4. p \o y \in Seq(Byte) /\ Len(p \o y) = Len(p) + Len(y)
  BY <1>2, ConcatFacts
<1>5. Chunk(s, m, i, x) = p \o y
  BY <1>1, <1>3 DEF Chunk
<1>6. Len(p) + Len(y) >= 2
  BY <1>2, <1>3
<1>7. QED
  BY <1>1, <1>2, <1>4, <1>5, <1>6 DEF String

LEMMA ChunksFacts ==
  ASSUME NEW ss \in Seq(String), NEW m \in String, NEW x \in {0, 1},
         x = 1 => Len(ss) <= Len(m)
  PROVE  /\ Chunks(ss, m, x) \in Seq(Seq(Byte))
         /\ Len(Chunks(ss, m, x)) = Len(ss)
<1>1. Len(ss) \in Nat /\ Len(m) \in Nat
  BY DEF String
<1>2. ASSUME NEW i \in 1..Len(ss) PROVE Chunk(ss[i], m, i, x) \in Seq(Byte)
  <2>1. /\ i \in Nat \ {0} /\ ss[i] \in String
        /\ x = 1 => i <= Len(m)
    BY <1>1
  <2>2. QED
    BY <2>1, ChunkFacts DEF String
<1> DEFINE e == Chunks(ss, m, x)
<1>3. e \in [1..Len(ss) -> Seq(Byte)]
  BY <1>2 DEF Chunks
<1> HIDE DEF e
<1>4. PICK U : U = Seq(Byte)
  OBVIOUS
<1>5. e \in [1..Len(ss) -> U]
  BY <1>3, <1>4
<1>6. e \in Seq(U) /\ Len(e) = Len(ss)
  BY <1>1, <1>5
<1>7. QED
  BY <1>4, <1>6 DEF e

LEMMA ListFacts ==
  ASSUME NEW ss \in Seq(String), NEW m \in String, NEW x \in {0, 1},
         x = 1 => Len(ss) <= Len(m)
  PROVE  List(ss, m, x) \in String /\ (Len(ss) = 0 => List(ss, m, x) = <<>>)
<1>1. /\ Chunks(ss, m, x) \in Seq(Seq(Byte))
      /\ Len(Chunks(ss, m, x)) = Len(ss)
  BY ChunksFacts
<1>2. QED
  BY <1>1, FlattenFacts DEF List, String

LEMMA ListAppend ==
  ASSUME NEW ss \in Seq(String), NEW s \in String, NEW m \in String,
         NEW x \in {0, 1}, x = 1 => Len(ss) + 1 <= Len(m)
  PROVE  List(Append(ss, s), m, x) =
           List(ss, m, x) \o Chunk(s, m, Len(ss) + 1, x)
<1> DEFINE n == Len(ss)
           d == Append(ss, s)
           c == Chunk(s, m, n + 1, x)
<1>1. n \in Nat /\ Len(m) \in Nat
  BY DEF String
<1>2. /\ d \in Seq(String) /\ Len(d) = n + 1 /\ d[n + 1] = s
      /\ \A i \in 1..n : d[i] = ss[i]
  OBVIOUS
<1> HIDE DEF d
<1>3. /\ Chunks(ss, m, x) \in Seq(Seq(Byte))
      /\ Len(Chunks(ss, m, x)) = n
  BY <1>1, ChunksFacts
<1>4. c \in Seq(Byte)
  BY <1>1, ChunkFacts DEF String
<1>5. PICK U : U = Seq(Byte)
  OBVIOUS
<1>6. PICK e \in Seq(U) : e = Chunks(ss, m, x) /\ Len(e) = n
  BY <1>3, <1>5
<1>7. /\ Append(e, c) \in Seq(U) /\ Len(Append(e, c)) = n + 1
      /\ Append(e, c)[n + 1] = c /\ \A i \in 1..n : Append(e, c)[i] = e[i]
  <2>1. c \in U
    BY <1>4, <1>5
  <2> HIDE DEF c, n
  <2>2. QED
    BY <1>6, <2>1, AppendProperties
<1>8. /\ Chunks(d, m, x) \in Seq(U) /\ Len(Chunks(d, m, x)) = n + 1
  BY <1>1, <1>2, <1>5, ChunksFacts
<1>9. ASSUME NEW i \in 1..(n + 1)
      PROVE  Chunks(d, m, x)[i] = Append(e, c)[i]
  <2>1. Chunks(d, m, x)[i] = Chunk(d[i], m, i, x)
    BY <1>2 DEF Chunks
  <2>2. CASE i = n + 1
    BY <1>2, <1>7, <2>1, <2>2
  <2>3. CASE i \in 1..n
    <3>1. e[i] = Chunk(ss[i], m, i, x)
      BY <1>6, <2>3 DEF Chunks
    <3>2. QED
      BY <1>2, <1>7, <2>1, <2>3, <3>1
  <2> HIDE DEF n, c
  <2>4. i = n + 1 \/ i \in 1..n
    BY <1>1
  <2>5. QED
    BY <2>2, <2>3, <2>4
<1>10. Chunks(d, m, x) = Append(e, c)
  <2> HIDE DEF c, n
  <2>1. QED
    BY <1>7, <1>8, <1>9, SeqEqual
<1>11. FlattenSeq(Append(e, c)) = FlattenSeq(e) \o c
  <2>1. e \in Seq(Seq(Byte))
    BY <1>5
  <2> HIDE DEF c
  <2>2. QED
    BY <1>4, <2>1, FlattenAppend
<1>12. QED
  BY <1>6, <1>10, <1>11 DEF List, d

LEMMA ListAgrees ==
  ASSUME NEW ss \in Seq(String), NEW m, NEW l, NEW x \in {0, 1},
         x = 1 => \A i \in 1..Len(ss) : m[i] = l[i]
  PROVE  List(ss, m, x) = List(ss, l, x)
<1>1. \A i \in 1..Len(ss) : Chunk(ss[i], m, i, x) = Chunk(ss[i], l, i, x)
  BY DEF Chunk, Extra
<1>2. Chunks(ss, m, x) = Chunks(ss, l, x)
  BY <1>1 DEF Chunks
<1>3. QED
  BY <1>2 DEF List

NextPrefix(ss, j, g) ==
  /\ SubSeq(ss, 1, g) = Append(SubSeq(ss, 1, j), ss[g])
  /\ SubSeq(ss, 1, g) = SubSeq(ss, 1, j) \o <<ss[g]>>

LEMMA PrefixStep ==
  ASSUME NEW S, NEW ss \in Seq(S), NEW j \in Nat, j < Len(ss),
         NEW g \in Nat, g = j + 1
  PROVE  NextPrefix(ss, j, g)
<1> DEFINE p == SubSeq(ss, 1, j)
           q == SubSeq(ss, 1, j + 1)
           c == ss[j + 1]
<1>1. j \in 0..Len(ss) /\ j + 1 \in 0..Len(ss) /\ j + 1 \in 1..Len(ss)
  OBVIOUS
<1>2. /\ p \in Seq(S) /\ Len(p) = j /\ \A i \in 1..j : p[i] = ss[i]
  BY <1>1, PrefixFacts
<1>3. /\ q \in Seq(S) /\ Len(q) = j + 1
      /\ \A i \in 1..(j + 1) : q[i] = ss[i]
  BY <1>1, PrefixFacts
<1>4. c \in S
  BY <1>1
<1> HIDE DEF p, q
<1>5. /\ Append(p, c) \in Seq(S) /\ Len(Append(p, c)) = j + 1
      /\ Append(p, c)[j + 1] = c /\ \A i \in 1..j : Append(p, c)[i] = p[i]
  <2> HIDE DEF c
  <2>1. QED
    BY <1>2, <1>4, AppendProperties
<1>6. ASSUME NEW i \in 1..(j + 1) PROVE q[i] = Append(p, c)[i]
  <2>1. i \in 1..j \/ i = j + 1
    OBVIOUS
  <2>2. QED
    BY <1>2, <1>3, <1>5, <2>1
<1>7. q = Append(p, c)
  <2> HIDE DEF c
  <2>1. QED
    BY <1>3, <1>5, <1>6, SeqEqual
<1>8. Append(p, c) = p \o <<c>>
  <2> HIDE DEF c
  <2>1. QED
    BY <1>2, <1>4, AppendIsConcat
<1>9. q = SubSeq(ss, 1, g) /\ c = ss[g]
  BY DEF q
<1> HIDE DEF c
<1>10. QED
  BY Zenon, <1>7, <1>8, <1>9 DEF p, NextPrefix

(* Each value of a run of concatenations is a prefix of the last.          *)
IsConcat(P, e, n, S) ==
  /\ P \in [0..n -> Seq(S)]
  /\ \A j \in 1..n : e[j] \in Seq(S) /\ P[j] = P[j - 1] \o e[j]

HasTail(P, n, j, S) == \E t \in Seq(S) : P[n] = P[j] \o t

LEMMA RunTails ==
  ASSUME NEW S, NEW n \in Nat, NEW P, NEW e, IsConcat(P, e, n, S),
         NEW j \in 0..n
  PROVE  HasTail(P, n, j, S)
<1> USE DEF IsConcat
<1> DEFINE Q(i) == \A h \in 0..n : h + i = n =>
                     \E t \in Seq(S) : P[n] = P[h] \o t
           T == {i \in Nat : Q(i)}
<1>1. Q(0)
  <2>1. P[n] \in Seq(S) /\ P[n] \o <<>> = P[n] /\ <<>> \in Seq(S)
    BY ConcatEmptySeq
  <2>2. \A h \in 0..n : h + 0 = n => h = n
    OBVIOUS
  <2>3. QED
    BY <2>1, <2>2
<1>2. ASSUME NEW i \in Nat, Q(i) PROVE Q(i + 1)
  <2> SUFFICES ASSUME NEW h \in 0..n, h + (i + 1) = n
               PROVE  \E t \in Seq(S) : P[n] = P[h] \o t
    OBVIOUS
  <2>1. PICK g \in 1..n : g = h + 1 /\ g \in 0..n /\ g + i = n /\ g - 1 = h
    OBVIOUS
  <2>2. PICK t \in Seq(S) : P[n] = P[g] \o t
    BY <1>2, <2>1
  <2>3. PICK p \in Seq(S) : p = P[h]
    OBVIOUS
  <2>4. PICK d \in Seq(S) : d = e[g] /\ P[g] = p \o d
    BY <2>1, <2>3
  <2>5. PICK v \in Seq(S) : v = d \o t
    <3>1. d \o t \in Seq(S)
      OBVIOUS
    <3>2. QED
      BY Zenon, <3>1
  <2>6. (p \o d) \o t = p \o (d \o t)
    BY SMTT(30)
  <2>7. P[n] = p \o v
    BY Zenon, <2>2, <2>4, <2>5, <2>6
  <2>8. QED
    BY Zenon, <2>3, <2>7
<1> HIDE DEF Q
<1>3. T = Nat
  <2>1. 0 \in T /\ \A i \in T : i + 1 \in T
    BY <1>1, <1>2
  <2>2. T \in SUBSET Nat
    OBVIOUS
  <2> HIDE DEF T
  <2>3. QED
    BY <2>1, <2>2, Induction
<1>4. n - j \in Nat /\ j + (n - j) = n
  OBVIOUS
<1>5. Q(n - j)
  BY <1>3, <1>4
<1>6. QED
  BY <1>4, <1>5 DEF Q, HasTail

Joined(a, p, q) == a = p \o q

LEMMA Assoc ==
  ASSUME NEW p \in String, NEW d \in String, NEW t \in String,
         NEW pd \in String, NEW dt \in String, NEW a,
         Joined(pd, p, d), Joined(dt, d, t)
  PROVE  Joined(a, pd, t) <=> Joined(a, p, dt)
<1>1. (p \o d) \o t = p \o (d \o t)
  BY SMT DEF String
<1>2. QED
  BY <1>1 DEF Joined

(* Behind p lies the encoding d of an item, and behind that t.             *)

LEMMA ReadNext ==
  ASSUME NEW x \in {0, 1}, NEW all \in BOOLEAN, NEW r \in ItemState, r.ok,
         NEW s \in String, Len(s) <= MaxField, NEW y \in String, Len(y) = x,
         NEW d, d = LengthPrefixed(s) \o y,
         NEW p \in String, NEW t \in String, p \o r.rest = (p \o d) \o t
  PROVE  ItemIs(r, x, all, s, y, t)
<1>1. PICK l \in Seq(Byte) : l = LengthPrefixed(s)
  BY PrefixedFacts DEF String
<1>2. y \in Seq(Byte) /\ p \in Seq(Byte) /\ t \in Seq(Byte)
  BY DEF String
<1>3. PICK c \in Seq(Byte) : c = d
  <2>1. l \o y \in Seq(Byte)
    BY <1>2
  <2>2. QED
    BY Zenon, <1>1, <2>1
<1>4. PICK v \in Seq(Byte) : v = c \o t
  <2>1. c \o t \in Seq(Byte)
    BY <1>2
  <2>2. QED
    BY Zenon, <2>1
<1>5. PICK u \in Seq(Byte) : u = r.rest
  BY DEF ItemState, String
<1>6. PICK a \in Seq(Byte) : a = p \o c
  <2>1. p \o c \in Seq(Byte)
    BY <1>2
  <2>2. QED
    BY Zenon, <2>1
<1>7. PICK z : z = a \o t
  OBVIOUS
<1>12. Joined(z, p, v)
  <2>1. Joined(a, p, c) /\ Joined(v, c, t) /\ Joined(z, a, t)
    BY Zenon, <1>4, <1>6, <1>7 DEF Joined
  <2>2. a \in String /\ v \in String /\ c \in String
    BY DEF String
  <2>3. QED
    BY SMT, <2>1, <2>2, Assoc
<1>8. p \o u = p \o v
  BY Zenon, <1>3, <1>5, <1>6, <1>7, <1>12 DEF Joined
<1>9. u = v
  BY Zenon, <1>2, <1>8, CancelLeft
<1>10. r.rest = d \o t
  BY Zenon, <1>3, <1>4, <1>5, <1>9
<1>11. QED
  BY Zenon, <1>10, ItemRead

(* Reading the encoding of a list gives the list.                          *)
LEMMA ListRead ==
  ASSUME NEW ss \in Seq(String), NEW m \in String, NEW x \in {0, 1},
         \A i \in 1..Len(ss) : Len(ss[i]) <= MaxField,
         x = 1 => Len(m) = Len(ss),
         NEW k \in Nat, Len(ss) <= k, NEW all \in BOOLEAN,
         all \/ k = Len(ss)
  PROVE  Items(List(ss, m, x), k, x, all) =
           [ok |-> TRUE, strs |-> ss, more |-> IF x = 1 THEN m ELSE <<>>,
            rest |-> <<>>]
<1>1. PICK n \in Nat : n = Len(ss) /\ n <= k /\ (x = 1 => n = Len(m))
  OBVIOUS
<1>2. PICK e \in Seq(Seq(Byte)) : e = Chunks(ss, m, x) /\ Len(e) = n
  BY <1>1, ChunksFacts
<1>3. PICK P \in [0..n -> Seq(Byte)] :
             /\ P[0] = <<>> /\ FlattenSeq(e) = P[n]
             /\ \A j \in 1..n : P[j] = P[j - 1] \o e[j]
  <2>1. \E f \in [0..Len(e) -> Seq(Byte)] :
          /\ f[0] = <<>> /\ FlattenSeq(e) = f[Len(e)]
          /\ \A j \in 1..Len(e) : f[j] = f[j - 1] \o e[j]
    BY Zenon, FlattenRun
  <2>2. QED
    BY Zenon, <1>2, <2>1
<1>4. PICK b \in String : b = List(ss, m, x) /\ b = P[n]
  <2>1. P[n] \in String /\ List(ss, m, x) = P[n]
    BY <1>2, <1>3 DEF List, String
  <2>2. QED
    BY <2>1
<1>5. PICK it : IsItems(it, b, k, x, all) /\ Items(b, k, x, all) = it[k]
  BY ItemsRun
<1>6. /\ it \in [0..k -> ItemState] /\ it[0] = FirstItem(b)
      /\ \A j \in 1..k : it[j] = ItemStep(it[j - 1], x, all)
  BY <1>5 DEF IsItems
<1>7. PICK M : M = [j \in 0..n |-> IF x = 1 THEN SubSeq(m, 1, j) ELSE <<>>]
  OBVIOUS
<1> DEFINE Read(j) == /\ it[j].ok /\ it[j].strs = SubSeq(ss, 1, j)
                      /\ it[j].more = M[j] /\ P[j] \o it[j].rest = b
<1>8. Read(0)
  <2>1. b \in Seq(Byte) /\ <<>> \o b = b
    BY ConcatEmptySeq DEF String
  <2>2. SubSeq(ss, 1, 0) = <<>> /\ SubSeq(m, 1, 0) = <<>>
    BY SubSeqEmpty
  <2>3. M[0] = <<>>
    BY <1>7, <2>2
  <2>4. it[0] = [ok |-> TRUE, strs |-> <<>>, more |-> <<>>, rest |-> b]
    BY <1>6 DEF FirstItem
  <2>5. QED
    BY <1>3, <2>1, <2>2, <2>3, <2>4
<1>9. ASSUME NEW j \in Nat, j + 1 <= n, Read(j) PROVE Read(j + 1)
  <2>1. PICK g \in 1..n : g = j + 1 /\ g - 1 = j
    BY <1>9
  <2>2. /\ g \in 1..k /\ j \in 0..k /\ j \in 0..n /\ g \in 0..n /\ g <= n
        /\ j < n /\ j < Len(ss) /\ g \in Nat /\ g \in Nat \ {0}
        /\ g \in 1..Len(ss)
    BY <1>1, <2>1
  <2>3. PICK r \in ItemState : r = it[j] /\ it[g] = ItemStep(r, x, all)
    BY <1>6, <2>1, <2>2
  <2>4. PICK s \in String : s = ss[g] /\ Len(s) <= MaxField
    BY <2>2
  <2>5. PICK y \in String : y = Extra(m, g, x) /\ Len(y) = x
    <3>1. x = 1 => g <= Len(m)
      BY Zenon, <1>1, <2>2
    <3>2. Extra(m, g, x) \in String /\ Len(Extra(m, g, x)) = x
      BY <2>2, <2>4, <3>1, ChunkFacts
    <3>3. QED
      BY Zenon, <3>2
  <2>6. PICK d \in Seq(Byte) : d = e[g] /\ d = LengthPrefixed(s) \o y
    <3>1. e[g] \in Seq(Byte)
      BY <1>2
    <3>2. e[g] = LengthPrefixed(s) \o y
      BY <1>2, <2>2, <2>4, <2>5 DEF Chunks, Chunk
    <3>3. QED
      BY Zenon, <3>1, <3>2
  <2>7. PICK p \in Seq(Byte) : p = P[j] /\ P[g] = p \o d
    BY <1>3, <2>1, <2>2, <2>6
  <2>8. PICK t \in Seq(Byte) : b = P[g] \o t
    <3>1. \A i \in 1..n : e[i] \in Seq(Byte) /\ P[i] = P[i - 1] \o e[i]
      <4>1. PICK U : U = Seq(Byte)
        OBVIOUS
      <4>2. e \in Seq(U) /\ Len(e) = n
        BY <1>2, <4>1
      <4>3. \A i \in 1..n : e[i] \in U
        BY <4>2
      <4>4. QED
        BY Zenon, <1>3, <4>1, <4>3
    <3>2. IsConcat(P, e, n, Byte)
      BY Zenon, <3>1 DEF IsConcat
    <3>3. HasTail(P, n, g, Byte)
      BY Zenon, <2>2, <3>2, RunTails
    <3>4. QED
      BY Zenon, <1>4, <3>3 DEF HasTail
  <2>9. p \in String /\ t \in String
    BY DEF String
  <2>10. r.ok /\ r.strs = SubSeq(ss, 1, j) /\ r.more = M[j]
    BY <1>9, <2>3
  <2>11. p \o r.rest = (p \o d) \o t
    BY Zenon, <1>9, <2>3, <2>7, <2>8
  <2>12. ItemIs(r, x, all, s, y, t)
    BY Zenon, <2>4, <2>5, <2>6, <2>9, <2>10, <2>11, ReadNext
  <2>13. PICK q : q = it[g]
    OBVIOUS
  <2>14. q = [ok |-> TRUE, strs |-> Append(r.strs, s),
              more |-> r.more \o y, rest |-> t]
    BY Zenon, <2>3, <2>12, <2>13 DEF ItemIs
  <2>15. /\ q.ok /\ q.strs = Append(r.strs, s) /\ q.more = r.more \o y
         /\ q.rest = t
    BY <2>14
  <2>16. SubSeq(ss, 1, g) = Append(SubSeq(ss, 1, j), s)
    <3>1. NextPrefix(ss, j, g)
      BY SMT, <2>1, <2>2, PrefixStep
    <3>2. QED
      BY Zenon, <2>4, <3>1 DEF NextPrefix
  <2>17. M[g] = M[j] \o y
    <3>1. CASE x = 0
      <4>1. M[g] = <<>> /\ M[j] = <<>> /\ y = <<>>
        BY <1>7, <2>2, <2>5, <3>1 DEF Extra
      <4>2. QED
        BY <4>1
    <3>2. CASE x = 1
      <4>1. j < Len(m)
        BY Zenon, <1>1, <2>2, <3>2
      <4>2. SubSeq(m, 1, g) = SubSeq(m, 1, j) \o <<m[g]>>
        <5>1. m \in Seq(Byte)
          BY DEF String
        <5>2. NextPrefix(m, j, g)
          BY SMT, <2>1, <4>1, <5>1, PrefixStep
        <5>3. QED
          BY Zenon, <5>2 DEF NextPrefix
      <4>3. M[g] = SubSeq(m, 1, g) /\ M[j] = SubSeq(m, 1, j)
        BY <1>7, <2>2, <3>2
      <4>4. y = <<m[g]>>
        BY <2>5, <3>2 DEF Extra
      <4>5. QED
        BY <4>2, <4>3, <4>4
    <3>3. QED
      BY <3>1, <3>2
  <2>18. it[g].ok /\ it[g].strs = SubSeq(ss, 1, g) /\ it[g].more = M[g]
    BY Zenon, <2>10, <2>13, <2>15, <2>16, <2>17
  <2>19. P[g] \o it[g].rest = b
    BY Zenon, <2>8, <2>13, <2>15
  <2>20. QED
    BY <2>1, <2>18, <2>19
<1>10. Read(n)
  <2> DEFINE T == {j \in Nat : j <= n => Read(j)}
  <2> HIDE DEF Read
  <2>1. 0 \in T
    BY <1>8
  <2>2. ASSUME NEW j \in T PROVE j + 1 \in T
    <3>1. j \in Nat /\ (j + 1 <= n => j <= n) /\ (j <= n => Read(j))
      OBVIOUS
    <3>2. j + 1 <= n => Read(j + 1)
      BY <1>9, <3>1
    <3>3. QED
      BY <3>1, <3>2
  <2>3. T = Nat
    <3>1. T \in SUBSET Nat
      OBVIOUS
    <3> HIDE DEF T
    <3>2. QED
      BY <2>1, <2>2, <3>1, Induction
  <2>4. n \in T
    BY <2>3
  <2>5. QED
    BY <2>4
<1>11. it[n] = [ok |-> TRUE, strs |-> ss, more |-> IF x = 1 THEN m ELSE <<>>,
                rest |-> <<>>]
  <2>1. PICK r \in ItemState : r = it[n]
    BY <1>1, <1>6
  <2>2. r.rest = <<>>
    <3>1. b \in Seq(Byte) /\ r.rest \in Seq(Byte)
      BY DEF String, ItemState
    <3>3. b \o r.rest = b
      BY Zenon, <1>4, <1>10, <2>1
    <3>2. QED
      BY <3>1, <3>3, ConcatEqualIffEmpty
  <2>3. r.strs = ss
    BY <1>1, <1>10, <2>1, SubSeqFull
  <2>4. r.more = IF x = 1 THEN m ELSE <<>>
    <3>1. x = 1 => SubSeq(m, 1, n) = m
      <4>1. m \in Seq(Byte)
        BY DEF String
      <4>2. SubSeq(m, 1, Len(m)) = m
        BY <4>1, SubSeqFull
      <4>3. QED
        BY Zenon, <1>1, <4>2
    <3>2. M[n] = IF x = 1 THEN SubSeq(m, 1, n) ELSE <<>>
      BY <1>7
    <3>3. QED
      BY <1>10, <2>1, <3>1, <3>2
  <2>5. r.ok = TRUE
    BY <1>10, <2>1 DEF ItemState
  <2>6. r = [ok |-> r.ok, strs |-> r.strs, more |-> r.more, rest |-> r.rest]
    BY DEF ItemState
  <2>7. QED
    BY <2>1, <2>2, <2>3, <2>4, <2>5, <2>6
<1> HIDE DEF Read
<1>12. CASE k = n
  BY <1>4, <1>5, <1>11, <1>12
<1>13. CASE all
  <2> DEFINE U == {i \in Nat : n + i <= k => it[n + i] = it[n]}
  <2>1. 0 \in U
    OBVIOUS
  <2>2. ASSUME NEW i \in U PROVE i + 1 \in U
    <3> SUFFICES ASSUME n + (i + 1) <= k PROVE it[n + (i + 1)] = it[n]
      OBVIOUS
    <3>1. PICK g \in 1..k : g = n + (i + 1) /\ g - 1 = n + i /\ n + i <= k
      OBVIOUS
    <3>2. it[n + i] = it[n]
      BY <3>1
    <3>3. it[g] = ItemStep(it[n], x, all)
      BY <1>6, <3>1, <3>2
    <3>4. it[n].rest = <<>>
      BY <1>11
    <3>5. QED
      BY <1>13, <3>1, <3>3, <3>4 DEF ItemStep
  <2>3. U = Nat
    <3>1. U \in SUBSET Nat
      OBVIOUS
    <3> HIDE DEF U
    <3>2. QED
      BY <2>1, <2>2, <3>1, Induction
  <2>4. PICK i \in Nat : n + i = k /\ n + i <= k
    <3>1. k - n \in Nat /\ n + (k - n) = k
      BY <1>1
    <3>2. QED
      BY <3>1
  <2>5. i \in U
    BY <2>3
  <2>6. it[k] = it[n]
    BY <2>4, <2>5
  <2>7. QED
    BY <1>4, <1>5, <1>11, <2>6
<1>14. QED
  BY <1>1, <1>12, <1>13

(* A concatenation of nonempty strings is at least as long as there are    *)
(* strings in it.                                                          *)
LEMMA FlattenLong ==
  ASSUME NEW S, NEW e \in Seq(Seq(S)), \A i \in 1..Len(e) : Len(e[i]) >= 1
  PROVE  Len(FlattenSeq(e)) >= Len(e)
<1>1. PICK n \in Nat : n = Len(e)
  OBVIOUS
<1>2. PICK f \in [0..n -> Seq(S)] :
        /\ f[0] = <<>> /\ FlattenSeq(e) = f[n]
        /\ \A j \in 1..n : f[j] = f[j - 1] \o e[j]
  <2>1. \E f \in [0..Len(e) -> Seq(S)] :
          /\ f[0] = <<>> /\ FlattenSeq(e) = f[Len(e)]
          /\ \A j \in 1..Len(e) : f[j] = f[j - 1] \o e[j]
    BY Zenon, FlattenRun
  <2>2. QED
    BY Zenon, <1>1, <2>1
<1>3. \A i \in 1..n : e[i] \in Seq(S) /\ Len(e[i]) >= 1
  <2>1. PICK U : U = Seq(S)
    OBVIOUS
  <2>2. e \in Seq(U)
    BY <2>1
  <2>3. \A i \in 1..n : e[i] \in U
    BY <1>1, <2>2
  <2>4. QED
    BY Zenon, <1>1, <2>1, <2>3
<1> DEFINE Q(j) == j <= n => Len(f[j]) >= j
           T == {j \in Nat : Q(j)}
<1>4. 0 \in T
  BY <1>2
<1>5. ASSUME NEW j \in T PROVE j + 1 \in T
  <2> SUFFICES ASSUME j + 1 <= n PROVE Len(f[j + 1]) >= j + 1
    OBVIOUS
  <2>1. PICK g \in 1..n : g = j + 1 /\ g - 1 = j /\ j \in 0..n /\ j <= n
    OBVIOUS
  <2>2. PICK a \in Seq(S) : a = f[j] /\ Len(a) >= j
    BY <2>1
  <2>3. PICK d \in Seq(S) : d = e[g] /\ Len(d) >= 1
    BY <1>3
  <2>4. f[g] = a \o d
    BY Zenon, <1>2, <2>1, <2>2, <2>3
  <2>5. Len(a \o d) = Len(a) + Len(d) /\ Len(a) \in Nat /\ Len(d) \in Nat
    BY ConcatFacts
  <2>6. Len(f[g]) = Len(a) + Len(d)
    BY Zenon, <2>4, <2>5
  <2>7. Len(f[g]) >= g
    BY <2>1, <2>2, <2>3, <2>5, <2>6
  <2>8. QED
    BY Zenon, <2>1, <2>7
<1>6. T = Nat
  <2>1. T \in SUBSET Nat
    OBVIOUS
  <2> HIDE DEF T
  <2>2. QED
    BY <1>4, <1>5, <2>1, Induction
<1>7. n \in T
  BY <1>6
<1>8. QED
  BY <1>1, <1>2, <1>7

LEMMA ListLong ==
  ASSUME NEW ss \in Seq(String), NEW m \in String, NEW x \in {0, 1},
         x = 1 => Len(ss) <= Len(m)
  PROVE  Len(List(ss, m, x)) >= Len(ss)
<1>1. PICK e \in Seq(Seq(Byte)) : e = Chunks(ss, m, x) /\ Len(e) = Len(ss)
  BY ChunksFacts
<1>2. ASSUME NEW i \in 1..Len(e) PROVE Len(e[i]) >= 1
  <2>1. e[i] = Chunk(ss[i], m, i, x)
    BY <1>1 DEF Chunks
  <2>2. /\ i \in Nat \ {0} /\ i <= Len(ss) /\ Len(ss) \in Nat
        /\ Len(m) \in Nat /\ ss[i] \in String
    BY <1>1 DEF String
  <2>3. x = 1 => i <= Len(m)
    BY <2>2
  <2>4. PICK s \in String : s = ss[i]
    BY <2>2
  <2>5. Chunk(s, m, i, x) \in String /\ Len(Chunk(s, m, i, x)) >= 2
    BY <2>2, <2>3, ChunkFacts
  <2>6. PICK c \in Seq(Byte) : c = Chunk(s, m, i, x) /\ Len(c) >= 2
    BY Zenon, <2>5 DEF String
  <2>7. Len(c) >= 1
    BY <2>6
  <2>8. QED
    BY Zenon, <2>1, <2>4, <2>6, <2>7
<1>3. Len(FlattenSeq(e)) >= Len(e)
  BY <1>2, FlattenLong
<1>4. QED
  BY Zenon, <1>1, <1>3 DEF List

(* The lists of CONNECT and UNSUBSCRIBE have no extra bytes, those of      *)
(* SUBSCRIBE one each.                                                     *)
LEMMA StringsAreList ==
  ASSUME NEW ss \in Seq(String), NEW m
  PROVE  Strings(ss) = List(ss, m, 0)
<1>1. ASSUME NEW i \in 1..Len(ss)
      PROVE  LengthPrefixed(ss[i]) = Chunk(ss[i], m, i, 0)
  <2>1. PICK s \in String : s = ss[i]
    OBVIOUS
  <2>2. LengthPrefixed(s) \in Seq(Byte)
    BY PrefixedFacts DEF String
  <2>3. LengthPrefixed(s) \o <<>> = LengthPrefixed(s)
    BY <2>2, ConcatEmptySeq
  <2>4. Extra(m, i, 0) = <<>>
    BY DEF Extra
  <2>5. QED
    BY Zenon, <2>1, <2>3, <2>4 DEF Chunk
<1>2. [i \in 1..Len(ss) |-> LengthPrefixed(ss[i])] = Chunks(ss, m, 0)
  BY <1>1 DEF Chunks
<1>3. QED
  BY Zenon, <1>2 DEF Strings, List

LEMMA TopicsAreList ==
  ASSUME NEW p
  PROVE  SubscribeBody(p) = Uint16(p.id) \o List(p.topics, p.qoss, 1)
BY DEF SubscribeBody, List, Chunks, Chunk, Extra

-----------------------------------------------------------------------------
(* Unpack gives back what was written *)

(* b is a string, a part of fixed length and the rest.                     *)
StartsWith(b, s, h, t) ==
  /\ b \in String /\ HasString(b) /\ U16(b) = Len(s)
  /\ Len(b) = 2 + Len(s) + Len(h) + Len(t)
  /\ SubSeq(b, 3, 2 + U16(b)) = s
  /\ Drop(b, 2 + U16(b)) = h \o t
  /\ Drop(b, 2 + U16(b) + Len(h)) = t
  /\ \A i \in 1..Len(h) : b[2 + U16(b) + i] = h[i]

LEMMA StringFirst ==
  ASSUME NEW s \in String, Len(s) <= MaxField, NEW h \in String,
         NEW t \in String, NEW b, b = (LengthPrefixed(s) \o h) \o t
  PROVE  StartsWith(b, s, h, t)
<1>1. /\ s \in Seq(Byte) /\ h \in Seq(Byte) /\ t \in Seq(Byte)
      /\ Len(s) \in Nat /\ Len(t) \in Nat /\ Len(h) \in Nat
  BY DEF String
<1>2. PICK n \in Uint16s : n = Len(s) /\ LengthPrefixed(s) = Uint16(n) \o s
  <2>1. Len(s) \in Uint16s
    BY <1>1, MaxFieldType DEF Uint16s
  <2>2. QED
    BY <2>1, PrefixedFacts
<1>3. PICK w \in Seq(Byte) : w = Uint16(n) /\ Len(w) = 2
  BY Uint16Facts DEF String
<1>4. PICK v, yt, syt, vy \in Seq(Byte) :
             /\ v = w \o s /\ yt = h \o t /\ syt = s \o yt /\ vy = v \o h
             /\ Len(v) = Len(w) + Len(s) /\ Len(yt) = Len(h) + Len(t)
             /\ Len(syt) = Len(s) + Len(yt) /\ Len(vy) = Len(v) + Len(h)
             /\ vy \o t = w \o syt /\ vy \o t = v \o yt
  <2>1. \E v, yt, syt, vy \in Seq(Byte) : Grouped(w, s, h, t, v, yt, syt, vy)
    BY <1>1, Regroup
  <2>2. QED
    BY Zenon, <2>1 DEF Grouped
<1>6. b = vy \o t /\ b = w \o syt /\ b = v \o yt
  BY Zenon, <1>2, <1>3, <1>4
<1>7. n \in Nat
  BY DEF Uint16s
<1>8. U16(b) = n /\ Len(b) = 2 + Len(syt) /\ b \in String
  <2>1. syt \in String
    BY DEF String
  <2>2. QED
    BY Zenon, <1>3, <1>6, <2>1, U16OfConcat
<1>9. Len(b) = 2 + Len(s) + Len(h) + Len(t)
  BY <1>1, <1>2, <1>4, <1>7, <1>8
<1>10. HasString(b)
  <2>1. Len(b) >= 2 /\ Len(b) >= 2 + n
    BY <1>1, <1>2, <1>7, <1>9
  <2>2. QED
    BY Zenon, <1>8, <2>1 DEF HasString
<1>11. SubSeq(b, 3, 2 + U16(b)) = s
  <2>1. 2 + U16(b) = Len(w) + Len(s) /\ Len(w) + 1 = 3
    BY <1>2, <1>3, <1>7, <1>8
  <2>2. IsMiddle(b, w, s)
    BY Zenon, <1>1, <1>4, <1>6, Middle
  <2>3. QED
    BY Zenon, <2>1, <2>2 DEF IsMiddle
<1>12. 2 + U16(b) = Len(v) /\ 2 + U16(b) + Len(h) = Len(vy)
  BY <1>1, <1>2, <1>3, <1>4, <1>7, <1>8
<1>13. Drop(b, 2 + U16(b)) = h \o t
  <2>1. Drop(v \o yt, Len(v)) = yt
    BY DropPrefix
  <2>2. QED
    BY Zenon, <1>4, <1>6, <1>12, <2>1
<1>14. Drop(b, 2 + U16(b) + Len(h)) = t
  <2>1. Drop(vy \o t, Len(vy)) = t
    BY <1>1, DropPrefix
  <2>2. QED
    BY Zenon, <1>6, <1>12, <2>1
<1>15. ASSUME NEW i \in 1..Len(h) PROVE b[2 + U16(b) + i] = h[i]
  <2>1. i \in 1..Len(yt) /\ yt[i] = h[i]
    BY <1>1, <1>4, ConcatFacts
  <2>2. (v \o yt)[Len(v) + i] = yt[i]
    BY <2>1, ConcatFacts
  <2>3. QED
    BY Zenon, <1>6, <1>12, <2>1, <2>2
<1>16. U16(b) = Len(s)
  BY Zenon, <1>2, <1>8
<1>17. QED
  BY Zenon, <1>8, <1>9, <1>10, <1>11, <1>13, <1>14, <1>15, <1>16
     DEF StartsWith

(* The flags of CONNECT and their byte.                                    *)
LEMMA FlagBits ==
  ASSUME NEW c \in {0, 1}, NEW w \in {0, 1}, NEW q \in {0, 1, 2},
         NEW r \in {0, 1}, NEW a \in {0, 1}, NEW u \in {0, 1},
         NEW o, o = c * 2 + w * 4 + q * 8 + r * 32 + a * 64 + u * 128
  PROVE  /\ o \in Byte /\ o % 2 = 0 /\ (o \div 2) % 2 = c
         /\ (o \div 4) % 2 = w /\ (o \div 8) % 4 = q /\ (o \div 32) % 2 = r
         /\ (o \div 64) % 2 = a /\ (o \div 128) % 2 = u
BY SMT DEF Byte

FlagsOf(o, p) ==
  /\ o \in Byte /\ o % 2 = 0 /\ Bit(o, 2) = p.clean /\ Bit(o, 4) = p.will
  /\ (o \div 8) % 4 = p.wqos /\ Bit(o, 32) = p.wretain /\ Bit(o, 64) = p.pass
  /\ Bit(o, 128) = p.user

LEMMA FlagsRead ==
  ASSUME NEW p, p.clean \in BOOLEAN, p.will \in BOOLEAN, p.wqos \in Byte,
         p.wqos <= 2, p.wretain \in BOOLEAN, p.pass \in BOOLEAN,
         p.user \in BOOLEAN
  PROVE  FlagsOf(ConnectFlags(p), p)
<1>1. PICK c \in {0, 1} : c = boolToByte(p.clean) /\ (p.clean <=> c = 1)
  BY DEF boolToByte
<1>2. PICK w \in {0, 1} : w = boolToByte(p.will) /\ (p.will <=> w = 1)
  BY DEF boolToByte
<1>3. PICK q \in {0, 1, 2} : q = p.wqos
  BY DEF Byte
<1>4. PICK r \in {0, 1} : r = boolToByte(p.wretain) /\ (p.wretain <=> r = 1)
  BY DEF boolToByte
<1>5. PICK a \in {0, 1} : a = boolToByte(p.pass) /\ (p.pass <=> a = 1)
  BY DEF boolToByte
<1>6. PICK u \in {0, 1} : u = boolToByte(p.user) /\ (p.user <=> u = 1)
  BY DEF boolToByte
<1>7. PICK o : /\ o = ConnectFlags(p)
               /\ o = c * 2 + w * 4 + q * 8 + r * 32 + a * 64 + u * 128
  BY <1>1, <1>2, <1>3, <1>4, <1>5, <1>6 DEF ConnectFlags
<1>8. /\ o \in Byte /\ o % 2 = 0 /\ (o \div 2) % 2 = c
      /\ (o \div 4) % 2 = w /\ (o \div 8) % 4 = q /\ (o \div 32) % 2 = r
      /\ (o \div 64) % 2 = a /\ (o \div 128) % 2 = u
  BY SMT, <1>7, FlagBits
<1>9. /\ Bit(o, 2) = p.clean /\ Bit(o, 4) = p.will /\ Bit(o, 32) = p.wretain
      /\ Bit(o, 64) = p.pass /\ Bit(o, 128) = p.user
  BY <1>1, <1>2, <1>4, <1>5, <1>6, <1>8 DEF Bit
<1>10. QED
  BY Zenon, <1>3, <1>7, <1>8, <1>9 DEF FlagsOf

(* The fixed header and its byte.                                          *)
LEMMA HeaderBits ==
  ASSUME NEW t \in 1..14, NEW d \in {0, 1}, NEW q \in {0, 1, 2},
         NEW r \in {0, 1}, NEW o, o = t * 16 + d * 8 + q * 2 + r
  PROVE  /\ o \in Byte /\ o \div 16 = t /\ (o \div 8) % 2 = d
         /\ (o \div 2) % 4 = q /\ (o \div 1) % 2 = r
         /\ o % 8 = q * 2 + r /\ o % 16 = d * 8 + q * 2 + r
BY SMT DEF Byte

HeaderReads(h) ==
  /\ HeaderByte(h) \in Byte /\ FlagsOK(HeaderByte(h))
  /\ HeaderOf(HeaderByte(h)) = h

LEMMA HeaderRead ==
  ASSUME NEW h, IsHeader(h), h.qos <= 2
  PROVE  HeaderReads(h)
<1> USE DEF Connect, Connack, Publish, Puback, Pubrec, Pubrel, Pubcomp,
            Subscribe, Suback, Unsubscribe, Unsuback, Pingreq, Pingresp,
            Disconnect
<1>1. /\ h.type \in 1..14 /\ h.dup \in BOOLEAN /\ h.retain \in BOOLEAN
      /\ h.qos \in 0..255
      /\ h = [type |-> h.type, dup |-> h.dup, qos |-> h.qos,
              retain |-> h.retain]
  BY DEF IsHeader, Byte
<1>2. /\ h.type \in {6, 8, 10} => h.qos = 1 /\ ~h.retain
      /\ h.type \notin {3, 6, 8, 10} => h.qos = 0 /\ ~h.retain /\ ~h.dup
  BY <1>1 DEF IsHeader, NewHeader
<1>3. PICK d \in {0, 1} : d = boolToByte(h.dup) /\ (h.dup <=> d = 1)
  BY DEF boolToByte
<1>4. PICK r \in {0, 1} : r = boolToByte(h.retain) /\ (h.retain <=> r = 1)
  BY DEF boolToByte
<1>5. PICK t \in 1..14, q \in {0, 1, 2} : t = h.type /\ q = h.qos
  BY <1>1
<1>6. PICK o : o = HeaderByte(h) /\ o = t * 16 + d * 8 + q * 2 + r
  BY <1>3, <1>4, <1>5 DEF HeaderByte
<1>7. /\ o \in Byte /\ o \div 16 = t /\ (o \div 8) % 2 = d
      /\ (o \div 2) % 4 = q /\ (o \div 1) % 2 = r
      /\ o % 8 = q * 2 + r /\ o % 16 = d * 8 + q * 2 + r
  BY SMT, <1>6, HeaderBits
<1>8. Bit(o, 8) = h.dup /\ Bit(o, 1) = h.retain
  BY <1>1, <1>3, <1>4, <1>7 DEF Bit
<1>9. HeaderOf(o) = h
  BY <1>1, <1>5, <1>7, <1>8 DEF HeaderOf
<1>10. FlagsOK(o)
  <2>1. t = 3 => (o \div 2) % 4 # 3
    BY <1>7
  <2>2. t \in {6, 8, 10} => o % 8 = 2
    BY <1>2, <1>4, <1>5, <1>7
  <2>3. t \notin {3, 6, 8, 10} => o % 16 = 0
    BY <1>2, <1>3, <1>4, <1>5, <1>7
  <2>4. o \div 16 = t
    BY <1>7
  <2>5. QED
    BY <2>1, <2>2, <2>3, <2>4 DEF FlagsOK
<1>11. QED
  BY Zenon, <1>6, <1>7, <1>9, <1>10 DEF HeaderReads

ReadsBack(p) ==
  Body(p) \in String /\ Unpack(p.h, Body(p)) = Unpacked(p, <<>>)

LEMMA EmptyRead ==
  ASSUME NEW p, p.h.type \in {Pingreq, Pingresp, Disconnect}, IsPacket(p)
  PROVE  ReadsBack(p)
<1> USE DEF Connect, Connack, Publish, Puback, Pubrec, Pubrel, Pubcomp,
            Subscribe, Suback, Unsubscribe, Unsuback, Pingreq, Pingresp,
            Disconnect
<1>1. p = [h |-> p.h]
  BY DEF IsPacket
<1>2. Body(p) = <<>>
  BY DEF Body
<1>3. Unpack(p.h, <<>>) = Unpacked([h |-> p.h], <<>>)
  BY DEF Unpack
<1>4. <<>> \in String
  BY DEF String
<1>5. QED
  BY Zenon, <1>1, <1>2, <1>3, <1>4 DEF ReadsBack

LEMMA IdRead ==
  ASSUME NEW p, p.h.type \in {Puback, Pubrec, Pubrel, Pubcomp, Unsuback},
         IsPacket(p)
  PROVE  ReadsBack(p)
<1> USE DEF Connect, Connack, Publish, Puback, Pubrec, Pubrel, Pubcomp,
            Subscribe, Suback, Unsubscribe, Unsuback, Pingreq, Pingresp,
            Disconnect
<1>1. p = [h |-> p.h, id |-> p.id] /\ p.id \in Uint16s
  BY DEF IsPacket
<1>2. PICK n \in Uint16s : n = p.id
  BY <1>1
<1>3. PICK b \in String : b = Uint16(n) /\ Len(b) = 2 /\ U16(b) = n
  BY Uint16Facts
<1>4. Body(p) = b
  BY <1>2, <1>3 DEF Body
<1>5. Drop(b, 2) = <<>>
  BY <1>3 DEF Drop, String
<1>6. HasUint16(b)
  BY <1>3 DEF HasUint16
<1>7. UnpackID(p.h, b) = Unpacked(p, <<>>)
  BY Zenon, <1>1, <1>2, <1>3, <1>5, <1>6 DEF UnpackID
<1>8. Unpack(p.h, b) = UnpackID(p.h, b)
  BY DEF Unpack
<1>9. QED
  BY Zenon, <1>4, <1>7, <1>8 DEF ReadsBack

LEMMA ConnackRead ==
  ASSUME NEW p, p.h.type = Connack, IsPacket(p)
  PROVE  ReadsBack(p)
<1> USE DEF Connect, Connack, Publish, Puback, Pubrec, Pubrel, Pubcomp,
            Subscribe, Suback, Unsubscribe, Unsuback, Pingreq, Pingresp,
            Disconnect
<1>1. /\ p = [h |-> p.h, present |-> p.present, code |-> p.code]
      /\ p.present \in BOOLEAN /\ p.code \in Byte
  BY DEF IsPacket
<1>2. PICK d \in {0, 1} : d = boolToByte(p.present) /\ (p.present <=> d = 1)
  BY DEF boolToByte
<1>3. PICK c \in Byte : c = p.code
  BY <1>1
<1>4. PICK b : b = <<d, c>>
  OBVIOUS
<1>5. /\ b \in String /\ Len(b) = 2 /\ b[1] = d /\ b[2] = c /\ b # <<>>
      /\ Drop(b, 2) = <<>>
  <2>1. d \in Byte
    BY DEF Byte
  <2>2. QED
    BY <1>4, <2>1 DEF String, Drop
<1>6. d \div 2 = 0 /\ (b[1] = 1) = p.present
  BY <1>1, <1>2, <1>5
<1>7. Body(p) = b
  BY <1>2, <1>3, <1>4 DEF Body, ConnackBody
<1>8. UnpackConnack(p.h, b) =
        Unpacked([h |-> p.h, present |-> b[1] = 1, code |-> b[2]], Drop(b, 2))
  BY <1>5, <1>6 DEF UnpackConnack
<1>9. UnpackConnack(p.h, b) = Unpacked(p, <<>>)
  BY Zenon, <1>1, <1>3, <1>5, <1>6, <1>8
<1>10. Unpack(p.h, b) = UnpackConnack(p.h, b)
  BY DEF Unpack
<1>11. QED
  BY Zenon, <1>5, <1>7, <1>9, <1>10 DEF ReadsBack

LEMMA SubackRead ==
  ASSUME NEW p, p.h.type = Suback, IsPacket(p)
  PROVE  ReadsBack(p)
<1> USE DEF Connect, Connack, Publish, Puback, Pubrec, Pubrel, Pubcomp,
            Subscribe, Suback, Unsubscribe, Unsuback, Pingreq, Pingresp,
            Disconnect
<1>1. /\ p = [h |-> p.h, id |-> p.id, codes |-> p.codes]
      /\ p.id \in Uint16s /\ p.codes \in String
  BY DEF IsPacket
<1>2. PICK n \in Uint16s, c \in String : n = p.id /\ c = p.codes
  BY <1>1
<1>3. PICK b \in String : b = Uint16(n) \o c /\ U16(b) = n /\ Drop(b, 2) = c
                          /\ Len(b) = 2 + Len(c)
  BY U16OfConcat
<1>4. Body(p) = b
  <2>1. Body(p) = SubackBody(p)
    BY DEF Body
  <2>2. QED
    BY Zenon, <1>2, <1>3, <2>1 DEF SubackBody
<1>5. HasUint16(b)
  BY <1>3 DEF HasUint16, String
<1>6. UnpackSuback(p.h, b) = Unpacked(p, <<>>)
  BY Zenon, <1>1, <1>2, <1>3, <1>5 DEF UnpackSuback
<1>7. Unpack(p.h, b) = UnpackSuback(p.h, b)
  BY DEF Unpack
<1>8. QED
  BY Zenon, <1>4, <1>6, <1>7 DEF ReadsBack

(* A message id and a list of strings.                                     *)
IdListIs(b, n, ss, m, x) ==
  /\ b \in String /\ HasUint16(b) /\ U16(b) = n
  /\ Items(Drop(b, 2), Len(b), x, TRUE) =
       [ok |-> TRUE, strs |-> ss, more |-> IF x = 1 THEN m ELSE <<>>,
        rest |-> <<>>]

LEMMA IdListRead ==
  ASSUME NEW n \in Uint16s, NEW ss \in Seq(String), NEW m \in String,
         NEW x \in {0, 1}, \A i \in 1..Len(ss) : Len(ss[i]) <= MaxField,
         x = 1 => Len(m) = Len(ss)
  PROVE  IdListIs(Uint16(n) \o List(ss, m, x), n, ss, m, x)
<1>1. Len(ss) \in Nat /\ (x = 1 => Len(ss) <= Len(m))
  BY DEF String
<1>2. PICK l \in String : l = List(ss, m, x) /\ Len(l) >= Len(ss)
  BY <1>1, ListFacts, ListLong
<1>3. PICK b \in String : b = Uint16(n) \o l /\ U16(b) = n /\ Drop(b, 2) = l
                          /\ Len(b) = 2 + Len(l)
  BY U16OfConcat
<1>4. PICK k \in Nat : k = Len(b) /\ k >= 2 /\ Len(ss) <= k
  BY <1>1, <1>2, <1>3 DEF String
<1>5. HasUint16(b)
  BY Zenon, <1>4 DEF HasUint16
<1>6. Items(List(ss, m, x), k, x, TRUE) =
        [ok |-> TRUE, strs |-> ss, more |-> IF x = 1 THEN m ELSE <<>>,
         rest |-> <<>>]
  BY <1>4, ListRead
<1>7. QED
  BY Zenon, <1>2, <1>3, <1>4, <1>5, <1>6 DEF IdListIs

LEMMA UnsubscribeRead ==
  ASSUME NEW p, p.h.type = Unsubscribe, IsPacket(p), ~WriteRefuses(p)
  PROVE  ReadsBack(p)
<1> USE DEF Connect, Connack, Publish, Puback, Pubrec, Pubrel, Pubcomp,
            Subscribe, Suback, Unsubscribe, Unsuback, Pingreq, Pingresp,
            Disconnect
<1>1. /\ p = [h |-> p.h, id |-> p.id, topics |-> p.topics]
      /\ p.id \in Uint16s /\ p.topics \in Seq(String)
  BY DEF IsPacket
<1>2. PICK n \in Uint16s, ss \in Seq(String) : n = p.id /\ ss = p.topics
  BY <1>1
<1>3. \A i \in 1..Len(ss) : Len(ss[i]) <= MaxField
  <2>1. FieldsOf(p) = {ss[i] : i \in 1..Len(ss)}
    BY <1>2 DEF FieldsOf
  <2>2. \A i \in 1..Len(ss) : ~(Len(ss[i]) > MaxField)
    BY <2>1 DEF WriteRefuses
  <2>3. \A i \in 1..Len(ss) : Len(ss[i]) \in Nat
    BY DEF String
  <2>4. QED
    BY <2>2, <2>3, MaxFieldType
<1>4. PICK m \in String : m = <<>>
  <2>1. <<>> \in String
    BY DEF String
  <2>2. QED
    BY Zenon, <2>1
<1>5. PICK x \in {0, 1} : x = 0
  OBVIOUS
<1>6. PICK b : b = Uint16(n) \o List(ss, m, x)
  OBVIOUS
<1>7. IdListIs(b, n, ss, m, x)
  <2>1. x = 1 => Len(m) = Len(ss)
    BY <1>5
  <2>2. QED
    BY Zenon, <1>3, <1>6, <2>1, IdListRead
<1>8. Body(p) = b
  <2>1. Body(p) = Uint16(n) \o Strings(ss)
    BY <1>2 DEF Body, UnsubscribeBody
  <2>2. QED
    BY Zenon, <1>5, <1>6, <2>1, StringsAreList
<1>9. PICK r : r = Items(Drop(b, 2), Len(b), 0, TRUE)
  OBVIOUS
<1>10. r = [ok |-> TRUE, strs |-> ss, more |-> IF x = 1 THEN m ELSE <<>>,
            rest |-> <<>>]
  BY Zenon, <1>5, <1>7, <1>9 DEF IdListIs
<1>11. r.ok /\ r.strs = ss
  BY <1>10
<1>12. b \in String /\ HasUint16(b) /\ U16(b) = n
  BY Zenon, <1>7 DEF IdListIs
<1>13. UnpackUnsubscribe(p.h, b) = Unpacked(p, <<>>)
  BY Zenon, <1>1, <1>2, <1>9, <1>11, <1>12 DEF UnpackUnsubscribe
<1>14. Unpack(p.h, b) = UnpackUnsubscribe(p.h, b)
  BY DEF Unpack
<1>15. QED
  BY Zenon, <1>8, <1>12, <1>13, <1>14 DEF ReadsBack

LEMMA SubscribeRead ==
  ASSUME NEW p, p.h.type = Subscribe, IsPacket(p), ~WriteRefuses(p)
  PROVE  ReadsBack(p)
<1> USE DEF Connect, Connack, Publish, Puback, Pubrec, Pubrel, Pubcomp,
            Subscribe, Suback, Unsubscribe, Unsuback, Pingreq, Pingresp,
            Disconnect
<1>1. /\ p = [h |-> p.h, id |-> p.id, topics |-> p.topics, qoss |-> p.qoss]
      /\ p.id \in Uint16s /\ p.topics \in Seq(String) /\ p.qoss \in String
  BY DEF IsPacket
<1>2. PICK n \in Uint16s, ss \in Seq(String), m \in String :
             n = p.id /\ ss = p.topics /\ m = p.qoss
  BY <1>1
<1>3. \A i \in 1..Len(ss) : Len(ss[i]) <= MaxField
  <2>1. FieldsOf(p) = {ss[i] : i \in 1..Len(ss)}
    BY <1>2 DEF FieldsOf
  <2>2. \A i \in 1..Len(ss) : ~(Len(ss[i]) > MaxField)
    BY <2>1 DEF WriteRefuses
  <2>3. \A i \in 1..Len(ss) : Len(ss[i]) \in Nat
    BY DEF String
  <2>4. QED
    BY <2>2, <2>3, MaxFieldType
<1>4. Len(m) = Len(ss)
  BY <1>2 DEF WriteRefuses
<1>5. PICK x \in {0, 1} : x = 1
  OBVIOUS
<1>6. PICK b : b = Uint16(n) \o List(ss, m, x)
  OBVIOUS
<1>7. IdListIs(b, n, ss, m, x)
  BY Zenon, <1>3, <1>4, <1>6, IdListRead
<1>8. Body(p) = b
  <2>1. Body(p) = SubscribeBody(p)
    BY DEF Body
  <2>2. QED
    BY Zenon, <1>2, <1>5, <1>6, <2>1, TopicsAreList
<1>9. PICK r : r = Items(Drop(b, 2), Len(b), 1, TRUE)
  OBVIOUS
<1>10. r = [ok |-> TRUE, strs |-> ss, more |-> IF x = 1 THEN m ELSE <<>>,
            rest |-> <<>>]
  BY Zenon, <1>5, <1>7, <1>9 DEF IdListIs
<1>11. r.ok /\ r.strs = ss /\ r.more = m
  BY <1>5, <1>10
<1>12. b \in String /\ HasUint16(b) /\ U16(b) = n
  BY Zenon, <1>7 DEF IdListIs
<1>13. UnpackSubscribe(p.h, b) = Unpacked(p, <<>>)
  BY Zenon, <1>1, <1>2, <1>9, <1>11, <1>12 DEF UnpackSubscribe
<1>14. Unpack(p.h, b) = UnpackSubscribe(p.h, b)
  BY DEF Unpack
<1>15. QED
  BY Zenon, <1>8, <1>12, <1>13, <1>14 DEF ReadsBack

LEMMA PublishRead ==
  ASSUME NEW p, p.h.type = Publish, IsPacket(p), ~WriteRefuses(p)
  PROVE  ReadsBack(p)
<1> USE DEF Connect, Connack, Publish, Puback, Pubrec, Pubrel, Pubcomp,
            Subscribe, Suback, Unsubscribe, Unsuback, Pingreq, Pingresp,
            Disconnect
<1>1. /\ p = [h |-> p.h, topic |-> p.topic, id |-> p.id,
              payload |-> p.payload]
      /\ p.id \in Uint16s /\ p.topic \in String /\ p.payload \in String
      /\ p.h.qos = 0 => p.id = 0
  BY DEF IsPacket
<1>2. PICK s \in String, n \in Uint16s, t \in String :
             s = p.topic /\ n = p.id /\ t = p.payload
  BY <1>1
<1>3. Len(s) <= MaxField
  <2>1. FieldsOf(p) = {s}
    BY <1>2 DEF FieldsOf
  <2>2. ~(Len(s) > MaxField) /\ Len(s) \in Nat
    BY <2>1 DEF WriteRefuses, String
  <2>3. QED
    BY <2>2, MaxFieldType
<1>4. p.h.qos \in Nat
  BY DEF IsPacket, IsHeader, Byte
<1>5. PICK w \in String : /\ w = IF p.h.qos > 0 THEN Uint16(n) ELSE <<>>
                          /\ Len(w) = IF p.h.qos > 0 THEN 2 ELSE 0
  <2>1. Uint16(n) \in String /\ Len(Uint16(n)) = 2
    BY Uint16Facts
  <2>2. <<>> \in String /\ Len(<<>>) = 0
    BY DEF String
  <2>3. QED
    BY <2>1, <2>2
<1>6. PICK b : b = (LengthPrefixed(s) \o w) \o t
  OBVIOUS
<1>7. StartsWith(b, s, w, t)
  BY Zenon, <1>3, <1>6, StringFirst
<1>8. Body(p) = b
  <2>1. Body(p) = PublishBody(p)
    BY DEF Body
  <2>2. QED
    BY Zenon, <1>2, <1>5, <1>6, <2>1 DEF PublishBody
<1>9. PICK k : k = 2 + U16(b)
  OBVIOUS
<1>10. /\ b \in String /\ HasString(b) /\ SubSeq(b, 3, k) = s
       /\ Drop(b, k) = w \o t /\ Drop(b, k + Len(w)) = t
  BY Zenon, <1>7, <1>9 DEF StartsWith
<1>11. ~(Len(b) < k + Len(w))
  <2>1. U16(b) = Len(s) /\ Len(b) = 2 + Len(s) + Len(w) + Len(t)
    BY Zenon, <1>7 DEF StartsWith
  <2>2. Len(s) \in Nat /\ Len(w) \in Nat /\ Len(t) \in Nat
    BY DEF String
  <2>3. QED
    BY <1>9, <2>1, <2>2
<1>12. (IF p.h.qos > 0 THEN U16(Drop(b, k)) ELSE 0) = n
  <2>1. CASE p.h.qos > 0
    <3>1. Drop(b, k) = Uint16(n) \o t
      BY Zenon, <1>5, <1>10, <2>1
    <3>2. U16(Uint16(n) \o t) = n
      BY U16OfConcat
    <3>3. QED
      BY Zenon, <2>1, <3>1, <3>2
  <2>2. CASE ~(p.h.qos > 0)
    BY <1>1, <1>2, <1>4, <2>2
  <2>3. QED
    BY <2>1, <2>2
<1>13. PICK i : i = IF p.h.qos > 0 THEN 2 ELSE 0
  OBVIOUS
<1>14. UnpackPublish(p.h, b) =
         Unpacked([h |-> p.h, topic |-> SubSeq(b, 3, k),
                   id |-> IF p.h.qos > 0 THEN U16(Drop(b, k)) ELSE 0,
                   payload |-> Drop(b, k + i)], <<>>)
  <2>1. i = Len(w)
    BY Zenon, <1>5, <1>13
  <2>2. ~(~HasString(b) \/ Len(b) < k + i)
    BY Zenon, <1>10, <1>11, <2>1
  <2>3. QED
    BY Zenon, <1>9, <1>13, <2>2 DEF UnpackPublish
<1>15. Drop(b, k + i) = t
  BY Zenon, <1>5, <1>10, <1>13
<1>16. UnpackPublish(p.h, b) = Unpacked(p, <<>>)
  BY Zenon, <1>1, <1>2, <1>10, <1>12, <1>14, <1>15
<1>17. Unpack(p.h, b) = UnpackPublish(p.h, b)
  BY DEF Unpack
<1>18. QED
  BY Zenon, <1>8, <1>10, <1>16, <1>17 DEF ReadsBack

(* The variable header of CONNECT behind its protocol name: a version, the *)
(* flags and the keepalive.                                                *)
FourBytes(w, v, o, n) ==
  /\ w \in String /\ Len(w) = 4 /\ w[1] = v /\ w[2] = o
  /\ w[3] * 256 + w[4] = n

LEMMA VariableHeader ==
  ASSUME NEW v \in Byte, NEW o \in Byte, NEW n \in Uint16s
  PROVE  FourBytes(<<v, o>> \o Uint16(n), v, o, n)
<1>1. PICK a \in Byte, c \in Byte : /\ Uint16(n) = <<a, c>>
                                   /\ a * 256 + c = n
  BY Words DEF Uint16
<1>2. PICK w : w = <<v, o>> \o <<a, c>>
  OBVIOUS
<1>3. /\ w \in Seq(Byte) /\ Len(w) = 4 /\ w[1] = v /\ w[2] = o /\ w[3] = a
      /\ w[4] = c
  BY <1>2
<1>4. QED
  BY ZenonT(40), <1>1, <1>2, <1>3 DEF FourBytes, String

ConnectOf(h, s, v, o, n, ss) ==
  [h |-> h, name |-> s, ver |-> v, reserved |-> o % 2, clean |-> Bit(o, 2),
   will |-> Bit(o, 4), wqos |-> (o \div 8) % 4, wretain |-> Bit(o, 32),
   pass |-> Bit(o, 64), user |-> Bit(o, 128), keep |-> n, strs |-> ss]

StringsOf(o) == 1 + 2 * boolToByte(Bit(o, 4)) + boolToByte(Bit(o, 128))
                  + boolToByte(Bit(o, 64))

(* UnpackConnect with names for its local definitions.                     *)
Parts(b, k, o, j, c, r) ==
  /\ k = 2 + U16(b) /\ o = b[k + 2] /\ j = StringsOf(o)
  /\ r = Items(Drop(b, k + 4), j, 0, FALSE)
  /\ c = b[k + 3] * 256 + b[k + 4]

ConnectIs(h, b, k, o, c, r) ==
  UnpackConnect(h, b) =
    IF ~HasString(b) \/ Len(b) < k + 4 \/ ~r.ok THEN Short
    ELSE Unpacked(ConnectOf(h, SubSeq(b, 3, k), b[k + 1], o, c, r.strs),
                  r.rest)

LEMMA ConnectParts ==
  ASSUME NEW h, NEW b, NEW k, NEW o, NEW j, NEW c, NEW r,
         Parts(b, k, o, j, c, r)
  PROVE  ConnectIs(h, b, k, o, c, r)
<1> USE DEF Parts
<1> DEFINE n == 2 + U16(b)
           q == b[n + 2]
           i == StringsOf(q)
           s == Items(Drop(b, n + 4), i, 0, FALSE)
           d == b[n + 3] * 256 + b[n + 4]
<1>1. UnpackConnect(h, b) =
        IF ~HasString(b) \/ Len(b) < n + 4 \/ ~s.ok THEN Short
        ELSE Unpacked(ConnectOf(h, SubSeq(b, 3, n), b[n + 1], q, d,
                                s.strs), s.rest)
  BY Zenon DEF UnpackConnect, ConnectOf, StringsOf
<1>2. k = n
  OBVIOUS
<1>3. o = q
  BY Zenon, <1>2
<1>4. j = i
  BY Zenon, <1>3
<1>5. r = s
  BY Zenon, <1>2, <1>4
<1>6. c = d
  BY Zenon, <1>2
<1> HIDE DEF n, q, i, s, d, Parts
<1>7. QED
  BY Zenon, <1>1, <1>2, <1>3, <1>5, <1>6 DEF ConnectIs

LEMMA ConnectRead ==
  ASSUME NEW p, p.h.type = Connect, IsPacket(p), ~WriteRefuses(p)
  PROVE  ReadsBack(p)
<1> USE DEF Connect, Connack, Publish, Puback, Pubrec, Pubrel, Pubcomp,
            Subscribe, Suback, Unsubscribe, Unsuback, Pingreq, Pingresp,
            Disconnect
<1>1. /\ p = [h |-> p.h, name |-> p.name, ver |-> p.ver,
              reserved |-> p.reserved, clean |-> p.clean, will |-> p.will,
              wqos |-> p.wqos, wretain |-> p.wretain, pass |-> p.pass,
              user |-> p.user, keep |-> p.keep, strs |-> p.strs]
      /\ p.name \in String /\ p.ver \in Byte /\ p.reserved = 0
      /\ p.clean \in BOOLEAN /\ p.will \in BOOLEAN /\ p.wqos \in Byte
      /\ p.wretain \in BOOLEAN /\ p.pass \in BOOLEAN /\ p.user \in BOOLEAN
      /\ p.keep \in Uint16s /\ p.strs \in Seq(String)
      /\ Len(p.strs) = 1 + 2 * boolToByte(p.will) + boolToByte(p.user)
                         + boolToByte(p.pass)
  BY DEF IsPacket
<1>2. PICK s \in String, v \in Byte, n \in Uint16s, ss \in Seq(String) :
             s = p.name /\ v = p.ver /\ n = p.keep /\ ss = p.strs
  BY <1>1
<1>3. /\ Len(s) <= MaxField
      /\ \A i \in 1..Len(ss) : Len(ss[i]) <= MaxField
  <2>1. FieldsOf(p) = {s} \cup {ss[i] : i \in 1..Len(ss)}
    BY <1>2 DEF FieldsOf
  <2>2. /\ ~(Len(s) > MaxField)
        /\ \A i \in 1..Len(ss) : ~(Len(ss[i]) > MaxField)
    BY <2>1 DEF WriteRefuses
  <2>3. Len(s) \in Nat /\ \A i \in 1..Len(ss) : Len(ss[i]) \in Nat
    BY DEF String
  <2>4. QED
    BY <2>2, <2>3, MaxFieldType
<1>4. PICK o \in Byte : o = ConnectFlags(p) /\ FlagsOf(o, p)
  <2>1. ~(p.wqos > 2)
    BY DEF WriteRefuses
  <2>5. PICK q \in 0..255 : q = p.wqos
    BY Zenon, <1>1 DEF Byte
  <2>6. ~(q > 2)
    BY Zenon, <2>1, <2>5
  <2>7. q <= 2
    BY <2>6
  <2>2. p.wqos <= 2
    BY Zenon, <2>5, <2>7
  <2>3. FlagsOf(ConnectFlags(p), p)
    BY <1>1, <2>2, FlagsRead
  <2>4. QED
    BY Zenon, <2>3 DEF FlagsOf
<1>5. PICK w \in String : w = <<v, o>> \o Uint16(n) /\ FourBytes(w, v, o, n)
  <2>1. FourBytes(<<v, o>> \o Uint16(n), v, o, n)
    BY Zenon, VariableHeader
  <2>2. <<v, o>> \o Uint16(n) \in String
    BY Zenon, <2>1 DEF FourBytes
  <2>3. QED
    BY Zenon, <2>1, <2>2
<1>6. PICK t \in String : t = Strings(ss) /\ Items(t, Len(ss), 0, FALSE) =
        [ok |-> TRUE, strs |-> ss, more |-> <<>>, rest |-> <<>>]
  <2>1. PICK m \in String : m = <<>>
    <3>1. <<>> \in String
      BY DEF String
    <3>2. QED
      BY Zenon, <3>1
  <2>2. PICK x \in {0, 1} : x = 0
    OBVIOUS
  <2>3. PICK k \in Nat : k = Len(ss) /\ Len(ss) <= k
    OBVIOUS
  <2>9. (x = 1 => Len(m) = Len(ss)) /\ FALSE \in BOOLEAN
    BY <2>2
  <2>4. Items(List(ss, m, x), k, x, FALSE) =
          [ok |-> TRUE, strs |-> ss, more |-> IF x = 1 THEN m ELSE <<>>,
           rest |-> <<>>]
    BY Zenon, <1>3, <2>3, <2>9, ListRead
  <2>5. (IF x = 1 THEN m ELSE <<>>) = <<>>
    BY <2>1
  <2>6. List(ss, m, x) \in String
    BY <2>2, ListFacts
  <2>7. Strings(ss) = List(ss, m, x)
    BY Zenon, <2>2, StringsAreList
  <2>8. QED
    BY Zenon, <2>2, <2>3, <2>4, <2>5, <2>6, <2>7
<1>7. PICK b : b = (LengthPrefixed(s) \o w) \o t
  OBVIOUS
<1>8. StartsWith(b, s, w, t)
  BY Zenon, <1>3, <1>7, StringFirst
<1>9. Body(p) = b
  <2>1. Body(p) = ConnectBody(p)
    BY DEF Body
  <2>2. PICK l \in Seq(Byte), a \in Seq(Byte), c \in Seq(Byte) :
               l = LengthPrefixed(s) /\ a = <<v, o>> /\ c = Uint16(n)
    <3>1. LengthPrefixed(s) \in Seq(Byte)
      BY PrefixedFacts DEF String
    <3>2. <<v, o>> \in Seq(Byte)
      OBVIOUS
    <3>3. Uint16(n) \in Seq(Byte)
      BY Uint16Facts DEF String
    <3>4. QED
      BY Zenon, <3>1, <3>2, <3>3
  <2>3. (l \o a) \o c = l \o (a \o c)
    BY <2>2, SMT
  <2>4. ConnectBody(p) = ((l \o a) \o c) \o t
    BY Zenon, <1>2, <1>4, <1>6, <2>2 DEF ConnectBody
  <2>5. b = (l \o (a \o c)) \o t
    BY Zenon, <1>5, <1>7, <2>2
  <2>6. QED
    BY Zenon, <2>1, <2>3, <2>4, <2>5
<1>10. PICK k : k = 2 + U16(b)
  OBVIOUS
<1>11. /\ b \in String /\ HasString(b) /\ SubSeq(b, 3, k) = s
       /\ Drop(b, k + Len(w)) = t
       /\ \A i \in 1..Len(w) : b[k + i] = w[i]
  BY Zenon, <1>8, <1>10 DEF StartsWith
<1>12. /\ Drop(b, k + 4) = t /\ b[k + 1] = v /\ b[k + 2] = o
       /\ b[k + 3] * 256 + b[k + 4] = n
  <2>1. /\ Len(w) = 4 /\ w[1] = v /\ w[2] = o /\ w[3] * 256 + w[4] = n
    BY Zenon, <1>5 DEF FourBytes
  <2>2. 1 \in 1..4 /\ 2 \in 1..4 /\ 3 \in 1..4 /\ 4 \in 1..4
    OBVIOUS
  <2>3. b[k + 1] = w[1] /\ b[k + 2] = w[2] /\ b[k + 3] = w[3]
        /\ b[k + 4] = w[4]
    BY Zenon, <1>11, <2>1, <2>2
  <2>4. QED
    BY Zenon, <1>11, <2>1, <2>3
<1>13. ~(Len(b) < k + 4)
  <2>1. U16(b) = Len(s) /\ Len(b) = 2 + Len(s) + Len(w) + Len(t)
    BY Zenon, <1>8 DEF StartsWith
  <2>2. Len(s) \in Nat /\ Len(w) = 4 /\ Len(t) \in Nat
    BY <1>5 DEF String, FourBytes
  <2>3. QED
    BY <1>10, <2>1, <2>2
<1>14. /\ o % 2 = 0 /\ Bit(o, 2) = p.clean /\ Bit(o, 4) = p.will
       /\ (o \div 8) % 4 = p.wqos /\ Bit(o, 32) = p.wretain
       /\ Bit(o, 64) = p.pass /\ Bit(o, 128) = p.user
  BY Zenon, <1>4 DEF FlagsOf
<1>15. 1 + 2 * boolToByte(Bit(o, 4)) + boolToByte(Bit(o, 128))
         + boolToByte(Bit(o, 64)) = Len(ss)
  BY Zenon, <1>1, <1>2, <1>14
<1>16. PICK r : r = Items(t, Len(ss), 0, FALSE)
  OBVIOUS
<1>17. r.ok /\ r.strs = ss /\ r.rest = <<>>
  <2>1. r = [ok |-> TRUE, strs |-> ss, more |-> <<>>, rest |-> <<>>]
    BY Zenon, <1>6, <1>16
  <2>2. QED
    BY <2>1
<1>18. UnpackConnect(p.h, b) =
         Unpacked(ConnectOf(p.h, s, v, o, n, r.strs), r.rest)
  <2>1. PICK j : j = StringsOf(o)
    OBVIOUS
  <2>2. j = Len(ss)
    BY Zenon, <1>15, <2>1 DEF StringsOf
  <2>3. PICK c : c = b[k + 3] * 256 + b[k + 4]
    OBVIOUS
  <2>4. o = b[k + 2] /\ r = Items(Drop(b, k + 4), j, 0, FALSE)
    BY Zenon, <1>12, <1>16, <2>2
  <2>5. UnpackConnect(p.h, b) =
          Unpacked(ConnectOf(p.h, SubSeq(b, 3, k), b[k + 1], o, c, r.strs),
                   r.rest)
    <3>1. Parts(b, k, o, j, c, r)
      BY Zenon, <1>10, <2>1, <2>3, <2>4 DEF Parts
    <3>2. ConnectIs(p.h, b, k, o, c, r)
      BY Zenon, <3>1, ConnectParts
    <3>3. QED
      BY Zenon, <1>11, <1>13, <1>17, <3>2 DEF ConnectIs
  <2>6. QED
    BY Zenon, <1>11, <1>12, <2>3, <2>5
<1>22. p = ConnectOf(p.h, s, v, o, n, ss)
  <2>1. PICK f : f = p.h
    OBVIOUS
  <2>2. ConnectOf(f, s, v, o, n, ss) =
          [h |-> f, name |-> s, ver |-> v, reserved |-> p.reserved,
           clean |-> p.clean, will |-> p.will, wqos |-> p.wqos,
           wretain |-> p.wretain, pass |-> p.pass, user |-> p.user,
           keep |-> n, strs |-> ss]
    BY Zenon, <1>1, <1>14 DEF ConnectOf
  <2>3. QED
    BY Zenon, <1>1, <1>2, <2>1, <2>2
<1>19. UnpackConnect(p.h, b) = Unpacked(p, <<>>)
  BY Zenon, <1>17, <1>18, <1>22
<1>20. Unpack(p.h, b) = UnpackConnect(p.h, b)
  BY DEF Unpack
<1>21. QED
  BY Zenon, <1>9, <1>11, <1>19, <1>20 DEF ReadsBack

(* Unpack undoes Pack, for packets of every type and any content: the      *)
(* header byte of a packet that WriteTo takes is one that ReadPacketLimit  *)
(* takes and says the type and flags of the packet, and Unpack of its body *)
(* gives back the packet, all of the body used.                            *)
THEOREM PacketRead ==
  ASSUME NEW p, IsPacket(p), ~WriteRefuses(p)
  PROVE  HeaderReads(p.h) /\ ReadsBack(p)
<1>1. IsHeader(p.h)
  BY DEF IsPacket
<1>2. HeaderReads(p.h)
  <2>1. PICK q \in 0..255 : q = p.h.qos
    BY <1>1 DEF IsHeader, Byte
  <2>2. ~(q > 2)
    BY <2>1 DEF WriteRefuses
  <2>3. q <= 2
    BY <2>2
  <2>4. QED
    BY Zenon, <1>1, <2>1, <2>3, HeaderRead
<1>3. p.h.type \in {Connect, Connack, Publish, Puback, Pubrec, Pubrel,
                    Pubcomp, Subscribe, Suback, Unsubscribe, Unsuback,
                    Pingreq, Pingresp, Disconnect}
  BY <1>1 DEF IsHeader, Connect, Connack, Publish, Puback, Pubrec, Pubrel,
     Pubcomp, Subscribe, Suback, Unsubscribe, Unsuback, Pingreq, Pingresp,
     Disconnect
<1>4. ReadsBack(p)
  <2>1. CASE p.h.type \in {Pingreq, Pingresp, Disconnect}
    BY SMT, <2>1, EmptyRead
  <2>2. CASE p.h.type \in {Puback, Pubrec, Pubrel, Pubcomp, Unsuback}
    BY SMT, <2>2, IdRead
  <2>3. CASE p.h.type = Connack
    BY Zenon, <2>3, ConnackRead
  <2>4. CASE p.h.type = Suback
    BY Zenon, <2>4, SubackRead
  <2>5. CASE p.h.type = Unsubscribe
    BY Zenon, <2>5, UnsubscribeRead
  <2>6. CASE p.h.type = Subscribe
    BY Zenon, <2>6, SubscribeRead
  <2>7. CASE p.h.type = Publish
    BY Zenon, <2>7, PublishRead
  <2>8. CASE p.h.type = Connect
    BY Zenon, <2>8, ConnectRead
  <2>9. QED
    BY Zenon, <1>3, <2>1, <2>2, <2>3, <2>4, <2>5, <2>6, <2>7, <2>8
<1>5. QED
  BY Zenon, <1>2, <1>4

-----------------------------------------------------------------------------
(* What Unpack gives can be written *)

LEMMA WithDup ==
  ASSUME NEW t, NEW q
  PROVE  [[type |-> t, dup |-> FALSE, retain |-> FALSE, qos |-> q]
            EXCEPT !.dup = TRUE] =
         [type |-> t, dup |-> TRUE, retain |-> FALSE, qos |-> q]
<1> DEFINE R == [type : {t}, dup : BOOLEAN, retain : BOOLEAN, qos : {q}]
<1>1. PICK g \in R :
        g = [type |-> t, dup |-> FALSE, retain |-> FALSE, qos |-> q]
  OBVIOUS
<1>2. PICK f \in R : f = [g EXCEPT !.dup = TRUE]
  OBVIOUS
<1>3. /\ f.type = t /\ f.dup = TRUE /\ f.retain = FALSE /\ f.qos = q
  BY <1>1, <1>2
<1>4. f = [type |-> f.type, dup |-> f.dup, retain |-> f.retain,
           qos |-> f.qos]
  OBVIOUS
<1>5. QED
  BY Zenon, <1>1, <1>2, <1>3, <1>4

LEMMA HeaderType ==
  ASSUME NEW o \in Byte, FlagsOK(o), NEW h, h = HeaderOf(o)
  PROVE  IsHeader(h) /\ h.qos <= 2
<1> USE DEF Connect, Connack, Publish, Puback, Pubrec, Pubrel, Pubcomp,
            Subscribe, Suback, Unsubscribe, Unsuback, Pingreq, Pingresp,
            Disconnect
<1>1. /\ o \in 0..255 /\ o \div 16 \in 1..14
      /\ o \div 16 = 3 => (o \div 2) % 4 # 3
      /\ o \div 16 \in {6, 8, 10} => o % 8 = 2
      /\ o \div 16 \notin {3, 6, 8, 10} => o % 16 = 0
  BY DEF FlagsOK, Byte
<1>2. /\ (o \div 2) % 4 \in 0..3
      /\ o % 8 = 2 => (o \div 2) % 4 = 1 /\ (o \div 1) % 2 = 0
      /\ o % 16 = 0 => /\ (o \div 2) % 4 = 0 /\ (o \div 1) % 2 = 0
                       /\ (o \div 8) % 2 = 0
  BY <1>1
<1>3. PICK t \in 1..14, q \in 0..3, d \in BOOLEAN, r \in BOOLEAN :
             /\ t = o \div 16 /\ q = (o \div 2) % 4
             /\ d = Bit(o, 8) /\ r = Bit(o, 1)
  BY <1>1, <1>2 DEF Bit
<1>4. h = [type |-> t, dup |-> d, qos |-> q, retain |-> r]
  BY <1>3 DEF HeaderOf
<1>5. /\ t = 3 => q # 3
      /\ t \in {6, 8, 10} => q = 1 /\ ~r
      /\ t \notin {3, 6, 8, 10} => q = 0 /\ ~r /\ ~d
  <2>1. /\ o % 8 = 2 => q = 1 /\ ~r
        /\ o % 16 = 0 => q = 0 /\ ~r /\ ~d
    <3>1. (r <=> (o \div 1) % 2 = 1) /\ (d <=> (o \div 8) % 2 = 1)
      BY Zenon, <1>3 DEF Bit
    <3>2. /\ o % 8 = 2 => (o \div 1) % 2 # 1
          /\ o % 16 = 0 => (o \div 1) % 2 # 1 /\ (o \div 8) % 2 # 1
      BY <1>2
    <3>3. QED
      BY Zenon, <1>2, <1>3, <3>1, <3>2
  <2>2. QED
    BY Zenon, <1>1, <1>3, <2>1
<1>6. q <= 2 /\ q \in Byte
  BY <1>5 DEF Byte
<1>7. /\ h.type = t /\ h.qos = q /\ h.dup = d /\ h.retain = r
      /\ h \in [type : 1..14, dup : BOOLEAN, retain : BOOLEAN, qos : Byte]
  BY <1>4, <1>6
<1>8. t # 3 =>
        h \in {NewHeader(t), [NewHeader(t) EXCEPT !.dup = TRUE]}
  <2>1. CASE t \in {6, 8, 10}
    <3>1. NewHeader(t) =
            [type |-> t, dup |-> FALSE, retain |-> FALSE, qos |-> 1]
      BY <2>1 DEF NewHeader
    <3>2. r = FALSE /\ q = 1
      BY <1>5, <2>1
    <3>3. CASE d = FALSE
      BY <1>4, <3>1, <3>2, <3>3
    <3>4. CASE d = TRUE
      <4>1. [NewHeader(t) EXCEPT !.dup = TRUE] =
              [type |-> t, dup |-> TRUE, retain |-> FALSE, qos |-> 1]
        BY Zenon, <3>1, WithDup
      <4>2. h = [type |-> t, dup |-> TRUE, retain |-> FALSE, qos |-> 1]
        BY <1>4, <3>2, <3>4
      <4>3. QED
        BY Zenon, <4>1, <4>2
    <3>5. QED
      BY <3>3, <3>4
  <2>2. CASE t \notin {3, 6, 8, 10}
    <3>1. NewHeader(t) =
            [type |-> t, dup |-> FALSE, retain |-> FALSE, qos |-> 0]
      BY <2>2 DEF NewHeader
    <3>2. r = FALSE /\ q = 0 /\ d = FALSE
      BY <1>5, <2>2
    <3>3. QED
      BY <1>4, <3>1, <3>2
  <2>3. QED
    BY <2>1, <2>2
<1>9. d => t \in {3, 6, 8, 10}
  BY <1>5
<1>10. QED
  BY <1>6, <1>7, <1>8, <1>9 DEF IsHeader

(* The bytes of a list are accounted for: what was read and what is left   *)
(* is not longer than the whole.                                           *)
Accounts(r, b, x) ==
  /\ x = 1 => Len(r.more) = Len(r.strs)
  /\ \A i \in 1..Len(r.strs) : Len(r.strs[i]) \in Uint16s
  /\ Len(List(r.strs, r.more, x)) + Len(r.rest) <= Len(b)

LEMMA ChunkLen ==
  ASSUME NEW s \in String, NEW m \in String, NEW i \in Nat \ {0},
         NEW x \in {0, 1}, x = 1 => i <= Len(m)
  PROVE  Len(Chunk(s, m, i, x)) = 2 + Len(s) + x
<1>1. PICK y \in Seq(Byte) : y = Extra(m, i, x) /\ Len(y) = x
  <2>1. Extra(m, i, x) \in String /\ Len(Extra(m, i, x)) = x
    BY ChunkFacts
  <2>2. QED
    BY Zenon, <2>1 DEF String
<1>2. PICK p \in Seq(Byte) : p = LengthPrefixed(s) /\ Len(p) = 2 + Len(s)
  BY PrefixedFacts DEF String
<1>3. Len(p \o y) = Len(p) + Len(y)
  BY ConcatFacts
<1>4. QED
  BY Zenon, <1>1, <1>2, <1>3 DEF Chunk

Grown(ss, m, x, s, y) ==
  /\ Len(List(Append(ss, s), m \o y, x)) =
       Len(List(ss, m, x)) + (2 + Len(s) + x)
  /\ x = 1 => Len(m \o y) = Len(Append(ss, s))

LEMMA ListGrows ==
  ASSUME NEW ss \in Seq(String), NEW m \in String, NEW x \in {0, 1},
         x = 1 => Len(m) = Len(ss), NEW s \in String, NEW y \in String,
         Len(y) = x
  PROVE  Grown(ss, m, x, s, y)
<1>1. PICK n \in Nat : n = Len(ss) /\ Len(Append(ss, s)) = n + 1
  OBVIOUS
<1>2. PICK l \in String : /\ l = m \o y /\ Len(l) = Len(m) + Len(y)
                          /\ \A k \in 1..Len(m) : l[k] = m[k]
  <2>1. m \in Seq(Byte) /\ y \in Seq(Byte)
    BY DEF String
  <2>2. /\ m \o y \in Seq(Byte) /\ Len(m \o y) = Len(m) + Len(y)
        /\ \A k \in 1..Len(m) : (m \o y)[k] = m[k]
    BY <2>1, ConcatFacts
  <2>3. QED
    BY Zenon, <2>2 DEF String
<1>3. x = 1 => n + 1 <= Len(l) /\ Len(l) = n + 1
  BY <1>1, <1>2
<1>4. PICK c \in Seq(Byte) : /\ c = Chunk(s, l, n + 1, x)
                             /\ Len(c) = 2 + Len(s) + x
  <2>1. PICK i \in Nat \ {0} : i = n + 1
    OBVIOUS
  <2>2. x = 1 => i <= Len(l)
    BY Zenon, <1>3, <2>1
  <2>3. Chunk(s, l, i, x) \in String
    BY Zenon, <2>2, ChunkFacts
  <2>4. Len(Chunk(s, l, i, x)) = 2 + Len(s) + x
    BY ZenonT(40), <2>2, ChunkLen
  <2>5. QED
    BY Zenon, <2>1, <2>3, <2>4 DEF String
<1>5. List(Append(ss, s), l, x) = List(ss, l, x) \o c
  <2>1. x = 1 => Len(ss) + 1 <= Len(l)
    BY <1>1, <1>3
  <2>2. List(Append(ss, s), l, x) =
          List(ss, l, x) \o Chunk(s, l, Len(ss) + 1, x)
    BY ZenonT(30), <2>1, ListAppend
  <2>3. QED
    BY Zenon, <1>1, <1>4, <2>2
<1>6. List(ss, l, x) = List(ss, m, x)
  <2>1. x = 1 => \A i \in 1..Len(ss) : l[i] = m[i]
    BY <1>1, <1>2
  <2>2. QED
    BY Zenon, <2>1, ListAgrees
<1>7. PICK a \in Seq(Byte) : a = List(ss, m, x)
  <2>1. x = 1 => Len(ss) <= Len(m)
    BY <1>1
  <2>2. List(ss, m, x) \in String
    BY <2>1, ListFacts
  <2>3. QED
    BY Zenon, <2>2 DEF String
<1>8. Len(a \o c) = Len(a) + Len(c)
  BY ConcatFacts
<1>9. Len(List(Append(ss, s), l, x)) = Len(a) + (2 + Len(s) + x)
  BY Zenon, <1>4, <1>5, <1>6, <1>7, <1>8
<1>10. QED
  BY Zenon, <1>1, <1>2, <1>3, <1>7, <1>9 DEF Grown

ItemKept(q, r, b, x, all) ==
  /\ Accounts(q, b, x) /\ (q.ok => r.ok)
  /\ q.ok /\ ~all => Len(q.strs) = Len(r.strs) + 1

LEMMA ItemKeeps ==
  ASSUME NEW r \in ItemState, NEW x \in {0, 1}, NEW all \in BOOLEAN,
         NEW b \in String, Accounts(r, b, x)
  PROVE  ItemKept(ItemStep(r, x, all), r, b, x, all)
<1>1. PICK a \in String, ss \in Seq(String), m \in String :
             a = r.rest /\ ss = r.strs /\ m = r.more
  BY DEF ItemState
<1>2. PICK n : n = 2 + U16(a)
  OBVIOUS
<1>3. PICK q : q = ItemStep(r, x, all)
  OBVIOUS
<1>4. CASE ~r.ok \/ (all /\ a = <<>>)
  <2>1. q = r
    BY Zenon, <1>1, <1>3, <1>4 DEF ItemStep
  <2>2. r.ok /\ ~all => FALSE
    BY Zenon, <1>4
  <2>3. QED
    BY Zenon, <1>3, <2>1, <2>2 DEF ItemKept
<1>5. CASE /\ ~(~r.ok \/ (all /\ a = <<>>))
           /\ ~HasString(a) \/ Len(a) < n + x
  <2>1. q = [r EXCEPT !.ok = FALSE]
    BY Zenon, <1>1, <1>2, <1>3, <1>5 DEF ItemStep
  <2>2. ~q.ok /\ q.strs = r.strs /\ q.more = r.more /\ q.rest = r.rest
    BY <2>1 DEF ItemState
  <2>3. Accounts(q, b, x)
    BY Zenon, <2>2 DEF Accounts
  <2>4. QED
    BY Zenon, <1>3, <2>2, <2>3 DEF ItemKept
<1>6. CASE /\ ~(~r.ok \/ (all /\ a = <<>>))
           /\ ~(~HasString(a) \/ Len(a) < n + x)
  <2>1. PICK s \in String, y \in String, t \in String : IsItem(a, x, s, y, t)
    <3>1. HasString(a) /\ ~(Len(a) < 2 + U16(a) + x)
      BY Zenon, <1>2, <1>6
    <3>2. QED
      BY Zenon, <3>1, ItemCut
  <2>2. /\ s = SubSeq(a, 3, n) /\ y = SubSeq(a, n + 1, n + x)
        /\ t = Drop(a, n + x) /\ Len(y) = x /\ Len(s) \in Uint16s
        /\ Len(a) = 2 + Len(s) + x + Len(t)
    BY Zenon, <1>2, <2>1 DEF IsItem
  <2>3. q = [ok |-> TRUE, strs |-> Append(ss, s), more |-> m \o y,
             rest |-> t]
    BY Zenon, <1>1, <1>2, <1>3, <1>6, <2>2 DEF ItemStep
  <2>4. q.ok /\ q.strs = Append(ss, s) /\ q.more = m \o y /\ q.rest = t
    BY <2>3
  <2>5. /\ x = 1 => Len(m) = Len(ss)
        /\ \A i \in 1..Len(ss) : Len(ss[i]) \in Uint16s
        /\ Len(List(ss, m, x)) + Len(a) <= Len(b)
    BY Zenon, <1>1 DEF Accounts
  <2>6. /\ Len(List(Append(ss, s), m \o y, x)) =
              Len(List(ss, m, x)) + (2 + Len(s) + x)
        /\ x = 1 => Len(m \o y) = Len(Append(ss, s))
    <3>1. Grown(ss, m, x, s, y)
      BY Zenon, <2>2, <2>5, ListGrows
    <3>2. QED
      BY Zenon, <3>1 DEF Grown
  <2>7. Len(List(Append(ss, s), m \o y, x)) + Len(t) <= Len(b)
    <3>1. PICK i \in Nat, j \in Nat, k \in Nat, l \in Nat :
                 i = Len(s) /\ j = Len(t) /\ k = Len(b) /\ l = Len(a)
      BY DEF String
    <3>2. PICK c \in Nat : c = Len(List(ss, m, x))
      <4>1. Len(m) \in Nat /\ Len(ss) \in Nat
        BY DEF String
      <4>2. x = 1 => Len(ss) <= Len(m)
        BY <2>5, <4>1
      <4>3. List(ss, m, x) \in Seq(Byte)
        BY <4>2, ListFacts DEF String
      <4>4. QED
        BY <4>3
    <3>3. l = 2 + i + x + j /\ c + l <= k
      BY Zenon, <2>2, <2>5, <3>1, <3>2
    <3>4. (c + (2 + i + x)) + j <= k
      BY <3>3
    <3>5. QED
      BY Zenon, <2>6, <3>1, <3>2, <3>4
  <2>8. Len(Append(ss, s)) = Len(ss) + 1
    OBVIOUS
  <2>9. \A i \in 1..Len(Append(ss, s)) : Len(Append(ss, s)[i]) \in Uint16s
    <3>1. PICK z \in Nat : z = Len(ss)
      OBVIOUS
    <3>2. PICK d : d = Append(ss, s)
      OBVIOUS
    <3>3. /\ Len(d) = z + 1 /\ d[z + 1] = s
          /\ \A i \in 1..z : d[i] = ss[i]
      BY <3>1, <3>2, AppendProperties
    <3>4. ASSUME NEW i \in 1..(z + 1) PROVE Len(d[i]) \in Uint16s
      <4>1. CASE i = z + 1
        BY Zenon, <2>2, <3>3, <4>1
      <4>2. CASE i \in 1..z
        BY Zenon, <2>5, <3>1, <3>3, <4>2
      <4>3. i = z + 1 \/ i \in 1..z
        OBVIOUS
      <4>4. QED
        BY Zenon, <4>1, <4>2, <4>3
    <3>5. QED
      BY Zenon, <3>2, <3>3, <3>4
  <2>10. Accounts(q, b, x)
    BY Zenon, <2>4, <2>6, <2>7, <2>9 DEF Accounts
  <2>11. QED
    BY Zenon, <1>1, <1>3, <1>6, <2>4, <2>8, <2>10 DEF ItemKept
<1>7. QED
  BY Zenon, <1>4, <1>5, <1>6

ItemsKept(r, b, k, x, all) ==
  /\ r \in ItemState /\ Accounts(r, b, x)
  /\ r.ok /\ ~all => Len(r.strs) = k

LEMMA ItemsAccount ==
  ASSUME NEW b \in String, NEW k \in Nat, NEW x \in {0, 1},
         NEW all \in BOOLEAN
  PROVE  ItemsKept(Items(b, k, x, all), b, k, x, all)
<1>1. PICK it : IsItems(it, b, k, x, all) /\ Items(b, k, x, all) = it[k]
  BY ItemsRun
<1>2. /\ it \in [0..k -> ItemState] /\ it[0] = FirstItem(b)
      /\ \A j \in 1..k : it[j] = ItemStep(it[j - 1], x, all)
  BY <1>1 DEF IsItems
<1> DEFINE Q(j) == ItemsKept(it[j], b, j, x, all)
           T == {j \in Nat : j <= k => Q(j)}
<1>3. Q(0)
  <2>1. PICK r \in ItemState : r = it[0]
    BY <1>2
  <2>2. r = [ok |-> TRUE, strs |-> <<>>, more |-> <<>>, rest |-> b]
    BY Zenon, <1>2, <2>1 DEF FirstItem
  <2>3. r.strs = <<>> /\ r.more = <<>> /\ r.rest = b /\ Len(r.strs) = 0
    BY <2>2
  <2>4. PICK ss \in Seq(String) : ss = <<>> /\ Len(ss) = 0
    <3>1. <<>> \in Seq(String) /\ Len(<<>>) = 0
      OBVIOUS
    <3>2. QED
      BY Zenon, <3>1
  <2>5. PICK m \in String : m = <<>> /\ Len(m) = 0
    <3>1. <<>> \in String /\ Len(<<>>) = 0
      BY DEF String
    <3>2. QED
      BY Zenon, <3>1
  <2>6. List(ss, m, x) = <<>>
    <3>1. x = 1 => Len(ss) <= Len(m)
      BY <2>4, <2>5
    <3>2. QED
      BY Zenon, <2>4, <3>1, ListFacts
  <2>7. Len(List(ss, m, x)) + Len(b) <= Len(b)
    BY <2>6 DEF String
  <2>8. \A i \in 1..Len(ss) : Len(ss[i]) \in Uint16s
    BY <2>4
  <2>9. Accounts(r, b, x)
    BY Zenon, <2>3, <2>4, <2>5, <2>7, <2>8 DEF Accounts
  <2>10. QED
    BY Zenon, <2>1, <2>3, <2>9 DEF ItemsKept
<1>4. ASSUME NEW j \in Nat, j + 1 <= k, Q(j) PROVE Q(j + 1)
  <2>1. PICK g \in 1..k : g = j + 1 /\ g - 1 = j /\ j \in 0..k /\ g \in 0..k
    BY <1>4
  <2>2. PICK r \in ItemState : r = it[j]
    BY <1>2, <2>1
  <2>3. PICK q \in ItemState : q = it[g] /\ q = ItemStep(r, x, all)
    BY <1>2, <2>1, <2>2
  <2>4. Accounts(r, b, x) /\ (r.ok /\ ~all => Len(r.strs) = j)
    BY Zenon, <1>4, <2>2 DEF ItemsKept
  <2>5. ItemKept(q, r, b, x, all)
    BY Zenon, <2>3, <2>4, ItemKeeps
  <2>6. /\ Accounts(q, b, x) /\ (q.ok => r.ok)
        /\ q.ok /\ ~all => Len(q.strs) = Len(r.strs) + 1
    BY Zenon, <2>5 DEF ItemKept
  <2>7. q.ok /\ ~all => Len(q.strs) = g
    BY Zenon, <2>1, <2>4, <2>6
  <2>8. QED
    BY Zenon, <2>1, <2>3, <2>6, <2>7 DEF ItemsKept
<1> HIDE DEF Q
<1>5. T = Nat
  <2>1. 0 \in T
    BY <1>3
  <2>2. ASSUME NEW j \in T PROVE j + 1 \in T
    <3>1. j \in Nat /\ (j + 1 <= k => j <= k) /\ (j <= k => Q(j))
      OBVIOUS
    <3>2. j + 1 <= k => Q(j + 1)
      BY <1>4, <3>1
    <3>3. QED
      BY <3>1, <3>2
  <2>3. T \in SUBSET Nat
    OBVIOUS
  <2> HIDE DEF T
  <2>4. QED
    BY <2>1, <2>2, <2>3, Induction
<1>6. k \in T /\ k <= k
  BY <1>5
<1>7. Q(k)
  BY <1>6
<1>8. QED
  BY Zenon, <1>1, <1>7 DEF Q

(* What was decoded is a packet, of fields that fit, and its encoding is   *)
(* not longer than what it was decoded from.                               *)
FullField == \A n \in Uint16s : n <= MaxField

Decodes(h, b, p) == Unpack(h, b).err = "none" /\ Unpack(h, b).pkt = p

Writable(p, h, b) ==
  /\ p.h = h
  /\ (h.type = Connect /\ p.reserved # 0) \/ IsPacket(p)
  /\ ~ \E f \in FieldsOf(p) : Len(f) > MaxField
  /\ Len(Body(p)) \in 0..Len(b)

LEMMA NotShort ==
  ASSUME NEW h, NEW b, NEW p, Decodes(h, b, p)
  PROVE  Unpack(h, b) # Short /\ Unpack(h, b) # Failed("PacketError")
BY DEF Decodes, Short, Failed

LEMMA IsDecoded ==
  ASSUME NEW h, NEW b, NEW p, Decodes(h, b, p), NEW q, NEW rest,
         Unpack(h, b) = Unpacked(q, rest)
  PROVE  p = q
BY DEF Decodes, Unpacked

LEMMA FitsField ==
  ASSUME FullField, NEW s, Len(s) \in Uint16s
  PROVE  ~(Len(s) > MaxField)
<1>1. PICK n \in Uint16s : n = Len(s) /\ n <= MaxField
  BY DEF FullField
<1>2. n \in Nat
  BY DEF Uint16s
<1>3. QED
  BY <1>1, <1>2, MaxFieldType

LEMMA EmptyWrite ==
  ASSUME NEW h, h.type \in {Pingreq, Pingresp, Disconnect}, IsHeader(h),
         NEW b \in String, NEW p, Decodes(h, b, p)
  PROVE  Writable(p, h, b)
<1> USE DEF Connect, Connack, Publish, Puback, Pubrec, Pubrel, Pubcomp,
            Subscribe, Suback, Unsubscribe, Unsuback, Pingreq, Pingresp,
            Disconnect
<1>1. Unpack(h, b) = Unpacked([h |-> h], b)
  BY DEF Unpack
<1>2. p = [h |-> h]
  BY SMT, <1>1, IsDecoded
<1>3. p.h = h /\ p \in [h : {h}]
  BY <1>2
<1>4. IsPacket(p)
  BY <1>3 DEF IsPacket
<1>5. FieldsOf(p) = {} /\ Body(p) = <<>>
  BY <1>3 DEF FieldsOf, Body
<1>6. Len(Body(p)) \in 0..Len(b)
  BY <1>5 DEF String
<1>7. QED
  BY Zenon, <1>3, <1>4, <1>5, <1>6 DEF Writable

LEMMA IdWrite ==
  ASSUME NEW h, h.type \in {Puback, Pubrec, Pubrel, Pubcomp, Unsuback},
         IsHeader(h), NEW b \in String, NEW p, Decodes(h, b, p)
  PROVE  Writable(p, h, b)
<1> USE DEF Connect, Connack, Publish, Puback, Pubrec, Pubrel, Pubcomp,
            Subscribe, Suback, Unsubscribe, Unsuback, Pingreq, Pingresp,
            Disconnect
<1>1. Unpack(h, b) = UnpackID(h, b)
  BY DEF Unpack
<1>2. HasUint16(b) /\ p = [h |-> h, id |-> U16(b)]
  <2>1. HasUint16(b) /\
          Unpack(h, b) = Unpacked([h |-> h, id |-> U16(b)], Drop(b, 2))
    BY Zenon, <1>1, NotShort DEF UnpackID
  <2>2. QED
    BY SMT, <2>1, IsDecoded
<1>3. Len(b) >= 2
  BY Zenon, <1>2 DEF HasUint16
<1>4. PICK n \in Uint16s : n = U16(b)
  BY <1>3, U16Facts
<1>5. p.h = h /\ p.id = n /\ p \in [h : {h}, id : Uint16s]
  BY <1>2, <1>4
<1>6. IsPacket(p)
  BY <1>5 DEF IsPacket
<1>7. FieldsOf(p) = {} /\ Body(p) = Uint16(n)
  BY <1>5 DEF FieldsOf, Body
<1>8. Len(Uint16(n)) = 2
  BY Uint16Facts
<1>9. Len(Body(p)) \in 0..Len(b)
  BY <1>3, <1>7, <1>8 DEF String
<1>10. QED
  BY Zenon, <1>5, <1>6, <1>7, <1>9 DEF Writable

LEMMA ConnackWrite ==
  ASSUME NEW h, h.type = Connack, IsHeader(h), NEW b \in String, NEW p,
         Decodes(h, b, p)
  PROVE  Writable(p, h, b)
<1> USE DEF Connect, Connack, Publish, Puback, Pubrec, Pubrel, Pubcomp,
            Subscribe, Suback, Unsubscribe, Unsuback, Pingreq, Pingresp,
            Disconnect
<1>1. Unpack(h, b) = UnpackConnack(h, b)
  BY DEF Unpack
<1>2. /\ b # <<>> /\ Len(b) # 1
      /\ p = [h |-> h, present |-> b[1] = 1, code |-> b[2]]
  <2>1. /\ b # <<>> /\ Len(b) # 1
        /\ Unpack(h, b) =
             Unpacked([h |-> h, present |-> b[1] = 1, code |-> b[2]],
                      Drop(b, 2))
    BY Zenon, <1>1, NotShort DEF UnpackConnack
  <2>2. PICK q : q = [h |-> h, present |-> b[1] = 1, code |-> b[2]]
    OBVIOUS
  <2>3. p = q
    BY SMT, <2>1, <2>2, IsDecoded
  <2>4. QED
    BY Zenon, <2>1, <2>2, <2>3
<1>3. Len(b) >= 2 /\ b[2] \in Byte
  <2>1. b \in Seq(Byte) /\ Len(b) \in Nat /\ Len(b) # 0 /\ Len(b) # 1
    BY <1>2 DEF String
  <2>2. Len(b) >= 2
    <3>1. PICK n \in Nat : n = Len(b)
      BY Zenon, <2>1
    <3>2. n # 0 /\ n # 1
      BY Zenon, <2>1, <3>1
    <3>3. n >= 2
      BY <3>2
    <3>4. QED
      BY Zenon, <3>1, <3>3
  <2>3. QED
    BY <2>1, <2>2
<1>4. PICK c \in Byte, d \in BOOLEAN : c = b[2] /\ d = (b[1] = 1)
  BY Zenon, <1>3
<1>5. /\ p.h = h /\ p.present = d /\ p.code = c
      /\ p \in [h : {h}, present : BOOLEAN, code : Byte]
  BY <1>2, <1>4
<1>6. IsPacket(p)
  BY <1>5 DEF IsPacket
<1>7. FieldsOf(p) = {} /\ Len(Body(p)) = 2
  BY <1>5 DEF FieldsOf, Body, ConnackBody
<1>8. Len(Body(p)) \in 0..Len(b)
  BY <1>3, <1>7 DEF String
<1>9. QED
  BY Zenon, <1>5, <1>6, <1>7, <1>8 DEF Writable

LEMMA SubackWrite ==
  ASSUME NEW h, h.type = Suback, IsHeader(h), NEW b \in String, NEW p,
         Decodes(h, b, p)
  PROVE  Writable(p, h, b)
<1> USE DEF Connect, Connack, Publish, Puback, Pubrec, Pubrel, Pubcomp,
            Subscribe, Suback, Unsubscribe, Unsuback, Pingreq, Pingresp,
            Disconnect
<1>1. Unpack(h, b) = UnpackSuback(h, b)
  BY DEF Unpack
<1>2. HasUint16(b) /\ p = [h |-> h, id |-> U16(b), codes |-> Drop(b, 2)]
  <2>1. /\ HasUint16(b)
        /\ Unpack(h, b) =
             Unpacked([h |-> h, id |-> U16(b), codes |-> Drop(b, 2)], <<>>)
    BY Zenon, <1>1, NotShort DEF UnpackSuback
  <2>2. QED
    BY SMT, <2>1, IsDecoded
<1>3. Len(b) >= 2
  BY Zenon, <1>2 DEF HasUint16
<1>4. PICK n \in Uint16s : n = U16(b)
  BY <1>3, U16Facts
<1>5. PICK c \in String : c = Drop(b, 2) /\ 2 + Len(c) = Len(b)
  <2>1. b \in Seq(Byte) /\ 2 \in 0..Len(b)
    BY <1>3 DEF String
  <2>2. Drop(b, 2) \in Seq(Byte) /\ Len(Drop(b, 2)) = Len(b) - 2
    BY <2>1, DropFacts
  <2>3. 2 + (Len(b) - 2) = Len(b)
    BY <2>1
  <2>4. QED
    BY Zenon, <2>2, <2>3 DEF String
<1>6. /\ p.h = h /\ p.id = n /\ p.codes = c
      /\ p \in [h : {h}, id : Uint16s, codes : String]
  BY <1>2, <1>4, <1>5
<1>7. IsPacket(p)
  BY <1>6 DEF IsPacket
<1>8. FieldsOf(p) = {} /\ Body(p) = Uint16(n) \o c
  BY <1>6 DEF FieldsOf, Body, SubackBody
<1>9. Len(Uint16(n) \o c) = 2 + Len(c)
  BY U16OfConcat
<1>10. Len(b) \in 0..Len(b)
  BY DEF String
<1>11. QED
  BY Zenon, <1>5, <1>6, <1>7, <1>8, <1>9, <1>10 DEF Writable

(* A message id and a list of strings.                                     *)
IdListWrites(b, n, ss, m, x) ==
  /\ n \in Uint16s /\ ss \in Seq(String) /\ m \in String
  /\ x = 1 => Len(m) = Len(ss)
  /\ \A i \in 1..Len(ss) : Len(ss[i]) \in Uint16s
  /\ Len(Uint16(n) \o List(ss, m, x)) \in 0..Len(b)

LEMMA IdListWrite ==
  ASSUME NEW b \in String, HasUint16(b), NEW x \in {0, 1}, NEW r,
         r = Items(Drop(b, 2), Len(b), x, TRUE)
  PROVE  IdListWrites(b, U16(b), r.strs, r.more, x)
<1>1. Len(b) >= 2 /\ Len(b) \in Nat
  BY DEF HasUint16, String
<1>2. PICK n \in Uint16s : n = U16(b)
  BY <1>1, U16Facts
<1>3. PICK c \in String : c = Drop(b, 2) /\ 2 + Len(c) = Len(b)
  <2>1. b \in Seq(Byte) /\ 2 \in 0..Len(b)
    BY <1>1 DEF String
  <2>2. Drop(b, 2) \in Seq(Byte) /\ Len(Drop(b, 2)) = Len(b) - 2
    BY <2>1, DropFacts
  <2>3. 2 + (Len(b) - 2) = Len(b)
    BY <2>1
  <2>4. QED
    BY Zenon, <2>2, <2>3 DEF String
<1>4. ItemsKept(r, c, Len(b), x, TRUE)
  <2>1. TRUE \in BOOLEAN
    OBVIOUS
  <2>2. PICK k \in Nat : k = Len(b)
    BY <1>1
  <2>3. ItemsKept(Items(c, k, x, TRUE), c, k, x, TRUE)
    BY Zenon, <2>1, ItemsAccount
  <2>4. QED
    BY Zenon, <1>3, <2>2, <2>3
<1>5. r \in ItemState /\ Accounts(r, c, x)
  BY Zenon, <1>4 DEF ItemsKept
<1>6. PICK ss \in Seq(String), m \in String, t \in String :
             ss = r.strs /\ m = r.more /\ t = r.rest
  BY <1>5 DEF ItemState
<1>7. /\ x = 1 => Len(m) = Len(ss)
      /\ \A i \in 1..Len(ss) : Len(ss[i]) \in Uint16s
      /\ Len(List(ss, m, x)) + Len(t) <= Len(c)
  BY Zenon, <1>5, <1>6 DEF Accounts
<1>8. PICK l \in String : l = List(ss, m, x)
  <2>1. Len(ss) \in Nat /\ Len(ss) <= Len(ss)
    OBVIOUS
  <2>2. x = 1 => Len(ss) <= Len(m)
    BY Zenon, <1>7, <2>1
  <2>3. QED
    BY Zenon, <2>2, ListFacts
<1>9. Len(Uint16(n) \o l) = 2 + Len(l)
  BY U16OfConcat
<1>10. 2 + Len(l) \in 0..Len(b)
  <2>1. PICK i \in Nat, j \in Nat, k \in Nat, q \in Nat :
               i = Len(l) /\ j = Len(t) /\ k = Len(c) /\ q = Len(b)
    BY DEF String
  <2>2. i + j <= k /\ 2 + k = q
    BY Zenon, <1>3, <1>7, <1>8, <2>1
  <2>3. 2 + i \in 0..q
    BY <2>2
  <2>4. QED
    BY Zenon, <2>1, <2>3
<1>11. Len(Uint16(n) \o List(ss, m, x)) \in 0..Len(b)
  BY Zenon, <1>8, <1>9, <1>10
<1>12. QED
  BY Zenon, <1>2, <1>6, <1>7, <1>11 DEF IdListWrites

LEMMA UnsubscribeWrite ==
  ASSUME FullField, NEW h, h.type = Unsubscribe, IsHeader(h),
         NEW b \in String, NEW p, Decodes(h, b, p)
  PROVE  Writable(p, h, b)
<1> USE DEF Connect, Connack, Publish, Puback, Pubrec, Pubrel, Pubcomp,
            Subscribe, Suback, Unsubscribe, Unsuback, Pingreq, Pingresp,
            Disconnect
<1>1. Unpack(h, b) = UnpackUnsubscribe(h, b)
  BY DEF Unpack
<1>2. PICK r : r = Items(Drop(b, 2), Len(b), 0, TRUE)
  OBVIOUS
<1>3. HasUint16(b) /\ p = [h |-> h, id |-> U16(b), topics |-> r.strs]
  <2>1. /\ HasUint16(b)
        /\ Unpack(h, b) =
             Unpacked([h |-> h, id |-> U16(b), topics |-> r.strs], <<>>)
    BY Zenon, <1>1, <1>2, NotShort DEF UnpackUnsubscribe
  <2>2. QED
    BY SMT, <2>1, IsDecoded
<1>4. PICK x \in {0, 1} : x = 0
  OBVIOUS
<1>5. PICK n, ss, m : n = U16(b) /\ ss = r.strs /\ m = r.more
  OBVIOUS
<1>6. IdListWrites(b, n, ss, m, x)
  <2>1. r = Items(Drop(b, 2), Len(b), x, TRUE)
    BY Zenon, <1>2, <1>4
  <2>2. IdListWrites(b, U16(b), r.strs, r.more, x)
    BY Zenon, <1>3, <2>1, IdListWrite
  <2>3. QED
    BY Zenon, <1>5, <2>2
<1>7. /\ n \in Uint16s /\ ss \in Seq(String)
      /\ \A i \in 1..Len(ss) : Len(ss[i]) \in Uint16s
      /\ Len(Uint16(n) \o List(ss, m, x)) \in 0..Len(b)
  BY Zenon, <1>6 DEF IdListWrites
<1>8. /\ p.h = h /\ p.id = n /\ p.topics = ss
      /\ p \in [h : {h}, id : Uint16s, topics : Seq(String)]
  BY <1>3, <1>5, <1>7
<1>9. IsPacket(p)
  BY <1>8 DEF IsPacket
<1>10. FieldsOf(p) = {ss[i] : i \in 1..Len(ss)}
  BY <1>8 DEF FieldsOf
<1>11. ~ \E f \in FieldsOf(p) : Len(f) > MaxField
  <2>1. \A i \in 1..Len(ss) : ~(Len(ss[i]) > MaxField)
    BY Zenon, <1>7, FitsField
  <2>2. QED
    BY Zenon, <1>10, <2>1
<1>12. Len(Body(p)) \in 0..Len(b)
  <2>1. Body(p) = Uint16(n) \o Strings(ss)
    BY <1>8 DEF Body, UnsubscribeBody
  <2>2. Strings(ss) = List(ss, m, x)
    BY Zenon, <1>4, <1>7, StringsAreList
  <2>3. QED
    BY Zenon, <1>7, <2>1, <2>2
<1>13. QED
  BY Zenon, <1>8, <1>9, <1>11, <1>12 DEF Writable

LEMMA SubscribeWrite ==
  ASSUME FullField, NEW h, h.type = Subscribe, IsHeader(h),
         NEW b \in String, NEW p, Decodes(h, b, p)
  PROVE  Writable(p, h, b)
<1> USE DEF Connect, Connack, Publish, Puback, Pubrec, Pubrel, Pubcomp,
            Subscribe, Suback, Unsubscribe, Unsuback, Pingreq, Pingresp,
            Disconnect
<1>1. Unpack(h, b) = UnpackSubscribe(h, b)
  BY DEF Unpack
<1>2. PICK r : r = Items(Drop(b, 2), Len(b), 1, TRUE)
  OBVIOUS
<1>20. PICK x \in {0, 1} : x = 1
  OBVIOUS
<1>3. /\ HasUint16(b)
      /\ p = [h |-> h, id |-> U16(b), topics |-> r.strs, qoss |-> r.more]
  <2>1. /\ HasUint16(b)
        /\ Unpack(h, b) =
             Unpacked([h |-> h, id |-> U16(b), topics |-> r.strs,
                       qoss |-> r.more], <<>>)
    BY Zenon, <1>1, <1>2, NotShort DEF UnpackSubscribe
  <2>2. QED
    BY SMT, <2>1, IsDecoded
<1>4. PICK n, ss, m : n = U16(b) /\ ss = r.strs /\ m = r.more
  OBVIOUS
<1>5. IdListWrites(b, n, ss, m, x)
  <2>1. r = Items(Drop(b, 2), Len(b), x, TRUE)
    BY Zenon, <1>2, <1>20
  <2>2. IdListWrites(b, U16(b), r.strs, r.more, x)
    BY Zenon, <1>3, <2>1, IdListWrite
  <2>3. QED
    BY Zenon, <1>4, <2>2
<1>6. /\ n \in Uint16s /\ ss \in Seq(String) /\ m \in String
      /\ \A i \in 1..Len(ss) : Len(ss[i]) \in Uint16s
      /\ Len(Uint16(n) \o List(ss, m, x)) \in 0..Len(b)
  BY Zenon, <1>5 DEF IdListWrites
<1>7. /\ p.h = h /\ p.id = n /\ p.topics = ss /\ p.qoss = m
      /\ p \in [h : {h}, id : Uint16s, topics : Seq(String), qoss : String]
  BY <1>3, <1>4, <1>6
<1>8. IsPacket(p)
  BY <1>7 DEF IsPacket
<1>9. FieldsOf(p) = {ss[i] : i \in 1..Len(ss)}
  BY <1>7 DEF FieldsOf
<1>10. ~ \E f \in FieldsOf(p) : Len(f) > MaxField
  <2>1. \A i \in 1..Len(ss) : ~(Len(ss[i]) > MaxField)
    BY Zenon, <1>6, FitsField
  <2>2. QED
    BY Zenon, <1>9, <2>1
<1>11. Len(Body(p)) \in 0..Len(b)
  <2>1. Body(p) = SubscribeBody(p)
    BY <1>7 DEF Body
  <2>2. SubscribeBody(p) = Uint16(p.id) \o List(p.topics, p.qoss, 1)
    BY TopicsAreList
  <2>3. QED
    BY Zenon, <1>20, <1>6, <1>7, <2>1, <2>2
<1>12. QED
  BY Zenon, <1>7, <1>8, <1>10, <1>11 DEF Writable

(* The string at the front of what was read.                               *)
FrontIs(b, k, s, t) ==
  /\ k = 2 + U16(b) /\ k \in Nat /\ s = SubSeq(b, 3, k) /\ t = Drop(b, k)
  /\ Len(s) \in Uint16s /\ k = 2 + Len(s) /\ Len(b) = k + Len(t)

LEMMA StringFront ==
  ASSUME NEW b \in String, HasString(b)
  PROVE  \E s, t \in String : FrontIs(b, 2 + U16(b), s, t)
<1>1. Len(b) >= 2 /\ Len(b) >= 2 + U16(b) /\ Len(b) \in Nat
  BY DEF HasString, String
<1>2. PICK u \in Nat : u = U16(b) /\ U16(b) \in Uint16s
  BY <1>1, U16Facts DEF Uint16s
<1>3. PICK x \in {0, 1} : x = 0
  OBVIOUS
<1>4. ~(Len(b) < 2 + U16(b) + x)
  BY <1>1, <1>2, <1>3
<1>5. PICK s \in String, y \in String, t \in String : IsItem(b, x, s, y, t)
  BY Zenon, <1>4, ItemCut
<1>6. PICK k \in Nat : k = 2 + u /\ 2 + u + x = k
  BY <1>3
<1>7. /\ s = SubSeq(b, 3, k) /\ t = Drop(b, k) /\ Len(s) = u
      /\ Len(b) = k + Len(t)
  BY Zenon, <1>2, <1>5, <1>6 DEF IsItem
<1>8. FrontIs(b, k, s, t)
  BY Zenon, <1>2, <1>6, <1>7 DEF FrontIs
<1>9. QED
  BY Zenon, <1>2, <1>6, <1>8

LEMMA DropMore ==
  ASSUME NEW b \in String, NEW k \in Nat, NEW i \in Nat, k + i <= Len(b)
  PROVE  /\ Drop(b, k + i) \in String
         /\ Len(Drop(b, k + i)) = Len(b) - (k + i)
<1>1. b \in Seq(Byte) /\ k + i \in 0..Len(b)
  BY DEF String
<1>2. PICK j \in 0..Len(b) : j = k + i
  BY <1>1
<1>3. Drop(b, j) \in Seq(Byte) /\ Len(Drop(b, j)) = Len(b) - j
  BY <1>1, DropFacts
<1>4. QED
  BY Zenon, <1>2, <1>3 DEF String

LEMMA PublishWrite ==
  ASSUME FullField, NEW h, h.type = Publish, IsHeader(h), NEW b \in String,
         NEW p, Decodes(h, b, p)
  PROVE  Writable(p, h, b)
<1> USE DEF Connect, Connack, Publish, Puback, Pubrec, Pubrel, Pubcomp,
            Subscribe, Suback, Unsubscribe, Unsuback, Pingreq, Pingresp,
            Disconnect
<1>1. Unpack(h, b) = UnpackPublish(h, b)
  BY DEF Unpack
<1>2. HasString(b)
  BY Zenon, <1>1, NotShort DEF UnpackPublish
<1>3. PICK k \in Nat, s \in String, t \in String : FrontIs(b, k, s, t)
  <2>1. PICK s, t \in String : FrontIs(b, 2 + U16(b), s, t)
    BY Zenon, <1>2, StringFront
  <2>2. 2 + U16(b) \in Nat
    BY Zenon, <2>1 DEF FrontIs
  <2>3. QED
    BY <2>1, <2>2
<1>4. /\ k = 2 + U16(b) /\ s = SubSeq(b, 3, k) /\ t = Drop(b, k)
      /\ Len(s) \in Uint16s /\ k = 2 + Len(s) /\ Len(b) = k + Len(t)
  BY Zenon, <1>3 DEF FrontIs
<1>5. PICK i \in Nat : i = IF h.qos > 0 THEN 2 ELSE 0
  OBVIOUS
<1>6. PICK n, d : /\ n = IF h.qos > 0 THEN U16(t) ELSE 0
                  /\ d = Drop(b, k + i)
  OBVIOUS
<1>7. /\ ~(Len(b) < k + i)
      /\ p = [h |-> h, topic |-> s, id |-> n, payload |-> d]
  <2>1. /\ ~(Len(b) < k + i)
        /\ Unpack(h, b) = Unpacked([h |-> h, topic |-> s, id |-> n,
                                    payload |-> d], <<>>)
    BY Zenon, <1>1, <1>4, <1>5, <1>6, NotShort DEF UnpackPublish
  <2>2. QED
    BY SMT, <2>1, IsDecoded
<1>8. Len(b) \in Nat /\ Len(s) \in Nat /\ Len(t) \in Nat
  BY DEF String
<1>9. k + i <= Len(b)
  BY <1>7, <1>8
<1>10. d \in String /\ Len(d) = Len(b) - (k + i)
  BY Zenon, <1>6, <1>9, DropMore
<1>11. n \in Uint16s
  <2>1. CASE h.qos > 0
    <3>1. Len(t) >= 2
      BY <1>4, <1>5, <1>8, <1>9, <2>1
    <3>2. U16(t) \in Uint16s
      BY <3>1, U16Facts
    <3>3. QED
      BY Zenon, <1>6, <2>1, <3>2
  <2>2. CASE ~(h.qos > 0)
    <3>1. 0 \in Uint16s
      BY DEF Uint16s
    <3>2. QED
      BY Zenon, <1>6, <2>2, <3>1
  <2>3. QED
    BY Zenon, <2>1, <2>2
<1>12. /\ p.h = h /\ p.topic = s /\ p.id = n /\ p.payload = d
       /\ p \in [h : {h}, topic : String, id : Uint16s, payload : String]
  BY <1>7, <1>10, <1>11
<1>13. h.qos = 0 => n = 0
  BY <1>6
<1>14. IsPacket(p)
  BY <1>12, <1>13 DEF IsPacket
<1>15. FieldsOf(p) = {s}
  BY <1>12 DEF FieldsOf
<1>16. ~ \E f \in FieldsOf(p) : Len(f) > MaxField
  <2>1. ~(Len(s) > MaxField)
    BY Zenon, <1>4, FitsField
  <2>2. QED
    BY Zenon, <1>15, <2>1
<1>17. Len(Body(p)) \in 0..Len(b)
  <2>1. PICK w \in Seq(Byte) :
               /\ w = IF h.qos > 0 THEN Uint16(n) ELSE <<>>
               /\ Len(w) = i
    <3>1. Uint16(n) \in Seq(Byte) /\ Len(Uint16(n)) = 2
      BY <1>11, Uint16Facts DEF String
    <3>2. <<>> \in Seq(Byte) /\ Len(<<>>) = 0
      OBVIOUS
    <3>3. CASE h.qos > 0
      BY Zenon, <1>5, <3>1, <3>3
    <3>4. CASE ~(h.qos > 0)
      <4>1. PICK e \in Seq(Byte) : e = <<>> /\ Len(e) = 0
        BY <3>2
      <4>2. e = (IF h.qos > 0 THEN Uint16(n) ELSE <<>>) /\ Len(e) = i
        <5>1. (IF h.qos > 0 THEN Uint16(n) ELSE <<>>) = <<>>
          BY Zenon, <3>4
        <5>2. i = 0
          BY Zenon, <1>5, <3>4
        <5>3. QED
          BY Zenon, <4>1, <5>1, <5>2
      <4>3. QED
        BY Zenon, <4>2
    <3>5. QED
      BY Zenon, <3>3, <3>4
  <2>2. PICK l \in Seq(Byte) : l = LengthPrefixed(s) /\ Len(l) = 2 + Len(s)
    BY PrefixedFacts DEF String
  <2>3. Body(p) = (l \o w) \o d
    <3>1. Body(p) = PublishBody(p)
      BY <1>12 DEF Body
    <3>2. QED
      BY Zenon, <1>12, <2>1, <2>2, <3>1 DEF PublishBody
  <2>4. l \o w \in Seq(Byte) /\ Len(l \o w) = Len(l) + Len(w)
    BY ConcatFacts
  <2>5. PICK a \in Seq(Byte) : a = l \o w /\ Len(a) = Len(l) + Len(w)
    BY Zenon, <2>4
  <2>6. Len(a \o d) = Len(a) + Len(d)
    BY <1>10, ConcatFacts DEF String
  <2>7. (k + i) + (Len(b) - (k + i)) \in 0..Len(b)
    BY <1>8
  <2>8. Len(Body(p)) = Len(a) + Len(d)
    BY Zenon, <2>3, <2>5, <2>6
  <2>9. QED
    BY Zenon, <1>4, <1>10, <2>1, <2>2, <2>5, <2>7, <2>8
<1>18. QED
  BY Zenon, <1>12, <1>14, <1>16, <1>17 DEF Writable

LEMMA FlagsWrite ==
  ASSUME NEW p, p.clean \in BOOLEAN, p.will \in BOOLEAN, p.wqos \in 0..3,
         p.wretain \in BOOLEAN, p.pass \in BOOLEAN, p.user \in BOOLEAN
  PROVE  ConnectFlags(p) \in Byte
<1>1. PICK c \in {0, 1} : c = boolToByte(p.clean)
  BY DEF boolToByte
<1>2. PICK w \in {0, 1} : w = boolToByte(p.will)
  BY DEF boolToByte
<1>3. PICK q \in 0..3 : q = p.wqos
  OBVIOUS
<1>4. PICK r \in {0, 1} : r = boolToByte(p.wretain)
  BY DEF boolToByte
<1>5. PICK a \in {0, 1} : a = boolToByte(p.pass)
  BY DEF boolToByte
<1>6. PICK u \in {0, 1} : u = boolToByte(p.user)
  BY DEF boolToByte
<1>7. ConnectFlags(p) = c * 2 + w * 4 + q * 8 + r * 32 + a * 64 + u * 128
  BY <1>1, <1>2, <1>3, <1>4, <1>5, <1>6 DEF ConnectFlags
<1>8. c * 2 + w * 4 + q * 8 + r * 32 + a * 64 + u * 128 \in Byte
  BY DEF Byte
<1>9. QED
  BY Zenon, <1>7, <1>8

LEMMA FourLen ==
  ASSUME NEW l \in String, NEW a \in String, NEW c \in String,
         NEW t \in String
  PROVE  Len(((l \o a) \o c) \o t) = ((Len(l) + Len(a)) + Len(c)) + Len(t)
<1>1. l \in Seq(Byte) /\ a \in Seq(Byte) /\ c \in Seq(Byte) /\ t \in Seq(Byte)
  BY DEF String
<1>2. PICK d \in Seq(Byte) : d = l \o a /\ Len(d) = Len(l) + Len(a)
  BY <1>1, ConcatFacts
<1>3. PICK e \in Seq(Byte) : e = d \o c /\ Len(e) = Len(d) + Len(c)
  BY <1>1, ConcatFacts
<1>4. Len(e \o t) = Len(e) + Len(t)
  BY <1>1, ConcatFacts
<1>5. QED
  BY Zenon, <1>2, <1>3, <1>4

LEMMA ConnectWrite ==
  ASSUME FullField, NEW h, h.type = Connect, IsHeader(h), NEW b \in String,
         NEW p, Decodes(h, b, p)
  PROVE  Writable(p, h, b)
<1> USE DEF Connect, Connack, Publish, Puback, Pubrec, Pubrel, Pubcomp,
            Subscribe, Suback, Unsubscribe, Unsuback, Pingreq, Pingresp,
            Disconnect
<1>1. Unpack(h, b) = UnpackConnect(h, b)
  BY DEF Unpack
<1>2. PICK k : k = 2 + U16(b)
  OBVIOUS
<1>3. PICK o, c : o = b[k + 2] /\ c = b[k + 3] * 256 + b[k + 4]
  OBVIOUS
<1>4. PICK j : j = StringsOf(o)
  OBVIOUS
<1>5. PICK r : r = Items(Drop(b, k + 4), j, 0, FALSE)
  OBVIOUS
<1>6. ConnectIs(h, b, k, o, c, r)
  <2>1. Parts(b, k, o, j, c, r)
    BY Zenon, <1>2, <1>3, <1>4, <1>5 DEF Parts
  <2>2. QED
    BY Zenon, <2>1, ConnectParts
<1>7. HasString(b) /\ ~(Len(b) < k + 4) /\ r.ok
  BY Zenon, <1>1, <1>6, NotShort DEF ConnectIs
<1>8. PICK s, t \in String : FrontIs(b, k, s, t)
  <2>1. \E s, t \in String : FrontIs(b, 2 + U16(b), s, t)
    BY Zenon, <1>7, StringFront
  <2>2. QED
    BY Zenon, <1>2, <2>1
<1>9. /\ k \in Nat /\ s = SubSeq(b, 3, k) /\ Len(s) \in Uint16s
      /\ k = 2 + Len(s)
  BY Zenon, <1>8 DEF FrontIs
<1>10. PICK v : v = b[k + 1]
  OBVIOUS
<1>11. p = ConnectOf(h, s, v, o, c, r.strs)
  <2>1. Unpack(h, b) = Unpacked(ConnectOf(h, s, v, o, c, r.strs), r.rest)
    BY Zenon, <1>1, <1>6, <1>7, <1>9, <1>10 DEF ConnectIs
  <2>2. QED
    BY Zenon, <2>1, IsDecoded
<1>12. Len(b) \in Nat /\ k + 4 <= Len(b)
  <2>1. PICK l \in Nat : l = Len(b)
    BY DEF String
  <2>2. ~(l < k + 4)
    BY Zenon, <1>7, <2>1
  <2>3. k + 4 <= l
    BY <1>9, <2>2
  <2>4. QED
    BY Zenon, <2>1, <2>3
<1>13. v \in Byte /\ o \in Byte /\ c \in Uint16s
  <2>1. /\ k + 1 \in 1..Len(b) /\ k + 2 \in 1..Len(b) /\ k + 3 \in 1..Len(b)
        /\ k + 4 \in 1..Len(b)
    BY <1>9, <1>12
  <2>2. \A i \in 1..Len(b) : b[i] \in Byte
    BY DEF String
  <2>3. b[k + 3] \in Byte /\ b[k + 4] \in Byte
    BY Zenon, <2>1, <2>2
  <2>4. c \in Uint16s
    <3>1. PICK f \in Byte, g \in Byte : f = b[k + 3] /\ g = b[k + 4]
      BY Zenon, <2>3
    <3>2. f * 256 + g \in Uint16s
      BY WordOfBytes
    <3>3. QED
      BY Zenon, <1>3, <3>1, <3>2
  <2>5. QED
    BY Zenon, <1>3, <1>10, <2>1, <2>2, <2>4
<1>14. PICK d \in String : /\ d = Drop(b, k + 4)
                           /\ Len(d) = Len(b) - (k + 4)
  <2>1. 4 \in Nat
    OBVIOUS
  <2>2. QED
    BY ZenonT(40), <1>9, <1>12, <2>1, DropMore
<1>15. PICK x \in {0, 1} : x = 0
  OBVIOUS
<1>16. j \in Nat
  <2>1. \A z \in BOOLEAN : boolToByte(z) \in Nat
    BY DEF boolToByte
  <2>2. Bit(o, 4) \in BOOLEAN /\ Bit(o, 64) \in BOOLEAN
        /\ Bit(o, 128) \in BOOLEAN
    BY Zenon DEF Bit
  <2>3. PICK e \in Nat, f \in Nat, g \in Nat :
               /\ e = boolToByte(Bit(o, 4)) /\ f = boolToByte(Bit(o, 64))
               /\ g = boolToByte(Bit(o, 128))
    BY <2>1, <2>2
  <2>4. 1 + 2 * e + g + f \in Nat
    OBVIOUS
  <2>5. QED
    BY Zenon, <1>4, <2>3, <2>4 DEF StringsOf
<1>17. ItemsKept(r, d, j, x, FALSE)
  <2>1. FALSE \in BOOLEAN
    OBVIOUS
  <2>2. ItemsKept(Items(d, j, x, FALSE), d, j, x, FALSE)
    BY Zenon, <1>16, <2>1, ItemsAccount
  <2>3. QED
    BY Zenon, <1>5, <1>14, <1>15, <2>2
<1>18. r \in ItemState /\ Accounts(r, d, x) /\ Len(r.strs) = j
  BY Zenon, <1>7, <1>17 DEF ItemsKept
<1>19. PICK ss \in Seq(String), m \in String, z \in String :
              ss = r.strs /\ m = r.more /\ z = r.rest
  BY <1>18 DEF ItemState
<1>20. /\ \A i \in 1..Len(ss) : Len(ss[i]) \in Uint16s
       /\ Len(List(ss, m, x)) + Len(z) <= Len(d)
  BY Zenon, <1>18, <1>19 DEF Accounts
<1>21. /\ p = [h |-> h, name |-> s, ver |-> v, reserved |-> o % 2,
               clean |-> Bit(o, 2), will |-> Bit(o, 4),
               wqos |-> (o \div 8) % 4, wretain |-> Bit(o, 32),
               pass |-> Bit(o, 64), user |-> Bit(o, 128), keep |-> c,
               strs |-> ss]
  BY Zenon, <1>11, <1>19 DEF ConnectOf
<1>22. /\ p.h = h /\ p.name = s /\ p.ver = v /\ p.reserved = o % 2
       /\ p.clean = Bit(o, 2) /\ p.will = Bit(o, 4)
       /\ p.wqos = (o \div 8) % 4 /\ p.wretain = Bit(o, 32)
       /\ p.pass = Bit(o, 64) /\ p.user = Bit(o, 128) /\ p.keep = c
       /\ p.strs = ss
  BY <1>21
<1>23. /\ p.clean \in BOOLEAN /\ p.will \in BOOLEAN /\ p.wretain \in BOOLEAN
       /\ p.pass \in BOOLEAN /\ p.user \in BOOLEAN
  BY Zenon, <1>22 DEF Bit
<1>24. p.wqos \in 0..3 /\ p.wqos \in Byte
  <2>1. (o \div 8) % 4 \in 0..3
    BY <1>13 DEF Byte
  <2>2. \A q \in 0..3 : q \in Byte
    BY DEF Byte
  <2>3. QED
    BY ZenonT(40), <1>22, <2>1, <2>2
<1>25. p.reserved # 0 \/ IsPacket(p)
  <2> SUFFICES ASSUME p.reserved = 0 PROVE IsPacket(p)
    OBVIOUS
  <2>1. p = [h |-> p.h, name |-> p.name, ver |-> p.ver,
             reserved |-> p.reserved, clean |-> p.clean, will |-> p.will,
             wqos |-> p.wqos, wretain |-> p.wretain, pass |-> p.pass,
             user |-> p.user, keep |-> p.keep, strs |-> p.strs]
    BY Zenon, <1>21, <1>22
  <2>2. /\ p.name \in String /\ p.ver \in Byte /\ p.reserved \in {0}
        /\ p.keep \in Uint16s /\ p.strs \in Seq(String)
    BY Zenon, <1>13, <1>22
  <2>3. p \in [h : {p.h}, name : String, ver : Byte, reserved : {0},
               clean : BOOLEAN, will : BOOLEAN, wqos : Byte,
               wretain : BOOLEAN, pass : BOOLEAN, user : BOOLEAN,
               keep : Uint16s, strs : Seq(String)]
    BY <1>23, <1>24, <2>1, <2>2
  <2>4. Len(p.strs) = 1 + 2 * boolToByte(p.will) + boolToByte(p.user)
                        + boolToByte(p.pass)
    BY Zenon, <1>4, <1>18, <1>19, <1>22 DEF StringsOf
  <2>5. IsHeader(p.h) /\ p.h.type = 1
    BY Zenon, <1>22
  <2>6. QED
    BY <2>3, <2>4, <2>5 DEF IsPacket
<1>26. ~ \E f \in FieldsOf(p) : Len(f) > MaxField
  <2>1. FieldsOf(p) = {s} \cup {ss[i] : i \in 1..Len(ss)}
    BY <1>22 DEF FieldsOf
  <2>2. ~(Len(s) > MaxField) /\ \A i \in 1..Len(ss) : ~(Len(ss[i]) > MaxField)
    BY Zenon, <1>9, <1>20, FitsField
  <2>3. QED
    BY Zenon, <2>1, <2>2
<1>27. Len(Body(p)) \in 0..Len(b)
  <2>1. PICK l \in String : l = LengthPrefixed(s) /\ Len(l) = k
    BY Zenon, <1>9, PrefixedFacts
  <2>2. PICK a \in String : a = <<v, ConnectFlags(p)>> /\ Len(a) = 2
    <3>1. PICK f \in Byte : f = ConnectFlags(p)
      BY <1>23, <1>24, FlagsWrite
    <3>2. <<v, f>> \in String /\ Len(<<v, f>>) = 2
      BY <1>13 DEF String
    <3>3. QED
      BY Zenon, <3>1, <3>2
  <2>3. PICK u \in String : u = Uint16(c) /\ Len(u) = 2
    BY <1>13, Uint16Facts
  <2>4. PICK y \in String : y = Strings(ss) /\ y = List(ss, m, x)
    <3>1. Strings(ss) = List(ss, m, x)
      BY Zenon, <1>15, StringsAreList
    <3>2. x = 1 => Len(ss) <= Len(m)
      BY <1>15
    <3>3. List(ss, m, x) \in String
      BY Zenon, <3>2, ListFacts
    <3>4. QED
      BY Zenon, <3>1, <3>3
  <2>5. Body(p) = ((l \o a) \o u) \o y
    <3>1. Body(p) = ConnectBody(p)
      BY <1>22 DEF Body
    <3>2. QED
      BY Zenon, <1>22, <2>1, <2>2, <2>3, <2>4, <3>1 DEF ConnectBody
  <2>6. Len(Body(p)) = ((k + 2) + 2) + Len(y)
    <3>1. Len(((l \o a) \o u) \o y) =
            ((Len(l) + Len(a)) + Len(u)) + Len(y)
      BY FourLen
    <3>2. QED
      BY Zenon, <2>1, <2>2, <2>3, <2>5, <3>1
  <2>7. PICK f \in Nat, g \in Nat, i \in Nat, w \in Nat :
               f = Len(y) /\ g = Len(z) /\ i = Len(d) /\ w = Len(b)
    BY DEF String
  <2>8. f + g <= i /\ i = w - (k + 4) /\ k + 4 <= w
    BY Zenon, <1>12, <1>14, <1>20, <2>4, <2>7
  <2>9. ((k + 2) + 2) + f \in 0..w
    BY <1>9, <2>8
  <2>10. QED
    BY Zenon, <2>6, <2>7, <2>9
<1>28. QED
  BY Zenon, <1>22, <1>25, <1>26, <1>27 DEF Writable

LEMMA PacketWrite ==
  ASSUME FullField, NEW h, IsHeader(h), NEW b \in String, NEW p,
         Decodes(h, b, p)
  PROVE  Writable(p, h, b)
<1>1. h.type \in {Connect, Connack, Publish, Puback, Pubrec, Pubrel,
                  Pubcomp, Subscribe, Suback, Unsubscribe, Unsuback,
                  Pingreq, Pingresp, Disconnect}
  BY DEF IsHeader, Connect, Connack, Publish, Puback, Pubrec, Pubrel,
     Pubcomp, Subscribe, Suback, Unsubscribe, Unsuback, Pingreq, Pingresp,
     Disconnect
<1>2. CASE h.type \in {Pingreq, Pingresp, Disconnect}
  BY SMT, <1>2, EmptyWrite
<1>3. CASE h.type \in {Puback, Pubrec, Pubrel, Pubcomp, Unsuback}
  BY SMT, <1>3, IdWrite
<1>4. CASE h.type = Connack
  BY Zenon, <1>4, ConnackWrite
<1>5. CASE h.type = Suback
  BY Zenon, <1>5, SubackWrite
<1>6. CASE h.type = Unsubscribe
  BY Zenon, <1>6, UnsubscribeWrite
<1>7. CASE h.type = Subscribe
  BY Zenon, <1>7, SubscribeWrite
<1>8. CASE h.type = Publish
  BY Zenon, <1>8, PublishWrite
<1>9. CASE h.type = Connect
  BY Zenon, <1>9, ConnectWrite
<1>10. QED
  BY Zenon, <1>1, <1>2, <1>3, <1>4, <1>5, <1>6, <1>7, <1>8, <1>9

(* Validate of CONNECT accepts only what passes every check.               *)
LEMMA MinIn ==
  ASSUME NEW T \in SUBSET Nat, T # {}
  PROVE  Min(T) \in T
<1>1. \E x \in T : \A y \in T : x <= y
  BY Least
<1>2. QED
  BY Zenon, <1>1 DEF Min

AreChecks(t, c1, c2, c3, c4, c5, c6, c7, c8, c9, c10) ==
  t = << <<c1, BadUser>>, <<c2, ProtocolViolation>>,
         <<c3, BadVersion>>, <<c4, BadVersion>>,
         <<c5, ProtocolViolation>>, <<c6, ProtocolViolation>>,
         <<c7, ProtocolViolation>>, <<c8, IDRejected>>,
         <<c9, ProtocolViolation>>, <<c10, IDRejected>> >>

FailedChecks(t) == {i \in 1..Len(t) : ~t[i][1]}

LEMMA NoneFailed ==
  ASSUME NEW c1, NEW c2, NEW c3, NEW c4, NEW c5, NEW c6, NEW c7, NEW c8,
         NEW c9, NEW c10, NEW t,
         AreChecks(t, c1, c2, c3, c4, c5, c6, c7, c8, c9, c10),
         (IF FailedChecks(t) = {} THEN Accepted
          ELSE t[Min(FailedChecks(t))][2]) = Accepted
  PROVE  /\ FailedChecks(t) = {} /\ c2 = t[2][1] /\ c7 = t[7][1]
         /\ Len(t) = 10
<1> DEFINE F == FailedChecks(t)
<1>1. Len(t) = 10 /\ c2 = t[2][1] /\ c7 = t[7][1]
  BY DEF AreChecks
<1>2. \A i \in 1..10 : t[i][2] # Accepted
  BY DEF BadUser, ProtocolViolation, BadVersion, IDRejected, Accepted,
         AreChecks
<1>3. F \subseteq 1..10
  BY Zenon, <1>1 DEF FailedChecks
<1>4. F # {} => Min(F) \in 1..10
  <2>1. F \in SUBSET Nat
    BY <1>3
  <2>2. QED
    BY Zenon, <1>3, <2>1, MinIn
<1>5. F = {}
  BY Zenon, <1>2, <1>4
<1>6. QED
  BY Zenon, <1>1, <1>5

LEMMA AcceptedChecks ==
  ASSUME NEW p, ConnectValidate(p) = Accepted
  PROVE  /\ ReservedClear(p)
         /\ IF p.will THEN p.wqos <= 2 /\ ValidateTopic(p.strs[2])
                      ELSE p.wqos = 0 /\ ~p.wretain
<1>1. PICK c1 : c1 = (p.pass => p.user)
  OBVIOUS
<1>2. PICK c2 : c2 = ReservedClear(p)
  OBVIOUS
<1>3. PICK c3 : c3 = (p.name = MQIsdp => p.ver = 3)
  OBVIOUS
<1>4. PICK c4 : c4 = (p.name = MQTT => p.ver = 4)
  OBVIOUS
<1>5. PICK c5 : c5 = (p.name \in {MQIsdp, MQTT})
  OBVIOUS
<1>6. PICK c6 : c6 = (\A i \in {1} \cup (UserAt(p)..Len(p.strs)) :
                        Len(p.strs[i]) <= MaxField)
  OBVIOUS
<1>7. PICK c7 : c7 = (IF p.will
                      THEN p.wqos <= 2 /\ ValidateTopic(p.strs[2])
                      ELSE p.wqos = 0 /\ ~p.wretain)
  OBVIOUS
<1>8. PICK c8 : c8 = ValidUTF8String(p.strs[1])
  OBVIOUS
<1>9. PICK c9 : c9 = (p.user => ValidUTF8String(p.strs[UserAt(p)]))
  OBVIOUS
<1>10. PICK c10 : c10 = (p.strs[1] = <<>> => p.clean)
  OBVIOUS
<1>11. PICK t : t = ConnectChecks(p)
  OBVIOUS
<1>12. AreChecks(t, c1, c2, c3, c4, c5, c6, c7, c8, c9, c10)
  BY ZenonT(40), <1>1, <1>2, <1>3, <1>4, <1>5, <1>6, <1>7, <1>8, <1>9, <1>10,
     <1>11 DEF ConnectChecks, AreChecks
<1>14. (IF FailedChecks(t) = {} THEN Accepted
        ELSE t[Min(FailedChecks(t))][2]) = Accepted
  BY Zenon, <1>11 DEF ConnectValidate, FailedChecks
<1>15. /\ FailedChecks(t) = {} /\ c2 = t[2][1] /\ c7 = t[7][1]
       /\ Len(t) = 10
  BY Zenon, <1>12, <1>14, NoneFailed
<1>16. 2 \in 1..10 /\ 7 \in 1..10
  OBVIOUS
<1>17. t[2][1] /\ t[7][1]
  BY Zenon, <1>15, <1>16 DEF FailedChecks
<1>18. QED
  BY Zenon, <1>2, <1>7, <1>15, <1>17

(* What ValidCanBeWritten says of a packet that was read and is valid.     *)
Forwardable(p) ==
  /\ StrictValid(p) <=> (p.h.type \in {Subscribe, Unsubscribe} => ~p.h.dup)
  /\ ~WriteRefuses(p)
  /\ FlagsOK(HeaderByte(p.h)) /\ HeaderOf(HeaderByte(p.h)) = p.h
  /\ Unpack(p.h, Body(p)) = Unpacked(p, <<>>)

LEMMA ValidForward ==
  ASSUME FullField, MaxRemainingLength \in Nat, NEW h, IsHeader(h),
         h.qos <= 2, NEW b \in String, Len(b) <= MaxRemainingLength, NEW p,
         Decodes(h, b, p), Valid(p)
  PROVE  IsPacket(p) /\ Forwardable(p)
<1>1. Writable(p, h, b)
  BY Zenon, PacketWrite
<1>2. p.h = h
  BY Zenon, <1>1 DEF Writable
<1>3. h.type = Connect => ConnectValidate(p) = Accepted
  BY <1>2 DEF Valid, Connect, Publish, Subscribe, Unsubscribe, Suback
<1>4. IsPacket(p)
  <2>1. h.type = Connect => p.reserved = 0
    BY Zenon, <1>3, AcceptedChecks DEF ReservedClear
  <2>2. QED
    BY Zenon, <1>1, <2>1 DEF Writable
<1>5. ~WriteRefuses(p)
  <2>1. ~(p.h.type = Connect /\ p.wqos > 2)
    <3> SUFFICES ASSUME h.type = Connect PROVE ~(p.wqos > 2)
      BY Zenon, <1>2
    <3>0. p.wqos \in Byte
      BY <1>2, <1>4 DEF IsPacket, Connect, Connack, Publish, Puback, Pubrec,
         Pubrel, Pubcomp, Subscribe, Suback, Unsubscribe, Unsuback, Pingreq,
         Pingresp, Disconnect
    <3>1. PICK q \in 0..255 : q = p.wqos
      BY Zenon, <3>0 DEF Byte
    <3>2. q <= 2 \/ q = 0
      BY Zenon, <1>3, <3>1, AcceptedChecks
    <3>3. ~(q > 2)
      BY <3>2
    <3>4. QED
      BY Zenon, <3>1, <3>3
  <2>2. h.type = Subscribe =>
          Len(p.qoss) = Len(p.topics) /\ p.qoss # <<>> /\ p.topics # <<>>
    <3> SUFFICES ASSUME h.type = Subscribe
                 PROVE  /\ Len(p.qoss) = Len(p.topics) /\ p.qoss # <<>>
                        /\ p.topics # <<>>
      OBVIOUS
    <3>1. SubscribeValid(p)
      BY <1>2 DEF Valid, Connect, Publish, Subscribe, Unsubscribe, Suback
    <3>2. Len(p.qoss) = Len(p.topics) /\ p.qoss # <<>>
      BY Zenon, <3>1 DEF SubscribeValid
    <3>0. p.qoss \in String
      BY <1>2, <1>4 DEF IsPacket, Connect, Connack, Publish, Puback, Pubrec,
         Pubrel, Pubcomp, Subscribe, Suback, Unsubscribe, Unsuback, Pingreq,
         Pingresp, Disconnect
    <3>3. PICK m \in Seq(Byte) : m = p.qoss
      BY Zenon, <3>0 DEF String
    <3>4. m # <<>> => Len(m) # 0
      OBVIOUS
    <3>5. p.topics = <<>> => Len(p.topics) = 0
      OBVIOUS
    <3>6. QED
      BY Zenon, <3>2, <3>3, <3>4, <3>5
  <2>3. h.type = Unsubscribe => p.topics # <<>>
    <3> SUFFICES ASSUME h.type = Unsubscribe PROVE p.topics # <<>>
      OBVIOUS
    <3>1. UnsubscribeValid(p)
      BY <1>2 DEF Valid, Connect, Publish, Subscribe, Unsubscribe, Suback
    <3>2. QED
      BY Zenon, <3>1 DEF UnsubscribeValid
  <2>4. ~(p.h.qos > 2)
    <3>1. PICK q \in 0..255 : q = h.qos
      BY DEF IsHeader, Byte
    <3>2. q <= 2
      BY Zenon, <3>1
    <3>3. ~(q > 2)
      BY <3>2
    <3>4. QED
      BY Zenon, <1>2, <3>1, <3>3
  <2>5. ~(Len(Body(p)) > MaxRemainingLength)
    <3>1. PICK l \in Nat, k \in Nat :
                 l = Len(Body(p)) /\ k = Len(b) /\ l <= k
      <4>1. Len(Body(p)) \in 0..Len(b) /\ Len(b) \in Nat
        BY <1>1 DEF Writable, String
      <4>2. QED
        BY <4>1
    <3>2. PICK u \in Nat : u = MaxRemainingLength
      OBVIOUS
    <3>3. k <= u
      BY Zenon, <3>1, <3>2
    <3>4. ~(l > u)
      BY <3>1, <3>3
    <3>5. QED
      BY Zenon, <3>1, <3>2, <3>4
  <2>6. ~ \E f \in FieldsOf(p) : Len(f) > MaxField
    BY Zenon, <1>1 DEF Writable
  <2>7. ~(p.h.type \in {Subscribe, Unsubscribe} /\ p.topics = <<>>)
    BY Zenon, <1>2, <2>2, <2>3
  <2>8. ~(p.h.type = Subscribe /\ Len(p.topics) # Len(p.qoss))
    BY Zenon, <1>2, <2>2
  <2>9. QED
    BY Zenon, <2>1, <2>4, <2>5, <2>6, <2>7, <2>8 DEF WriteRefuses
<1>6. StrictValid(p) <=> (p.h.type \in {Subscribe, Unsubscribe} => ~p.h.dup)
  <2>1. CASE p.h.type \in {Subscribe, Unsubscribe}
    <3>1. p.h.qos = 1 /\ ~p.h.retain
      <4>1. h \in {NewHeader(h.type), [NewHeader(h.type) EXCEPT !.dup = TRUE]}
        BY <1>2, <2>1 DEF IsHeader, Publish, Subscribe, Unsubscribe
      <4>2. /\ NewHeader(h.type).qos = 1 /\ NewHeader(h.type).retain = FALSE
        BY <1>2, <2>1 DEF NewHeader
      <4>3. /\ [NewHeader(h.type) EXCEPT !.dup = TRUE].qos = 1
            /\ [NewHeader(h.type) EXCEPT !.dup = TRUE].retain = FALSE
        BY <1>2, <2>1 DEF NewHeader
      <4>4. QED
        BY Zenon, <1>2, <4>1, <4>2, <4>3
    <3>2. StrictValid(p) <=> (Valid(p) /\ ~p.h.dup /\ p.h.qos = 1
                                /\ ~p.h.retain)
      BY <2>1 DEF StrictValid, SubscribeStrictValid, UnsubscribeStrictValid,
         Subscribe, Unsubscribe
    <3>3. QED
      BY Zenon, <2>1, <3>1, <3>2
  <2>2. CASE p.h.type \notin {Subscribe, Unsubscribe}
    <3>1. StrictValid(p) <=> Valid(p)
      BY <2>2 DEF StrictValid, Subscribe, Unsubscribe
    <3>2. QED
      BY Zenon, <2>2, <3>1
  <2>3. QED
    BY Zenon, <2>1, <2>2
<1>7. HeaderReads(p.h) /\ ReadsBack(p)
  BY Zenon, <1>4, <1>5, PacketRead
<1>8. QED
  BY Zenon, <1>4, <1>5, <1>6, <1>7 DEF Forwardable, HeaderReads, ReadsBack
=============================================================================
