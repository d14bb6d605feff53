-------------------------- MODULE MqttCodec_proofs --------------------------
(***************************************************************************)
(* ReadPacketLimit keeps in step with the frames on the stream, tells an   *)
(* end on a packet boundary from one inside a packet and returns what was  *)
(* written, for every base and number of digits of the remaining length,   *)
(* every set of frames and every cut of the stream.                        *)
(***************************************************************************)
EXTENDS MqttPackets_proofs

-----------------------------------------------------------------------------
(* Powers of the base.  The provers know no law of exponentiation: its two *)
(* defining equations are a hypothesis of what follows.                    *)

PowerLaws == Base ^ 0 = 1 /\ \A k \in Nat : Base ^ (k + 1) = Base * Base ^ k

LEMMA BaseType == Base \in Nat /\ Base >= 2
BY CodecConstants

LEMMA PowerGrows ==
  ASSUME PowerLaws, NEW k \in Nat
  PROVE  Base ^ k \in Nat /\ k < Base ^ k
<1> DEFINE T == {j \in Nat : Base ^ j \in Nat /\ j < Base ^ j}
<1>1. 0 \in T
  BY DEF PowerLaws
<1>2. ASSUME NEW j \in T PROVE j + 1 \in T
  <2> DEFINE e == Base ^ j
  <2>1. e \in Nat /\ j < e /\ Base ^ (j + 1) = Base * e
    BY <1>2 DEF PowerLaws
  <2>2. Base \in Nat /\ Base >= 2
    BY BaseType
  <2> HIDE DEF e
  <2>3. Base * e \in Nat /\ Base * e >= 2 * e
    BY <2>1, <2>2
  <2>4. QED
    BY <1>2, <2>1, <2>3
<1>3. T = Nat
  <2> HIDE DEF T
  <2>1. T \in SUBSET Nat
    BY DEF T
  <2>2. QED
    BY <1>1, <1>2, <2>1, Induction
<1>4. QED
  BY <1>3

LEMMA PowerMonotone ==
  ASSUME PowerLaws, NEW i \in Nat, NEW k \in Nat, i <= k
  PROVE  Base ^ i <= Base ^ k
<1> DEFINE T == {j \in Nat : Base ^ i <= Base ^ (i + j)}
<1>1. 0 \in T
  BY PowerGrows
<1>2. ASSUME NEW j \in T PROVE j + 1 \in T
  <2> DEFINE e == Base ^ (i + j)
  <2>1. e \in Nat /\ Base ^ i \in Nat /\ Base ^ i <= e
    BY <1>2, PowerGrows
  <2>2. Base ^ (i + (j + 1)) = Base * e
    <3>1. i + (j + 1) = (i + j) + 1 /\ i + j \in Nat
      BY <1>2
    <3>2. QED
      BY <3>1 DEF PowerLaws
  <2>3. Base \in Nat /\ Base >= 2
    BY BaseType
  <2> HIDE DEF e
  <2>4. Base * e >= e
    BY <2>1, <2>3
  <2>5. QED
    BY <1>2, <2>1, <2>2, <2>3, <2>4
<1>3. T = Nat
  <2> HIDE DEF T
  <2>1. T \in SUBSET Nat
    BY DEF T
  <2>2. QED
    BY <1>1, <1>2, <2>1, Induction
<1>4. k - i \in Nat /\ i + (k - i) = k
  OBVIOUS
<1>5. k - i \in T
  BY <1>3, <1>4
<1>6. QED
  BY <1>4, <1>5

(* encodeLength of a length within the limit: at most LenDigits bytes, the *)
(* continuation bit on all but the last, and the digits of the length.     *)
LEMMA LengthEncoded ==
  ASSUME PowerLaws, NEW l \in Nat, l <= MaxRemainingLength
  PROVE  /\ EncodedLength(l) \in Seq(Byte)
         /\ Len(EncodedLength(l)) \in 1..LenDigits
         /\ l < Base ^ Len(EncodedLength(l))
         /\ \A i \in 1..Len(EncodedLength(l)) :
              /\ EncodedLength(l)[i] >= 128 <=> i < Len(EncodedLength(l))
              /\ EncodedLength(l)[i] % Base = (l \div Base ^ (i - 1)) % Base
<1> DEFINE P(k) == l < Base ^ k /\ (k > 1 => l >= Base ^ (k - 1))
           n == CHOOSE k \in 1..(l + 1) : P(k)
           digit(i) == (l \div Base ^ (i - 1)) % Base
           E == [i \in 1..n |-> digit(i) + (IF i < n THEN 128 ELSE 0)]
<1>1. l < Base ^ LenDigits /\ LenDigits \in Nat /\ LenDigits >= 1
  BY PowerGrows, CodecConstants DEF MaxRemainingLength
<1>2. \E k \in 1..(l + 1) : P(k)
  <2> DEFINE T == {k \in Nat : k >= 1 /\ l < Base ^ k}
  <2>1. LenDigits \in T
    BY <1>1
  <2>2. PICK k \in T : \A j \in T : k <= j
    <3> HIDE DEF T
    <3>1. T \in SUBSET Nat
      BY DEF T
    <3>2. QED
      BY <2>1, <3>1, Least
  <2>3. k > 1 => l >= Base ^ (k - 1)
    <3> SUFFICES ASSUME k > 1 PROVE l >= Base ^ (k - 1)
      OBVIOUS
    <3>1. k - 1 \in Nat /\ k - 1 >= 1 /\ k - 1 \notin T
      BY <2>2
    <3>2. Base ^ (k - 1) \in Nat
      BY <3>1, PowerGrows
    <3>3. QED
      BY <3>1, <3>2
  <2>4. k <= l + 1
    <3>1. CASE k = 1
      BY <3>1
    <3>2. CASE k > 1
      <4>1. k - 1 \in Nat
        BY <2>2
      <4>2. Base ^ (k - 1) \in Nat /\ k - 1 < Base ^ (k - 1)
        BY <4>1, PowerGrows
      <4>3. QED
        BY <2>2, <2>3, <3>2, <4>2
    <3>3. QED
      BY <2>2, <3>1, <3>2
  <2>5. QED
    BY <2>2, <2>3, <2>4
<1>3. n \in 1..(l + 1) /\ P(n)
  <2> HIDE DEF P
  <2>1. QED
    BY <1>2
<1>4. EncodedLength(l) = E
  BY DEF EncodedLength
<1> HIDE DEF n
<1>5. n <= LenDigits
  <2> SUFFICES ASSUME n > LenDigits PROVE FALSE
    BY <1>1, <1>3
  <2>1. n - 1 \in Nat /\ LenDigits <= n - 1 /\ n > 1
    BY <1>1, <1>3
  <2>2. /\ Base ^ LenDigits <= Base ^ (n - 1) /\ l >= Base ^ (n - 1)
        /\ Base ^ LenDigits \in Nat /\ Base ^ (n - 1) \in Nat
    BY <1>1, <1>3, <2>1, PowerMonotone, PowerGrows
  <2>3. QED
    BY <1>1, <2>2
<1>6. ASSUME NEW i \in 1..n
      PROVE  /\ digit(i) \in 0..(Base - 1)
             /\ (digit(i) + 128) % Base = digit(i)
             /\ digit(i) % Base = digit(i)
  <2>1. i - 1 \in Nat
    BY <1>3
  <2>2. Base ^ (i - 1) \in Nat \ {0}
    BY <2>1, PowerGrows
  <2>3. Base \in Nat \ {0} /\ 128 % Base = 0
    BY CodecConstants
  <2>4. digit(i) \in 0..(Base - 1)
    <3>1. l \div Base ^ (i - 1) \in Nat
      BY <2>2, DivMod
    <3>2. QED
      BY <2>3, <3>1, DivMod
  <2> HIDE DEF digit
  <2>5. PICK c \in Nat : 128 = c * Base
    <3>1. \A a \in Nat : /\ a \div Base \in Nat
                         /\ a = (a \div Base) * Base + (a % Base)
      BY <2>3, DivMod
    <3>2. 128 \div Base \in Nat /\ 128 = (128 \div Base) * Base + 0
      BY <2>3, <3>1
    <3>3. QED
      BY <2>3, <3>2
  <2>6. (c * Base + digit(i)) % Base = digit(i)
    BY <2>3, <2>4, ModIs
  <2>7. (0 * Base + digit(i)) % Base = digit(i)
    BY <2>3, <2>4, ModIs
  <2>8. /\ c * Base + digit(i) = digit(i) + 128
        /\ 0 * Base + digit(i) = digit(i)
    BY <2>3, <2>4, <2>5
  <2>9. QED
    BY <2>4, <2>6, <2>7, <2>8
<1> HIDE DEF digit
<1>7. n \in Nat /\ n >= 1 /\ Base \in 2..128
  BY <1>3, CodecConstants
<1>8. ASSUME NEW i \in 1..n PROVE E[i] \in Byte
  <2>1. digit(i) \in 0..(Base - 1)
    BY <1>6
  <2>2. digit(i) \in 0..127
    BY <1>7, <2>1
  <2>3. QED
    BY <2>2 DEF Byte
<1>9. E \in Seq(Byte) /\ Len(E) = n
  <2>1. E \in [1..n -> Byte]
    BY <1>8
  <2> HIDE DEF E
  <2>2. QED
    BY <1>7, <2>1
<1>10. \A i \in 1..n : /\ E[i] >= 128 <=> i < n
                       /\ E[i] % Base = digit(i)
  BY <1>6, <1>7
<1>11. l < Base ^ n
  BY <1>3
<1> HIDE DEF E, P
<1>12. QED
  BY <1>4, <1>5, <1>7, <1>9, <1>10, <1>11 DEF digit

LEMMA LimitType ==
  ASSUME PowerLaws
  PROVE  MaxRemainingLength \in Nat
BY PowerGrows, CodecConstants DEF MaxRemainingLength

(* One more digit of the remaining length.                                 *)
LEMMA DigitRead ==
  ASSUME PowerLaws, NEW l \in Nat, l <= MaxRemainingLength,
         NEW k \in Nat, k < Len(EncodedLength(l))
  PROVE  (l % Base ^ k) + (EncodedLength(l)[k + 1] % Base) * Base ^ k
           = l % Base ^ (k + 1)
<1>1. k + 1 \in 1..Len(EncodedLength(l)) /\ (k + 1) - 1 = k
  BY LengthEncoded
<1>2. EncodedLength(l)[k + 1] % Base = (l \div Base ^ k) % Base
  BY <1>1, LengthEncoded
<1>3. Base ^ k \in Nat \ {0} /\ Base \in Nat \ {0}
  BY PowerGrows, CodecConstants
<1>4. Base ^ (k + 1) = Base * Base ^ k
  BY DEF PowerLaws
<1>5. QED
  BY ZenonT(60), <1>2, <1>3, <1>4, DigitStep

-----------------------------------------------------------------------------
(* Frames and verdicts. *)

Frames == Written \cup Foreign

LEMMA FrameFacts ==
  ASSUME PowerLaws, NEW f \in Frames
  PROVE  /\ f.len \in Seq(Byte) /\ f.body \in Seq(Byte)
         /\ Bytes(f) \in Seq(Byte)
         /\ Len(Bytes(f)) = 1 + Len(f.len) + Len(f.body)
         /\ Bytes(f)[1] = f.b /\ f.b \in Byte
         /\ \A k \in 1..Len(f.len) : Bytes(f)[k + 1] = f.len[k]
         /\ \A k \in 1..Len(f.body) :
              Bytes(f)[1 + Len(f.len) + k] = f.body[k]
         /\ Encodes(f) \/ Malformed(f)
<1>1. /\ f.b \in Byte /\ f.len \in Seq(Byte) /\ f.body \in Seq(Byte)
      /\ Encodes(f) \/ Malformed(f)
  <2>1. CASE f \in Foreign
    BY <2>1, FramesType
  <2>2. CASE f \in Written
    <3>1. PICK p \in Packets : ~WriteRefuses(p) /\ f = Frame(p)
      BY <2>2 DEF Written
    <3>2. /\ f.b = HeaderByte(p.h) /\ f.body = Body(p)
          /\ f.len = EncodedLength(Len(Body(p)))
      BY <3>1 DEF Frame
    <3>3. HeaderByte(p.h) \in Byte /\ Body(p) \in Seq(Byte)
      <4>1. IsPacket(p)
        BY Zenon, FramesType
      <4>2. QED
        BY Zenon, <3>1, <4>1, PacketRead DEF HeaderReads, ReadsBack, String
    <3>4. Len(Body(p)) \in Nat /\ ~(Len(Body(p)) > MaxRemainingLength)
      BY <3>1, <3>3 DEF WriteRefuses
    <3>5. MaxRemainingLength \in Nat
      BY PowerGrows, CodecConstants DEF MaxRemainingLength
    <3>6. Len(Body(p)) <= MaxRemainingLength
      BY <3>4, <3>5
    <3>7. EncodedLength(Len(Body(p))) \in Seq(Byte)
      BY <3>4, <3>6, LengthEncoded
    <3>8. QED
      BY <3>2, <3>3, <3>6, <3>7 DEF Encodes
  <2>3. QED
    BY <2>1, <2>2 DEF Frames
<1> DEFINE h == <<f.b>>
<1>2. h \in Seq(Byte) /\ Len(h) = 1
  BY <1>1
<1>3. Bytes(f) = (h \o f.len) \o f.body
  BY DEF Bytes
<1> HIDE DEF h
<1> DEFINE g == h \o f.len
<1>4. /\ g \in Seq(Byte) /\ Len(g) = 1 + Len(f.len) /\ g[1] = f.b
      /\ \A k \in 1..Len(f.len) : g[k + 1] = f.len[k]
  <2>1. /\ g \in Seq(Byte) /\ Len(g) = Len(h) + Len(f.len)
        /\ \A k \in 1..Len(f.len) : g[Len(h) + k] = f.len[k]
        /\ \A k \in 1..Len(h) : g[k] = h[k]
    <3>1. PICK s \in Seq(Byte) : s = h
      BY Zenon, <1>2
    <3>2. PICK t \in Seq(Byte) : t = f.len
      BY Zenon, <1>1
    <3>3. /\ s \o t \in Seq(Byte) /\ Len(s \o t) = Len(s) + Len(t)
          /\ \A k \in 1..Len(t) : (s \o t)[Len(s) + k] = t[k]
          /\ \A k \in 1..Len(s) : (s \o t)[k] = s[k]
      BY ConcatFacts
    <3>4. QED
      BY Zenon, <3>1, <3>2, <3>3
  <2>0. h[1] = f.b /\ 1 \in 1..Len(h)
    BY <1>2 DEF h
  <2>2. \A k \in 1..Len(f.len) : Len(h) + k = k + 1
    BY <1>1, <1>2
  <2>3. QED
    BY <1>2, <2>0, <2>1, <2>2
<1> HIDE DEF g
<1>5. /\ g \o f.body \in Seq(Byte)
      /\ Len(g \o f.body) = Len(g) + Len(f.body)
      /\ \A k \in 1..Len(g) : (g \o f.body)[k] = g[k]
      /\ \A k \in 1..Len(f.body) : (g \o f.body)[Len(g) + k] = f.body[k]
  <2>1. PICK s \in Seq(Byte) : s = g
    BY Zenon, <1>4
  <2>2. PICK t \in Seq(Byte) : t = f.body
    BY Zenon, <1>1
  <2>3. /\ s \o t \in Seq(Byte) /\ Len(s \o t) = Len(s) + Len(t)
        /\ \A k \in 1..Len(s) : (s \o t)[k] = s[k]
        /\ \A k \in 1..Len(t) : (s \o t)[Len(s) + k] = t[k]
    BY ConcatFacts
  <2>4. QED
    BY Zenon, <2>1, <2>2, <2>3
<1>6. Bytes(f) = g \o f.body
  BY <1>3 DEF g
<1>7. 1 \in 1..Len(g) /\ \A k \in 1..Len(f.len) : k + 1 \in 1..Len(g)
  BY <1>1, <1>4
<1>8. QED
  BY Zenon, <1>1, <1>4, <1>5, <1>6, <1>7

(* Unpack never reports the end of the stream, and returns no packet with  *)
(* an error.                                                               *)
OfUnpack(r) ==
  /\ r.err \in {"none", "ShortRemainingLength", "PacketError"}
  /\ r.err # "none" => r.pkt = None

LEMMA UnpackVerdict ==
  ASSUME NEW h, NEW b
  PROVE  OfUnpack(Unpack(h, b))
<1>1. /\ \A p, r : OfUnpack(Unpacked(p, r))
      /\ OfUnpack(Short) /\ OfUnpack(Failed("PacketError"))
  BY DEF Unpacked, Short, Failed, OfUnpack
<1>2. OfUnpack(UnpackConnect(h, b))
  <2> DEFINE n == 2 + U16(b)
             o == b[n + 2]
             k == 1 + 2 * boolToByte(Bit(o, 4)) + boolToByte(Bit(o, 128))
                    + boolToByte(Bit(o, 64))
             r == Items(Drop(b, n + 4), k, 0, FALSE)
             p == [h |-> h, name |-> SubSeq(b, 3, n), ver |-> b[n + 1],
                   reserved |-> o % 2, clean |-> Bit(o, 2),
                   will |-> Bit(o, 4), wqos |-> (o \div 8) % 4,
                   wretain |-> Bit(o, 32), pass |-> Bit(o, 64),
                   user |-> Bit(o, 128),
                   keep |-> b[n + 3] * 256 + b[n + 4], strs |-> r.strs]
             refused == ~HasString(b) \/ Len(b) < n + 4 \/ ~r.ok
  <2>1. UnpackConnect(h, b) = IF refused THEN Short ELSE Unpacked(p, r.rest)
    BY DEF UnpackConnect
  <2> HIDE DEF p, refused, r
  <2>2. QED
    BY <1>1, <2>1
<1>3. OfUnpack(UnpackConnack(h, b))
  BY <1>1 DEF UnpackConnack
<1>4. OfUnpack(UnpackPublish(h, b))
  BY <1>1 DEF UnpackPublish
<1>5. OfUnpack(UnpackSuback(h, b))
  BY <1>1 DEF UnpackSuback
<1>6. OfUnpack(UnpackSubscribe(h, b))
  BY <1>1 DEF UnpackSubscribe
<1>7. OfUnpack(UnpackUnsubscribe(h, b))
  BY <1>1 DEF UnpackUnsubscribe
<1>8. OfUnpack(UnpackID(h, b))
  BY <1>1 DEF UnpackID
<1>9. OfUnpack(Unpacked([h |-> h], b))
  BY <1>1
<1>10. QED
  BY <1>2, <1>3, <1>4, <1>5, <1>6, <1>7, <1>8, <1>9 DEF Unpack

IsSeq(s) == \E S : s \in Seq(S)

LEMMA AppendFacts ==
  ASSUME NEW s, IsSeq(s), NEW x
  PROVE  /\ IsSeq(Append(s, x)) /\ Len(s) \in Nat
         /\ Len(Append(s, x)) = Len(s) + 1
         /\ \A i \in 1..Len(s) : Append(s, x)[i] = s[i]
         /\ Append(s, x)[Len(s) + 1] = x
<1>1. PICK S : s \in Seq(S)
  BY DEF IsSeq
<1> DEFINE U == S \cup {x}
<1>2. s \in Seq(U) /\ x \in U
  BY <1>1
<1> HIDE DEF U
<1>3. /\ Append(s, x) \in Seq(U) /\ Len(s) \in Nat
      /\ Len(Append(s, x)) = Len(s) + 1
      /\ \A i \in 1..Len(s) : Append(s, x)[i] = s[i]
      /\ Append(s, x)[Len(s) + 1] = x
  BY <1>2
<1>4. QED
  BY <1>3 DEF IsSeq

-----------------------------------------------------------------------------
(* Types. *)

TypeInv ==
  /\ wire \in Seq(Byte) /\ ended \in BOOLEAN
  /\ sent \in Seq(Frames) /\ Len(sent) <= MaxFrames
  /\ pos \in Nat /\ rpc \in {"first", "len", "body", "end"}
  /\ digits \in 0..LenDigits /\ rLength \in Nat
  /\ IsSeq(got) /\ \A i \in 1..Len(got) : got[i].err \in Errors

(* A call returns: one more verdict.                                       *)
LEMMA FailType ==
  ASSUME TypeInv, NEW e \in Errors, Fail(e)
  PROVE  /\ IsSeq(got') /\ \A i \in 1..Len(got') : got'[i].err \in Errors
         /\ rpc' = "end" /\ UNCHANGED <<digits, rLength>>
<1> DEFINE x == [err |-> e, pkt |-> None]
<1>1. got' = Append(got, x) /\ x.err = e
  BY DEF Fail
<1> HIDE DEF x
<1>2. /\ IsSeq(got') /\ Len(got) \in Nat /\ Len(got') = Len(got) + 1
      /\ \A i \in 1..Len(got) : got'[i] = got[i]
      /\ got'[Len(got) + 1] = x
  BY <1>1, AppendFacts DEF TypeInv
<1>3. ASSUME NEW i \in 1..Len(got') PROVE got'[i].err \in Errors
  <2>1. i \in 1..Len(got) \/ i = Len(got) + 1
    BY <1>2
  <2>2. QED
    BY <1>1, <1>2, <2>1 DEF TypeInv
<1>4. QED
  BY <1>2, <1>3 DEF Fail

LEMMA ReturnType ==
  ASSUME TypeInv, NEW h, NEW b, ReturnPacket(Unpack(h, b))
  PROVE  /\ IsSeq(got') /\ Len(got) \in Nat /\ Len(got') = Len(got) + 1
         /\ \A i \in 1..Len(got) : got'[i] = got[i]
         /\ got'[Len(got) + 1].err \in Errors \ {"EOF", "UnexpectedEOF"}
         /\ \A i \in 1..Len(got') : got'[i].err \in Errors
         /\ rpc' = "first" /\ digits' = 0 /\ rLength' = 0
<1> DEFINE r == Unpack(h, b)
           x == IF r.err = "none" /\ r.left > 0
                THEN [err |-> "TrailingBytes", pkt |-> None]
                ELSE [err |-> r.err, pkt |-> r.pkt]
<1>1. got' = Append(got, x)
  BY DEF ReturnPacket
<1>2. x.err \in Errors \ {"EOF", "UnexpectedEOF"}
  <2>1. r.err \in {"none", "ShortRemainingLength", "PacketError"}
    BY UnpackVerdict DEF OfUnpack
  <2> HIDE DEF r
  <2>2. QED
    BY <2>1 DEF Errors
<1> HIDE DEF x
<1>3. /\ IsSeq(got') /\ Len(got) \in Nat /\ Len(got') = Len(got) + 1
      /\ \A i \in 1..Len(got) : got'[i] = got[i]
      /\ got'[Len(got) + 1] = x
  BY <1>1, AppendFacts DEF TypeInv
<1>4. ASSUME NEW i \in 1..Len(got') PROVE got'[i].err \in Errors
  <2>1. i \in 1..Len(got) \/ i = Len(got) + 1
    BY <1>3
  <2>2. QED
    BY <1>2, <1>3, <2>1 DEF TypeInv
<1>5. QED
  BY <1>2, <1>3, <1>4 DEF ReturnPacket

LEMMA ConsumeType ==
  ASSUME TypeInv, NEW k \in 0..Len(wire), Consume(k)
  PROVE  wire' \in Seq(Byte) /\ pos' \in Nat
BY DropFacts DEF TypeInv, Consume

LEMMA TypeInvariant ==
  ASSUME PowerLaws
  PROVE  Spec => []TypeInv
<1>1. Init => TypeInv
  <2> SUFFICES ASSUME Init PROVE TypeInv
    OBVIOUS
  <2>1. IsSeq(<<>>)
    BY DEF IsSeq
  <2>2. wire \in Seq(Byte) /\ sent \in Seq(Frames) /\ Len(sent) = 0
    BY DEF Init
  <2>3. Len(got) = 0 /\ 1..Len(got) = {}
    BY DEF Init
  <2>4. IsSeq(got) /\ \A i \in 1..Len(got) : got[i].err \in Errors
    BY <2>1, <2>3 DEF Init
  <2>5. digits \in 0..LenDigits /\ Len(sent) <= MaxFrames
    BY <2>2, CodecConstants DEF Init
  <2>6. QED
    BY <2>2, <2>4, <2>5 DEF Init, TypeInv
<1>2. TypeInv /\ [Next]_vars => TypeInv'
  <2> SUFFICES ASSUME TypeInv, [Next]_vars PROVE TypeInv'
    OBVIOUS
  <2>1. ASSUME NEW f \in Written \cup Foreign, Write(f) PROVE TypeInv'
    <3>1. f \in Frames /\ Bytes(f) \in Seq(Byte)
      BY FrameFacts DEF Frames
    <3>2. wire' \in Seq(Byte)
      BY <2>1, <3>1, ConcatFacts DEF Write, TypeInv
    <3>3. sent' \in Seq(Frames) /\ Len(sent') = Len(sent) + 1
      BY <2>1, <3>1 DEF Write, TypeInv
    <3>4. Len(sent') <= MaxFrames
      BY <2>1, <3>3, CodecConstants DEF Write, TypeInv
    <3>5. QED
      BY <2>1, <3>2, <3>3, <3>4 DEF Write, TypeInv
  <2>2. ASSUME NEW k \in 0..Len(wire), End(k) PROVE TypeInv'
    <3>1. wire' \in Seq(Byte)
      BY <2>2, PrefixFacts DEF End, TypeInv
    <3>2. QED
      BY <2>2, <3>1 DEF End, TypeInv
  <2>3. CASE ReadFirst
    <3>1. wire' \in Seq(Byte) /\ pos' \in Nat
      <4>1. 1 \in 0..Len(wire)
        BY <2>3 DEF ReadFirst, TypeInv
      <4>2. QED
        BY <2>3, <4>1, ConsumeType DEF ReadFirst
    <3>2. CASE FlagsOK(wire[1])
      BY <2>3, <3>1, <3>2 DEF ReadFirst, stream, TypeInv
    <3>3. CASE ~FlagsOK(wire[1])
      <4>1. Fail("InvalidFixedHeaderFlags")
        BY <2>3, <3>3 DEF ReadFirst
      <4>2. QED
        BY <2>3, <3>1, <4>1, FailType DEF ReadFirst, stream, TypeInv, Errors
    <3>4. QED
      BY <3>2, <3>3
  <2>4. CASE ReadEOF
    BY <2>4, FailType DEF ReadEOF, stream, TypeInv, Errors
  <2>5. CASE DecodeLength
    <3>1. 1 \in 0..Len(wire) /\ wire[1] \in Nat
      <4>1. wire \in Seq(Byte) /\ wire # <<>>
        BY <2>5 DEF DecodeLength, TypeInv
      <4>2. Len(wire) \in Nat /\ Len(wire) >= 1 /\ wire[1] \in Byte
        BY <4>1
      <4>3. 1 \in 0..Len(wire)
        BY <4>2
      <4>4. \A b \in Byte : b \in Nat
        BY DEF Byte
      <4>5. QED
        BY <4>2, <4>3, <4>4
    <3>2. wire' \in Seq(Byte) /\ pos' \in Nat
      BY <2>5, <3>1, ConsumeType DEF DecodeLength
    <3>3. digits' \in 0..LenDigits /\ digits \in Nat
      BY <2>5, CodecConstants DEF DecodeLength, TypeInv
    <3>4. rLength' \in Nat
      <4>1. Base ^ digits \in Nat
        BY <3>3, PowerGrows
      <4>2. wire[1] % Base \in Nat
        BY <3>1, CodecConstants
      <4>3. (wire[1] % Base) * Base ^ digits \in Nat
        BY <4>1, <4>2
      <4>4. QED
        BY <2>5, <4>3 DEF DecodeLength, TypeInv
    <3>5. rpc' \in {"len", "body"}
      BY <2>5 DEF DecodeLength
    <3>6. QED
      BY <2>5, <3>2, <3>3, <3>4, <3>5 DEF DecodeLength, stream, TypeInv
  <2>6. CASE LengthMalformed
    BY <2>6, FailType DEF LengthMalformed, stream, TypeInv, Errors
  <2>7. CASE LengthTruncated
    BY <2>7, FailType DEF LengthTruncated, stream, TypeInv, Errors
  <2>8. CASE TooLarge
    BY <2>8, FailType DEF TooLarge, stream, TypeInv, Errors
  <2>9. CASE ReadBody
    <3>1. wire' \in Seq(Byte) /\ pos' \in Nat
      <4>1. rLength \in 0..Len(wire)
        BY <2>9 DEF ReadBody, TypeInv
      <4>2. QED
        BY <2>9, <4>1, ConsumeType DEF ReadBody
    <3>2. QED
      BY <2>9, <3>1, ReturnType, CodecConstants
      DEF ReadBody, stream, TypeInv
  <2>10. CASE BodyTruncated
    <3>1. wire' \in Seq(Byte) /\ pos' \in Nat
      <4>1. Len(wire) \in 0..Len(wire)
        BY DEF TypeInv
      <4>2. QED
        BY <2>10, <4>1, ConsumeType DEF BodyTruncated
    <3>2. QED
      BY <2>10, <3>1, FailType DEF BodyTruncated, stream, TypeInv, Errors
  <2>11. CASE UNCHANGED vars
    BY <2>11 DEF vars, stream, TypeInv
  <2>12. QED
    BY <2>1, <2>2, <2>3, <2>4, <2>5, <2>6, <2>7, <2>8, <2>9, <2>10, <2>11
    DEF Next
<1>3. QED
  BY <1>1, <1>2, PTL DEF Spec

-----------------------------------------------------------------------------
(* The frames on the stream start at the offsets off[1] = 0, off[2], ...;  *)
(* what is on the wire are their bytes from pos on; and the reader is in   *)
(* the frame whose number is that of the calls that have returned, with as *)
(* much of its length read as digits says.                                 *)

Chain(off) ==
  /\ off \in [1..(Len(sent) + 1) -> Nat] /\ off[1] = 0
  /\ \A i \in 1..Len(sent) : off[i + 1] = off[i] + Len(Bytes(sent[i]))
  /\ \A i, j \in 1..(Len(sent) + 1) : i < j => off[i] < off[j]
  /\ starts = {off[i] : i \in 1..(Len(sent) + 1)}

OnWire(off) ==
  /\ pos + Len(wire) <= off[Len(sent) + 1]
  /\ ~ended => pos + Len(wire) = off[Len(sent) + 1]
  /\ \A i \in 1..Len(sent) : \A k \in 1..Len(Bytes(sent[i])) :
       \A j \in 1..Len(wire) :
         pos + j = off[i] + k => wire[j] = Bytes(sent[i])[k]

InLength(f) ==
  /\ rLength < Base ^ digits
  /\ \/ /\ Encodes(f) /\ digits < Len(f.len)
        /\ rLength = Len(f.body) % Base ^ digits
     \/ Malformed(f)

InBody(f) == Encodes(f) /\ rLength = Len(f.body)

InFrame(off) ==
  LET c == Len(got) + 1
  IN  /\ rpc # "end" => c \in 1..(Len(sent) + 1)
      /\ rpc = "first" => pos = off[c] /\ digits = 0 /\ rLength = 0
      /\ rpc = "len" => /\ c <= Len(sent) /\ pos = off[c] + 1 + digits
                        /\ InLength(sent[c])
      /\ rpc = "body" => /\ c <= Len(sent) /\ InBody(sent[c])
                         /\ pos = off[c] + 1 + Len(sent[c].len)

SyncInv == /\ rLength <= MaxRemainingLength
           /\ \E off : Chain(off) /\ OnWire(off) /\ InFrame(off)

LEMMA ChainMonotone ==
  ASSUME TypeInv, NEW off, Chain(off), NEW i \in 1..(Len(sent) + 1),
         NEW j \in 1..(Len(sent) + 1), i <= j
  PROVE  off[i] <= off[j] /\ off[i] \in Nat /\ off[j] \in Nat
<1>1. off[i] \in Nat /\ off[j] \in Nat
  BY DEF Chain
<1>2. Len(sent) \in Nat
  BY DEF TypeInv
<1>3. i = j \/ i < j
  BY <1>2
<1>4. QED
  BY <1>1, <1>3 DEF Chain

LEMMA ChainMax ==
  ASSUME TypeInv, NEW off, Chain(off)
  PROVE  Max(starts) = off[Len(sent) + 1] /\ off[Len(sent) + 1] \in Nat
<1> DEFINE N == Len(sent) + 1
<1>1. N \in Nat /\ N \in 1..N
  BY DEF TypeInv
<1>2. starts \subseteq Nat /\ off[N] \in starts
  BY <1>1 DEF Chain
<1>3. \A y \in starts : off[N] >= y
  <2> SUFFICES ASSUME NEW i \in 1..N PROVE off[N] >= off[i]
    BY DEF Chain
  <2>1. i = N \/ i < N
    BY <1>1
  <2>2. off[i] \in Nat /\ off[N] \in Nat
    BY <1>1 DEF Chain
  <2>3. QED
    BY <1>1, <2>1, <2>2 DEF Chain
<1>4. \E x \in starts : \A y \in starts : x >= y
  BY <1>2, <1>3
<1>5. Max(starts) \in starts /\ \A y \in starts : Max(starts) >= y
  BY <1>4 DEF Max
<1> HIDE DEF N
<1>6. ASSUME NEW x, x \in starts, \A y \in starts : x >= y
      PROVE  x = off[N] /\ off[N] \in Nat
  <2>1. x \in Nat /\ off[N] \in Nat /\ off[N] >= x /\ x >= off[N]
    BY <1>2, <1>3, <1>6
  <2>2. QED
    BY <2>1
<1>7. QED
  BY <1>5, <1>6 DEF N

(* An offset inside a frame is the start of none.                          *)
LEMMA InsideIsNoStart ==
  ASSUME TypeInv, NEW off, Chain(off), NEW c \in 1..Len(sent),
         NEW x \in Nat, off[c] < x, x < off[c + 1]
  PROVE  x \notin starts
<1> SUFFICES ASSUME NEW i \in 1..(Len(sent) + 1), x = off[i] PROVE FALSE
  BY DEF Chain
<1>1. /\ Len(sent) \in Nat /\ c \in 1..(Len(sent) + 1)
      /\ c + 1 \in 1..(Len(sent) + 1)
  BY DEF TypeInv
<1>2. off[i] \in Nat /\ off[c] \in Nat /\ off[c + 1] \in Nat
  BY <1>1 DEF Chain
<1>3. CASE i <= c
  <2>1. off[i] <= off[c]
    BY SMTT(60), <1>1, <1>2, <1>3 DEF Chain
  <2>2. QED
    BY <1>2, <2>1
<1>4. CASE i > c
  <2>1. off[c + 1] <= off[i]
    <3>1. i = c + 1 \/ c + 1 < i
      BY <1>1, <1>4
    <3>2. QED
      BY <1>1, <1>2, <3>1 DEF Chain
  <2>2. QED
    BY <1>2, <2>1
<1>5. QED
  BY <1>1, <1>3, <1>4

(* Reading k bytes.                                                        *)
LEMMA ConsumeKeeps ==
  ASSUME TypeInv, NEW off, Chain(off), OnWire(off),
         NEW k \in 0..Len(wire), Consume(k), UNCHANGED stream
  PROVE  Chain(off)' /\ OnWire(off)'
<1>1. /\ wire' \in Seq(Byte) /\ Len(wire') = Len(wire) - k
      /\ \A j \in 1..(Len(wire) - k) : wire'[j] = wire[j + k]
      /\ pos' = pos + k /\ UNCHANGED <<sent, ended, starts>>
  BY DropFacts DEF TypeInv, Consume, stream
<1>2. Len(wire) \in Nat /\ pos \in Nat /\ k \in Nat
  BY DEF TypeInv
<1>3. pos' + Len(wire') = pos + Len(wire)
  BY <1>1, <1>2
<1>4. ASSUME NEW i \in 1..Len(sent), NEW m \in 1..Len(Bytes(sent[i])),
             NEW j \in 1..Len(wire'), pos' + j = off[i] + m
      PROVE  wire'[j] = Bytes(sent[i])[m]
  <2>1. j \in 1..(Len(wire) - k) /\ j + k \in 1..Len(wire)
    BY <1>1, <1>2
  <2>2. pos + (j + k) = off[i] + m
    BY <1>1, <1>2, <1>4
  <2>3. wire[j + k] = Bytes(sent[i])[m]
    BY <2>1, <2>2 DEF OnWire
  <2>4. QED
    BY <1>1, <2>1, <2>3
<1>5. QED
  BY <1>1, <1>3, <1>4 DEF Chain, OnWire

(* Writing a frame adds an offset and its bytes.                           *)
LEMMA WriteKeeps ==
  ASSUME PowerLaws, TypeInv, NEW f \in Frames, Write(f),
         NEW off, Chain(off), OnWire(off), InFrame(off)
  PROVE  \E o : Chain(o)' /\ OnWire(o)' /\ InFrame(o)'
<1> DEFINE N == Len(sent)
           L == Len(Bytes(f))
<1>1. /\ N \in Nat /\ L \in Nat \ {0} /\ Bytes(f) \in Seq(Byte)
      /\ wire \in Seq(Byte) /\ Len(wire) \in Nat /\ pos \in Nat
  <2>1. f.len \in Seq(Byte) /\ f.body \in Seq(Byte)
    BY FrameFacts
  <2>2. L = 1 + Len(f.len) + Len(f.body) /\ Bytes(f) \in Seq(Byte)
    BY FrameFacts
  <2>3. Len(f.len) \in Nat /\ Len(f.body) \in Nat
    BY <2>1
  <2>4. L \in Nat \ {0}
    <3>1. \A a, b \in Nat : 1 + a + b \in Nat \ {0}
      OBVIOUS
    <3>2. QED
      BY <2>2, <2>3, <3>1
  <2>5. N \in Nat /\ wire \in Seq(Byte) /\ Len(wire) \in Nat /\ pos \in Nat
    BY DEF TypeInv
  <2>6. QED
    BY <2>2, <2>4, <2>5
<1>2. /\ sent' = Append(sent, f) /\ Len(sent') = N + 1
      /\ \A i \in 1..N : sent'[i] = sent[i]
      /\ sent'[N + 1] = f
  BY DEF Write, TypeInv
<1>3. Max(starts) = off[N + 1] /\ off[N + 1] \in Nat
  BY ChainMax
<1>4. /\ wire' \in Seq(Byte) /\ Len(wire') = Len(wire) + L
      /\ \A k \in 1..Len(wire) : wire'[k] = wire[k]
      /\ \A k \in 1..L : wire'[Len(wire) + k] = Bytes(f)[k]
  BY <1>1, ConcatFacts DEF Write
<1>5. /\ starts' = starts \cup {off[N + 1] + L}
      /\ ended = FALSE /\ ended' = FALSE
      /\ UNCHANGED <<pos, rpc, digits, rLength, got>>
  BY <1>3 DEF Write, TypeInv
<1>6. pos + Len(wire) = off[N + 1]
  BY <1>5 DEF OnWire
<1>7. PICK o : o = [i \in 1..(N + 2) |->
                      IF i <= N + 1 THEN off[i] ELSE off[N + 1] + L]
  OBVIOUS
<1> HIDE DEF L
<1>8. /\ o \in [1..(N + 2) -> Nat] /\ o[N + 2] = off[N + 1] + L
      /\ \A i \in 1..(N + 1) : o[i] = off[i] /\ off[i] \in Nat
  <2>1. \A i \in 1..(N + 1) : off[i] \in Nat
    BY DEF Chain
  <2>2. QED
    BY SMTT(60), <1>1, <1>3, <1>7, <2>1
<1>9. Chain(o)'
  <2>1. o \in [1..(Len(sent') + 1) -> Nat] /\ o[1] = 0
    <3>1. Len(sent') + 1 = N + 2 /\ 1 \in 1..(N + 1)
      BY <1>1, <1>2
    <3>2. QED
      BY <1>8, <3>1 DEF Chain
  <2>2. ASSUME NEW i \in 1..Len(sent')
        PROVE  o[i + 1] = o[i] + Len(Bytes(sent'[i]))
    <3>1. CASE i \in 1..N
      <4>1. i \in 1..(N + 1) /\ i + 1 \in 1..(N + 1)
        BY <1>1, <3>1
      <4>2. off[i + 1] = off[i] + Len(Bytes(sent[i]))
        BY <3>1 DEF Chain
      <4>3. sent'[i] = sent[i] /\ o[i] = off[i] /\ o[i + 1] = off[i + 1]
        BY <1>2, <1>8, <3>1, <4>1
      <4>4. QED
        BY <4>2, <4>3
    <3>2. CASE i = N + 1
      <4>1. i \in 1..(N + 1) /\ i + 1 = N + 2 /\ sent'[i] = f
        BY <1>1, <1>2, <3>2
      <4>2. QED
        BY <1>8, <3>2, <4>1 DEF L
    <3>3. QED
      BY <1>1, <1>2, <3>1, <3>2
  <2>3. ASSUME NEW i \in 1..(N + 2), NEW j \in 1..(N + 2), i < j
        PROVE  o[i] < o[j]
    <3>1. i \in 1..(N + 1) /\ o[i] = off[i]
      BY <1>1, <1>8, <2>3
    <3>2. CASE j \in 1..(N + 1)
      BY <1>8, <2>3, <3>1, <3>2 DEF Chain
    <3>3. CASE j = N + 2
      <4>1. off[i] <= off[N + 1]
        <5>1. i <= N + 1 /\ N + 1 \in 1..(N + 1)
          BY <1>1, <3>1
        <5>2. QED
          BY <3>1, <5>1, ChainMonotone
      <4>2. off[i] \in Nat
        BY <1>8, <3>1
      <4>3. QED
        BY <1>1, <1>3, <1>8, <3>1, <3>3, <4>1, <4>2
    <3>4. QED
      BY <1>1, <3>2, <3>3
  <2>4. starts' = {o[i] : i \in 1..(N + 2)}
    <3>1. starts = {off[i] : i \in 1..(N + 1)}
      BY DEF Chain
    <3>2. 1..(N + 2) = 1..(N + 1) \cup {N + 2}
      BY <1>1
    <3>3. QED
      BY <1>5, <1>8, <3>1, <3>2
  <2>5. Len(sent') + 1 = N + 2
    BY <1>1, <1>2
  <2>6. QED
    BY <2>1, <2>2, <2>3, <2>4, <2>5 DEF Chain
<1>10. OnWire(o)'
  <2>1. Len(sent') + 1 = N + 2 /\ pos' + Len(wire') = o[N + 2]
    BY <1>1, <1>2, <1>3, <1>4, <1>5, <1>6, <1>8
  <2>2. ASSUME NEW i \in 1..Len(sent'), NEW k \in 1..Len(Bytes(sent'[i])),
               NEW j \in 1..Len(wire'), pos' + j = o[i] + k
        PROVE  wire'[j] = Bytes(sent'[i])[k]
    <3>1. CASE i \in 1..N
      <4>1. sent'[i] = sent[i] /\ o[i] = off[i] /\ i \in 1..(N + 1)
        BY <1>1, <1>2, <1>8, <3>1
      <4>2. sent[i] \in Frames
        BY <3>1 DEF TypeInv
      <4>3. Bytes(sent[i]) \in Seq(Byte)
        BY <4>2, FrameFacts
      <4>4. Len(Bytes(sent[i])) \in Nat
        BY <4>3
      <4>5. off[i + 1] = off[i] + Len(Bytes(sent[i]))
        BY <3>1 DEF Chain
      <4>6. off[i + 1] <= off[N + 1]
        <5>1. i + 1 \in 1..(N + 1) /\ N + 1 \in 1..(N + 1)
          BY <1>1, <3>1
        <5>2. i + 1 <= N + 1
          BY <1>1, <3>1
        <5>3. QED
          BY <5>1, <5>2, ChainMonotone
      <4>7. off[i] \in Nat /\ i + 1 \in 1..(N + 1)
        BY <1>1, <1>8, <3>1, <4>1
      <4>8. j \in 1..Len(wire)
        <5>1. off[i + 1] \in Nat
          BY <1>8, <4>7
        <5>2. k \in Nat /\ k <= Len(Bytes(sent[i])) /\ j \in Nat /\ j >= 1
          BY <1>1, <1>4, <4>1, <4>4
        <5>3. pos + j <= off[i + 1]
          <6>1. pos + j = off[i] + k
            BY <1>5, <2>2, <4>1
          <6>2. QED
            BY <4>4, <4>5, <4>7, <5>2, <6>1
        <5>4. pos + j <= pos + Len(wire)
          BY SMTT(30), <1>1, <1>3, <1>6, <4>6, <5>1, <5>2, <5>3
        <5>5. QED
          BY <1>1, <5>2, <5>4
      <4>9. k \in 1..Len(Bytes(sent[i])) /\ pos + j = off[i] + k
        BY <1>5, <2>2, <4>1
      <4>10. wire[j] = Bytes(sent[i])[k]
        BY <3>1, <4>8, <4>9 DEF OnWire
      <4>11. QED
        BY <1>4, <4>1, <4>8, <4>10
    <3>2. CASE i = N + 1
      <4>1. sent'[i] = f /\ o[i] = off[N + 1] /\ k \in 1..L
        BY <1>1, <1>2, <1>8, <3>2 DEF L
      <4>2. j = Len(wire) + k
        <5>1. j \in Nat /\ k \in Nat
          BY <1>1, <1>4, <4>1
        <5>2. pos + j = (pos + Len(wire)) + k
          BY <1>5, <1>6, <2>2, <4>1
        <5>3. \A p, x, w, m \in Nat : p + x = (p + w) + m => x = w + m
          OBVIOUS
        <5>4. pos \in Nat /\ Len(wire) \in Nat
          BY <1>1
        <5>5. QED
          BY <5>1, <5>2, <5>3, <5>4
      <4>3. wire'[j] = Bytes(f)[k]
        BY <1>4, <4>1, <4>2
      <4>4. QED
        BY <4>1, <4>3
    <3>3. QED
      BY <1>1, <1>2, <3>1, <3>2
  <2>3. pos' + Len(wire') <= o[N + 2]
    BY <1>1, <1>3, <1>8, <2>1
  <2>4. QED
    BY <2>1, <2>2, <2>3 DEF OnWire
<1>11. InFrame(o)'
  <2> DEFINE c == Len(got) + 1
  <2>1. rpc # "end" => c \in 1..(N + 1)
    BY DEF InFrame
  <2>2. c' = c /\ Len(sent') + 1 = N + 2
    BY <1>1, <1>2, <1>5
  <2>3. rpc' # "end" => c' \in 1..(Len(sent') + 1) /\ o[c] = off[c]
    BY <1>1, <1>5, <1>8, <2>1, <2>2
  <2>4. rpc' = "first" => pos' = o[c] /\ digits' = 0 /\ rLength' = 0
    BY <1>5, <2>3 DEF InFrame
  <2>5. ASSUME rpc' \in {"len", "body"}
        PROVE  c \in 1..N /\ c <= Len(sent') /\ sent'[c] = sent[c]
    <3>1. c <= N /\ c \in 1..(N + 1)
      BY <1>5, <2>1, <2>5 DEF InFrame
    <3>2. c \in 1..N
      BY <1>1, <3>1
    <3>3. QED
      BY <1>1, <1>2, <3>2
  <2>6. ASSUME rpc' = "len"
        PROVE  pos' = o[c] + 1 + digits' /\ InLength(sent[c])'
    <3>1. pos = off[c] + 1 + digits /\ InLength(sent[c])
      BY <1>5, <2>6 DEF InFrame
    <3>2. sent'[c'] = sent[c]
      BY <2>2, <2>5, <2>6
    <3>3. QED
      BY <1>5, <2>3, <2>6, <3>1, <3>2
      DEF InLength, Encodes, Malformed
  <2>7. ASSUME rpc' = "body"
        PROVE  pos' = o[c] + 1 + Len(sent'[c].len) /\ InBody(sent[c])'
    <3>1. pos = off[c] + 1 + Len(sent[c].len) /\ InBody(sent[c])
      BY <1>5, <2>7 DEF InFrame
    <3>2. sent'[c'] = sent[c] /\ sent'[c] = sent[c]
      BY <2>2, <2>5, <2>7
    <3>3. QED
      BY <1>5, <2>3, <2>7, <3>1, <3>2 DEF InBody, Encodes
  <2>8. QED
    BY <1>5, <2>2, <2>3, <2>4, <2>5, <2>6, <2>7 DEF InFrame
<1>12. QED
  BY <1>9, <1>10, <1>11

(* One digit of the remaining length of frame f.                           *)
LEMMA DigitKeeps ==
  ASSUME PowerLaws, TypeInv, NEW f \in Frames, InLength(f), DecodeLength,
         wire[1] = f.len[digits + 1], digits + 1 \in 1..Len(f.len)
  PROVE  /\ rLength' <= MaxRemainingLength
         /\ rpc' = "len" => InLength(f)'
         /\ rpc' = "body" => InBody(f)' /\ digits + 1 = Len(f.len)
<1> DEFINE e == Base ^ digits
           d == wire[1] % Base
<1>1. /\ digits \in Nat /\ digits + 1 \in Nat /\ digits + 1 <= LenDigits
      /\ digits' = digits + 1 /\ rLength' = rLength + d * e
      /\ rpc' = IF wire[1] >= 128 THEN "len" ELSE "body"
      /\ rLength \in Nat /\ LenDigits \in Nat
  BY CodecConstants DEF DecodeLength, TypeInv
<1>2. e \in Nat /\ Base ^ digits' = Base * e /\ Base ^ digits' \in Nat
  BY <1>1, PowerGrows DEF PowerLaws
<1>3. Base \in Nat /\ Base >= 2
  BY Zenon, BaseType
<1>4. wire[1] \in Nat
  <2>1. f.len \in Seq(Byte)
    BY FrameFacts
  <2>2. f.len[digits + 1] \in Byte
    BY <2>1
  <2>3. \A b \in Byte : b \in Nat
    BY DEF Byte
  <2>4. QED
    BY <2>2, <2>3
<1>5. d \in 0..(Base - 1)
  <2>1. Base \in Nat \ {0}
    BY <1>3
  <2>2. QED
    BY <1>4, <2>1, DivMod
<1>6. rLength' < Base ^ digits'
  <2>1. rLength < e
    BY DEF InLength
  <2> HIDE DEF e, d
  <2>2. d * e <= (Base - 1) * e
    BY <1>2, <1>3, <1>5
  <2>3. (Base - 1) * e = Base * e - e
    BY <1>2, <1>3
  <2>4. d * e \in Nat /\ Base * e \in Nat
    BY <1>2, <1>3, <1>5
  <2>5. QED
    BY <1>1, <1>2, <2>1, <2>2, <2>3, <2>4
<1>7. rLength' <= MaxRemainingLength
  <2>1. Base ^ digits' <= Base ^ LenDigits
    BY <1>1, PowerMonotone
  <2>2. Base ^ LenDigits \in Nat
    BY <1>1, PowerGrows
  <2>3. rLength' \in Nat
    <3> HIDE DEF e, d
    <3>1. d * e \in Nat
      BY <1>2, <1>3, <1>5
    <3>2. QED
      BY <1>1, <3>1
  <2>4. QED
    BY <1>2, <1>6, <2>1, <2>2, <2>3 DEF MaxRemainingLength
<1>8. CASE Malformed(f)
  <2>1. digits + 1 \in 1..LenDigits
    BY <1>1
  <2>2. wire[1] >= 128
    BY <1>8, <2>1 DEF Malformed
  <2>3. rpc' = "len"
    BY <1>1, <2>2
  <2>4. Malformed(f)'
    BY <1>8 DEF Malformed
  <2>5. QED
    BY <1>6, <1>7, <2>3, <2>4 DEF InLength
<1>9. CASE Encodes(f) /\ rLength = Len(f.body) % Base ^ digits
  <2> DEFINE l == Len(f.body)
  <2>1. /\ l \in Nat /\ l <= MaxRemainingLength /\ f.len = EncodedLength(l)
        /\ rLength = l % Base ^ digits
    <3>1. f.body \in Seq(Byte)
      BY FrameFacts
    <3>2. QED
      BY <1>9, <3>1 DEF Encodes
  <2> HIDE DEF l
  <2>2. digits < Len(EncodedLength(l)) /\ Len(EncodedLength(l)) \in Nat
    <3>1. Len(EncodedLength(l)) \in 1..LenDigits
      BY <2>1, LengthEncoded
    <3>2. digits + 1 \in 1..Len(EncodedLength(l))
      BY <2>1
    <3>3. QED
      BY <1>1, <3>1, <3>2
  <2>3. rLength' = l % Base ^ digits'
    BY <1>1, <2>1, <2>2, DigitRead
  <2>4. wire[1] >= 128 <=> digits + 1 < Len(f.len)
    BY <2>1, LengthEncoded
  <2>5. Encodes(f)'
    BY <1>9 DEF Encodes
  <2>6. CASE rpc' = "len"
    <3>1. digits' < Len(f.len)
      BY <1>1, <2>4, <2>6
    <3>2. InLength(f)'
      BY <1>6, <2>3, <2>5, <3>1 DEF InLength, l
    <3>3. QED
      BY <1>7, <2>6, <3>2
  <2>7. CASE rpc' = "body"
    <3>1. digits + 1 = Len(f.len) /\ l < Base ^ Len(f.len)
      <4>1. ~(digits + 1 < Len(f.len))
        BY <1>1, <2>4, <2>7
      <4>2. Len(f.len) \in Nat /\ digits + 1 <= Len(f.len)
        BY <1>1, <2>1, <2>2
      <4>3. QED
        BY <1>1, <2>1, <4>1, <4>2, LengthEncoded
    <3>2. rLength' = l
      <4> DEFINE m == Base ^ digits'
      <4>1. l < m /\ m \in Nat /\ rLength' = l % m
        BY <1>1, <1>2, <2>3, <3>1
      <4> HIDE DEF m
      <4>2. m \in Nat \ {0} /\ l \in 0..(m - 1)
        BY <2>1, <4>1
      <4>3. (0 * m + l) % m = l
        BY <4>2, ModIs
      <4>4. 0 * m + l = l
        BY <2>1, <4>2
      <4>5. QED
        BY <4>1, <4>3, <4>4
    <3>3. InBody(f)'
      BY <2>5, <3>2 DEF InBody, l
    <3>4. QED
      BY <1>7, <2>7, <3>1, <3>3
  <2>8. QED
    BY <1>1, <2>6, <2>7
<1>10. QED
  BY <1>8, <1>9 DEF InLength

(* The frame that the reader is in.                                        *)
LEMMA FrameAt ==
  ASSUME PowerLaws, TypeInv, NEW off, Chain(off), NEW c \in 1..Len(sent)
  PROVE  /\ sent[c] \in Frames /\ off[c] \in Nat
         /\ Len(sent[c].len) \in Nat /\ Len(sent[c].body) \in Nat
         /\ off[c + 1] = off[c] + 1 + Len(sent[c].len) + Len(sent[c].body)
<1>1. sent[c] \in Frames /\ Len(sent) \in Nat
  BY DEF TypeInv
<1>2. /\ sent[c].len \in Seq(Byte) /\ sent[c].body \in Seq(Byte)
      /\ Len(Bytes(sent[c])) = 1 + Len(sent[c].len) + Len(sent[c].body)
  BY <1>1, FrameFacts
<1>3. Len(sent[c].len) \in Nat /\ Len(sent[c].body) \in Nat
  BY <1>2
<1>4. c \in 1..(Len(sent) + 1)
  BY <1>1
<1>5. off[c] \in Nat /\ off[c + 1] = off[c] + Len(Bytes(sent[c]))
  BY <1>4 DEF Chain
<1>6. off[c + 1] = off[c] + (1 + Len(sent[c].len) + Len(sent[c].body))
  BY <1>2, <1>5
<1>7. \A x, a, b \in Nat : x + (1 + a + b) = x + 1 + a + b
  OBVIOUS
<1>8. off[c] + (1 + Len(sent[c].len) + Len(sent[c].body))
        = off[c] + 1 + Len(sent[c].len) + Len(sent[c].body)
  BY <1>3, <1>5, <1>7
<1>9. QED
  BY <1>1, <1>3, <1>5, <1>6, <1>8

LEMMA SyncInvariant ==
  ASSUME PowerLaws
  PROVE  Spec => []SyncInv
<1>1. Init => SyncInv
  <2> SUFFICES ASSUME Init PROVE SyncInv
    OBVIOUS
  <2>1. /\ wire = <<>> /\ ended = FALSE /\ sent = <<>> /\ starts = {0}
        /\ pos = 0 /\ rpc = "first" /\ digits = 0 /\ rLength = 0
        /\ got = <<>> /\ Len(sent) = 0 /\ Len(wire) = 0 /\ Len(got) = 0
    BY DEF Init
  <2>2. PICK off : off = [i \in 1..1 |-> 0]
    OBVIOUS
  <2>3. off[1] = 0 /\ off \in [1..1 -> Nat] /\ 1..0 = {} /\ 1..1 = {1}
    BY <2>2
  <2>4. Chain(off)
    BY <2>1, <2>3 DEF Chain
  <2>5. OnWire(off)
    BY <2>1, <2>3 DEF OnWire
  <2>6. InFrame(off)
    BY <2>1, <2>3 DEF InFrame
  <2>7. rLength <= MaxRemainingLength
    BY <2>1, PowerGrows, CodecConstants DEF MaxRemainingLength
  <2>8. QED
    BY <2>4, <2>5, <2>6, <2>7 DEF SyncInv
<1>2. TypeInv /\ SyncInv /\ [Next]_vars => SyncInv'
  <2> SUFFICES ASSUME TypeInv, SyncInv, [Next]_vars PROVE SyncInv'
    OBVIOUS
  <2>1. PICK off : Chain(off) /\ OnWire(off) /\ InFrame(off)
    BY DEF SyncInv
  <2>2. rLength <= MaxRemainingLength
    BY DEF SyncInv
  <2> DEFINE c == Len(got) + 1
             N == Len(sent)
  <2>3. /\ N \in Nat /\ Len(wire) \in Nat /\ pos \in Nat /\ digits \in Nat
        /\ rLength \in Nat /\ c \in Nat /\ LenDigits \in Nat
    <3>1. Len(got) \in Nat
      BY AppendFacts DEF TypeInv
    <3>2. QED
      BY <3>1, CodecConstants DEF TypeInv
  (* A call that fails for good leaves the offsets alone. *)
  <2>4. ASSUME NEW k \in 0..Len(wire), Consume(k), UNCHANGED stream,
               rpc' = "end", rLength' = rLength
        PROVE  SyncInv'
    <3>1. Chain(off)' /\ OnWire(off)'
      BY <2>1, <2>4, ConsumeKeeps
    <3>2. InFrame(off)'
      BY <2>4 DEF InFrame
    <3>3. QED
      BY <2>2, <2>4, <3>1, <3>2 DEF SyncInv, MaxRemainingLength
  <2>5. ASSUME UNCHANGED <<wire, pos, stream>>, rpc' = "end",
               rLength' = rLength
        PROVE  SyncInv'
    <3>0. UNCHANGED <<wire, pos, ended, sent, starts>>
      BY <2>5 DEF stream
    <3>1. Chain(off)' /\ OnWire(off)'
      BY <2>1, <3>0 DEF Chain, OnWire
    <3>2. InFrame(off)'
      BY <2>5 DEF InFrame
    <3>3. QED
      BY <2>2, <2>5, <3>1, <3>2 DEF SyncInv, MaxRemainingLength
  <2>6. ASSUME NEW f \in Written \cup Foreign, Write(f) PROVE SyncInv'
    <3>1. f \in Frames
      BY DEF Frames
    <3>2. \E o : Chain(o)' /\ OnWire(o)' /\ InFrame(o)'
      BY <2>1, <2>6, <3>1, WriteKeeps
    <3>3. rLength' = rLength
      BY <2>6 DEF Write
    <3>4. QED
      BY <2>2, <3>2, <3>3 DEF SyncInv, MaxRemainingLength
  <2>7. ASSUME NEW k \in 0..Len(wire), End(k) PROVE SyncInv'
    <3>1. /\ Len(wire') = k /\ \A j \in 1..k : wire'[j] = wire[j]
          /\ ended' = TRUE /\ k <= Len(wire) /\ k \in Nat
          /\ UNCHANGED <<sent, starts, pos, rpc, digits, rLength, got>>
      BY <2>3, <2>7, PrefixFacts DEF End, TypeInv
    <3>2. Chain(off)'
      BY <2>1, <3>1 DEF Chain
    <3>3. OnWire(off)'
      <4>1. off[N + 1] \in Nat
        BY <2>1, ChainMax
      <4>2. pos' + Len(wire') <= off[N + 1]
        BY <2>1, <2>3, <3>1, <4>1 DEF OnWire
      <4>3. 1..k \subseteq 1..Len(wire)
        BY <2>3, <3>1
      <4>4. QED
        BY <2>1, <3>1, <4>2, <4>3 DEF OnWire
    <3>4. InFrame(off)'
      BY <2>1, <3>1
      DEF InFrame, InLength, InBody, Encodes, Malformed
    <3>5. QED
      BY <2>2, <3>1, <3>2, <3>3, <3>4 DEF SyncInv, MaxRemainingLength
  <2>8. CASE ReadFirst
    <3>1. 1 \in 0..Len(wire) /\ 1 <= Len(wire)
      BY <2>8 DEF ReadFirst, TypeInv
    <3>2. Consume(1) /\ UNCHANGED stream
      BY <2>8 DEF ReadFirst
    <3>3. CASE ~FlagsOK(wire[1])
      <4>1. rpc' = "end" /\ rLength' = rLength
        BY <2>8, <3>3 DEF ReadFirst, Fail
      <4>2. QED
        BY <2>4, <3>1, <3>2, <4>1
    <3>4. CASE FlagsOK(wire[1])
      <4>1. /\ rpc' = "len" /\ UNCHANGED <<digits, rLength, got, sent>>
            /\ pos' = pos + 1
        BY <2>8, <3>4 DEF ReadFirst, Consume, stream
      <4>2. /\ pos = off[c] /\ digits = 0 /\ rLength = 0
            /\ c \in 1..(N + 1)
        BY <2>1, <2>8 DEF InFrame, ReadFirst
      <4>3. c \in 1..N
        <5>1. off[N + 1] \in Nat /\ pos + Len(wire) <= off[N + 1]
          BY <2>1, ChainMax DEF OnWire
        <5>2. c # N + 1
          BY <2>3, <3>1, <4>2, <5>1
        <5>3. QED
          BY <2>3, <4>2, <5>2
      <4>4. InLength(sent[c])'
        <5>1. sent[c] \in Frames
          BY <2>1, <4>3, FrameAt
        <5> DEFINE f == sent[c]
        <5>2. (Encodes(f) \/ Malformed(f)) /\ f.body \in Seq(Byte)
          BY <5>1, FrameFacts
        <5>3. sent'[c'] = f /\ digits' = 0 /\ rLength' = 0
          BY <4>1, <4>2
        <5> HIDE DEF f
        <5>4. Base ^ 0 = 1
          BY DEF PowerLaws
        <5>5. Encodes(f) => 0 < Len(f.len) /\ 0 = Len(f.body) % Base ^ 0
          <6> SUFFICES ASSUME Encodes(f)
                       PROVE  0 < Len(f.len) /\ 0 = Len(f.body) % Base ^ 0
            OBVIOUS
          <6>1. Len(f.body) \in Nat
            BY <5>2
          <6>2. Len(f.len) \in 1..LenDigits
            BY <6>1, LengthEncoded DEF Encodes
          <6>3. Len(f.body) % 1 = 0
            <7>1. \A a \in Nat : a % 1 = 0
              OBVIOUS
            <7>2. QED
              BY <6>1, <7>1
          <6>4. QED
            BY <2>3, <5>4, <6>2, <6>3
        <5>6. QED
          BY <5>2, <5>3, <5>4, <5>5 DEF InLength, Encodes, Malformed
      <4>5. InFrame(off)'
        <5>1. c' = c /\ sent' = sent
          BY <4>1
        <5>2. pos' = off[c] + 1 + digits'
          BY <2>3, <4>1, <4>2
        <5>3. c \in 1..(N + 1) /\ c <= N
          BY <2>3, <4>3
        <5>4. QED
          BY <4>1, <4>4, <5>1, <5>2, <5>3 DEF InFrame
      <4>6. Chain(off)' /\ OnWire(off)'
        BY <2>1, <3>1, <3>2, ConsumeKeeps
      <4>7. QED
        BY <2>2, <4>1, <4>5, <4>6 DEF SyncInv, MaxRemainingLength
    <3>5. QED
      BY <3>3, <3>4
  <2>9. CASE ReadEOF
    BY <2>5, <2>9 DEF ReadEOF, Fail
  <2>10. CASE DecodeLength
    <3>1. 1 \in 0..Len(wire) /\ 1 \in 1..Len(wire)
      BY <2>10 DEF DecodeLength, TypeInv
    <3>2. /\ Consume(1) /\ UNCHANGED stream /\ pos' = pos + 1
          /\ UNCHANGED <<got, sent>> /\ digits' = digits + 1
          /\ digits < LenDigits /\ rpc' \in {"len", "body"}
      BY <2>10 DEF DecodeLength, Consume, stream
    <3>3. /\ c \in 1..(N + 1) /\ c <= N /\ pos = off[c] + 1 + digits
          /\ InLength(sent[c])
      BY <2>1, <2>10 DEF DecodeLength, InFrame
    <3>4. c \in 1..N
      BY <2>3, <3>3
    <3> DEFINE f == sent[c]
    <3>5. f \in Frames /\ off[c] \in Nat /\ Len(f.len) \in Nat
      BY <2>1, <3>4, FrameAt
    <3>6. digits + 1 \in 1..Len(f.len)
      <4>1. CASE Malformed(f)
        BY <2>3, <3>2, <3>5, <4>1 DEF Malformed
      <4>2. CASE digits < Len(f.len)
        BY <2>3, <3>5, <4>2
      <4>3. QED
        BY <3>3, <4>1, <4>2 DEF InLength
    <3>7. wire[1] = f.len[digits + 1]
      <4>1. pos + 1 = off[c] + ((digits + 1) + 1)
        <5>1. \A x, m \in Nat : (x + 1 + m) + 1 = x + ((m + 1) + 1)
          OBVIOUS
        <5>2. QED
          BY <2>3, <3>3, <3>5, <5>1
      <4>2. /\ Len(Bytes(f)) = 1 + Len(f.len) + Len(f.body)
            /\ Len(f.body) \in Nat
            /\ Bytes(f)[(digits + 1) + 1] = f.len[digits + 1]
        BY <2>1, <3>4, <3>5, <3>6, FrameAt, FrameFacts
      <4>3. (digits + 1) + 1 \in 1..Len(Bytes(f))
        <5>1. \A m, a, b \in Nat :
                m + 1 \in 1..a => (m + 1) + 1 \in 1..(1 + a + b)
          OBVIOUS
        <5>2. QED
          BY Zenon, <2>3, <3>5, <3>6, <4>2, <5>1
      <4>4. QED
        BY <2>1, <3>1, <3>4, <4>1, <4>2, <4>3 DEF OnWire
    <3>8. PICK g : g = f
      OBVIOUS
    <3>9. /\ rLength' <= MaxRemainingLength
          /\ rpc' = "len" => InLength(g)'
          /\ rpc' = "body" => InBody(g)' /\ digits + 1 = Len(g.len)
      BY <2>10, <3>3, <3>5, <3>6, <3>7, <3>8, DigitKeeps
    <3>10. c' = c /\ sent'[c'] = g /\ sent' = sent
      BY <3>2, <3>8
    <3>11. InFrame(off)'
      <4>1. c' \in 1..(Len(sent') + 1) /\ c' <= Len(sent')
        BY <3>3, <3>10
      <4>2. pos' = off[c'] + 1 + digits'
        <5>1. \A x, m \in Nat : (x + 1 + m) + 1 = x + 1 + (m + 1)
          OBVIOUS
        <5>2. QED
          BY <2>3, <3>2, <3>3, <3>5, <3>10, <5>1
      <4>3. rpc' = "body" => pos' = off[c'] + 1 + Len(g.len)
        BY <3>2, <3>9, <4>2
      <4>4. rpc' = "len" => InLength(sent[c])'
        BY <3>9, <3>10 DEF InLength, Encodes, Malformed
      <4>5. rpc' = "body" => InBody(sent[c])'
        BY <3>9, <3>10 DEF InBody, Encodes
      <4>6. rpc' # "end" /\ rpc' # "first"
        BY <3>2
      <4>7. QED
        BY <3>10, <4>1, <4>2, <4>3, <4>4, <4>5, <4>6 DEF InFrame
    <3>12. Chain(off)' /\ OnWire(off)'
      BY <2>1, <3>1, <3>2, ConsumeKeeps
    <3>13. QED
      BY <3>9, <3>11, <3>12 DEF SyncInv, MaxRemainingLength
  <2>11. CASE LengthMalformed
    BY <2>5, <2>11 DEF LengthMalformed, Fail
  <2>12. CASE LengthTruncated
    BY <2>5, <2>12 DEF LengthTruncated, Fail
  <2>13. CASE TooLarge
    BY <2>5, <2>13 DEF TooLarge, Fail
  <2>14. CASE ReadBody
    <3>1. rLength \in 0..Len(wire) /\ Consume(rLength) /\ UNCHANGED stream
      BY <2>3, <2>14 DEF ReadBody
    <3>2. pos' = pos + rLength /\ sent' = sent
      BY <3>1 DEF Consume, stream
    <3>3. /\ Len(got') = Len(got) + 1 /\ rpc' = "first"
          /\ digits' = 0 /\ rLength' = 0
      BY <2>14, ReturnType DEF ReadBody
    <3>4. /\ c \in 1..(N + 1) /\ c <= N /\ rLength = Len(sent[c].body)
          /\ pos = off[c] + 1 + Len(sent[c].len)
      BY <2>1, <2>14 DEF ReadBody, InFrame, InBody
    <3>5. c \in 1..N
      BY <2>3, <3>4
    <3>6. off[c + 1] = off[c] + 1 + Len(sent[c].len) + Len(sent[c].body)
      BY <2>1, <3>5, FrameAt
    <3>7. pos' = off[c + 1] /\ c' = c + 1
      BY <3>2, <3>3, <3>4, <3>6
    <3>8. c' \in 1..(Len(sent') + 1)
      BY <2>3, <3>2, <3>5, <3>7
    <3>9. InFrame(off)'
      BY <3>3, <3>7, <3>8 DEF InFrame
    <3>10. Chain(off)' /\ OnWire(off)'
      BY <2>1, <3>1, ConsumeKeeps
    <3>11. rLength' <= MaxRemainingLength
      BY <2>2, <2>3, <3>3, PowerGrows DEF MaxRemainingLength
    <3>12. QED
      BY <3>9, <3>10, <3>11 DEF SyncInv, MaxRemainingLength
  <2>15. CASE BodyTruncated
    <3>1. Len(wire) \in 0..Len(wire)
      BY <2>3
    <3>2. QED
      BY <2>4, <2>15, <3>1 DEF BodyTruncated, Fail
  <2>16. CASE UNCHANGED vars
    <3>1. /\ UNCHANGED <<wire, ended, sent, starts, pos, rpc, digits>>
          /\ UNCHANGED <<rLength, got>>
      BY <2>16 DEF vars, stream
    <3>2. Chain(off)' /\ OnWire(off)'
      BY <2>1, <3>1 DEF Chain, OnWire
    <3>3. InFrame(off)'
      BY <2>1, <3>1
      DEF InFrame, InLength, InBody, Encodes, Malformed
    <3>4. QED
      BY <2>2, <3>1, <3>2, <3>3 DEF SyncInv, MaxRemainingLength
  <2>17. QED
    BY <2>6, <2>7, <2>8, <2>9, <2>10, <2>11, <2>12, <2>13, <2>14, <2>15,
       <2>16
    DEF Next
<1>3. QED
  BY <1>1, <1>2, TypeInvariant, PTL DEF Spec

-----------------------------------------------------------------------------
(* What the calls have returned. *)

Verdicts ==
  /\ EofIsBoundary
  /\ \A i \in 1..Len(got) :
       got[i].err \in {"EOF", "UnexpectedEOF"} => rpc = "end" /\ ended

(* A call fails for good: the only end of the stream among the verdicts is *)
(* its own.                                                                *)
LEMMA FailVerdict ==
  ASSUME TypeInv, Verdicts, rpc # "end", NEW e, Fail(e),
         e = "EOF" => pos' \in starts' /\ ended',
         e = "UnexpectedEOF" => pos' \notin starts' /\ ended'
  PROVE  Verdicts'
<1> DEFINE x == [err |-> e, pkt |-> None]
<1>1. got' = Append(got, x) /\ x.err = e /\ rpc' = "end"
  BY DEF Fail
<1> HIDE DEF x
<1>2. /\ Len(got) \in Nat /\ Len(got') = Len(got) + 1
      /\ \A i \in 1..Len(got) : got'[i] = got[i]
      /\ got'[Len(got) + 1] = x
  BY <1>1, AppendFacts DEF TypeInv
<1>3. ASSUME NEW i \in 1..Len(got')
      PROVE  /\ got'[i].err = "EOF" => pos' \in starts' /\ ended'
             /\ got'[i].err = "UnexpectedEOF" => pos' \notin starts' /\ ended'
  <2>1. CASE i = Len(got) + 1
    BY <1>1, <1>2, <2>1
  <2>2. CASE i \in 1..Len(got)
    BY <1>2, <2>2 DEF Verdicts
  <2>3. QED
    BY <1>2, <2>1, <2>2
<1>4. EofIsBoundary'
  BY <1>3 DEF EofIsBoundary
<1>5. QED
  BY <1>1, <1>3, <1>4 DEF Verdicts

LEMMA VerdictsInvariant ==
  ASSUME PowerLaws
  PROVE  Spec => []Verdicts
<1>1. Init => Verdicts
  <2> SUFFICES ASSUME Init PROVE Verdicts
    OBVIOUS
  <2>1. 1..Len(got) = {}
    BY DEF Init
  <2>2. QED
    BY <2>1 DEF Verdicts, EofIsBoundary
<1>2. TypeInv /\ SyncInv /\ Verdicts /\ [Next]_vars => Verdicts'
  <2> SUFFICES ASSUME TypeInv, SyncInv, Verdicts, [Next]_vars PROVE Verdicts'
    OBVIOUS
  <2>1. PICK off : Chain(off) /\ OnWire(off) /\ InFrame(off)
    BY DEF SyncInv
  <2> DEFINE c == Len(got) + 1
             N == Len(sent)
  <2>2. /\ N \in Nat /\ Len(wire) \in Nat /\ pos \in Nat /\ digits \in Nat
        /\ rLength \in Nat /\ c \in Nat /\ LenDigits \in Nat
    <3>1. Len(got) \in Nat
      BY AppendFacts DEF TypeInv
    <3>2. QED
      BY <3>1, CodecConstants DEF TypeInv
  (* As long as the reader goes on, no call has met the end. *)
  <2>3. ASSUME rpc # "end" \/ ~ended, got' = got PROVE Verdicts'
    BY <2>3 DEF Verdicts, EofIsBoundary
  <2>4. ASSUME NEW f \in Written \cup Foreign, Write(f) PROVE Verdicts'
    BY <2>3, <2>4 DEF Write
  <2>5. ASSUME NEW k \in 0..Len(wire), End(k) PROVE Verdicts'
    BY <2>3, <2>5 DEF End
  <2>6. CASE ReadFirst
    <3>1. CASE FlagsOK(wire[1])
      BY <2>3, <2>6, <3>1 DEF ReadFirst
    <3>2. CASE ~FlagsOK(wire[1])
      BY <2>6, <3>2, FailVerdict DEF ReadFirst
    <3>3. QED
      BY <3>1, <3>2
  <2>7. CASE ReadEOF
    <3>1. /\ rpc = "first" /\ ended /\ Fail("EOF")
          /\ UNCHANGED <<pos, ended, starts>>
      BY <2>7 DEF ReadEOF, stream
    <3>2. pos = off[c] /\ c \in 1..(N + 1)
      BY <2>1, <3>1 DEF InFrame
    <3>3. pos \in starts
      BY <2>1, <3>2 DEF Chain
    <3>4. QED
      BY <3>1, <3>3, FailVerdict
  <2>8. CASE DecodeLength
    BY <2>3, <2>8 DEF DecodeLength
  <2>9. CASE LengthMalformed
    BY <2>9, FailVerdict DEF LengthMalformed
  <2>10. CASE LengthTruncated
    <3>1. /\ rpc = "len" /\ digits < LenDigits /\ ended
          /\ Fail("UnexpectedEOF") /\ UNCHANGED <<pos, ended, starts>>
      BY <2>10 DEF LengthTruncated, stream
    <3>2. /\ c \in 1..(N + 1) /\ c <= N /\ pos = off[c] + 1 + digits
          /\ InLength(sent[c])
      BY <2>1, <3>1 DEF InFrame
    <3>3. c \in 1..N
      BY <2>2, <3>2
    <3> DEFINE x == off[c]
               a == Len(sent[c].len)
               b == Len(sent[c].body)
    <3>4. x \in Nat /\ a \in Nat /\ b \in Nat /\ off[c + 1] = x + 1 + a + b
      BY <2>1, <3>3, FrameAt
    <3>5. digits < a
      BY <2>2, <3>1, <3>2, <3>4 DEF InLength, Malformed
    <3> HIDE DEF x, a, b
    <3>6. x < pos /\ pos < off[c + 1]
      BY SMTT(60), <2>2, <3>2, <3>4, <3>5 DEF x
    <3>7. pos \notin starts
      BY <2>1, <2>2, <3>3, <3>6, InsideIsNoStart DEF x
    <3>8. QED
      BY <3>1, <3>7, FailVerdict
  <2>11. CASE TooLarge
    BY <2>11, FailVerdict DEF TooLarge
  <2>12. CASE ReadBody
    <3>1. rpc = "body" /\ ReturnPacket(Unpack(fh, SubSeq(wire, 1, rLength)))
      BY <2>12 DEF ReadBody
    <3>2. /\ Len(got) \in Nat /\ Len(got') = Len(got) + 1
          /\ \A i \in 1..Len(got) : got'[i] = got[i]
          /\ got'[Len(got) + 1].err \in Errors \ {"EOF", "UnexpectedEOF"}
      BY <3>1, ReturnType
    <3>3. ASSUME NEW i \in 1..Len(got')
          PROVE  got'[i].err \notin {"EOF", "UnexpectedEOF"}
      <4>1. CASE i = Len(got) + 1
        BY <3>2, <4>1
      <4>2. CASE i \in 1..Len(got)
        BY <3>1, <3>2, <4>2 DEF Verdicts
      <4>3. QED
        BY <3>2, <4>1, <4>2
    <3>4. QED
      BY <3>3 DEF Verdicts, EofIsBoundary
  <2>13. CASE BodyTruncated
    <3>1. /\ rpc = "body" /\ Len(wire) < rLength /\ ended
          /\ Consume(Len(wire)) /\ Fail("UnexpectedEOF")
          /\ UNCHANGED <<ended, starts>> /\ pos' = pos + Len(wire)
      BY <2>13 DEF BodyTruncated, Consume, stream
    <3>2. /\ c \in 1..(N + 1) /\ c <= N /\ rLength = Len(sent[c].body)
          /\ pos = off[c] + 1 + Len(sent[c].len)
      BY <2>1, <3>1 DEF InFrame, InBody
    <3>3. c \in 1..N
      BY <2>2, <3>2
    <3> DEFINE x == off[c]
               a == Len(sent[c].len)
               b == Len(sent[c].body)
    <3>4. x \in Nat /\ a \in Nat /\ b \in Nat /\ off[c + 1] = x + 1 + a + b
      BY <2>1, <3>3, FrameAt
    <3>5. PICK y : y = pos + Len(wire)
      OBVIOUS
    <3>6. pos = x + 1 + a /\ rLength = b
      BY <3>2
    <3> HIDE DEF x, a, b
    <3>7. y \in Nat /\ x < y /\ y < off[c + 1]
      BY <2>2, <3>1, <3>4, <3>5, <3>6
    <3>8. y \notin starts
      BY <2>1, <3>3, <3>7, InsideIsNoStart DEF x
    <3>9. QED
      BY <3>1, <3>5, <3>8, FailVerdict
  <2>14. CASE UNCHANGED vars
    BY <2>14 DEF vars, stream, Verdicts, EofIsBoundary
  <2>15. QED
    BY <2>4, <2>5, <2>6, <2>7, <2>8, <2>9, <2>10, <2>11, <2>12, <2>13, <2>14
    DEF Next
<1>3. QED
  BY <1>1, <1>2, TypeInvariant, SyncInvariant, PTL DEF Spec

-----------------------------------------------------------------------------
(* Which frame a verdict answers, and how. *)

(* The header that the reader has taken is that of the frame it is in.     *)
HeaderTaken ==
  rpc \in {"len", "body"} =>
    /\ FlagsOK(sent[Len(got) + 1].b)
    /\ fh = HeaderOf(sent[Len(got) + 1].b)

Error(e) == [err |-> e, pkt |-> None]

Result(r) == IF r.err = "none" /\ r.left > 0
             THEN Error("TrailingBytes")
             ELSE [err |-> r.err, pkt |-> r.pkt]

AnswersFrame(g, f) ==
  \/ ~FlagsOK(f.b) /\ g = Error("InvalidFixedHeaderFlags")
  \/ Malformed(f) /\ g = Error("MalformedRemainingLength")
  \/ /\ FlagsOK(f.b) /\ Encodes(f)
     /\ g = IF Len(f.body) > limit THEN Error("PacketTooLarge")
                                   ELSE Result(Unpack(HeaderOf(f.b), f.body))

EndErrors == {Error("EOF"), Error("UnexpectedEOF")}

(* The i-th call met the end of the stream, or its verdict is the one that *)
(* the i-th frame asks for.                                                *)
AnswersAt(g, s, i) ==
  g[i] \in EndErrors \/ (i <= Len(s) /\ AnswersFrame(g[i], s[i]))

Answers == \A i \in 1..Len(got) : AnswersAt(got, sent, i)

(* The first byte of a frame is the one that its reader takes first.       *)
LEMMA FirstByte ==
  ASSUME PowerLaws, TypeInv, NEW off, Chain(off), OnWire(off), InFrame(off),
         rpc = "first", wire # <<>>
  PROVE  Len(got) + 1 \in 1..Len(sent) /\ wire[1] = sent[Len(got) + 1].b
<1> DEFINE c == Len(got) + 1
           N == Len(sent)
<1>1. /\ N \in Nat /\ Len(wire) \in Nat /\ pos \in Nat /\ c \in Nat
      /\ 1 \in 1..Len(wire)
  BY AppendFacts DEF TypeInv
<1>2. pos = off[c] /\ c \in 1..(N + 1)
  BY DEF InFrame
<1>3. c \in 1..N
  <2>1. off[N + 1] \in Nat /\ pos + Len(wire) <= off[N + 1]
    BY ChainMax DEF OnWire
  <2>2. c # N + 1
    BY <1>1, <1>2, <2>1
  <2>3. QED
    BY <1>1, <1>2, <2>2
<1>4. /\ sent[c] \in Frames /\ Len(sent[c].len) \in Nat
      /\ Len(sent[c].body) \in Nat
  BY <1>3, FrameAt
<1>5. /\ Len(Bytes(sent[c])) = 1 + Len(sent[c].len) + Len(sent[c].body)
      /\ Bytes(sent[c])[1] = sent[c].b
  BY <1>4, FrameFacts
<1>6. 1 \in 1..Len(Bytes(sent[c]))
  <2>1. \A a, b \in Nat : 1 \in 1..(1 + a + b)
    OBVIOUS
  <2>2. QED
    BY Zenon, <1>4, <1>5, <2>1
<1>7. pos + 1 = off[c] + 1
  BY <1>2
<1>8. wire[1] = Bytes(sent[c])[1]
  BY <1>1, <1>3, <1>6, <1>7 DEF OnWire
<1>9. QED
  BY Zenon, <1>3, <1>5, <1>8

(* The bytes that are taken for a body are the body.                       *)
LEMMA BodyBytes ==
  ASSUME PowerLaws, TypeInv, NEW off, Chain(off), OnWire(off), InFrame(off),
         rpc = "body", rLength <= Len(wire)
  PROVE  /\ Len(got) + 1 \in 1..Len(sent)
         /\ SubSeq(wire, 1, rLength) = sent[Len(got) + 1].body
<1> DEFINE c == Len(got) + 1
           N == Len(sent)
<1>1. /\ N \in Nat /\ Len(wire) \in Nat /\ pos \in Nat /\ c \in Nat
      /\ rLength \in Nat
  BY AppendFacts DEF TypeInv
<1>2. /\ c \in 1..(N + 1) /\ c <= N /\ rLength = Len(sent[c].body)
      /\ pos = off[c] + 1 + Len(sent[c].len)
  BY DEF InFrame, InBody
<1>3. c \in 1..N
  BY <1>1, <1>2
<1>4. /\ sent[c] \in Frames /\ Len(sent[c].len) \in Nat
      /\ Len(sent[c].body) \in Nat /\ off[c] \in Nat
  BY <1>3, FrameAt
<1>5. /\ Len(Bytes(sent[c])) = 1 + Len(sent[c].len) + Len(sent[c].body)
      /\ sent[c].body \in Seq(Byte)
      /\ \A k \in 1..Len(sent[c].body) :
           Bytes(sent[c])[1 + Len(sent[c].len) + k] = sent[c].body[k]
  BY <1>4, FrameFacts
<1>6. ASSUME NEW j \in 1..rLength PROVE wire[j] = sent[c].body[j]
  <2>1. j \in 1..Len(wire) /\ j \in 1..Len(sent[c].body) /\ j \in Nat
    BY <1>1, <1>2
  <2>2. PICK a \in Nat, b \in Nat, x \in Nat :
          a = Len(sent[c].len) /\ b = Len(sent[c].body) /\ x = off[c]
    BY Zenon, <1>4
  <2>3. pos = x + 1 + a /\ j \in 1..b
    BY Zenon, <1>2, <2>1, <2>2
  <2>4. 1 + a + j \in 1..(1 + a + b) /\ pos + j = x + (1 + a + j)
    <3>1. \A u, v, y, m \in Nat :
            m \in 1..v => /\ 1 + u + m \in 1..(1 + u + v)
                          /\ (y + 1 + u) + m = y + (1 + u + m)
      OBVIOUS
    <3>2. /\ 1 + a + j \in 1..(1 + a + b)
          /\ (x + 1 + a) + j = x + (1 + a + j)
      BY <2>1, <2>3, <3>1
    <3>3. QED
      BY Zenon, <2>3, <3>2
  <2>5. /\ 1 + a + j \in 1..Len(Bytes(sent[c]))
        /\ pos + j = off[c] + (1 + a + j)
    BY Zenon, <1>5, <2>2, <2>4
  <2>6. wire[j] = Bytes(sent[c])[1 + a + j]
    BY Zenon, <1>3, <2>1, <2>5 DEF OnWire
  <2>7. QED
    BY Zenon, <1>5, <2>1, <2>2, <2>6
<1>7. PICK w \in Seq(Byte) : w = wire
  BY DEF TypeInv
<1>8. PICK s \in Seq(Byte) : s = sent[c].body
  BY Zenon, <1>5
<1>9. PICK r \in 0..Len(w) : r = rLength
  BY <1>1, <1>7
<1>10. Len(s) = r /\ \A j \in 1..r : w[j] = s[j]
  BY Zenon, <1>2, <1>6, <1>7, <1>8, <1>9
<1>11. SubSeq(w, 1, r) = s
  BY <1>10
<1>12. QED
  BY Zenon, <1>3, <1>7, <1>8, <1>9, <1>11

(* A call returns x: one more answer.                                      *)
LEMMA AnswerAdded ==
  ASSUME TypeInv, Answers, NEW x, got' = Append(got, x), sent' = sent,
         \/ x \in EndErrors
         \/ /\ Len(got) + 1 <= Len(sent)
            /\ AnswersFrame(x, sent[Len(got) + 1])
  PROVE  Answers'
<1>1. /\ Len(got) \in Nat /\ Len(got') = Len(got) + 1
      /\ \A i \in 1..Len(got) : got'[i] = got[i]
      /\ got'[Len(got) + 1] = x
  BY AppendFacts DEF TypeInv
<1>2. ASSUME NEW i \in 1..Len(got') PROVE AnswersAt(got', sent', i)
  <2>1. CASE i = Len(got) + 1
    BY Zenon, <1>1, <2>1 DEF AnswersAt
  <2>2. CASE i \in 1..Len(got)
    <3>1. AnswersAt(got, sent, i)
      BY Zenon, <2>2 DEF Answers
    <3>2. QED
      BY Zenon, <1>1, <2>2, <3>1 DEF AnswersAt
  <2>3. i = Len(got) + 1 \/ i \in 1..Len(got)
    BY <1>1
  <2>4. QED
    BY Zenon, <2>1, <2>2, <2>3
<1>3. QED
  BY Zenon, <1>2 DEF Answers

LEMMA FailAnswer ==
  ASSUME TypeInv, Answers, NEW e, Fail(e), sent' = sent,
         \/ e \in {"EOF", "UnexpectedEOF"}
         \/ /\ Len(got) + 1 <= Len(sent)
            /\ AnswersFrame(Error(e), sent[Len(got) + 1])
  PROVE  HeaderTaken' /\ Answers'
<1>1. got' = Append(got, Error(e)) /\ rpc' = "end"
  BY DEF Fail, Error
<1>2. e \in {"EOF", "UnexpectedEOF"} => Error(e) \in EndErrors
  BY Zenon DEF EndErrors
<1>3. Answers'
  BY Zenon, <1>1, <1>2, AnswerAdded
<1>4. HeaderTaken'
  BY <1>1 DEF HeaderTaken
<1>5. QED
  BY <1>3, <1>4

LEMMA AnswersInvariant ==
  ASSUME PowerLaws
  PROVE  Spec => [](HeaderTaken /\ Answers)
<1>1. Init => HeaderTaken /\ Answers
  <2> SUFFICES ASSUME Init PROVE HeaderTaken /\ Answers
    OBVIOUS
  <2>1. 1..Len(got) = {} /\ rpc = "first"
    BY DEF Init
  <2>2. QED
    BY <2>1 DEF HeaderTaken, Answers
<1>2. TypeInv /\ SyncInv /\ HeaderTaken /\ Answers /\ [Next]_vars
        => HeaderTaken' /\ Answers'
  <2> SUFFICES ASSUME TypeInv, SyncInv, HeaderTaken, Answers, [Next]_vars
               PROVE  HeaderTaken' /\ Answers'
    OBVIOUS
  <2>1. PICK off : Chain(off) /\ OnWire(off) /\ InFrame(off)
    BY Zenon DEF SyncInv
  <2> DEFINE c == Len(got) + 1
             N == Len(sent)
  <2>2. /\ N \in Nat /\ Len(wire) \in Nat /\ digits \in Nat
        /\ rLength \in Nat /\ c \in Nat /\ LenDigits \in Nat
    <3>1. Len(got) \in Nat
      BY AppendFacts DEF TypeInv
    <3>2. QED
      BY <3>1, CodecConstants DEF TypeInv
  <2>3. ASSUME UNCHANGED <<sent, got, rpc, fh>> PROVE HeaderTaken' /\ Answers'
    <3>1. HeaderTaken'
      BY <2>3 DEF HeaderTaken
    <3>2. Answers'
      BY Zenon, <2>3 DEF Answers
    <3>3. QED
      BY <3>1, <3>2
  (* Inside a frame: which one. *)
  <2>4. ASSUME rpc \in {"len", "body"}
        PROVE  c \in 1..N /\ c <= N /\ FlagsOK(sent[c].b)
    <3>1. c \in 1..(N + 1) /\ c <= N
      BY <2>1, <2>4 DEF InFrame
    <3>2. c \in 1..N
      BY <2>2, <3>1
    <3>3. QED
      BY Zenon, <2>4, <3>1, <3>2 DEF HeaderTaken
  <2>5. ASSUME NEW f \in Written \cup Foreign, Write(f)
        PROVE  HeaderTaken' /\ Answers'
    <3>1. /\ Len(sent') = N + 1 /\ \A i \in 1..N : sent'[i] = sent[i]
          /\ got' = got /\ rpc' = rpc /\ fh' = fh
      <4>1. f \in Frames
        BY DEF Frames
      <4>2. QED
        BY <2>5, <4>1 DEF Write, TypeInv
    <3>2. HeaderTaken'
      <4> SUFFICES ASSUME rpc' \in {"len", "body"}
                   PROVE  /\ FlagsOK(sent'[Len(got') + 1].b)
                          /\ fh' = HeaderOf(sent'[Len(got') + 1].b)
        BY Zenon DEF HeaderTaken
      <4>1. rpc \in {"len", "body"} /\ sent'[Len(got') + 1] = sent[c]
        BY Zenon, <2>4, <3>1
      <4>2. QED
        BY Zenon, <3>1, <4>1 DEF HeaderTaken
    <3>3. Answers'
      <4> SUFFICES ASSUME NEW i \in 1..Len(got')
                   PROVE  AnswersAt(got', sent', i)
        BY Zenon DEF Answers
      <4>1. got' = got /\ AnswersAt(got, sent, i)
        BY Zenon, <3>1 DEF Answers
      <4>2. CASE got[i] \in EndErrors
        BY Zenon, <4>1, <4>2 DEF AnswersAt
      <4>3. CASE i <= N /\ AnswersFrame(got[i], sent[i])
        <5>1. i \in 1..N /\ i <= N + 1
          <6>1. Len(got) \in Nat /\ i \in Nat /\ i >= 1
            BY <4>1, AppendFacts DEF TypeInv
          <6>2. QED
            BY <2>2, <4>3, <6>1
        <5>2. QED
          BY Zenon, <3>1, <4>1, <4>3, <5>1 DEF AnswersAt
      <4>4. QED
        BY Zenon, <4>1, <4>2, <4>3 DEF AnswersAt
    <3>4. QED
      BY <3>2, <3>3
  <2>6. ASSUME NEW k \in 0..Len(wire), End(k) PROVE HeaderTaken' /\ Answers'
    BY <2>3, <2>6 DEF End
  <2>7. CASE ReadFirst
    <3>1. rpc = "first" /\ wire # <<>> /\ sent' = sent
      BY <2>7 DEF ReadFirst, stream
    <3>2. c \in 1..N /\ wire[1] = sent[c].b
      BY Zenon, <2>1, <3>1, FirstByte
    <3>3. CASE FlagsOK(wire[1])
      <4>1. rpc' = "len" /\ fh' = HeaderOf(wire[1]) /\ got' = got
        BY <2>7, <3>3 DEF ReadFirst
      <4>2. HeaderTaken'
        BY Zenon, <3>1, <3>2, <3>3, <4>1 DEF HeaderTaken
      <4>3. Answers'
        BY Zenon, <3>1, <4>1 DEF Answers
      <4>4. QED
        BY <4>2, <4>3
    <3>4. CASE ~FlagsOK(wire[1])
      <4>1. Fail("InvalidFixedHeaderFlags")
        BY <2>7, <3>4 DEF ReadFirst
      <4>2. AnswersFrame(Error("InvalidFixedHeaderFlags"), sent[c])
        BY Zenon, <3>2, <3>4 DEF AnswersFrame
      <4>3. c <= N
        BY <2>2, <3>2
      <4>4. QED
        BY Zenon, <3>1, <4>1, <4>2, <4>3, FailAnswer
    <3>5. QED
      BY <3>3, <3>4
  <2>8. CASE ReadEOF
    <3>1. Fail("EOF") /\ sent' = sent
      BY <2>8 DEF ReadEOF, stream
    <3>2. QED
      BY Zenon, <3>1, FailAnswer
  <2>9. CASE DecodeLength
    <3>1. rpc = "len" /\ UNCHANGED <<fh, got, sent>>
      BY <2>9 DEF DecodeLength, stream
    <3>2. HeaderTaken'
      BY Zenon, <3>1 DEF HeaderTaken
    <3>3. Answers'
      BY Zenon, <3>1 DEF Answers
    <3>4. QED
      BY <3>2, <3>3
  <2>10. CASE LengthMalformed
    <3>1. /\ rpc = "len" /\ digits = LenDigits /\ sent' = sent
          /\ Fail("MalformedRemainingLength")
      BY <2>10 DEF LengthMalformed, stream
    <3>2. c \in 1..N /\ c <= N
      BY Zenon, <2>4, <3>1
    <3>3. Malformed(sent[c])
      <4>1. InLength(sent[c])
        BY <2>1, <3>1 DEF InFrame
      <4>2. sent[c] \in Frames /\ Len(sent[c].body) \in Nat
        BY Zenon, <2>1, <3>2, FrameAt
      <4> SUFFICES ASSUME Encodes(sent[c]), digits < Len(sent[c].len)
                   PROVE  FALSE
        BY Zenon, <4>1 DEF InLength
      <4>3. Len(sent[c].len) \in 1..LenDigits
        BY Zenon, <4>2, LengthEncoded DEF Encodes
      <4>4. QED
        BY <2>2, <3>1, <4>3
    <3>4. AnswersFrame(Error("MalformedRemainingLength"), sent[c])
      BY Zenon, <3>3 DEF AnswersFrame
    <3>5. QED
      BY Zenon, <3>1, <3>2, <3>4, FailAnswer
  <2>11. CASE LengthTruncated
    <3>1. Fail("UnexpectedEOF") /\ sent' = sent
      BY <2>11 DEF LengthTruncated, stream
    <3>2. QED
      BY Zenon, <3>1, FailAnswer
  <2>12. CASE TooLarge
    <3>1. /\ rpc = "body" /\ rLength > limit /\ sent' = sent
          /\ Fail("PacketTooLarge")
      BY <2>12 DEF TooLarge, stream
    <3>2. c \in 1..N /\ c <= N /\ FlagsOK(sent[c].b)
      BY Zenon, <2>4, <3>1
    <3>3. InBody(sent[c])
      BY <2>1, <3>1 DEF InFrame
    <3>4. AnswersFrame(Error("PacketTooLarge"), sent[c])
      BY Zenon, <3>1, <3>2, <3>3 DEF AnswersFrame, InBody
    <3>5. QED
      BY Zenon, <3>1, <3>2, <3>4, FailAnswer
  <2>13. CASE ReadBody
    <3>1. /\ rpc = "body" /\ rLength <= limit /\ rLength <= Len(wire)
          /\ ReturnPacket(Unpack(fh, SubSeq(wire, 1, rLength)))
          /\ sent' = sent
      BY <2>2, <2>13 DEF ReadBody, stream
    <3>2. c \in 1..N /\ c <= N /\ FlagsOK(sent[c].b)
      BY Zenon, <2>4, <3>1
    <3>3. InBody(sent[c])
      BY <2>1, <3>1 DEF InFrame
    <3>4. fh = HeaderOf(sent[c].b)
      BY Zenon, <3>1 DEF HeaderTaken
    <3>5. SubSeq(wire, 1, rLength) = sent[c].body
      BY Zenon, <2>1, <3>1, BodyBytes
    <3>6. PICK r : r = Unpack(HeaderOf(sent[c].b), sent[c].body)
      OBVIOUS
    <3>7. ReturnPacket(r)
      BY Zenon, <3>1, <3>4, <3>5, <3>6
    <3>8. got' = Append(got, Result(r)) /\ rpc' = "first"
      BY Zenon, <3>7 DEF ReturnPacket, Result, Error
    <3>9. ~(Len(sent[c].body) > limit)
      <4>1. limit \in Nat
        BY PowerGrows, CodecConstants DEF limit, MaxRemainingLength
      <4>2. QED
        BY <2>2, <3>1, <3>3, <4>1 DEF InBody
    <3>10. AnswersFrame(Result(r), sent[c])
      BY Zenon, <3>2, <3>3, <3>6, <3>9 DEF AnswersFrame, InBody
    <3>11. Answers'
      BY Zenon, <3>1, <3>2, <3>8, <3>10, AnswerAdded
    <3>12. HeaderTaken'
      BY <3>8 DEF HeaderTaken
    <3>13. QED
      BY <3>11, <3>12
  <2>14. CASE BodyTruncated
    <3>1. Fail("UnexpectedEOF") /\ sent' = sent
      BY <2>14 DEF BodyTruncated, stream
    <3>2. QED
      BY Zenon, <3>1, FailAnswer
  <2>15. CASE UNCHANGED vars
    BY <2>3, <2>15 DEF vars, stream
  <2>16. QED
    BY <2>5, <2>6, <2>7, <2>8, <2>9, <2>10, <2>11, <2>12, <2>13, <2>14,
       <2>15
    DEF Next
<1>3. QED
  BY <1>1, <1>2, TypeInvariant, SyncInvariant, PTL DEF Spec

-----------------------------------------------------------------------------
(* The types: the reader never runs past what was written, reads at most   *)
(* LenDigits digits, and the remaining length stays within its bound.      *)
THEOREM TypeCorrect ==
  ASSUME PowerLaws
  PROVE  Spec => []TypeOK
<1>1. TypeInv /\ SyncInv => TypeOK
  <2> SUFFICES ASSUME TypeInv, SyncInv PROVE TypeOK
    OBVIOUS
  <2>1. PICK off : Chain(off) /\ OnWire(off)
    BY DEF SyncInv
  <2>2. Max(starts) = off[Len(sent) + 1] /\ off[Len(sent) + 1] \in Nat
    BY <2>1, ChainMax
  <2>3. pos \in Nat /\ Len(wire) \in Nat
    BY DEF TypeInv
  <2>4. pos + Len(wire) <= off[Len(sent) + 1]
    BY <2>1 DEF OnWire
  <2>5. pos \in 0..Max(starts)
    BY <2>2, <2>3, <2>4
  <2>6. rLength \in 0..MaxRemainingLength
    <3>1. MaxRemainingLength \in Nat
      BY PowerGrows, CodecConstants DEF MaxRemainingLength
    <3>2. QED
      BY <3>1 DEF TypeInv, SyncInv
  <2>7. QED
    BY <2>5, <2>6 DEF TypeInv, TypeOK
<1>2. QED
  BY <1>1, TypeInvariant, SyncInvariant, PTL

(* EofIsBoundary: ReadPacketLimit returns io.EOF only for a stream that    *)
(* ends on a packet boundary, io.ErrUnexpectedEOF only for one that ends   *)
(* inside a packet.                                                        *)
THEOREM EndIsTold ==
  ASSUME PowerLaws
  PROVE  Spec => []EofIsBoundary
<1>1. Verdicts => EofIsBoundary
  BY DEF Verdicts
<1>2. QED
  BY <1>1, VerdictsInvariant, PTL

(* InSync: every call of ReadPacketLimit starts where a frame starts, and  *)
(* has as many frames behind it as calls have returned, whatever the       *)
(* packets held.                                                           *)
THEOREM ReaderInSync ==
  ASSUME PowerLaws
  PROVE  Spec => []InSync
<1>1. TypeInv /\ SyncInv => InSync
  <2> SUFFICES ASSUME TypeInv, SyncInv, rpc = "first"
               PROVE  /\ pos \in starts
                      /\ Cardinality({s \in starts : s < pos}) = Len(got)
    BY DEF InSync
  <2> DEFINE n == Len(got)
             N == Len(sent)
             S == {s \in starts : s < pos}
  <2>1. PICK off : Chain(off) /\ InFrame(off)
    BY DEF SyncInv
  <2>2. n \in Nat /\ N \in Nat
    BY AppendFacts DEF TypeInv
  <2>3. n + 1 \in 1..(N + 1) /\ pos = off[n + 1]
    BY <2>1 DEF InFrame
  <2>4. pos \in starts
    BY <2>1, <2>3 DEF Chain
  <2>5. \A i \in 1..(N + 1) : off[i] \in Nat /\ (off[i] < pos <=> i <= n)
    <3> SUFFICES ASSUME NEW i \in 1..(N + 1)
                 PROVE  off[i] \in Nat /\ (off[i] < pos <=> i <= n)
      OBVIOUS
    <3>1. off[i] \in Nat /\ off[n + 1] \in Nat
      BY <2>1, <2>3 DEF Chain
    <3>2. CASE i <= n
      BY <2>1, <2>2, <2>3, <3>1, <3>2 DEF Chain
    <3>3. CASE n + 1 <= i
      <4>1. off[n + 1] <= off[i]
        BY <2>1, <2>3, <3>3, ChainMonotone
      <4>2. QED
        BY <2>2, <2>3, <3>1, <3>3, <4>1
    <3>4. QED
      BY <2>2, <3>2, <3>3
  <2>6. S = {off[i] : i \in 1..n}
    <3>1. starts = {off[i] : i \in 1..(N + 1)}
      BY <2>1 DEF Chain
    <3>2. 1..n = {i \in 1..(N + 1) : i <= n}
      BY <2>2, <2>3
    <3>3. QED
      BY <2>5, <3>1, <3>2
  <2> DEFINE g == [i \in 1..n |-> off[i]]
  <2>7. ExistsBijection(1..n, S)
    <3>1. g \in [1..n -> S]
      BY <2>6
    <3>2. \A i, j \in 1..n : g[i] = g[j] => i = j
      <4> SUFFICES ASSUME NEW i \in 1..n, NEW j \in 1..n, off[i] = off[j]
                   PROVE  i = j
        OBVIOUS
      <4>1. i \in 1..(N + 1) /\ j \in 1..(N + 1)
        BY <2>2, <2>3
      <4>2. off[i] \in Nat /\ off[j] \in Nat
        BY <2>5, <4>1
      <4>3. ~(i < j) /\ ~(j < i)
        BY <2>1, <4>1, <4>2 DEF Chain
      <4>4. QED
        BY <2>2, <4>3
    <3>3. \A t \in S : \E i \in 1..n : g[i] = t
      BY <2>6
    <3> HIDE DEF g, S
    <3>4. g \in Bijection(1..n, S)
      BY <3>1, <3>2, <3>3 DEF Bijection, Injection, Surjection,
                                 IsInjective
    <3>5. QED
      BY <3>4 DEF ExistsBijection
  <2>8. Cardinality(S) = n
    <3> HIDE DEF n, S
    <3>1. QED
      BY <2>2, <2>7, FS_CountingElements
  <2>9. QED
    BY <2>4, <2>8
<1>2. QED
  BY <1>1, TypeInvariant, SyncInvariant, PTL

(* FilterSemantics: for filters and topics that were read and pass         *)
(* Validate, MatchFilter decides what section 4.7 of MQTT 3.1.1 says, "$"  *)
(* topics included.                                                        *)
THEOREM FiltersDecided == Spec => []FilterSemantics
<1>1. FilterSemantics
  <2> SUFFICES ASSUME NEW i \in 1..Len(got), NEW j \in 1..Len(got),
                      IsValid(got[i].pkt, Subscribe),
                      IsValid(got[j].pkt, Publish),
                      NEW k \in 1..Len(got[i].pkt.topics)
               PROVE  MatchFilter(got[i].pkt.topics[k], got[j].pkt.topic) =
                        /\ LevelsMatch(Split(got[i].pkt.topics[k]),
                                       Split(got[j].pkt.topic))
                        /\ HasPrefix(Split(got[j].pkt.topic)[1], DollarCh)
                             => Split(got[i].pkt.topics[k])[1]
                                  \notin {Hash, Plus}
    BY DEF FilterSemantics
  <2>1. ValidatePattern(got[i].pkt.topics[k])
    <3>1. got[i].pkt.h.type = Subscribe /\ Valid(got[i].pkt)
      BY DEF IsValid
    <3>2. SubscribeValid(got[i].pkt)
      BY <3>1
      DEF Valid, Connect, Publish, Subscribe, Unsubscribe, Suback
    <3>3. QED
      BY <3>2 DEF SubscribeValid
  <2>2. ValidateTopic(got[j].pkt.topic)
    <3>1. got[j].pkt.h.type = Publish /\ Valid(got[j].pkt)
      BY DEF IsValid
    <3>2. PublishValid(got[j].pkt)
      BY <3>1
      DEF Valid, Connect, Publish, Subscribe, Unsubscribe, Suback
    <3>3. QED
      BY <3>2 DEF PublishValid
  <2> DEFINE f == got[i].pkt.topics[k]
             t == got[j].pkt.topic
  <2>3. MatchFilter(f, t) \in BOOLEAN
    BY DEF MatchFilter
  <2>4. MatchFilter(f, t) <=>
          /\ LevelsMatch(Split(f), Split(t))
          /\ HasPrefix(Split(t)[1], DollarCh)
               => Split(f)[1] \notin {Hash, Plus}
    <3>1. ValidatePattern(f) /\ ValidateTopic(t)
      BY <2>1, <2>2
    <3> HIDE DEF f, t
    <3>2. QED
      BY <3>1, MatchFilterCorrect
  <2>5. QED
    BY <2>3, <2>4
<1>2. QED
  BY <1>1, PTL

(* A frame that stands for a packet was written by WriteTo.                *)
LEMMA WrittenFrame ==
  ASSUME NEW f \in Frames, f.pkt # None
  PROVE  \E p : IsPacket(p) /\ ~WriteRefuses(p) /\ f = Frame(p)
<1>1. f \in Written
  <2>1. f \notin Foreign
    BY Zenon, FramesType
  <2>2. QED
    BY Zenon, <2>1 DEF Frames
<1>2. PICK p \in Packets : ~WriteRefuses(p) /\ f = Frame(p)
  BY <1>1 DEF Written
<1>3. IsPacket(p)
  BY Zenon, FramesType
<1>4. QED
  BY Zenon, <1>2, <1>3

(* A length that was encoded is not malformed.                             *)
LEMMA EncodesEnds ==
  ASSUME PowerLaws, NEW f \in Frames, Encodes(f)
  PROVE  ~Malformed(f)
<1> SUFFICES ASSUME Malformed(f) PROVE FALSE
  OBVIOUS
<1>1. Len(f.body) \in Nat
  BY FrameFacts
<1>2. /\ Len(f.len) \in 1..LenDigits
      /\ \A i \in 1..Len(f.len) : f.len[i] >= 128 <=> i < Len(f.len)
  BY Zenon, <1>1, LengthEncoded DEF Encodes
<1>3. LenDigits \in Nat /\ LenDigits >= 1
  BY CodecConstants
<1>4. Len(f.len) = LenDigits /\ LenDigits \in 1..LenDigits
  BY <1>2, <1>3 DEF Malformed
<1>5. f.len[LenDigits] >= 128
  BY Zenon, <1>4 DEF Malformed
<1>6. LenDigits < LenDigits
  BY Zenon, <1>2, <1>4, <1>5
<1>7. QED
  BY <1>3, <1>6

(* Every call of ReadPacketLimit meets the end of the stream or answers    *)
(* the frame whose turn it is: the error of its header byte or its length, *)
(* or what Unpack makes of the body that was sent under the header that    *)
(* was sent.                                                               *)
THEOREM FramesAnswered ==
  ASSUME PowerLaws
  PROVE  Spec => []Answers
BY AnswersInvariant, PTL

(* RoundTrip: every packet that WriteTo writes is what ReadPacketLimit     *)
(* returns in its turn, whatever frames of others lie between and wherever *)
(* the stream is cut, or its length is above the limit.                    *)
THEOREM PacketsComeBack ==
  ASSUME PowerLaws
  PROVE  Spec => []RoundTrip
<1>1. TypeInv /\ Answers => RoundTrip
  <2> SUFFICES ASSUME TypeInv, Answers, NEW i \in 1..Len(got),
                      got[i].err \notin {"EOF", "UnexpectedEOF"},
                      sent[i].pkt # None
               PROVE  IF Len(sent[i].body) > limit
                      THEN got[i].err = "PacketTooLarge"
                      ELSE got[i] = [err |-> "none", pkt |-> sent[i].pkt]
    BY Zenon DEF RoundTrip
  <2> DEFINE f == sent[i]
  <2>1. \A e : Error(e).err = e
    BY DEF Error
  <2>2. got[i] \notin EndErrors
    BY Zenon, <2>1 DEF EndErrors
  <2>3. i <= Len(sent) /\ AnswersFrame(got[i], f)
    BY Zenon, <2>2 DEF Answers, AnswersAt
  <2>4. f \in Frames
    <3>1. i \in 1..Len(sent)
      BY <2>3, AppendFacts DEF TypeInv
    <3>2. QED
      BY <3>1 DEF TypeInv
  <2>5. PICK p : IsPacket(p) /\ ~WriteRefuses(p) /\ f = Frame(p)
    BY Zenon, <2>4, WrittenFrame
  <2>6. /\ f.b = HeaderByte(p.h) /\ f.body = Body(p) /\ f.pkt = p
        /\ f.len = EncodedLength(Len(Body(p)))
    BY <2>5 DEF Frame
  <2>7. HeaderReads(p.h) /\ ReadsBack(p)
    BY Zenon, <2>5, PacketRead
  <2>8. /\ FlagsOK(f.b) /\ HeaderOf(f.b) = p.h
        /\ Unpack(HeaderOf(f.b), f.body) = Unpacked(p, <<>>)
    BY Zenon, <2>6, <2>7 DEF HeaderReads, ReadsBack
  <2>9. ~Malformed(f)
    <3>1. Len(f.body) \in Nat /\ MaxRemainingLength \in Nat
      <4>1. f.body \in Seq(Byte)
        BY Zenon, <2>4, FrameFacts
      <4>2. QED
        BY <4>1, LimitType
    <3>2. ~(Len(f.body) > MaxRemainingLength)
      BY Zenon, <2>5, <2>6 DEF WriteRefuses
    <3>3. Len(f.body) <= MaxRemainingLength
      BY <3>1, <3>2
    <3>4. Encodes(f)
      BY Zenon, <2>6, <3>3 DEF Encodes
    <3>5. QED
      BY Zenon, <2>4, <3>4, EncodesEnds
  <2>10. Result(Unpacked(p, <<>>)) = [err |-> "none", pkt |-> p]
    BY DEF Result, Unpacked
  <2>11. got[i] = IF Len(f.body) > limit THEN Error("PacketTooLarge")
                  ELSE Result(Unpack(HeaderOf(f.b), f.body))
    BY Zenon, <2>3, <2>8, <2>9 DEF AnswersFrame
  <2>12. CASE Len(f.body) > limit
    BY Zenon, <2>1, <2>11, <2>12
  <2>13. CASE ~(Len(f.body) > limit)
    BY Zenon, <2>6, <2>8, <2>10, <2>11, <2>13
  <2>14. QED
    BY Zenon, <2>12, <2>13
<1>2. QED
  BY <1>1, TypeInvariant, AnswersInvariant, PTL

LEMMA AnswersForwarded ==
  ASSUME PowerLaws, FullField
  PROVE  TypeInv /\ Answers => ValidCanBeWritten
<1> SUFFICES ASSUME TypeInv, Answers, NEW i \in 1..Len(got),
                    got[i].pkt # None, Valid(got[i].pkt)
             PROVE  Forwardable(got[i].pkt)
  BY Zenon DEF ValidCanBeWritten, Forwardable
<1> DEFINE f == sent[i]
           p == got[i].pkt
           h == HeaderOf(f.b)
<1>1. \A e : Error(e).pkt = None
  BY DEF Error
<1>2. got[i] \notin EndErrors
  BY Zenon, <1>1 DEF EndErrors
<1>3. i <= Len(sent) /\ AnswersFrame(got[i], f)
  BY Zenon, <1>2 DEF Answers, AnswersAt
<1>4. f \in Frames
  <2>1. i \in 1..Len(sent)
    BY <1>3, AppendFacts DEF TypeInv
  <2>2. QED
    BY <2>1 DEF TypeInv
<1>5. /\ FlagsOK(f.b) /\ Encodes(f)
      /\ got[i] = Result(Unpack(h, f.body))
  BY Zenon, <1>1, <1>3 DEF AnswersFrame
<1>6. PICK r : r = Unpack(h, f.body)
  OBVIOUS
<1>7. r.err = "none" /\ r.pkt = p
  <2>1. OfUnpack(r)
    BY Zenon, <1>6, UnpackVerdict
  <2>2. ~(r.err = "none" /\ r.left > 0)
    BY Zenon, <1>1, <1>5, <1>6 DEF Result
  <2>3. got[i] = [err |-> r.err, pkt |-> r.pkt]
    BY Zenon, <1>5, <1>6, <2>2 DEF Result
  <2>4. got[i].pkt = r.pkt
    BY <2>3
  <2>5. QED
    BY Zenon, <2>1, <2>4 DEF OfUnpack
<1>8. Decodes(h, f.body, p)
  BY Zenon, <1>6, <1>7 DEF Decodes
<1>9. IsHeader(h) /\ h.qos <= 2
  <2>1. f.b \in Byte
    BY Zenon, <1>4, FrameFacts
  <2>2. QED
    BY Zenon, <1>5, <2>1, HeaderType
<1>10. /\ f.body \in String /\ Len(f.body) <= MaxRemainingLength
       /\ MaxRemainingLength \in Nat
  <2>1. f.body \in String
    BY Zenon, <1>4, FrameFacts DEF String
  <2>2. MaxRemainingLength \in Nat
    BY Zenon, LimitType
  <2>3. QED
    BY Zenon, <1>5, <2>1, <2>2 DEF Encodes
<1>11. QED
  BY Zenon, <1>8, <1>9, <1>10, ValidForward

(* ValidCanBeWritten, for the field length of the code: what was read and  *)
(* passes Validate can be written again, and is read back as it is.        *)
THEOREM ValidIsForwarded ==
  ASSUME PowerLaws, MaxField = 65535
  PROVE  Spec => []ValidCanBeWritten
<1>1. FullField
  BY DEF FullField, Uint16s
<1>2. TypeInv /\ Answers => ValidCanBeWritten
  BY SMT, <1>1, AnswersForwarded
<1>3. QED
  BY <1>2, TypeInvariant, AnswersInvariant, PTL
=============================================================================
