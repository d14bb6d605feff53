----------------------------- MODULE MqttCodec -----------------------------
(***************************************************************************)
(* The MQTT packet codec (src/packets/mqtt): WriteTo of every packet type, *)
(* ReadPacketLimit and the Unpack it calls, and the Validate methods.  A   *)
(* writer puts frames on a byte stream that may end at any byte; a reader  *)
(* calls ReadPacketLimit until it fails for good.  Frames come from the    *)
(* encoder here, or from another implementation.                           *)
(*                                                                         *)
(* Bytes are numbers.  The base of the remaining length is a parameter     *)
(* (128 in the code, its continuation bit is kept) so that short packets   *)
(* reach every length of it; so are the limits.  The two protocol names    *)
(* are one byte long.                                                      *)
(***************************************************************************)
EXTENDS MqttTopics, FiniteSets

CONSTANTS
  Base, LenDigits,   \* 128 and 4: digits of the remaining length
  MaxLength,         \* the maxRemainingLength passed to ReadPacketLimit
  Packets,           \* packets an application writes
  Foreign,           \* frames of other implementations
  MaxFrames,         \* how many frames are written
  None

ASSUME CodecConstants ==
  /\ Base \in 2..128 /\ 128 % Base = 0 /\ LenDigits \in Nat \ {0}
  /\ MaxLength \in Nat /\ MaxFrames \in Nat

Connect     == 1
Connack     == 2
Publish     == 3
Puback      == 4
Pubrec      == 5
Pubrel      == 6
Pubcomp     == 7
Subscribe   == 8
Suback      == 9
Unsubscribe == 10
Unsuback    == 11
Pingreq     == 12
Pingresp    == 13
Disconnect  == 14

MQTT   == <<77>>
MQIsdp == <<73>>

MaxRemainingLength == Base ^ LenDigits - 1

(* NewControlPacket: the header of a new packet.                           *)
NewHeader(type) ==
  [type |-> type, dup |-> FALSE, retain |-> FALSE,
   qos |-> IF type \in {Pubrel, Subscribe, Unsubscribe} THEN 1 ELSE 0]

(* The packets an application may build, with whatever content: the header *)
(* is NewControlPacket's except for the flags that a type leaves free, and *)
(* CONNECT has the strings that its flags announce.                        *)
Byte    == 0..255
Uint16s == {n \in Nat : n < 65536}
String  == Seq(Byte)

boolToByte(b) == IF b THEN 1 ELSE 0

IsHeader(h) ==
  /\ h \in [type : Connect..Disconnect, dup : BOOLEAN, retain : BOOLEAN,
             qos : Byte]
  /\ h.type # Publish =>
       h \in {NewHeader(h.type), [NewHeader(h.type) EXCEPT !.dup = TRUE]}
  /\ h.dup => h.type \in {Publish, Pubrel, Subscribe, Unsubscribe}

IsPacket(p) ==
  LET t == p.h.type
  IN  /\ IsHeader(p.h)
      /\ CASE t = Connect ->
                /\ p \in [h : {p.h}, name : String, ver : Byte,
                          reserved : {0}, clean : BOOLEAN, will : BOOLEAN,
                          wqos : Byte, wretain : BOOLEAN, pass : BOOLEAN,
                          user : BOOLEAN, keep : Uint16s, strs : Seq(String)]
                /\ Len(p.strs) = 1 + 2 * boolToByte(p.will)
                                   + boolToByte(p.user) + boolToByte(p.pass)
           [] t = Connack ->
                p \in [h : {p.h}, present : BOOLEAN, code : Byte]
           [] t = Publish ->
                /\ p \in [h : {p.h}, topic : String, id : Uint16s,
                          payload : String]
                /\ p.h.qos = 0 => p.id = 0
           [] t = Subscribe ->
                p \in [h : {p.h}, id : Uint16s, topics : Seq(String),
                       qoss : String]
           [] t = Unsubscribe ->
                p \in [h : {p.h}, id : Uint16s, topics : Seq(String)]
           [] t = Suback ->
                p \in [h : {p.h}, id : Uint16s, codes : String]
           [] t \in {Pingreq, Pingresp, Disconnect} -> p \in [h : {p.h}]
           [] OTHER -> p \in [h : {p.h}, id : Uint16s]

-----------------------------------------------------------------------------
(* Writing *)

Uint16(n) == <<n \div 256, n % 256>>

(* A length above MaxField does not fit in the two bytes.                  *)
LengthPrefixed(s) == Uint16(Len(s) % (MaxField + 1)) \o s

Strings(ss) == FlattenSeq([i \in 1..Len(ss) |-> LengthPrefixed(ss[i])])

ConnectFlags(p) ==
  boolToByte(p.clean) * 2 + boolToByte(p.will) * 4 + p.wqos * 8
    + boolToByte(p.wretain) * 32 + boolToByte(p.pass) * 64
    + boolToByte(p.user) * 128

(* p.strs: client identifier, will topic and message, user name, password, *)
(* those that the flags announce.                                          *)
ConnectBody(p) == LengthPrefixed(p.name) \o <<p.ver, ConnectFlags(p)>>
                    \o Uint16(p.keep) \o Strings(p.strs)

ConnackBody(p) == <<boolToByte(p.present), p.code>>

PublishBody(p) == LengthPrefixed(p.topic)
                    \o (IF p.h.qos > 0 THEN Uint16(p.id) ELSE <<>>)
                    \o p.payload

SubscribeBody(p) ==
  Uint16(p.id) \o FlattenSeq([i \in 1..Len(p.topics) |->
                     LengthPrefixed(p.topics[i]) \o <<p.qoss[i]>>])

UnsubscribeBody(p) == Uint16(p.id) \o Strings(p.topics)

SubackBody(p) == Uint16(p.id) \o p.codes

Body(p) ==
  CASE p.h.type = Connect     -> ConnectBody(p)
    [] p.h.type = Connack     -> ConnackBody(p)
    [] p.h.type = Publish     -> PublishBody(p)
    [] p.h.type = Subscribe   -> SubscribeBody(p)
    [] p.h.type = Unsubscribe -> UnsubscribeBody(p)
    [] p.h.type = Suback      -> SubackBody(p)
    [] p.h.type \in {Puback, Pubrec, Pubrel, Pubcomp, Unsuback} ->
         Uint16(p.id)
    [] OTHER -> <<>>

HeaderByte(h) == h.type * 16 + boolToByte(h.dup) * 8 + h.qos * 2
                   + boolToByte(h.retain)

(* The digits of l, least significant first, all but the last with the     *)
(* continuation bit.                                                       *)
EncodedLength(l) ==
  LET n == CHOOSE k \in 1..(l + 1) : /\ l < Base ^ k
                                     /\ k > 1 => l >= Base ^ (k - 1)
  IN  [i \in 1..n |-> ((l \div Base ^ (i - 1)) % Base)
                        + (IF i < n THEN 128 ELSE 0)]

(* The string and bytes fields of a packet.                                *)
FieldsOf(p) ==
  CASE p.h.type = Connect -> {p.name} \cup {p.strs[i] : i \in 1..Len(p.strs)}
    [] p.h.type = Publish -> {p.topic}
    [] p.h.type \in {Subscribe, Unsubscribe} ->
         {p.topics[i] : i \in 1..Len(p.topics)}
    [] OTHER -> {}

(* Mutant: an oversize field is cut to its two-byte length.                *)
WriteRefusesShort(p) ==
  \/ p.h.type = Connect /\ p.wqos > 2
  \/ p.h.type \in {Subscribe, Unsubscribe} /\ p.topics = <<>>
  \/ p.h.type = Subscribe /\ Len(p.topics) # Len(p.qoss)
  \/ p.h.qos > 2
  \/ Len(Body(p)) > MaxRemainingLength

(* WriteTo fails and writes nothing.                                       *)
WriteRefuses(p) ==
  \/ p.h.type = Connect /\ p.wqos > 2
  \/ p.h.type \in {Subscribe, Unsubscribe} /\ p.topics = <<>>
  \/ p.h.type = Subscribe /\ Len(p.topics) # Len(p.qoss)
  \/ \E f \in FieldsOf(p) : Len(f) > MaxField
  \/ p.h.qos > 2
  \/ Len(Body(p)) > MaxRemainingLength

(* A frame: header byte, encoded length, body, and the packet it stands    *)
(* for if it was written here.                                             *)
Frame(p) == [b |-> HeaderByte(p.h), len |-> EncodedLength(Len(Body(p))),
             body |-> Body(p), pkt |-> p]

Bytes(f) == <<f.b>> \o f.len \o f.body

(* What writers put on the stream is made of bytes; a frame's length is    *)
(* that of its body, or it never ends.                                     *)
Encodes(f)   == /\ f.len = EncodedLength(Len(f.body))
                /\ Len(f.body) <= MaxRemainingLength
Malformed(f) == /\ Len(f.len) >= LenDigits
                /\ \A i \in 1..LenDigits : f.len[i] >= 128

ASSUME FramesType ==
  /\ \A p \in Packets : IsPacket(p)
  /\ \A f \in Foreign : /\ f.b \in Byte /\ f.len \in Seq(Byte)
                        /\ f.body \in Seq(Byte) /\ f.pkt = None
                        /\ Encodes(f) \/ Malformed(f)

-----------------------------------------------------------------------------
(* Unpack: the packet and how many bytes are left over, or an error *)

Unpacked(p, rest) == [err |-> "none", pkt |-> p, left |-> Len(rest)]
Failed(e)         == [err |-> e, pkt |-> None, left |-> 0]
Short             == Failed("ShortRemainingLength")

Drop(b, k)  == SubSeq(b, k + 1, Len(b))
U16(b)      == b[1] * 256 + b[2]
HasUint16(b) == Len(b) >= 2
HasString(b) == Len(b) >= 2 /\ Len(b) >= 2 + U16(b)

(* One more string and the extra bytes behind it, if there is one.         *)
ItemStep(r, extra, all) ==
  LET n == 2 + U16(r.rest)
  IN  IF ~r.ok \/ (all /\ r.rest = <<>>) THEN r
      ELSE IF ~HasString(r.rest) \/ Len(r.rest) < n + extra
      THEN [r EXCEPT !.ok = FALSE]
      ELSE [ok   |-> TRUE,
            strs |-> Append(r.strs, SubSeq(r.rest, 3, n)),
            more |-> r.more \o SubSeq(r.rest, n + 1, n + extra),
            rest |-> Drop(r.rest, n + extra)]

(* Strings followed by extra bytes each: k of them, or all that b holds.   *)
Items(b, k, extra, all) ==
  LET Item[j \in 0..k] ==
        IF j = 0 THEN [ok |-> TRUE, strs |-> <<>>, more |-> <<>>, rest |-> b]
                 ELSE ItemStep(Item[j - 1], extra, all)
  IN  Item[k]

Bit(n, w) == (n \div w) % 2 = 1

UnpackConnect(h, b) ==
  LET n == 2 + U16(b)
      o == b[n + 2]
      k == 1 + 2 * boolToByte(Bit(o, 4)) + boolToByte(Bit(o, 128))
             + boolToByte(Bit(o, 64))
      r == Items(Drop(b, n + 4), k, 0, FALSE)
  IN  IF ~HasString(b) \/ Len(b) < n + 4 \/ ~r.ok THEN Short
      ELSE Unpacked([h |-> h, name |-> SubSeq(b, 3, n), ver |-> b[n + 1],
                     reserved |-> o % 2, clean |-> Bit(o, 2),
                     will |-> Bit(o, 4), wqos |-> (o \div 8) % 4,
                     wretain |-> Bit(o, 32), pass |-> Bit(o, 64),
                     user |-> Bit(o, 128),
                     keep |-> b[n + 3] * 256 + b[n + 4],
                     strs |-> r.strs], r.rest)

UnpackConnack(h, b) ==
  IF b = <<>> THEN Short
  ELSE IF b[1] \div 2 # 0 THEN Failed("PacketError")
  ELSE IF Len(b) = 1 THEN Short
  ELSE Unpacked([h |-> h, present |-> b[1] = 1, code |-> b[2]], Drop(b, 2))

UnpackPublish(h, b) ==
  LET n == 2 + U16(b)
      i == IF h.qos > 0 THEN 2 ELSE 0
  IN  IF ~HasString(b) \/ Len(b) < n + i THEN Short
      ELSE Unpacked([h |-> h, topic |-> SubSeq(b, 3, n),
                     id |-> IF h.qos > 0 THEN U16(Drop(b, n)) ELSE 0,
                     payload |-> Drop(b, n + i)], <<>>)

UnpackSuback(h, b) ==
  IF ~HasUint16(b) THEN Short
  ELSE Unpacked([h |-> h, id |-> U16(b), codes |-> Drop(b, 2)], <<>>)

UnpackSubscribe(h, b) ==
  LET r == Items(Drop(b, 2), Len(b), 1, TRUE)
  IN  IF ~HasUint16(b) \/ ~r.ok THEN Short
      ELSE Unpacked([h |-> h, id |-> U16(b), topics |-> r.strs,
                     qoss |-> r.more], <<>>)

UnpackUnsubscribe(h, b) ==
  LET r == Items(Drop(b, 2), Len(b), 0, TRUE)
  IN  IF ~HasUint16(b) \/ ~r.ok THEN Short
      ELSE Unpacked([h |-> h, id |-> U16(b), topics |-> r.strs], <<>>)

(* PUBACK, PUBREC, PUBREL, PUBCOMP, UNSUBACK: just a message id.           *)
UnpackID(h, b) == IF ~HasUint16(b) THEN Short
                  ELSE Unpacked([h |-> h, id |-> U16(b)], Drop(b, 2))

Unpack(h, b) ==
  CASE h.type = Connect     -> UnpackConnect(h, b)
    [] h.type = Connack     -> UnpackConnack(h, b)
    [] h.type = Publish     -> UnpackPublish(h, b)
    [] h.type = Subscribe   -> UnpackSubscribe(h, b)
    [] h.type = Unsubscribe -> UnpackUnsubscribe(h, b)
    [] h.type = Suback      -> UnpackSuback(h, b)
    [] h.type \in {Pingreq, Pingresp, Disconnect} -> Unpacked([h |-> h], b)
    [] OTHER                -> UnpackID(h, b)

-----------------------------------------------------------------------------
(* Validate *)

(* The user name and password follow the client identifier and the will.   *)
UserAt(p) == IF p.will THEN 4 ELSE 2

(* Of the ConnackReturnCodes those that Validate returns.                  *)
Accepted          == 0
BadVersion        == 1
IDRejected        == 2
BadUser           == 4
ProtocolViolation == 255

(* Mutant: the reserved bit is not looked at.                              *)
ReservedIgnored(p) == TRUE

ReservedClear(p) == p.reserved = 0

(* ConnectPacket.Validate makes these checks in this order.                *)
ConnectChecks(p) ==
  LET id == p.strs[1]
  IN  << <<p.pass => p.user, BadUser>>,
         <<ReservedClear(p), ProtocolViolation>>,
         <<p.name = MQIsdp => p.ver = 3, BadVersion>>,
         <<p.name = MQTT => p.ver = 4, BadVersion>>,
         <<p.name \in {MQIsdp, MQTT}, ProtocolViolation>>,
         <<\A i \in {1} \cup (UserAt(p)..Len(p.strs)) :
             Len(p.strs[i]) <= MaxField, ProtocolViolation>>,
         <<IF p.will THEN p.wqos <= 2 /\ ValidateTopic(p.strs[2])
                     ELSE p.wqos = 0 /\ ~p.wretain, ProtocolViolation>>,
         <<ValidUTF8String(id), IDRejected>>,
         <<p.user => ValidUTF8String(p.strs[UserAt(p)]), ProtocolViolation>>,
         <<id = <<>> => p.clean, IDRejected>> >>

(* The first check that fails gives the code.                              *)
ConnectValidate(p) ==
  LET checks == ConnectChecks(p)
      failed == {i \in 1..Len(checks) : ~checks[i][1]}
  IN  IF failed = {} THEN Accepted ELSE checks[Min(failed)][2]

PublishValid(p) ==
  /\ p.h.qos > 0 => p.id # 0
  /\ p.h.qos = 0 => ~p.h.dup
  /\ ValidateTopic(p.topic)

SubscribeValid(p) ==
  /\ p.id # 0
  /\ Len(p.qoss) = Len(p.topics) /\ p.qoss # <<>>
  /\ \A i \in 1..Len(p.qoss) : p.qoss[i] <= 2
  /\ \A i \in 1..Len(p.topics) : ValidatePattern(p.topics[i])

UnsubscribeValid(p) ==
  /\ p.id # 0
  /\ p.topics # <<>>
  /\ \A i \in 1..Len(p.topics) : ValidatePattern(p.topics[i])

SubackValid(p) ==
  /\ p.codes # <<>>
  /\ \A i \in 1..Len(p.codes) : p.codes[i] \in {0, 1, 2, 128}

Valid(p) == CASE p.h.type = Connect     -> ConnectValidate(p) = Accepted
              [] p.h.type = Publish     -> PublishValid(p)
              [] p.h.type = Subscribe   -> SubscribeValid(p)
              [] p.h.type = Unsubscribe -> UnsubscribeValid(p)
              [] p.h.type = Suback      -> SubackValid(p)
              [] OTHER                  -> TRUE

(* StrictValidate also looks at the flags of the fixed header.             *)
SubscribeStrictValid(p)   == Valid(p) /\ ~p.h.dup /\ p.h.qos = 1 /\ ~p.h.retain
UnsubscribeStrictValid(p) == Valid(p) /\ ~p.h.dup /\ p.h.qos = 1 /\ ~p.h.retain
StrictValid(p) == CASE p.h.type = Subscribe   -> SubscribeStrictValid(p)
                    [] p.h.type = Unsubscribe -> UnsubscribeStrictValid(p)
                    [] OTHER                  -> Valid(p)

-----------------------------------------------------------------------------
(* ReadPacketLimit on a stream *)

VARIABLES
  wire,      \* bytes written and not yet read
  ended,     \* the stream ends behind wire
  sent,      \* the frames written
  starts,    \* offsets at which a frame starts, or the next one would
  pos,       \* offset of the reader
  rpc,       \* the reader: "first", "len", "body", or "end" for good
  fh,        \* the header, without its RemainingLength
  digits,    \* multiplier / 7
  rLength,   \* RemainingLength
  got        \* what the calls have returned: errors and packets

stream == <<ended, sent, starts>>
vars   == <<wire, stream, pos, rpc, fh, digits, rLength, got>>

limit == IF MaxLength \in 1..MaxRemainingLength THEN MaxLength
                                                ELSE MaxRemainingLength

NoHeader == [type |-> 0, dup |-> FALSE, qos |-> 0, retain |-> FALSE]

Written == {Frame(p) : p \in {q \in Packets : ~WriteRefuses(q)}}

Write(f) ==                \* one Write call of the writer
  /\ ~ended /\ Len(sent) < MaxFrames
  /\ wire' = wire \o Bytes(f)
  /\ sent' = Append(sent, f)
  /\ starts' = starts \cup {Max(starts) + Len(Bytes(f))}
  /\ UNCHANGED <<ended, pos, rpc, fh, digits, rLength, got>>

End(k) ==                  \* the stream ends; all but k bytes are lost
  /\ ~ended
  /\ ended' = TRUE
  /\ wire' = SubSeq(wire, 1, k)
  /\ UNCHANGED <<sent, starts, pos, rpc, fh, digits, rLength, got>>

Consume(k) == wire' = Drop(wire, k) /\ pos' = pos + k

(* The call returns an error after which the stream is of no more use.     *)
Fail(e) == /\ got' = Append(got, [err |-> e, pkt |-> None])
           /\ rpc' = "end"
           /\ UNCHANGED <<fh, digits, rLength>>

(* The call returns; the caller may make another.                          *)
ReturnPacket(r) ==
  /\ got' = Append(got,
              IF r.err = "none" /\ r.left > 0
              THEN [err |-> "TrailingBytes", pkt |-> None]
              ELSE [err |-> r.err, pkt |-> r.pkt])
  /\ rpc' = "first" /\ fh' = NoHeader /\ digits' = 0 /\ rLength' = 0

HeaderOf(b) == [type |-> b \div 16, dup |-> Bit(b, 8),
                qos |-> (b \div 2) % 4, retain |-> Bit(b, 1)]

FlagsOK(b) ==
  LET t == b \div 16
  IN  /\ t \in Connect..Disconnect
      /\ CASE t = Publish -> (b \div 2) % 4 # 3
           [] t \in {Pubrel, Subscribe, Unsubscribe} -> b % 8 = 2
           [] OTHER -> b % 16 = 0

ReadFirst ==
  /\ rpc = "first" /\ wire # <<>>
  /\ Consume(1)
  /\ IF FlagsOK(wire[1])
       THEN /\ fh' = HeaderOf(wire[1]) /\ rpc' = "len"
            /\ UNCHANGED <<digits, rLength, got>>
       ELSE Fail("InvalidFixedHeaderFlags")
  /\ UNCHANGED stream

ReadEOF ==                 \* the stream ends on a packet boundary
  /\ rpc = "first" /\ wire = <<>> /\ ended
  /\ Fail("EOF")
  /\ UNCHANGED <<wire, pos, stream>>

(* Mutant: one digit too many is read.                                     *)
DecodeLengthFive ==
  /\ rpc = "len" /\ digits <= LenDigits /\ wire # <<>>
  /\ Consume(1)
  /\ digits' = digits + 1
  /\ rLength' = rLength + (wire[1] % Base) * Base ^ digits
  /\ rpc' = IF wire[1] >= 128 THEN "len" ELSE "body"
  /\ UNCHANGED <<fh, got, stream>>

(* Mutant: the digits are not shifted.                                     *)
DecodeLengthFlat ==
  /\ rpc = "len" /\ digits < LenDigits /\ wire # <<>>
  /\ Consume(1)
  /\ digits' = digits + 1
  /\ rLength' = rLength + (wire[1] % Base)
  /\ rpc' = IF wire[1] >= 128 THEN "len" ELSE "body"
  /\ UNCHANGED <<fh, got, stream>>

DecodeLength ==            \* one digit
  /\ rpc = "len" /\ digits < LenDigits /\ wire # <<>>
  /\ Consume(1)
  /\ digits' = digits + 1
  /\ rLength' = rLength + (wire[1] % Base) * Base ^ digits
  /\ rpc' = IF wire[1] >= 128 THEN "len" ELSE "body"
  /\ UNCHANGED <<fh, got, stream>>

LengthMalformed ==         \* the last digit has the continuation bit
  /\ rpc = "len" /\ digits = LenDigits
  /\ Fail("MalformedRemainingLength")
  /\ UNCHANGED <<wire, pos, stream>>

LengthTruncated ==
  /\ rpc = "len" /\ digits < LenDigits /\ wire = <<>> /\ ended
  /\ Fail("UnexpectedEOF")
  /\ UNCHANGED <<wire, pos, stream>>

TooLarge ==
  /\ rpc = "body" /\ rLength > limit
  /\ Fail("PacketTooLarge")
  /\ UNCHANGED <<wire, pos, stream>>

ReadBody ==
  /\ rpc = "body" /\ rLength <= limit /\ Len(wire) >= rLength
  /\ Consume(rLength)
  /\ ReturnPacket(Unpack(fh, SubSeq(wire, 1, rLength)))
  /\ UNCHANGED stream

(* Mutant: the end of the stream inside a body is reported as it is.       *)
BodyTruncatedPlain ==
  /\ rpc = "body" /\ rLength <= limit /\ Len(wire) < rLength /\ ended
  /\ Consume(Len(wire))
  /\ Fail("EOF")
  /\ UNCHANGED stream

BodyTruncated ==
  /\ rpc = "body" /\ rLength <= limit /\ Len(wire) < rLength /\ ended
  /\ Consume(Len(wire))
  /\ Fail("UnexpectedEOF")
  /\ UNCHANGED stream

-----------------------------------------------------------------------------
Init ==
  /\ wire = <<>> /\ ended = FALSE /\ sent = <<>> /\ starts = {0} /\ pos = 0
  /\ rpc = "first" /\ fh = NoHeader /\ digits = 0 /\ rLength = 0 /\ got = <<>>

Next ==
  \/ \E f \in Written \cup Foreign : Write(f)
  \/ \E k \in 0..Len(wire) : End(k)
  \/ ReadFirst \/ ReadEOF
  \/ DecodeLength \/ LengthMalformed \/ LengthTruncated
  \/ TooLarge \/ ReadBody \/ BodyTruncated

Spec == Init /\ [][Next]_vars

Errors == {"none", "EOF", "UnexpectedEOF", "PacketTooLarge", "PacketError",
           "InvalidFixedHeaderFlags", "MalformedRemainingLength",
           "ShortRemainingLength", "TrailingBytes"}

TypeOK ==
  /\ ended \in BOOLEAN /\ Len(sent) <= MaxFrames /\ pos \in 0..Max(starts)
  /\ rpc \in {"first", "len", "body", "end"}
  /\ digits \in 0..LenDigits /\ rLength \in 0..MaxRemainingLength
  /\ \A i \in 1..Len(got) : got[i].err \in Errors

(* Every packet that WriteTo writes is what ReadPacketLimit returns, in    *)
(* order, whatever frames of others lie between, unless its length is      *)
(* above the limit; no field, flag or length is lost on the way.           *)
RoundTrip ==
  \A i \in 1..Len(got) :
    /\ got[i].err \notin {"EOF", "UnexpectedEOF"}
    /\ sent[i].pkt # None
    => IF Len(sent[i].body) > limit
       THEN got[i].err = "PacketTooLarge"
       ELSE got[i] = [err |-> "none", pkt |-> sent[i].pkt]

(* "only a stream that ends exactly on a packet boundary yields io.EOF"    *)
(* (src/packets/mqtt/packets.go:191-193): an end inside a packet is        *)
(* UnexpectedEOF, and a body too short for its structure is neither.       *)
EofIsBoundary ==
  \A i \in 1..Len(got) : /\ got[i].err = "EOF" => pos \in starts /\ ended
                         /\ got[i].err = "UnexpectedEOF" => pos \notin starts

(* After a packet that was refused for its content the stream is still in  *)
(* step (src/packets/mqtt/packets.go:102-105): the next call starts where  *)
(* the next frame does.                                                    *)
InSync == rpc = "first" => /\ pos \in starts
                           /\ Cardinality({s \in starts : s < pos}) = Len(got)

(* A packet that was read and passes Validate can be written again, its    *)
(* header is one that ReadPacketLimit takes, and nothing of it is lost: a  *)
(* broker may pass on what it accepts.  It passes StrictValidate too,      *)
(* unless it is a SUBSCRIBE or UNSUBSCRIBE with the DUP bit that the fixed *)
(* header tolerates (src/packets/mqtt/packets.go:373-376).                 *)
ValidCanBeWritten ==
  \A i \in 1..Len(got) :
    LET p == got[i].pkt
    IN  \/ p = None
        \/ ~Valid(p)
        \/ /\ StrictValid(p) <=> (p.h.type \in {Subscribe, Unsubscribe}
                                    => ~p.h.dup)
           /\ ~WriteRefuses(p)
           /\ FlagsOK(HeaderByte(p.h)) /\ HeaderOf(HeaderByte(p.h)) = p.h
           /\ Unpack(p.h, Body(p)) = Unpacked(p, <<>>)

IsValid(p, type) == IF p = None THEN FALSE ELSE p.h.type = type /\ Valid(p)

(* For filters and topics that were read and pass Validate, MatchFilter    *)
(* decides what section 4.7 of MQTT 3.1.1 says, "$" topics included.       *)
FilterSemantics ==
  \A i, j \in 1..Len(got) :
    LET s == got[i].pkt
        t == got[j].pkt
    IN  IsValid(s, Subscribe) /\ IsValid(t, Publish) =>
          \A k \in 1..Len(s.topics) :
            LET fl == Split(s.topics[k])
                tl == Split(t.topic)
            IN  MatchFilter(s.topics[k], t.topic) =
                  /\ LevelsMatch(fl, tl)
                  /\ HasPrefix(tl[1], DollarCh) => fl[1] \notin {Hash, Plus}
=============================================================================
