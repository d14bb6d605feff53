--------------------------- MODULE WsSocket_proofs --------------------------
(***************************************************************************)
(* Proofs about WsSocket for every set of goroutines, packets, durations,  *)
(* peer items and bounds.                                                  *)
(***************************************************************************)
EXTENDS WsSocket, FiniteSetTheorems, FunctionTheorems, TLAPS

LEMMA LoopIsThread == Loop \in Threads /\ Reader \in Threads
BY DEF Threads

(* The data bytes among the items of s.                                    *)
ByteAt(s) == {i \in 1..Len(s) : s[i] = <<"byte">>}
Bytes(s)  == Cardinality(ByteAt(s))

LEMMA BytesType ==
  ASSUME NEW s \in Seq(Items)
  PROVE  IsFiniteSet(ByteAt(s)) /\ Bytes(s) \in 0..Len(s)
<1>1. IsFiniteSet(1..Len(s)) /\ Cardinality(1..Len(s)) = Len(s)
  <2>1. Len(s) \in Nat
    OBVIOUS
  <2> HIDE DEF Items
  <2>2. /\ IsFiniteSet(1..Len(s))
        /\ Cardinality(1..Len(s)) = IF 1 > Len(s) THEN 0 ELSE Len(s) - 1 + 1
    BY ONLY <2>1, 1 \in Int, Len(s) \in Int, FS_Interval
  <2>3. QED
    BY <2>1, <2>2
<1>2. ByteAt(s) \subseteq 1..Len(s)
  BY DEF ByteAt
<1>3. QED
  BY <1>1, <1>2, FS_Subset, FS_CardinalityType DEF Bytes

LEMMA BytesOfNone == Bytes(<<>>) = 0
BY FS_EmptySet DEF Bytes, ByteAt

(* An item at the end counts when it is a byte.                            *)
LEMMA BytesAppend ==
  ASSUME NEW s \in Seq(Items), NEW x \in Items
  PROVE  Bytes(Append(s, x)) = Bytes(s) + IF x = <<"byte">> THEN 1 ELSE 0
<1> DEFINE t == Append(s, x)
<1>1. Len(t) = Len(s) + 1 /\ Len(s) \in Nat /\ t[Len(s) + 1] = x
      /\ \A i \in 1..Len(s) : t[i] = s[i]
  OBVIOUS
<1> HIDE DEF t
<1>2. CASE x = <<"byte">>
  <2>1. ByteAt(t) = ByteAt(s) \cup {Len(s) + 1} /\ Len(s) + 1 \notin ByteAt(s)
    BY <1>1, <1>2 DEF ByteAt
  <2>2. QED
    BY <1>2, <2>1, BytesType, FS_AddElement DEF Bytes, t
<1>3. CASE x # <<"byte">>
  <2>1. \A i \in 1..Len(t) : i \in ByteAt(t) <=> i \in ByteAt(s)
    <3>1. ASSUME NEW i \in 1..Len(t) PROVE i \in ByteAt(t) <=> i \in ByteAt(s)
      <4>1. CASE i = Len(s) + 1
        BY <1>1, <1>3, <4>1 DEF ByteAt
      <4>2. CASE i \in 1..Len(s)
        BY <1>1, <4>2 DEF ByteAt
      <4>3. QED
        BY <1>1, <4>1, <4>2
    <3>2. QED
      BY <3>1
  <2>2. ByteAt(t) \subseteq 1..Len(t) /\ ByteAt(s) \subseteq 1..Len(t)
    BY <1>1 DEF ByteAt
  <2>3. ByteAt(t) = ByteAt(s)
    BY <2>1, <2>2
  <2>4. QED
    BY <1>3, <2>3, BytesType DEF Bytes, t
<1>4. QED
  BY <1>2, <1>3

(* Taking the first item takes a byte when it is one.                      *)
LEMMA BytesTail ==
  ASSUME NEW s \in Seq(Items), s # <<>>
  PROVE  /\ Tail(s) \in Seq(Items) /\ Len(Tail(s)) = Len(s) - 1
         /\ Bytes(s) = Bytes(Tail(s)) + IF Head(s) = <<"byte">> THEN 1 ELSE 0
<1> DEFINE t == Tail(s)
<1>1. /\ t \in Seq(Items) /\ Len(t) = Len(s) - 1 /\ Len(s) \in Nat \ {0}
      /\ s[1] = Head(s)
      /\ \A i \in 1..Len(t) : t[i] = s[i + 1]
  OBVIOUS
<1> HIDE DEF t
<1> DEFINE up == ByteAt(s) \ {1}
<1>2. IsFiniteSet(up) /\ Cardinality(up) = Bytes(t)
  <2> DEFINE f == [i \in ByteAt(t) |-> i + 1]
  <2>1. f \in Bijection(ByteAt(t), up)
    <3>1. \A i \in ByteAt(t) : i + 1 \in up
      BY <1>1 DEF ByteAt
    <3>2. \A j \in up : j - 1 \in ByteAt(t) /\ (j - 1) + 1 = j
      BY <1>1 DEF ByteAt
    <3>3. f \in [ByteAt(t) -> up]
      BY <3>1
    <3>4. \A a, b \in ByteAt(t) : f[a] = f[b] => a = b
      BY <1>1 DEF ByteAt
    <3>5. \A j \in up : \E i \in ByteAt(t) : f[i] = j
      BY <3>2
    <3>6. QED
      BY <3>3, <3>4, <3>5, Fun_IsBij
  <2>2. IsFiniteSet(ByteAt(t))
    BY <1>1, BytesType
  <2> HIDE DEF f
  <2>3. ExistsBijection(ByteAt(t), up)
    BY <2>1 DEF ExistsBijection
  <2>4. QED
    BY <2>2, <2>3, FS_Bijection DEF Bytes
<1>3. CASE Head(s) = <<"byte">>
  <2>1. 1 \in ByteAt(s) /\ 1 \notin up /\ ByteAt(s) = up \cup {1}
    BY <1>1, <1>3 DEF ByteAt
  <2>2. Bytes(s) = Cardinality(up) + 1
    BY <1>2, <2>1, FS_AddElement DEF Bytes
  <2>3. QED
    BY <1>1, <1>2, <1>3, <2>2 DEF t
<1>4. CASE Head(s) # <<"byte">>
  <2>1. ByteAt(s) = up
    BY <1>1, <1>4 DEF ByteAt
  <2>2. Bytes(t) \in Nat
    BY <1>1, BytesType
  <2> HIDE DEF up
  <2>3. Bytes(s) = Bytes(t)
    BY <1>2, <2>1 DEF Bytes
  <2>4. QED
    BY <1>1, <1>4, <2>2, <2>3 DEF t
<1>5. QED
  BY <1>3, <1>4

LEMMA TicksFacts ==
  /\ Ticks \subseteq Nat /\ 0 \in Ticks /\ Durations \subseteq Ticks
  /\ \A t \in Ticks : t > 0 => t - 1 \in Ticks
BY ConstantsType DEF Ticks

LEMMA ItemFacts ==
  /\ \A len \in {0, 1}, fin \in BOOLEAN :
       <<"data", len, fin>> \in Items /\ <<"data", len, fin>> # <<"byte">>
  /\ \A k \in {"ping", "close", "eof", "bad"} :
       <<k>> \in Items /\ <<k>> # <<"byte">>
  /\ <<"byte">> \in Items
BY DEF Items

(* The loop takes an item; the peer sends one.                             *)
LEMMA TakeItem ==
  ASSUME inq \in Seq(Items), NEW item, Take(item)
  PROVE  /\ inq' \in Seq(Items) /\ Len(inq') = Len(inq) - 1
         /\ Bytes(inq) = Bytes(inq') + IF item = <<"byte">> THEN 1 ELSE 0
BY BytesTail DEF Take

LEMMA PutItem ==
  ASSUME inq \in Seq(Items), NEW kind, NEW item \in Items,
         PeerPut(kind, item)
  PROVE  /\ inq' \in Seq(Items) /\ Len(inq') <= MaxIn
         /\ Bytes(inq') = Bytes(inq) + IF item = <<"byte">> THEN 1 ELSE 0
<1>1. inq' = Append(inq, item) /\ Len(inq) < MaxIn
  BY DEF PeerPut
<1>2. Len(inq') = Len(inq) + 1 /\ inq' \in Seq(Items) /\ Len(inq) \in Nat
  BY <1>1
<1>3. QED
  BY <1>1, <1>2, BytesAppend, ConstantsType

(* The pipe and the queue hold what the peer sent and Recv did not return; *)
(* the loop leaves a byte in the pipe only while it waits, or for good.    *)
PipeInv ==
  /\ undelivered = Bytes(inq) + IF pend THEN 1 ELSE 0
  /\ pc[Loop] \in {"arm", "armset", "frame", "body", "try", "write"} => ~pend
  /\ pc[Loop] \notin {"idle", "recv", "lock", "setread"}

LEMMA TypeInvariant == Spec => [](TypeOK /\ PipeInv)
<1>1. Init => TypeOK /\ PipeInv
  <2> SUFFICES ASSUME Init PROVE TypeOK /\ PipeInv
    OBVIOUS
  <2> USE ConstantsType, LoopIsThread, TicksFacts DEF Init
  <2>1. inq \in Seq(Items) /\ Len(inq) = 0
    OBVIOUS
  <2>2. PipeInv
    BY BytesOfNone DEF PipeInv
  <2>3. /\ pc \in [Threads -> Labels] /\ d \in [Threads -> Ticks]
        /\ n \in [Threads -> 0..2] /\ frm \in [Threads -> Frames]
        /\ why \in [Threads -> Causes]
    BY DEF Labels, Frames, Causes
  <2>4. /\ peer \in [in : BOOLEAN, got : BOOLEAN, owes : BOOLEAN,
                     gone : BOOLEAN]
        /\ msg \in [in : BOOLEAN, got : BOOLEAN, left : {0, 1},
                    fin : BOOLEAN, next : {"frame", "body"}]
    OBVIOUS
  <2>5. SocketTypeOK
    BY DEF SocketTypeOK, Causes
  <2>6. ReadTypeOK
    <3>1. quiet \in 0..MaxQuiet /\ undelivered \in 0..(MaxIn + 1)
      OBVIOUS
    <3>2. Len(inq) <= MaxIn
      BY <2>1
    <3>3. QED
      BY <2>1, <2>4, <3>1, <3>2 DEF ReadTypeOK
  <2>7. QED
    BY <2>2, <2>3, <2>5, <2>6 DEF TypeOK, ThreadTypeOK
<1>2. TypeOK /\ PipeInv /\ [Next]_vars => (TypeOK /\ PipeInv)'
  <2> SUFFICES ASSUME TypeOK, PipeInv, [Next]_vars
               PROVE  (TypeOK /\ PipeInv)'
    OBVIOUS
  <2> USE ConstantsType, LoopIsThread, TicksFacts
      DEF TypeOK, SocketTypeOK, ReadTypeOK, ThreadTypeOK, PipeInv,
          Labels, Causes, Goto, Closed, CloseFor, ConnError, shut, peers,
          write, read
  <2>1. CASE ArmLoad
    BY <2>1 DEF ArmLoad
  <2>2. CASE ArmSet
    BY <2>2 DEF ArmSet
  <2>3. ASSUME NEW len \in {0, 1}, NEW fin \in BOOLEAN, DataHeader(len, fin)
       PROVE  (TypeOK /\ PipeInv)'
    <3>0. /\ inq' \in Seq(Items) /\ Len(inq') = Len(inq) - 1
          /\ Bytes(inq) = Bytes(inq') /\ Bytes(inq') \in 0..Len(inq')
      <4>1. Take(<<"data", len, fin>>)
        BY <2>3 DEF DataHeader
      <4>2. <<"data", len, fin>> \in Items /\ <<"data", len, fin>> # <<"byte">>
        BY ItemFacts
      <4>3. inq \in Seq(Items)
        OBVIOUS
      <4>4. /\ inq' \in Seq(Items) /\ Len(inq') = Len(inq) - 1
            /\ Bytes(inq) =
                 Bytes(inq') + IF <<"data", len, fin>> = <<"byte">> THEN 1 ELSE 0
        BY ONLY <4>1, <4>3, TakeItem
      <4>5. Bytes(inq') \in 0..Len(inq')
        BY <4>4, BytesType
      <4>6. QED
        BY <4>2, <4>4, <4>5
    <3>1. SocketTypeOK'
      BY <2>3 DEF DataHeader, Take
    <3>2. ReadTypeOK'
      BY <2>3 DEF DataHeader, Take
    <3>3. ThreadTypeOK'
      BY <2>3 DEF DataHeader, Take
    <3>4. PipeInv'
      BY <2>3, <3>0 DEF DataHeader
    <3>5. QED
      BY <3>1, <3>2, <3>3, <3>4
  <2>4. CASE DataByte
    <3>0. /\ inq' \in Seq(Items) /\ Len(inq') = Len(inq) - 1
          /\ Bytes(inq) = Bytes(inq') + 1 /\ Bytes(inq') \in 0..Len(inq')
      <4>1. Take(<<"byte">>)
        BY <2>4 DEF DataByte
      <4>2. <<"byte">> \in Items
        BY ItemFacts
      <4>3. inq \in Seq(Items)
        OBVIOUS
      <4>4. /\ inq' \in Seq(Items) /\ Len(inq') = Len(inq) - 1
            /\ Bytes(inq) =
                 Bytes(inq') + IF <<"byte">> = <<"byte">> THEN 1 ELSE 0
        BY ONLY <4>1, <4>3, TakeItem
      <4>5. Bytes(inq') \in 0..Len(inq')
        BY <4>4, BytesType
      <4>6. QED
        BY <4>2, <4>4, <4>5
    <3>1. SocketTypeOK'
      BY <2>4 DEF DataByte, Take
    <3>2. ReadTypeOK'
      <4>1. Len(inq') <= MaxIn /\ quiet' \in 0..MaxQuiet
        BY <2>4, <3>0 DEF DataByte
      <4>2. msg' \in [in : BOOLEAN, got : BOOLEAN, left : {0, 1},
                     fin : BOOLEAN, next : {"frame", "body"}]
        BY <2>4 DEF DataByte
      <4>3. pend' = TRUE /\ UNCHANGED <<undelivered, peer>>
        BY <2>4 DEF DataByte
      <4>4. QED
        BY <3>0, <4>1, <4>2, <4>3
    <3>3. ThreadTypeOK'
      BY <2>4 DEF DataByte, Take
    <3>4. PipeInv'
      BY <2>4, <3>0 DEF DataByte
    <3>5. QED
      BY <3>1, <3>2, <3>3, <3>4
  <2>5. CASE PipeTaken
    <3>1. SocketTypeOK'
      BY <2>5 DEF PipeTaken
    <3>2. ReadTypeOK'
      BY <2>5 DEF PipeTaken
    <3>3. ThreadTypeOK'
      BY <2>5 DEF PipeTaken
    <3>4. PipeInv'
      BY <2>5 DEF PipeTaken
    <3>5. QED
      BY <3>1, <3>2, <3>3, <3>4
  <2>6. CASE PipeClosed
    BY <2>6 DEF PipeClosed
  <2>7. CASE FragmentEmpty
    <3>1. SocketTypeOK'
      BY <2>7 DEF FragmentEmpty
    <3>2. ReadTypeOK'
      BY <2>7 DEF FragmentEmpty
    <3>3. ThreadTypeOK'
      BY <2>7 DEF FragmentEmpty
    <3>4. PipeInv'
      BY <2>7 DEF FragmentEmpty
    <3>5. QED
      BY <3>1, <3>2, <3>3, <3>4
  <2>8. CASE ControlFrame("ping", "pong")
    <3>0. /\ inq' \in Seq(Items) /\ Len(inq') = Len(inq) - 1
          /\ Bytes(inq) = Bytes(inq') /\ Bytes(inq') \in 0..Len(inq')
      <4>1. Take(<<"ping">>)
        BY <2>8 DEF ControlFrame
      <4>2. <<"ping">> \in Items /\ <<"ping">> # <<"byte">>
        BY ItemFacts
      <4>3. inq \in Seq(Items)
        OBVIOUS
      <4>4. /\ inq' \in Seq(Items) /\ Len(inq') = Len(inq) - 1
            /\ Bytes(inq) =
                 Bytes(inq') + IF <<"ping">> = <<"byte">> THEN 1 ELSE 0
        BY ONLY <4>1, <4>3, TakeItem
      <4>5. Bytes(inq') \in 0..Len(inq')
        BY <4>4, BytesType
      <4>6. QED
        BY <4>2, <4>4, <4>5
    <3>1. SocketTypeOK'
      BY <2>8 DEF ControlFrame, Take
    <3>2. ReadTypeOK'
      BY <2>8 DEF ControlFrame, Take
    <3>3. ThreadTypeOK'
      BY <2>8 DEF ControlFrame, Frames
    <3>4. PipeInv'
      BY <2>8, <3>0 DEF ControlFrame
    <3>5. QED
      BY <3>1, <3>2, <3>3, <3>4
  <2>9. CASE ControlFrame("close", "bye")
    <3>0. /\ inq' \in Seq(Items) /\ Len(inq') = Len(inq) - 1
          /\ Bytes(inq) = Bytes(inq') /\ Bytes(inq') \in 0..Len(inq')
      <4>1. Take(<<"close">>)
        BY <2>9 DEF ControlFrame
      <4>2. <<"close">> \in Items /\ <<"close">> # <<"byte">>
        BY ItemFacts
      <4>3. inq \in Seq(Items)
        OBVIOUS
      <4>4. /\ inq' \in Seq(Items) /\ Len(inq') = Len(inq) - 1
            /\ Bytes(inq) =
                 Bytes(inq') + IF <<"close">> = <<"byte">> THEN 1 ELSE 0
        BY ONLY <4>1, <4>3, TakeItem
      <4>5. Bytes(inq') \in 0..Len(inq')
        BY <4>4, BytesType
      <4>6. QED
        BY <4>2, <4>4, <4>5
    <3>1. SocketTypeOK'
      BY <2>9 DEF ControlFrame, Take
    <3>2. ReadTypeOK'
      BY <2>9 DEF ControlFrame, Take
    <3>3. ThreadTypeOK'
      BY <2>9 DEF ControlFrame, Frames
    <3>4. PipeInv'
      BY <2>9, <3>0 DEF ControlFrame
    <3>5. QED
      BY <3>1, <3>2, <3>3, <3>4
  <2>10. CASE TryLock
    <3>1. SocketTypeOK'
      BY <2>10 DEF TryLock, AfterReply
    <3>2. ReadTypeOK'
      BY <2>10 DEF TryLock, AfterReply
    <3>3. ThreadTypeOK'
      BY <2>10 DEF TryLock, AfterReply
    <3>4. PipeInv'
      BY <2>10 DEF TryLock, AfterReply
    <3>5. QED
      BY <3>1, <3>2, <3>3, <3>4
  <2>11. ASSUME NEW kind \in {"eof", "bad"}, StreamEnd(kind)
       PROVE  (TypeOK /\ PipeInv)'
    <3>0. /\ inq' \in Seq(Items) /\ Len(inq') = Len(inq) - 1
          /\ Bytes(inq) = Bytes(inq') /\ Bytes(inq') \in 0..Len(inq')
      <4>1. Take(<<kind>>)
        BY <2>11 DEF StreamEnd
      <4>2. <<kind>> \in Items /\ <<kind>> # <<"byte">>
        BY ItemFacts
      <4>3. inq \in Seq(Items)
        OBVIOUS
      <4>4. /\ inq' \in Seq(Items) /\ Len(inq') = Len(inq) - 1
            /\ Bytes(inq) =
                 Bytes(inq') + IF <<kind>> = <<"byte">> THEN 1 ELSE 0
        BY ONLY <4>1, <4>3, TakeItem
      <4>5. Bytes(inq') \in 0..Len(inq')
        BY <4>4, BytesType
      <4>6. QED
        BY <4>2, <4>4, <4>5
    <3>1. SocketTypeOK'
      BY <2>11 DEF StreamEnd, Take
    <3>2. ReadTypeOK'
      BY <2>11 DEF StreamEnd, Take
    <3>3. ThreadTypeOK'
      BY <2>11 DEF StreamEnd, Take
    <3>4. PipeInv'
      BY <2>11, <3>0 DEF StreamEnd
    <3>5. QED
      BY <3>1, <3>2, <3>3, <3>4
  <2>12. CASE ReadFail
    BY <2>12 DEF ReadFail
  <2>13. CASE RecvCall
    BY <2>13 DEF RecvCall
  <2>14. CASE RecvByte
    <3>0. Bytes(inq) \in 0..Len(inq) /\ undelivered = Bytes(inq) + 1
      BY <2>14, BytesType DEF RecvByte
    <3>1. SocketTypeOK'
      BY <2>14 DEF RecvByte
    <3>2. ReadTypeOK'
      <4>1. undelivered' \in 0..(MaxIn + 1)
        BY <2>14, <3>0 DEF RecvByte
      <4>2. pend' = FALSE /\ UNCHANGED <<inq, peer, quiet, msg>>
        BY <2>14 DEF RecvByte
      <4>3. QED
        BY <4>1, <4>2
    <3>3. ThreadTypeOK'
      BY <2>14 DEF RecvByte
    <3>4. PipeInv'
      BY <2>14, <3>0 DEF RecvByte
    <3>5. QED
      BY <3>1, <3>2, <3>3, <3>4
  <2>15. CASE RecvErr
    BY <2>15 DEF RecvErr
  <2>16. ASSUME NEW g \in Threads, NEW p \in Packets, SendCall(g, p)
       PROVE  (TypeOK /\ PipeInv)'
    <3>1. SocketTypeOK'
      BY <2>16 DEF SendCall
    <3>2. ReadTypeOK'
      BY <2>16 DEF SendCall
    <3>3. ThreadTypeOK'
      <4>1. p \in Frames
        BY DEF Frames
      <4>2. frm' \in [Threads -> Frames]
        BY <2>16, <4>1 DEF SendCall
      <4>3. d' \in [Threads -> Ticks] /\ n' \in [Threads -> 0..2] /\ why' = why
        BY <2>16 DEF SendCall
      <4>4. pc' \in [Threads -> Labels]
        BY <2>16 DEF SendCall
      <4>5. QED
        BY <4>2, <4>3, <4>4
    <3>4. PipeInv'
      BY <2>16 DEF SendCall
    <3>5. QED
      BY <3>1, <3>2, <3>3, <3>4
  <2>17. ASSUME NEW g \in Threads, WriteSome(g) PROVE (TypeOK /\ PipeInv)'
    <3>0. frm[g] \in Frames /\ n[g] + 1 \in 1..2
      BY <2>17 DEF WriteSome, Size
    <3>1. SocketTypeOK'
      BY <2>17, <3>0 DEF WriteSome
    <3>2. ReadTypeOK'
      BY <2>17 DEF WriteSome
    <3>3. ThreadTypeOK'
      BY <2>17, <3>0 DEF WriteSome
    <3>4. PipeInv'
      BY <2>17 DEF WriteSome
    <3>5. QED
      BY <3>1, <3>2, <3>3, <3>4
  <2>18. ASSUME NEW g \in Threads, WriteFail(g) PROVE (TypeOK /\ PipeInv)'
    BY <2>18 DEF WriteFail
  <2>19. ASSUME NEW g \in Threads, NEW v \in Durations, SetTimeOut(g, v)
       PROVE  (TypeOK /\ PipeInv)'
    BY <2>19 DEF SetTimeOut
  <2>20. ASSUME NEW g \in Threads, CloseCall(g) PROVE (TypeOK /\ PipeInv)'
    BY <2>20 DEF CloseCall
  <2>21. ASSUME NEW g \in Threads, SendLock(g) PROVE (TypeOK /\ PipeInv)'
    <3>1. SocketTypeOK'
      BY <2>21 DEF SendLock
    <3>2. ReadTypeOK'
      BY <2>21 DEF SendLock
    <3>3. ThreadTypeOK'
      <4>1. pc' \in [Threads -> Labels]
        BY ZenonT(60), <2>21 DEF SendLock
      <4>2. why' \in [Threads -> Causes]
        BY <2>21 DEF SendLock
      <4>3. QED
        BY <2>21, <4>1, <4>2 DEF SendLock
    <3>4. PipeInv'
      <4>1. g # Loop /\ pc'[Loop] = pc[Loop]
        BY <2>21 DEF SendLock
      <4>2. QED
        BY <2>21, <4>1 DEF SendLock
    <3>5. QED
      BY <3>1, <3>2, <3>3, <3>4
  <2>22. ASSUME NEW g \in Threads, WriteDone(g) PROVE (TypeOK /\ PipeInv)'
    <3>1. SocketTypeOK'
      BY <2>22 DEF WriteDone, AfterReply
    <3>2. ReadTypeOK'
      BY <2>22 DEF WriteDone, AfterReply
    <3>3. ThreadTypeOK'
      <4>1. pc' \in [Threads -> Labels]
        BY <2>22 DEF WriteDone, AfterReply
      <4>2. why' \in [Threads -> Causes]
        BY <2>22 DEF WriteDone, AfterReply
      <4>3. QED
        BY <2>22, <4>1, <4>2 DEF WriteDone
    <3>4. PipeInv'
      BY <2>22 DEF WriteDone, AfterReply
    <3>5. QED
      BY <3>1, <3>2, <3>3, <3>4
  <2>23. ASSUME NEW g \in Threads, SetRead(g) PROVE (TypeOK /\ PipeInv)'
    BY <2>23 DEF SetRead
  <2>24. ASSUME NEW g \in Threads, CloseOnce(g) PROVE (TypeOK /\ PipeInv)'
    BY <2>24 DEF CloseOnce
  <2>25. ASSUME NEW g \in Threads, CloseAgain(g) PROVE (TypeOK /\ PipeInv)'
    BY <2>25 DEF CloseAgain
  <2>26. ASSUME NEW g \in Threads, CloseFlag(g) PROVE (TypeOK /\ PipeInv)'
    BY <2>26 DEF CloseFlag
  <2>27. ASSUME NEW g \in Threads, ClosePipe(g) PROVE (TypeOK /\ PipeInv)'
    BY <2>27 DEF ClosePipe
  <2>28. ASSUME NEW g \in Threads, CloseConn(g) PROVE (TypeOK /\ PipeInv)'
    <3>1. SocketTypeOK'
      BY <2>28 DEF CloseConn
    <3>2. ReadTypeOK'
      BY <2>28 DEF CloseConn
    <3>3. ThreadTypeOK'
      BY <2>28 DEF CloseConn
    <3>4. PipeInv'
      BY <2>28 DEF CloseConn
    <3>5. QED
      BY <3>1, <3>2, <3>3, <3>4
  <2>29. ASSUME NEW len \in {0, 1}, NEW fin \in BOOLEAN, PeerHeader(len, fin)
       PROVE  (TypeOK /\ PipeInv)'
    <3>0. /\ inq' \in Seq(Items) /\ Len(inq') <= MaxIn
          /\ Bytes(inq') = Bytes(inq)
          /\ Bytes(inq') \in 0..Len(inq') /\ Bytes(inq) \in 0..Len(inq)
      <4>1. PeerPut("data", <<"data", len, fin>>)
        BY <2>29 DEF PeerHeader
      <4>2. <<"data", len, fin>> \in Items /\ <<"data", len, fin>> # <<"byte">>
        BY ItemFacts
      <4>3. inq \in Seq(Items)
        OBVIOUS
      <4>4. /\ inq' \in Seq(Items) /\ Len(inq') <= MaxIn
            /\ Bytes(inq') =
                 Bytes(inq) + IF <<"data", len, fin>> = <<"byte">> THEN 1 ELSE 0
        BY ONLY <4>1, <4>2, <4>3, PutItem
      <4>5. Bytes(inq') \in 0..Len(inq') /\ Bytes(inq) \in 0..Len(inq)
        BY <4>3, <4>4, BytesType
      <4>6. QED
        BY <4>2, <4>4, <4>5
    <3>1. SocketTypeOK'
      BY <2>29 DEF PeerHeader, PeerPut
    <3>2. ReadTypeOK'
      <4>1. peer' \in [in : BOOLEAN, got : BOOLEAN, owes : BOOLEAN,
                      gone : BOOLEAN]
        BY <2>29 DEF PeerHeader
      <4>2. UNCHANGED <<pend, quiet, msg>>
        BY <2>29 DEF PeerHeader
      <4>3. undelivered' \in 0..(MaxIn + 1)
        BY <2>29, <3>0 DEF PeerHeader
      <4>4. QED
        BY <3>0, <4>1, <4>2, <4>3
    <3>3. ThreadTypeOK'
      BY <2>29 DEF PeerHeader, PeerPut
    <3>4. PipeInv'
      BY <2>29, <3>0 DEF PeerHeader
    <3>5. QED
      BY <3>1, <3>2, <3>3, <3>4
  <2>30. CASE PeerByte
    <3>0. /\ inq' \in Seq(Items) /\ Len(inq') <= MaxIn
          /\ Bytes(inq') = Bytes(inq) + 1
          /\ Bytes(inq') \in 0..Len(inq') /\ Bytes(inq) \in 0..Len(inq)
      <4>1. PeerPut("data", <<"byte">>)
        BY <2>30 DEF PeerByte
      <4>2. <<"byte">> \in Items
        BY ItemFacts
      <4>3. inq \in Seq(Items)
        OBVIOUS
      <4>4. /\ inq' \in Seq(Items) /\ Len(inq') <= MaxIn
            /\ Bytes(inq') =
                 Bytes(inq) + IF <<"byte">> = <<"byte">> THEN 1 ELSE 0
        BY ONLY <4>1, <4>2, <4>3, PutItem
      <4>5. Bytes(inq') \in 0..Len(inq') /\ Bytes(inq) \in 0..Len(inq)
        BY <4>3, <4>4, BytesType
      <4>6. QED
        BY <4>2, <4>4, <4>5
    <3>1. SocketTypeOK'
      BY <2>30 DEF PeerByte, PeerPut
    <3>2. ReadTypeOK'
      <4>1. peer' \in [in : BOOLEAN, got : BOOLEAN, owes : BOOLEAN,
                      gone : BOOLEAN]
        BY <2>30 DEF PeerByte
      <4>2. UNCHANGED <<pend, quiet, msg>>
        BY <2>30 DEF PeerByte
      <4>3. undelivered' \in 0..(MaxIn + 1)
        BY SMTT(60), <2>30, <3>0 DEF PeerByte
      <4>4. QED
        BY <3>0, <4>1, <4>2, <4>3
    <3>3. ThreadTypeOK'
      BY <2>30 DEF PeerByte, PeerPut
    <3>4. PipeInv'
      BY <2>30, <3>0 DEF PeerByte
    <3>5. QED
      BY <3>1, <3>2, <3>3, <3>4
  <2>31. ASSUME NEW kind \in {"ping", "close", "eof", "bad"}, PeerControl(kind)
       PROVE  (TypeOK /\ PipeInv)'
    <3>0. /\ inq' \in Seq(Items) /\ Len(inq') <= MaxIn
          /\ Bytes(inq') = Bytes(inq)
          /\ Bytes(inq') \in 0..Len(inq') /\ Bytes(inq) \in 0..Len(inq)
      <4>1. PeerPut(kind, <<kind>>)
        BY <2>31 DEF PeerControl
      <4>2. <<kind>> \in Items /\ <<kind>> # <<"byte">>
        BY ItemFacts
      <4>3. inq \in Seq(Items)
        OBVIOUS
      <4>4. /\ inq' \in Seq(Items) /\ Len(inq') <= MaxIn
            /\ Bytes(inq') =
                 Bytes(inq) + IF <<kind>> = <<"byte">> THEN 1 ELSE 0
        BY ONLY <4>1, <4>2, <4>3, PutItem
      <4>5. Bytes(inq') \in 0..Len(inq') /\ Bytes(inq) \in 0..Len(inq)
        BY <4>3, <4>4, BytesType
      <4>6. QED
        BY <4>2, <4>4, <4>5
    <3>1. SocketTypeOK'
      BY <2>31 DEF PeerControl, PeerPut
    <3>2. ReadTypeOK'
      <4>1. peer' \in [in : BOOLEAN, got : BOOLEAN, owes : BOOLEAN,
                      gone : BOOLEAN]
        BY <2>31 DEF PeerControl
      <4>2. UNCHANGED <<pend, quiet, msg>>
        BY <2>31 DEF PeerControl
      <4>3. undelivered' \in 0..(MaxIn + 1)
        BY <2>31, <3>0 DEF PeerControl
      <4>4. QED
        BY <3>0, <4>1, <4>2, <4>3
    <3>3. ThreadTypeOK'
      BY <2>31 DEF PeerControl, PeerPut
    <3>4. PipeInv'
      BY <2>31, <3>0 DEF PeerControl
    <3>5. QED
      BY <3>1, <3>2, <3>3, <3>4
  <2>32. CASE Tick
    <3>1. SocketTypeOK'
      BY <2>32 DEF Tick
    <3>2. ReadTypeOK'
      BY <2>32 DEF Tick
    <3>3. ThreadTypeOK'
      <4>1. d' = d \/ (d[Loop] > 0 /\ d' = [d EXCEPT ![Loop] = d[Loop] - 1])
        BY <2>32 DEF Tick
      <4>2. d' \in [Threads -> Ticks]
        <5>1. d[Loop] \in Ticks /\ (d[Loop] > 0 => d[Loop] - 1 \in Ticks)
          OBVIOUS
        <5>2. CASE d' = d
          BY <5>2
        <5>3. CASE d[Loop] > 0 /\ d' = [d EXCEPT ![Loop] = d[Loop] - 1]
          BY <5>1, <5>3
        <5>4. QED
          BY <4>1, <5>2, <5>3
      <4>3. QED
        BY <2>32, <4>2 DEF Tick
    <3>4. PipeInv'
      BY <2>32 DEF Tick
    <3>5. QED
      BY <3>1, <3>2, <3>3, <3>4
  <2>33. CASE UNCHANGED vars
    BY <2>33 DEF vars
  <2>34. QED
    <3> HIDE DEF TypeOK, SocketTypeOK, ReadTypeOK, ThreadTypeOK,
            PipeInv, Labels, Causes, Goto, Closed, CloseFor, ConnError,
            shut, peers, write, read
    <3>1. QED
      BY <2>1, <2>2, <2>3, <2>4, <2>5, <2>6, <2>7, <2>8, <2>9, <2>10, <2>11,
         <2>12, <2>13, <2>14, <2>15, <2>16, <2>17, <2>18, <2>19, <2>20, <2>21,
         <2>22, <2>23, <2>24, <2>25, <2>26, <2>27, <2>28, <2>29, <2>30, <2>31,
         <2>32, <2>33 DEF Next, Step, LoopStep, LoopRead, PeerStep
<1>3. QED
  BY <1>1, <1>2, PTL DEF Spec

(* Type correctness: every variable keeps its type, whatever the peer      *)
(* sends.                                                                  *)
THEOREM TypeCorrect == Spec => []TypeOK
BY TypeInvariant, PTL

-----------------------------------------------------------------------------
(* closeWithCause runs once, in one goroutine, and closes the pipe before  *)
(* the connection: an error that closing the connection causes comes too   *)
(* late to be the cause.                                                   *)
Closing == {"flag", "pipeclose", "shut"}

CloseInv ==
  /\ \A g \in Threads : pc[g] \in Closing => once = "running"
  /\ \A g, h \in Threads : pc[g] \in Closing /\ pc[h] \in Closing => g = h
  /\ ~open => once = "done"
  /\ \A g \in Threads : why[g] = "self" => ~open
  /\ CauseIsOriginal

LEMMA CloseInvariant == Spec => []CloseInv
<1>1. Init => CloseInv
  BY ConstantsType DEF Init, CloseInv, Closing, CauseIsOriginal
<1>2. TypeOK /\ CloseInv /\ [Next]_vars => CloseInv'
  <2> SUFFICES ASSUME TypeOK, CloseInv, [Next]_vars PROVE CloseInv'
    OBVIOUS
  <2> USE ConstantsType, LoopIsThread
      DEF TypeOK, SocketTypeOK, ReadTypeOK, ThreadTypeOK, CloseInv, Closing,
          CauseIsOriginal, Goto, Closed, CloseFor, ConnError, shut, peers,
          write, read
  <2>1. CASE ArmLoad
    BY <2>1 DEF ArmLoad
  <2>2. CASE ArmSet
    BY <2>2 DEF ArmSet
  <2>3. ASSUME NEW len \in {0, 1}, NEW fin \in BOOLEAN, DataHeader(len, fin)
       PROVE  CloseInv'
    BY <2>3 DEF DataHeader, Take
  <2>4. CASE DataByte
    BY <2>4 DEF DataByte, Take
  <2>5. CASE PipeTaken
    BY <2>5 DEF PipeTaken
  <2>6. CASE PipeClosed
    BY <2>6 DEF PipeClosed
  <2>7. CASE FragmentEmpty
    BY <2>7 DEF FragmentEmpty
  <2>8. CASE ControlFrame("ping", "pong")
    BY <2>8 DEF ControlFrame, Take
  <2>9. CASE ControlFrame("close", "bye")
    BY <2>9 DEF ControlFrame, Take
  <2>10. CASE TryLock
    BY <2>10 DEF TryLock, AfterReply
  <2>11. ASSUME NEW kind \in {"eof", "bad"}, StreamEnd(kind) PROVE CloseInv'
    BY <2>11 DEF StreamEnd, Take
  <2>12. CASE ReadFail
    BY <2>12 DEF ReadFail
  <2>13. CASE RecvCall
    BY <2>13 DEF RecvCall
  <2>14. CASE RecvByte
    BY <2>14 DEF RecvByte
  <2>15. CASE RecvErr
    BY <2>15 DEF RecvErr
  <2>16. ASSUME NEW g \in Threads, NEW p \in Packets, SendCall(g, p)
       PROVE  CloseInv'
    BY <2>16 DEF SendCall
  <2>17. ASSUME NEW g \in Threads, WriteSome(g) PROVE CloseInv'
    BY <2>17 DEF WriteSome
  <2>18. ASSUME NEW g \in Threads, WriteFail(g) PROVE CloseInv'
    BY <2>18 DEF WriteFail
  <2>19. ASSUME NEW g \in Threads, NEW v \in Durations, SetTimeOut(g, v)
       PROVE  CloseInv'
    BY <2>19 DEF SetTimeOut
  <2>20. ASSUME NEW g \in Threads, CloseCall(g) PROVE CloseInv'
    BY <2>20 DEF CloseCall
  <2>21. ASSUME NEW g \in Threads, SendLock(g) PROVE CloseInv'
    BY <2>21 DEF SendLock
  <2>22. ASSUME NEW g \in Threads, WriteDone(g) PROVE CloseInv'
    BY <2>22 DEF WriteDone, AfterReply
  <2>23. ASSUME NEW g \in Threads, SetRead(g) PROVE CloseInv'
    BY <2>23 DEF SetRead
  <2>24. ASSUME NEW g \in Threads, CloseOnce(g) PROVE CloseInv'
    BY <2>24 DEF CloseOnce
  <2>25. ASSUME NEW g \in Threads, CloseAgain(g) PROVE CloseInv'
    BY <2>25 DEF CloseAgain
  <2>26. ASSUME NEW g \in Threads, CloseFlag(g) PROVE CloseInv'
    BY <2>26 DEF CloseFlag
  <2>27. ASSUME NEW g \in Threads, ClosePipe(g) PROVE CloseInv'
    BY <2>27 DEF ClosePipe
  <2>28. ASSUME NEW g \in Threads, CloseConn(g) PROVE CloseInv'
    BY <2>28 DEF CloseConn
  <2>29. ASSUME NEW len \in {0, 1}, NEW fin \in BOOLEAN, PeerHeader(len, fin)
       PROVE  CloseInv'
    BY <2>29 DEF PeerHeader, PeerPut
  <2>30. CASE PeerByte
    BY <2>30 DEF PeerByte, PeerPut
  <2>31. ASSUME NEW kind \in {"ping", "close", "eof", "bad"}, PeerControl(kind)
       PROVE  CloseInv'
    BY <2>31 DEF PeerControl, PeerPut
  <2>32. CASE Tick
    BY <2>32 DEF Tick
  <2>33. CASE UNCHANGED vars
    BY <2>33 DEF vars
  <2>34. QED
    <3> HIDE DEF TypeOK, SocketTypeOK, ReadTypeOK, ThreadTypeOK,
            CloseInv, Closing, CauseIsOriginal, Goto, Closed, CloseFor,
            ConnError, shut, peers, write, read
    <3>1. QED
      BY <2>1, <2>2, <2>3, <2>4, <2>5, <2>6, <2>7, <2>8, <2>9, <2>10, <2>11,
         <2>12, <2>13, <2>14, <2>15, <2>16, <2>17, <2>18, <2>19, <2>20, <2>21,
         <2>22, <2>23, <2>24, <2>25, <2>26, <2>27, <2>28, <2>29, <2>30, <2>31,
         <2>32, <2>33 DEF Next, Step, LoopStep, LoopRead, PeerStep
<1>3. QED
  BY <1>1, <1>2, TypeCorrect, PTL DEF Spec

(* Recv reports why the session ended, never an error that the socket's    *)
(* own closing of the connection caused.                                   *)
THEOREM CauseStaysOriginal == Spec => []CauseIsOriginal
BY CloseInvariant, PTL DEF CloseInv

-----------------------------------------------------------------------------
(* A frame is written under wmu, its last unit is the last on the          *)
(* connection, and nobody holds wmu without writing.                       *)
Writer(g) ==
  /\ wmu = g <=> pc[g] = "write"
  /\ pc[g] \in {"lock", "try"} => n[g] = 0
  /\ pc[g] = "write" /\ n[g] # 0 => tail = <<frm[g], n[g]>>

Writers == \A g \in Threads : Writer(g)

LEMMA WritersInvariant == Spec => []Writers
<1>1. Init => Writers
  BY ConstantsType DEF Init, Writers, Writer
<1>2. TypeOK /\ Writers /\ [Next]_vars => Writers'
  <2> SUFFICES ASSUME TypeOK, Writers, [Next]_vars, NEW h \in Threads
               PROVE  Writer(h)'
    BY DEF Writers
  <2> USE ConstantsType, LoopIsThread
      DEF TypeOK, SocketTypeOK, ReadTypeOK, ThreadTypeOK, Writers, Writer,
          Goto, Closed, CloseFor, ConnError, shut, peers, write, read
  <2>1. CASE ArmLoad
    BY <2>1 DEF ArmLoad
  <2>2. CASE ArmSet
    BY <2>2 DEF ArmSet
  <2>3. ASSUME NEW len \in {0, 1}, NEW fin \in BOOLEAN, DataHeader(len, fin)
       PROVE  Writer(h)'
    BY <2>3 DEF DataHeader, Take
  <2>4. CASE DataByte
    BY <2>4 DEF DataByte, Take
  <2>5. CASE PipeTaken
    BY <2>5 DEF PipeTaken
  <2>6. CASE PipeClosed
    BY <2>6 DEF PipeClosed
  <2>7. CASE FragmentEmpty
    BY <2>7 DEF FragmentEmpty
  <2>8. CASE ControlFrame("ping", "pong")
    BY <2>8 DEF ControlFrame, Take
  <2>9. CASE ControlFrame("close", "bye")
    BY <2>9 DEF ControlFrame, Take
  <2>10. CASE TryLock
    BY <2>10 DEF TryLock, AfterReply
  <2>11. ASSUME NEW kind \in {"eof", "bad"}, StreamEnd(kind) PROVE Writer(h)'
    BY <2>11 DEF StreamEnd, Take
  <2>12. CASE ReadFail
    BY <2>12 DEF ReadFail
  <2>13. CASE RecvCall
    BY <2>13 DEF RecvCall
  <2>14. CASE RecvByte
    BY <2>14 DEF RecvByte
  <2>15. CASE RecvErr
    BY <2>15 DEF RecvErr
  <2>16. ASSUME NEW g \in Threads, NEW p \in Packets, SendCall(g, p)
       PROVE  Writer(h)'
    <3>1. CASE closed
      BY <2>16, <3>1 DEF SendCall
    <3>2. CASE ~closed
      BY <2>16, <3>2 DEF SendCall
    <3>3. QED
      BY <3>1, <3>2
  <2>17. ASSUME NEW g \in Threads, WriteSome(g) PROVE Writer(h)'
    BY <2>17 DEF WriteSome
  <2>18. ASSUME NEW g \in Threads, WriteFail(g) PROVE Writer(h)'
    BY <2>18 DEF WriteFail
  <2>19. ASSUME NEW g \in Threads, NEW v \in Durations, SetTimeOut(g, v)
       PROVE  Writer(h)'
    BY <2>19 DEF SetTimeOut
  <2>20. ASSUME NEW g \in Threads, CloseCall(g) PROVE Writer(h)'
    BY <2>20 DEF CloseCall
  <2>21. ASSUME NEW g \in Threads, SendLock(g) PROVE Writer(h)'
    BY <2>21 DEF SendLock
  <2>22. ASSUME NEW g \in Threads, WriteDone(g) PROVE Writer(h)'
    BY <2>22 DEF WriteDone, AfterReply
  <2>23. ASSUME NEW g \in Threads, SetRead(g) PROVE Writer(h)'
    BY <2>23 DEF SetRead
  <2>24. ASSUME NEW g \in Threads, CloseOnce(g) PROVE Writer(h)'
    BY <2>24 DEF CloseOnce
  <2>25. ASSUME NEW g \in Threads, CloseAgain(g) PROVE Writer(h)'
    BY <2>25 DEF CloseAgain
  <2>26. ASSUME NEW g \in Threads, CloseFlag(g) PROVE Writer(h)'
    BY <2>26 DEF CloseFlag
  <2>27. ASSUME NEW g \in Threads, ClosePipe(g) PROVE Writer(h)'
    BY <2>27 DEF ClosePipe
  <2>28. ASSUME NEW g \in Threads, CloseConn(g) PROVE Writer(h)'
    BY <2>28 DEF CloseConn
  <2>29. ASSUME NEW len \in {0, 1}, NEW fin \in BOOLEAN, PeerHeader(len, fin)
       PROVE  Writer(h)'
    BY <2>29 DEF PeerHeader, PeerPut
  <2>30. CASE PeerByte
    BY <2>30 DEF PeerByte, PeerPut
  <2>31. ASSUME NEW kind \in {"ping", "close", "eof", "bad"}, PeerControl(kind)
       PROVE  Writer(h)'
    BY <2>31 DEF PeerControl, PeerPut
  <2>32. CASE Tick
    BY <2>32 DEF Tick
  <2>33. CASE UNCHANGED vars
    BY <2>33 DEF vars
  <2>34. QED
    <3> HIDE DEF TypeOK, SocketTypeOK, ReadTypeOK, ThreadTypeOK,
            Writers, Writer, Goto, Closed, CloseFor, ConnError, shut,
            peers, write, read
    <3>1. QED
      BY <2>1, <2>2, <2>3, <2>4, <2>5, <2>6, <2>7, <2>8, <2>9, <2>10, <2>11,
         <2>12, <2>13, <2>14, <2>15, <2>16, <2>17, <2>18, <2>19, <2>20, <2>21,
         <2>22, <2>23, <2>24, <2>25, <2>26, <2>27, <2>28, <2>29, <2>30, <2>31,
         <2>32, <2>33 DEF Next, Step, LoopStep, LoopRead, PeerStep
<1>3. QED
  BY <1>1, <1>2, TypeCorrect, PTL DEF Spec

(* Until a write has failed halfway, an unfinished frame at the end of the *)
(* connection is being written.                                            *)
CutIsOwned ==
  ~torn /\ ~PW!AtBoundary(tail) =>
    \E g \in Threads : pc[g] = "write" /\ n[g] # 0

LEMMA CutInvariant == Spec => []CutIsOwned
<1>1. Init => CutIsOwned
  BY DEF Init, CutIsOwned, PW!AtBoundary
<1>2. TypeOK /\ PipeInv /\ Writers /\ CutIsOwned /\ [Next]_vars => CutIsOwned'
  <2> SUFFICES ASSUME TypeOK, PipeInv, Writers, CutIsOwned, [Next]_vars
               PROVE  CutIsOwned'
    OBVIOUS
  <2> USE ConstantsType, LoopIsThread
      DEF TypeOK, SocketTypeOK, ReadTypeOK, ThreadTypeOK, Writers, Writer,
          CutIsOwned, PW!AtBoundary, Goto, Closed, CloseFor, ConnError, shut,
          peers, write, read
  <2>1. CASE ArmLoad
    BY <2>1 DEF ArmLoad
  <2>2. CASE ArmSet
    BY <2>2 DEF ArmSet
  <2>3. ASSUME NEW len \in {0, 1}, NEW fin \in BOOLEAN, DataHeader(len, fin)
       PROVE  CutIsOwned'
    BY <2>3 DEF DataHeader, Take
  <2>4. CASE DataByte
    BY <2>4 DEF DataByte, Take
  <2>5. CASE PipeTaken
    BY <2>5 DEF PipeTaken
  <2>6. CASE PipeClosed
    BY <2>6 DEF PipeClosed
  <2>7. CASE FragmentEmpty
    BY <2>7 DEF FragmentEmpty
  <2>8. CASE ControlFrame("ping", "pong")
    BY <2>8 DEF ControlFrame, Take
  <2>9. CASE ControlFrame("close", "bye")
    BY <2>9 DEF ControlFrame, Take
  <2>10. CASE TryLock
    BY <2>10 DEF TryLock, AfterReply
  <2>11. ASSUME NEW kind \in {"eof", "bad"}, StreamEnd(kind) PROVE CutIsOwned'
    BY <2>11 DEF StreamEnd, Take
  <2>12. CASE ReadFail
    BY <2>12 DEF ReadFail
  <2>13. CASE RecvCall
    BY <2>13 DEF RecvCall
  <2>14. CASE RecvByte
    BY <2>14 DEF RecvByte
  <2>15. CASE RecvErr
    BY <2>15 DEF RecvErr
  <2>16. ASSUME NEW g \in Threads, NEW p \in Packets, SendCall(g, p)
       PROVE  CutIsOwned'
    <3>1. CASE closed
      BY <2>16, <3>1 DEF SendCall
    <3>2. CASE ~closed
      BY <2>16, <3>2 DEF SendCall
    <3>3. QED
      BY <3>1, <3>2
  <2>17. ASSUME NEW g \in Threads, WriteSome(g) PROVE CutIsOwned'
    BY <2>17 DEF WriteSome
  <2>18. ASSUME NEW g \in Threads, WriteFail(g) PROVE CutIsOwned'
    <3>1. CASE n[g] = 0
      <4>1. ~torn' => ~torn
        BY <2>18 DEF WriteFail
      <4>2. /\ pc' = [pc EXCEPT ![g] = "close"] /\ UNCHANGED <<n, tail>>
        BY <2>18 DEF WriteFail
      <4>3. QED
        BY <3>1, <4>1, <4>2
    <3>2. CASE n[g] # 0
      <4>1. n[g] > 0
        BY <3>2
      <4>2. torn' = TRUE
        BY <2>18, <4>1 DEF WriteFail
      <4>3. QED
        BY <4>2
    <3>3. QED
      BY <3>1, <3>2
  <2>19. ASSUME NEW g \in Threads, NEW v \in Durations, SetTimeOut(g, v)
       PROVE  CutIsOwned'
    BY <2>19 DEF SetTimeOut
  <2>20. ASSUME NEW g \in Threads, CloseCall(g) PROVE CutIsOwned'
    BY <2>20 DEF CloseCall
  <2>21. ASSUME NEW g \in Threads, SendLock(g) PROVE CutIsOwned'
    BY <2>21 DEF SendLock
  <2>22. ASSUME NEW g \in Threads, WriteDone(g) PROVE CutIsOwned'
    BY <2>22 DEF WriteDone, AfterReply
  <2>23. ASSUME NEW g \in Threads, SetRead(g) PROVE CutIsOwned'
    BY <2>23 DEF SetRead
  <2>24. ASSUME NEW g \in Threads, CloseOnce(g) PROVE CutIsOwned'
    BY <2>24 DEF CloseOnce
  <2>25. ASSUME NEW g \in Threads, CloseAgain(g) PROVE CutIsOwned'
    BY <2>25 DEF CloseAgain
  <2>26. ASSUME NEW g \in Threads, CloseFlag(g) PROVE CutIsOwned'
    BY <2>26 DEF CloseFlag
  <2>27. ASSUME NEW g \in Threads, ClosePipe(g) PROVE CutIsOwned'
    BY <2>27 DEF ClosePipe
  <2>28. ASSUME NEW g \in Threads, CloseConn(g) PROVE CutIsOwned'
    BY <2>28 DEF CloseConn
  <2>29. ASSUME NEW len \in {0, 1}, NEW fin \in BOOLEAN, PeerHeader(len, fin)
       PROVE  CutIsOwned'
    BY <2>29 DEF PeerHeader, PeerPut
  <2>30. CASE PeerByte
    BY <2>30 DEF PeerByte, PeerPut
  <2>31. ASSUME NEW kind \in {"ping", "close", "eof", "bad"}, PeerControl(kind)
       PROVE  CutIsOwned'
    BY <2>31 DEF PeerControl, PeerPut
  <2>32. CASE Tick
    BY <2>32 DEF Tick
  <2>33. CASE UNCHANGED vars
    BY <2>33 DEF vars
  <2>34. QED
    <3> HIDE DEF TypeOK, SocketTypeOK, ReadTypeOK, ThreadTypeOK,
            Writers, Writer, CutIsOwned, PW!AtBoundary, Goto, Closed,
            CloseFor, ConnError, shut, peers, write, read
    <3>1. QED
      BY <2>1, <2>2, <2>3, <2>4, <2>5, <2>6, <2>7, <2>8, <2>9, <2>10, <2>11,
         <2>12, <2>13, <2>14, <2>15, <2>16, <2>17, <2>18, <2>19, <2>20, <2>21,
         <2>22, <2>23, <2>24, <2>25, <2>26, <2>27, <2>28, <2>29, <2>30, <2>31,
         <2>32, <2>33 DEF Next, Step, LoopStep, LoopRead, PeerStep
<1>3. QED
  BY <1>1, <1>2, TypeInvariant, WritersInvariant, PTL DEF Spec

(* Only WriteSome puts anything on the connection.                         *)
LEMMA OnlyWrites ==
  ASSUME [Next]_vars
  PROVE  (\E g \in Threads : WriteSome(g)) \/ UNCHANGED tail
<1> USE DEF shut, peers, write, read
<1>1. CASE ArmLoad
  BY <1>1 DEF ArmLoad
<1>2. CASE ArmSet
  BY <1>2 DEF ArmSet
<1>3. ASSUME NEW len \in {0, 1}, NEW fin \in BOOLEAN, DataHeader(len, fin)
     PROVE  UNCHANGED tail
  BY <1>3 DEF DataHeader, Take
<1>4. CASE DataByte
  BY <1>4 DEF DataByte, Take
<1>5. CASE PipeTaken
  BY <1>5 DEF PipeTaken
<1>6. CASE PipeClosed
  BY <1>6 DEF PipeClosed
<1>7. CASE FragmentEmpty
  BY <1>7 DEF FragmentEmpty
<1>8. CASE ControlFrame("ping", "pong")
  BY <1>8 DEF ControlFrame, Take
<1>9. CASE ControlFrame("close", "bye")
  BY <1>9 DEF ControlFrame, Take
<1>10. CASE TryLock
  BY <1>10 DEF TryLock, AfterReply
<1>11. ASSUME NEW kind \in {"eof", "bad"}, StreamEnd(kind) PROVE UNCHANGED tail
  BY <1>11 DEF StreamEnd, Take
<1>12. CASE ReadFail
  BY <1>12 DEF ReadFail
<1>13. CASE RecvCall
  BY <1>13 DEF RecvCall
<1>14. CASE RecvByte
  BY <1>14 DEF RecvByte
<1>15. CASE RecvErr
  BY <1>15 DEF RecvErr
<1>16. ASSUME NEW g \in Threads, NEW p \in Packets, SendCall(g, p)
     PROVE  UNCHANGED tail
  BY <1>16 DEF SendCall
<1>17. ASSUME NEW g \in Threads, WriteFail(g) PROVE UNCHANGED tail
  BY <1>17 DEF WriteFail
<1>18. ASSUME NEW g \in Threads, NEW v \in Durations, SetTimeOut(g, v)
     PROVE  UNCHANGED tail
  BY <1>18 DEF SetTimeOut
<1>19. ASSUME NEW g \in Threads, CloseCall(g) PROVE UNCHANGED tail
  BY <1>19 DEF CloseCall
<1>20. ASSUME NEW g \in Threads, SendLock(g) PROVE UNCHANGED tail
  BY <1>20 DEF SendLock
<1>21. ASSUME NEW g \in Threads, WriteDone(g) PROVE UNCHANGED tail
  BY <1>21 DEF WriteDone, AfterReply
<1>22. ASSUME NEW g \in Threads, SetRead(g) PROVE UNCHANGED tail
  BY <1>22 DEF SetRead
<1>23. ASSUME NEW g \in Threads, CloseOnce(g) PROVE UNCHANGED tail
  BY <1>23 DEF CloseOnce
<1>24. ASSUME NEW g \in Threads, CloseAgain(g) PROVE UNCHANGED tail
  BY <1>24 DEF CloseAgain
<1>25. ASSUME NEW g \in Threads, CloseFlag(g) PROVE UNCHANGED tail
  BY <1>25 DEF CloseFlag
<1>26. ASSUME NEW g \in Threads, ClosePipe(g) PROVE UNCHANGED tail
  BY <1>26 DEF ClosePipe
<1>27. ASSUME NEW g \in Threads, CloseConn(g) PROVE UNCHANGED tail
  BY <1>27 DEF CloseConn
<1>28. ASSUME NEW len \in {0, 1}, NEW fin \in BOOLEAN, PeerHeader(len, fin)
     PROVE  UNCHANGED tail
  BY <1>28 DEF PeerHeader, PeerPut
<1>29. CASE PeerByte
  BY <1>29 DEF PeerByte, PeerPut
<1>30. ASSUME NEW kind \in {"ping", "close", "eof", "bad"}, PeerControl(kind)
     PROVE  UNCHANGED tail
  BY <1>30 DEF PeerControl, PeerPut
<1>31. CASE Tick
  BY <1>31 DEF Tick
<1>32. CASE UNCHANGED vars
  BY <1>32 DEF vars
<1>33. QED
  BY <1>1, <1>2, <1>3, <1>4, <1>5, <1>6, <1>7, <1>8, <1>9, <1>10, <1>11, <1>12,
     <1>13, <1>14, <1>15, <1>16, <1>17, <1>18, <1>19, <1>20, <1>21, <1>22,
     <1>23, <1>24, <1>25, <1>26, <1>27, <1>28, <1>29, <1>30, <1>31, <1>32 DEF
     Next, Step, LoopStep, LoopRead, PeerStep

(* The frames of concurrent Sends and of the loop's replies never          *)
(* interleave as long as no write has failed halfway.                      *)
THEOREM WsFramingUntilTorn == Spec => FramingUntilTorn
<1>1. TypeOK /\ Writers /\ CutIsOwned /\ [Next]_vars
        => [~torn => PW!Next \/ UNCHANGED tail]_vars
  <2> SUFFICES ASSUME TypeOK, Writers, CutIsOwned, [Next]_vars, ~torn
               PROVE  PW!Next \/ UNCHANGED tail
    OBVIOUS
  <2> USE DEF TypeOK, SocketTypeOK, ThreadTypeOK
  <2>1. ASSUME NEW g \in Threads, WriteSome(g) PROVE PW!Next
    <3>1. /\ frm[g] \in Frames /\ n[g] \in 0..2 /\ Size[frm[g]] = 2
          /\ n[g] < 2 /\ tail' = <<frm[g], n[g] + 1>>
      BY <2>1 DEF WriteSome, Size
    <3>2. n[g] + 1 \in 1..Size[frm[g]]
      BY <3>1
    <3>3. PW!MayFollow(tail, frm[g], n[g] + 1)
      <4>1. CASE n[g] = 0
        <5>1. \A h \in Threads : pc[h] = "write" => n[h] = 0
          BY <2>1, <4>1 DEF WriteSome, Writers, Writer
        <5>2. PW!AtBoundary(tail)
          BY <5>1 DEF CutIsOwned
        <5>3. QED
          BY <4>1, <5>2 DEF PW!MayFollow
      <4>2. CASE n[g] # 0
        <5>1. tail = <<frm[g], n[g]>>
          BY <2>1, <4>2 DEF WriteSome, Writers, Writer
        <5>2. ~PW!AtBoundary(tail)
          BY <3>1, <5>1 DEF PW!AtBoundary
        <5>3. (n[g] + 1) - 1 = n[g]
          BY <3>1
        <5>4. QED
          BY <5>1, <5>2, <5>3 DEF PW!MayFollow
      <4>3. QED
        BY <4>1, <4>2
    <3>4. QED
      BY <3>1, <3>2, <3>3 DEF PW!Next, PW!Put
  <2>2. QED
    BY <2>1, OnlyWrites
<1>2. QED
  BY <1>1, TypeCorrect, WritersInvariant, CutInvariant, PTL
     DEF Spec, FramingUntilTorn

-----------------------------------------------------------------------------
(* The peer sends nothing after the item that ends its stream.             *)
Ends == {<<"close">>, <<"eof">>, <<"bad">>}

EndIsLast ==
  \A i \in 1..Len(inq) : inq[i] \in Ends => i = Len(inq) /\ peer.gone

(* The peer's stream has ended and all of it was read.                     *)
Drained == peer.gone /\ inq = <<>> /\ ~pend

EofInv ==
  /\ EndIsLast
  /\ frm[Loop] \in {"pong", "bye"}
  /\ \A g \in Threads : frm[g] = "bye" \/ why[g] = "EOF" => Drained
  /\ cause = "EOF" => Drained

(* Taking an item keeps this, and the end of the stream leaves nothing.    *)
LEMMA TakeKeepsEnd ==
  ASSUME inq \in Seq(Items), EndIsLast, NEW item, Take(item), peer' = peer
  PROVE  EndIsLast' /\ inq # <<>> /\ (item \in Ends => inq' = <<>> /\ peer.gone)
<1>1. /\ inq # <<>> /\ inq[1] = item /\ Len(inq) \in Nat \ {0}
      /\ inq' \in Seq(Items) /\ Len(inq') = Len(inq) - 1
      /\ \A i \in 1..Len(inq') : inq'[i] = inq[i + 1]
  BY DEF Take
<1>2. EndIsLast'
  BY <1>1 DEF EndIsLast
<1>3. ASSUME item \in Ends PROVE inq' = <<>> /\ peer.gone
  <2>1. 1 = Len(inq) /\ peer.gone
    BY <1>1, <1>3 DEF EndIsLast
  <2>2. QED
    BY <1>1, <2>1
<1>4. QED
  BY <1>1, <1>2, <1>3

(* So does sending one: nothing is sent after the end.                     *)
LEMMA PutKeepsEnd ==
  ASSUME inq \in Seq(Items), EndIsLast, NEW kind, NEW item \in Items,
         PeerPut(kind, item), item \in Ends => peer'.gone
  PROVE  EndIsLast'
<1>1. /\ Len(inq) \in Nat /\ Len(inq') = Len(inq) + 1
      /\ inq'[Len(inq) + 1] = item
      /\ \A i \in 1..Len(inq) : inq'[i] = inq[i]
  BY DEF PeerPut
<1>2. \A i \in 1..Len(inq) : inq[i] \notin Ends
  BY DEF EndIsLast, PeerPut
<1>3. ASSUME NEW i \in 1..Len(inq'), inq'[i] \in Ends
      PROVE  i = Len(inq') /\ peer'.gone
  <2>1. i = Len(inq) + 1
    BY <1>1, <1>2, <1>3
  <2>2. QED
    BY <1>1, <1>3, <2>1
<1>4. QED
  BY <1>3 DEF EndIsLast

(* Whatever ends the loop with io.EOF, the end of the stream or a close    *)
(* frame, it was the last item and the pipe is empty.                      *)
LEMMA EofInvariant == Spec => []EofInv
<1>1. Init => EofInv
  BY ConstantsType, LoopIsThread DEF Init, EofInv, EndIsLast
<1>2. TypeOK /\ PipeInv /\ EofInv /\ [Next]_vars => EofInv'
  <2> SUFFICES ASSUME TypeOK, PipeInv, EofInv, [Next]_vars
               PROVE  EofInv'
    OBVIOUS
  <2> USE ConstantsType, LoopIsThread
      DEF TypeOK, SocketTypeOK, ReadTypeOK, ThreadTypeOK, PipeInv, EofInv,
          EndIsLast, Drained, Goto, Closed, CloseFor, ConnError, shut, peers,
          write, read
  <2>1. CASE ArmLoad
    BY <2>1 DEF ArmLoad
  <2>2. CASE ArmSet
    BY <2>2 DEF ArmSet
  <2>3. ASSUME NEW len \in {0, 1}, NEW fin \in BOOLEAN, DataHeader(len, fin)
       PROVE  EofInv'
    BY <2>3 DEF DataHeader, Take
  <2>4. CASE DataByte
    <3>1. Take(<<"byte">>) /\ peer' = peer
      BY <2>4 DEF DataByte
    <3>2. EndIsLast' /\ inq # <<>> /\ (<<"byte">> \in Ends => inq' = <<>> /\ peer.gone)
      <4> HIDE DEF EndIsLast
      <4>1. QED
        BY <3>1, TakeKeepsEnd
    <3>3. ~Drained /\ UNCHANGED <<frm, why, cause>>
      BY <2>4, <3>2 DEF DataByte
    <3>4. QED
      BY <3>2, <3>3
  <2>5. CASE PipeTaken
    BY <2>5 DEF PipeTaken
  <2>6. CASE PipeClosed
    BY <2>6 DEF PipeClosed
  <2>7. CASE FragmentEmpty
    BY <2>7 DEF FragmentEmpty
  <2>8. CASE ControlFrame("ping", "pong")
    BY <2>8 DEF ControlFrame, Take
  <2>9. CASE ControlFrame("close", "bye")
    <3>1. Take(<<"close">>) /\ peer' = peer
      BY <2>9 DEF ControlFrame
    <3>2. EndIsLast' /\ inq # <<>> /\ (<<"close">> \in Ends => inq' = <<>> /\ peer.gone)
      <4> HIDE DEF EndIsLast
      <4>1. QED
        BY <3>1, TakeKeepsEnd
    <3>3. Drained'
      BY <2>9, <3>1, <3>2 DEF ControlFrame, Ends
    <3>4. frm'[Loop] = "bye" /\ cause' = cause
      BY <2>9 DEF ControlFrame
    <3>5. QED
      BY <3>2, <3>3, <3>4
  <2>10. CASE TryLock
    BY <2>10 DEF TryLock, AfterReply
  <2>11. ASSUME NEW kind \in {"eof", "bad"}, StreamEnd(kind) PROVE EofInv'
    <3>1. Take(<<kind>>) /\ peer' = peer
      BY <2>11 DEF StreamEnd
    <3>2. EndIsLast' /\ inq # <<>> /\ (<<kind>> \in Ends => inq' = <<>> /\ peer.gone)
      <4> HIDE DEF EndIsLast
      <4>1. QED
        BY <3>1, TakeKeepsEnd
    <3>3. Drained'
      BY <2>11, <3>1, <3>2 DEF StreamEnd, Ends
    <3>4. frm' = frm
      BY <2>11 DEF StreamEnd
    <3>5. QED
      BY <3>2, <3>3, <3>4
  <2>12. CASE ReadFail
    BY <2>12 DEF ReadFail
  <2>13. CASE RecvCall
    BY <2>13 DEF RecvCall
  <2>14. CASE RecvByte
    BY <2>14 DEF RecvByte
  <2>15. CASE RecvErr
    BY <2>15 DEF RecvErr
  <2>16. ASSUME NEW g \in Threads, NEW p \in Packets, SendCall(g, p)
       PROVE  EofInv'
    <3>1. CASE closed
      BY <2>16, <3>1 DEF SendCall
    <3>2. CASE ~closed
      BY <2>16, <3>2 DEF SendCall
    <3>3. QED
      BY <3>1, <3>2
  <2>17. ASSUME NEW g \in Threads, WriteSome(g) PROVE EofInv'
    BY <2>17 DEF WriteSome
  <2>18. ASSUME NEW g \in Threads, WriteFail(g) PROVE EofInv'
    BY <2>18 DEF WriteFail
  <2>19. ASSUME NEW g \in Threads, NEW v \in Durations, SetTimeOut(g, v)
       PROVE  EofInv'
    BY <2>19 DEF SetTimeOut
  <2>20. ASSUME NEW g \in Threads, CloseCall(g) PROVE EofInv'
    BY <2>20 DEF CloseCall
  <2>21. ASSUME NEW g \in Threads, SendLock(g) PROVE EofInv'
    BY <2>21 DEF SendLock
  <2>22. ASSUME NEW g \in Threads, WriteDone(g) PROVE EofInv'
    BY <2>22 DEF WriteDone, AfterReply
  <2>23. ASSUME NEW g \in Threads, SetRead(g) PROVE EofInv'
    BY <2>23 DEF SetRead
  <2>24. ASSUME NEW g \in Threads, CloseOnce(g) PROVE EofInv'
    BY <2>24 DEF CloseOnce
  <2>25. ASSUME NEW g \in Threads, CloseAgain(g) PROVE EofInv'
    BY <2>25 DEF CloseAgain
  <2>26. ASSUME NEW g \in Threads, CloseFlag(g) PROVE EofInv'
    BY <2>26 DEF CloseFlag
  <2>27. ASSUME NEW g \in Threads, ClosePipe(g) PROVE EofInv'
    BY <2>27 DEF ClosePipe
  <2>28. ASSUME NEW g \in Threads, CloseConn(g) PROVE EofInv'
    BY <2>28 DEF CloseConn
  <2>29. ASSUME NEW len \in {0, 1}, NEW fin \in BOOLEAN, PeerHeader(len, fin)
       PROVE  EofInv'
    <3>1. PeerPut("data", <<"data", len, fin>>) /\ <<"data", len, fin>> \in Items /\ ~Drained
      BY <2>29, ItemFacts DEF PeerHeader, PeerPut
    <3>2. <<"data", len, fin>> \notin Ends
      BY <2>29 DEF PeerHeader, Ends
    <3>3. EndIsLast'
      <4> HIDE DEF EndIsLast
      <4>1. QED
        BY <3>1, <3>2, PutKeepsEnd
    <3>4. UNCHANGED <<frm, why, cause>>
      BY <2>29 DEF PeerHeader
    <3>5. QED
      BY <3>1, <3>3, <3>4
  <2>30. CASE PeerByte
    <3>1. PeerPut("data", <<"byte">>) /\ <<"byte">> \in Items /\ ~Drained
      BY <2>30, ItemFacts DEF PeerByte, PeerPut
    <3>2. <<"byte">> \notin Ends
      BY <2>30 DEF PeerByte, Ends
    <3>3. EndIsLast'
      <4> HIDE DEF EndIsLast
      <4>1. QED
        BY <3>1, <3>2, PutKeepsEnd
    <3>4. UNCHANGED <<frm, why, cause>>
      BY <2>30 DEF PeerByte
    <3>5. QED
      BY <3>1, <3>3, <3>4
  <2>31. ASSUME NEW kind \in {"ping", "close", "eof", "bad"}, PeerControl(kind)
       PROVE  EofInv'
    <3>1. PeerPut(kind, <<kind>>) /\ <<kind>> \in Items /\ ~Drained
      BY <2>31, ItemFacts DEF PeerControl, PeerPut
    <3>2. <<kind>> \in Ends => peer'.gone
      BY <2>31 DEF PeerControl, Ends
    <3>3. EndIsLast'
      <4> HIDE DEF EndIsLast
      <4>1. QED
        BY <3>1, <3>2, PutKeepsEnd
    <3>4. UNCHANGED <<frm, why, cause>>
      BY <2>31 DEF PeerControl
    <3>5. QED
      BY <3>1, <3>3, <3>4
  <2>32. CASE Tick
    BY <2>32 DEF Tick
  <2>33. CASE UNCHANGED vars
    BY <2>33 DEF vars
  <2>34. QED
    <3> HIDE DEF TypeOK, SocketTypeOK, ReadTypeOK, ThreadTypeOK,
            PipeInv, EofInv, EndIsLast, Drained, Goto, Closed, CloseFor,
            ConnError, shut, peers, write, read
    <3>1. QED
      BY <2>1, <2>2, <2>3, <2>4, <2>5, <2>6, <2>7, <2>8, <2>9, <2>10, <2>11,
         <2>12, <2>13, <2>14, <2>15, <2>16, <2>17, <2>18, <2>19, <2>20, <2>21,
         <2>22, <2>23, <2>24, <2>25, <2>26, <2>27, <2>28, <2>29, <2>30, <2>31,
         <2>32, <2>33 DEF Next, Step, LoopStep, LoopRead, PeerStep
<1>3. QED
  BY <1>1, <1>2, TypeInvariant, PTL DEF Spec

(* Recv reports io.EOF only after every byte the peer sent was read.       *)
THEOREM EofLosesNothing == Spec => []EofAfterAllData
<1>1. PipeInv /\ EofInv => EofAfterAllData
  BY BytesOfNone DEF PipeInv, EofInv, Drained, EofAfterAllData
<1>2. QED
  BY <1>1, TypeInvariant, EofInvariant, PTL

-----------------------------------------------------------------------------
(* With one timeout in force, the deadline the loop reads under is at      *)
(* least a timeout away from the last data byte; and it is the loop alone  *)
(* that ends the session for idleness.                                     *)
IdleInv ==
  /\ pc[Loop] = "armset" => d[Loop] = timeout
  /\ \A g \in Threads : pc[g] = "setread" => d[g] = timeout
  /\ open /\ rdl # NoDl /\ pc[Loop] \in {"frame", "body", "try", "write"}
       => quiet + rdl >= timeout
  /\ \A g \in Threads : why[g] = "timeout" => g = Loop
  /\ cause = "timeout" => why[Loop] # None

LEMMA IdleInvariant ==
  ASSUME NEW T, Durations = {T}
  PROVE  Spec => []IdleInv
<1>1. Init => IdleInv
  BY ConstantsType, LoopIsThread DEF Init, IdleInv
<1>2. TypeOK /\ TypeOK' /\ PipeInv /\ IdleInv /\ [Next]_vars => IdleInv'
  <2> SUFFICES ASSUME TypeOK, TypeOK', PipeInv, IdleInv, [Next]_vars
               PROVE  IdleInv'
    OBVIOUS
  <2>0. timeout = T /\ timeout' = T /\ T \in Nat /\ quiet \in Nat
        /\ (rdl \in Nat \/ rdl = NoDl)
    BY ConstantsType, TicksFacts DEF TypeOK, SocketTypeOK, ReadTypeOK
  <2> USE <2>0, ConstantsType, LoopIsThread, TicksFacts
      DEF TypeOK, SocketTypeOK, ReadTypeOK, ThreadTypeOK, PipeInv, IdleInv,
          Goto, Closed, CloseFor, ConnError, NoDl, shut, peers, write, read
  <2>1. CASE ArmLoad
    BY <2>1 DEF ArmLoad
  <2>2. CASE ArmSet
    BY <2>2 DEF ArmSet
  <2>3. ASSUME NEW len \in {0, 1}, NEW fin \in BOOLEAN, DataHeader(len, fin)
       PROVE  IdleInv'
    BY <2>3 DEF DataHeader, Take
  <2>4. CASE DataByte
    BY <2>4 DEF DataByte, Take
  <2>5. CASE PipeTaken
    BY <2>5 DEF PipeTaken
  <2>6. CASE PipeClosed
    BY <2>6 DEF PipeClosed
  <2>7. CASE FragmentEmpty
    BY <2>7 DEF FragmentEmpty
  <2>8. CASE ControlFrame("ping", "pong")
    BY <2>8 DEF ControlFrame, Take
  <2>9. CASE ControlFrame("close", "bye")
    BY <2>9 DEF ControlFrame, Take
  <2>10. CASE TryLock
    BY <2>10 DEF TryLock, AfterReply
  <2>11. ASSUME NEW kind \in {"eof", "bad"}, StreamEnd(kind) PROVE IdleInv'
    BY <2>11 DEF StreamEnd, Take
  <2>12. CASE ReadFail
    BY <2>12 DEF ReadFail
  <2>13. CASE RecvCall
    BY <2>13 DEF RecvCall
  <2>14. CASE RecvByte
    BY <2>14 DEF RecvByte
  <2>15. CASE RecvErr
    BY <2>15 DEF RecvErr
  <2>16. ASSUME NEW g \in Threads, NEW p \in Packets, SendCall(g, p)
       PROVE  IdleInv'
    <3>1. CASE closed
      BY <2>16, <3>1 DEF SendCall
    <3>2. CASE ~closed
      BY <2>16, <3>2 DEF SendCall
    <3>3. QED
      BY <3>1, <3>2
  <2>17. ASSUME NEW g \in Threads, WriteSome(g) PROVE IdleInv'
    BY <2>17 DEF WriteSome
  <2>18. ASSUME NEW g \in Threads, WriteFail(g) PROVE IdleInv'
    BY <2>18 DEF WriteFail
  <2>19. ASSUME NEW g \in Threads, NEW v \in Durations, SetTimeOut(g, v)
       PROVE  IdleInv'
    BY <2>19 DEF SetTimeOut
  <2>20. ASSUME NEW g \in Threads, CloseCall(g) PROVE IdleInv'
    BY <2>20 DEF CloseCall
  <2>21. ASSUME NEW g \in Threads, SendLock(g) PROVE IdleInv'
    BY <2>21 DEF SendLock
  <2>22. ASSUME NEW g \in Threads, WriteDone(g) PROVE IdleInv'
    BY <2>22 DEF WriteDone, AfterReply
  <2>23. ASSUME NEW g \in Threads, SetRead(g) PROVE IdleInv'
    BY <2>23 DEF SetRead
  <2>24. ASSUME NEW g \in Threads, CloseOnce(g) PROVE IdleInv'
    BY <2>24 DEF CloseOnce
  <2>25. ASSUME NEW g \in Threads, CloseAgain(g) PROVE IdleInv'
    BY <2>25 DEF CloseAgain
  <2>26. ASSUME NEW g \in Threads, CloseFlag(g) PROVE IdleInv'
    BY <2>26 DEF CloseFlag
  <2>27. ASSUME NEW g \in Threads, ClosePipe(g) PROVE IdleInv'
    BY <2>27 DEF ClosePipe
  <2>28. ASSUME NEW g \in Threads, CloseConn(g) PROVE IdleInv'
    BY <2>28 DEF CloseConn
  <2>29. ASSUME NEW len \in {0, 1}, NEW fin \in BOOLEAN, PeerHeader(len, fin)
       PROVE  IdleInv'
    BY <2>29 DEF PeerHeader, PeerPut
  <2>30. CASE PeerByte
    BY <2>30 DEF PeerByte, PeerPut
  <2>31. ASSUME NEW kind \in {"ping", "close", "eof", "bad"}, PeerControl(kind)
       PROVE  IdleInv'
    BY <2>31 DEF PeerControl, PeerPut
  <2>32. CASE Tick
    <3>1. /\ rdl \in Nat /\ UNCHANGED <<pc, open, why, cause, timeout>>
          /\ rdl' = IF rdl > 0 THEN rdl - 1 ELSE 0
          /\ \A g \in Threads \ {Loop} : d'[g] = d[g]
          /\ pc[Loop] \notin {"armset", "setread"}
      BY <2>32 DEF Tick
    <3>2. \/ quiet' = quiet + 1
          \/ quiet' = quiet /\ pc[Loop] = "pipe"
      BY <2>32 DEF Tick
    <3>3. QED
      BY ONLY <2>0, <3>1, <3>2, IdleInv DEF IdleInv, NoDl
  <2>33. CASE UNCHANGED vars
    BY <2>33 DEF vars
  <2>34. QED
    <3> HIDE DEF TypeOK, SocketTypeOK, ReadTypeOK, ThreadTypeOK,
            PipeInv, IdleInv, NoDl, Goto, Closed, CloseFor, ConnError,
            shut, peers, write, read
    <3>1. QED
      BY <2>1, <2>2, <2>3, <2>4, <2>5, <2>6, <2>7, <2>8, <2>9, <2>10, <2>11,
         <2>12, <2>13, <2>14, <2>15, <2>16, <2>17, <2>18, <2>19, <2>20, <2>21,
         <2>22, <2>23, <2>24, <2>25, <2>26, <2>27, <2>28, <2>29, <2>30, <2>31,
         <2>32, <2>33 DEF Next, Step, LoopStep, LoopRead, PeerStep
<1>3. QED
  BY <1>1, <1>2, TypeInvariant, PTL DEF Spec

(* A connection is ended for idleness only when the peer was silent for a  *)
(* whole timeout.  (While a new timeout is stored and not yet armed the    *)
(* old one is in force, hence the single duration.)                        *)
THEOREM TimeNotCharged ==
  ASSUME NEW T, Durations = {T}
  PROVE  Spec => BackpressureNotCharged
<1>1. TypeOK /\ IdleInv /\ [Next]_vars
        => [why[Loop] = None /\ why'[Loop] = "timeout" => quiet >= timeout]_vars
  <2> SUFFICES ASSUME TypeOK, IdleInv, [Next]_vars,
                      why[Loop] = None, why'[Loop] = "timeout"
               PROVE  quiet >= timeout
    OBVIOUS
  <2>0. timeout \in Nat /\ quiet \in Nat /\ why \in [Threads -> Causes]
    BY ConstantsType DEF TypeOK, SocketTypeOK, ReadTypeOK, ThreadTypeOK
  <2> USE <2>0, ConstantsType, LoopIsThread
      DEF IdleInv, CloseFor, ConnError, NoDl, shut, peers, write, read
  <2>1. CASE ArmLoad
    BY <2>1 DEF ArmLoad
  <2>2. CASE ArmSet
    BY <2>2 DEF ArmSet
  <2>3. ASSUME NEW len \in {0, 1}, NEW fin \in BOOLEAN, DataHeader(len, fin)
       PROVE  quiet >= timeout
    BY <2>3 DEF DataHeader, Take
  <2>4. CASE DataByte
    BY <2>4 DEF DataByte, Take
  <2>5. CASE PipeTaken
    BY <2>5 DEF PipeTaken
  <2>6. CASE PipeClosed
    BY <2>6 DEF PipeClosed
  <2>7. CASE FragmentEmpty
    BY <2>7 DEF FragmentEmpty
  <2>8. CASE ControlFrame("ping", "pong")
    BY <2>8 DEF ControlFrame, Take
  <2>9. CASE ControlFrame("close", "bye")
    BY <2>9 DEF ControlFrame, Take
  <2>10. CASE TryLock
    BY <2>10 DEF TryLock, AfterReply
  <2>11. ASSUME NEW kind \in {"eof", "bad"}, StreamEnd(kind)
       PROVE  quiet >= timeout
    BY <2>11 DEF StreamEnd, Take
  <2>12. CASE ReadFail
    BY <2>12 DEF ReadFail
  <2>13. CASE RecvCall
    BY <2>13 DEF RecvCall
  <2>14. CASE RecvByte
    BY <2>14 DEF RecvByte
  <2>15. CASE RecvErr
    BY <2>15 DEF RecvErr
  <2>16. ASSUME NEW g \in Threads, NEW p \in Packets, SendCall(g, p)
       PROVE  quiet >= timeout
    BY <2>16 DEF SendCall
  <2>17. ASSUME NEW g \in Threads, WriteSome(g) PROVE quiet >= timeout
    BY <2>17 DEF WriteSome
  <2>18. ASSUME NEW g \in Threads, WriteFail(g) PROVE quiet >= timeout
    BY <2>18 DEF WriteFail
  <2>19. ASSUME NEW g \in Threads, NEW v \in Durations, SetTimeOut(g, v)
       PROVE  quiet >= timeout
    BY <2>19 DEF SetTimeOut
  <2>20. ASSUME NEW g \in Threads, CloseCall(g) PROVE quiet >= timeout
    BY <2>20 DEF CloseCall
  <2>21. ASSUME NEW g \in Threads, SendLock(g) PROVE quiet >= timeout
    BY <2>21 DEF SendLock
  <2>22. ASSUME NEW g \in Threads, WriteDone(g) PROVE quiet >= timeout
    BY <2>22 DEF WriteDone, AfterReply
  <2>23. ASSUME NEW g \in Threads, SetRead(g) PROVE quiet >= timeout
    BY <2>23 DEF SetRead
  <2>24. ASSUME NEW g \in Threads, CloseOnce(g) PROVE quiet >= timeout
    BY <2>24 DEF CloseOnce
  <2>25. ASSUME NEW g \in Threads, CloseAgain(g) PROVE quiet >= timeout
    BY <2>25 DEF CloseAgain
  <2>26. ASSUME NEW g \in Threads, CloseFlag(g) PROVE quiet >= timeout
    BY <2>26 DEF CloseFlag
  <2>27. ASSUME NEW g \in Threads, ClosePipe(g) PROVE quiet >= timeout
    BY <2>27 DEF ClosePipe
  <2>28. ASSUME NEW g \in Threads, CloseConn(g) PROVE quiet >= timeout
    BY <2>28 DEF CloseConn
  <2>29. ASSUME NEW len \in {0, 1}, NEW fin \in BOOLEAN, PeerHeader(len, fin)
       PROVE  quiet >= timeout
    BY <2>29 DEF PeerHeader, PeerPut
  <2>30. CASE PeerByte
    BY <2>30 DEF PeerByte, PeerPut
  <2>31. ASSUME NEW kind \in {"ping", "close", "eof", "bad"}, PeerControl(kind)
       PROVE  quiet >= timeout
    BY <2>31 DEF PeerControl, PeerPut
  <2>32. CASE Tick
    BY <2>32 DEF Tick
  <2>33. CASE UNCHANGED vars
    BY <2>33 DEF vars
  <2>34. QED
    <3> HIDE DEF IdleInv, CloseFor, ConnError, NoDl, shut, peers,
            write, read
    <3>1. QED
      BY <2>1, <2>2, <2>3, <2>4, <2>5, <2>6, <2>7, <2>8, <2>9, <2>10, <2>11,
         <2>12, <2>13, <2>14, <2>15, <2>16, <2>17, <2>18, <2>19, <2>20, <2>21,
         <2>22, <2>23, <2>24, <2>25, <2>26, <2>27, <2>28, <2>29, <2>30, <2>31,
         <2>32, <2>33 DEF Next, Step, LoopStep, LoopRead, PeerStep
<1>2. QED
  BY <1>1, TypeInvariant, IdleInvariant, PTL
     DEF Spec, BackpressureNotCharged

-----------------------------------------------------------------------------
(* The idle bound.  A message without a byte never ends: the queue holds   *)
(* the empty last fragment of a message only behind one that carries a     *)
(* byte, or while the loop is in such a message.                           *)
Finals  == {<<"data", 0, TRUE>>, <<"data", 1, TRUE>>}
Carries == msg.in /\ ~msg.fin /\ (msg.got \/ msg.left = 1)

(* What is put at position k belongs to a message with a byte.             *)
Begun(k) ==
  \/ Carries /\ \A i \in 1..Len(inq) : i < k => inq[i] \notin Finals
  \/ \E j \in 1..Len(inq) :
       /\ j < k /\ inq[j] = <<"data", 1, FALSE>>
       /\ \A i \in 1..Len(inq) : j <= i /\ i < k => inq[i] \notin Finals

Grammar ==
  /\ \A k \in 1..Len(inq) : inq[k] = <<"data", 0, TRUE>> => Begun(k)
  /\ peer.in /\ peer.got => Begun(Len(inq) + 1)

LEMMA MessageKeepsGrammar ==
  ASSUME Grammar, UNCHANGED <<inq, peer>>, Carries => Carries'
  PROVE  Grammar'
<1>1. \A k : Begun(k) => Begun(k)'
  BY DEF Begun
<1>2. QED
  BY <1>1 DEF Grammar

LEMMA TakeKeepsGrammar ==
  ASSUME inq \in Seq(Items), Grammar, NEW item, Take(item), peer' = peer,
         \/ Carries /\ item \notin Finals
         \/ item = <<"data", 1, FALSE>>
         => Carries'
  PROVE  Grammar' /\ (item = <<"data", 0, TRUE>> => Carries)
<1>1. /\ inq[1] = item /\ Len(inq) \in Nat \ {0}
      /\ Len(inq') \in Nat /\ Len(inq') + 1 = Len(inq)
      /\ \A i \in 1..Len(inq') : inq'[i] = inq[i + 1]
  BY DEF Take
<1>2. ASSUME NEW k \in 1..(Len(inq') + 1), Begun(k + 1) PROVE Begun(k)'
  <2>1. CASE Carries /\ \A i \in 1..Len(inq) : i < k + 1 => inq[i] \notin Finals
    <3>1. 1 \in 1..Len(inq) /\ 1 < k + 1
      BY <1>1
    <3>2. Carries'
      BY <1>1, <2>1, <3>1
    <3>3. ASSUME NEW i \in 1..Len(inq'), i < k PROVE inq'[i] \notin Finals
      <4>1. i + 1 \in 1..Len(inq) /\ i + 1 < k + 1
        BY <1>1, <3>3
      <4>2. QED
        BY <1>1, <2>1, <4>1
    <3>4. QED
      BY <3>2, <3>3 DEF Begun
  <2>2. ASSUME NEW j \in 1..Len(inq), j < k + 1,
               inq[j] = <<"data", 1, FALSE>>,
               \A i \in 1..Len(inq) : j <= i /\ i < k + 1
                                        => inq[i] \notin Finals
        PROVE  Begun(k)'
    <3>1. ASSUME NEW i \in 1..Len(inq'), j <= i + 1, i < k
          PROVE  inq'[i] \notin Finals
      <4>1. i + 1 \in 1..Len(inq) /\ i + 1 < k + 1
        BY <1>1, <3>1
      <4>2. QED
        BY <1>1, <2>2, <3>1, <4>1
    <3>2. CASE j = 1
      <4>1. Carries'
        BY <1>1, <2>2, <3>2
      <4>2. \A i \in 1..Len(inq') : j <= i + 1
        BY <3>2
      <4>3. QED
        BY <3>1, <4>1, <4>2 DEF Begun
    <3>3. CASE j # 1
      <4>1. PICK m \in 1..Len(inq') : j = m + 1
        <5>1. j - 1 \in 1..Len(inq') /\ j = (j - 1) + 1
          BY <1>1, <3>3
        <5>2. QED
          BY <5>1
      <4>2. m < k
        BY <1>1, <1>2, <2>2, <4>1
      <4>3. inq'[m] = <<"data", 1, FALSE>>
        BY <1>1, <2>2, <4>1
      <4>4. \A i \in 1..Len(inq') : m <= i => j <= i + 1
        BY <4>1
      <4>5. QED
        BY <3>1, <4>2, <4>3, <4>4 DEF Begun
    <3>4. QED
      BY <3>2, <3>3
  <2>3. QED
    BY <1>2, <2>1, <2>2 DEF Begun
<1>3. ASSUME NEW k \in 1..Len(inq'), inq'[k] = <<"data", 0, TRUE>>
      PROVE  Begun(k)'
  <2>1. k + 1 \in 1..Len(inq) /\ k \in 1..(Len(inq') + 1)
    BY <1>1
  <2>2. Begun(k + 1)
    BY <1>1, <1>3, <2>1 DEF Grammar
  <2>3. QED
    BY <1>2, <2>1, <2>2
<1>4. ASSUME peer'.in, peer'.got PROVE Begun(Len(inq) + 1)'
  <2>1. PICK k : k = Len(inq') + 1
    OBVIOUS
  <2>2. Begun(k + 1) /\ k \in 1..(Len(inq') + 1)
    BY <1>1, <1>4, <2>1 DEF Grammar
  <2>3. Begun(k)'
    BY <1>2, <2>2
  <2>4. QED
    BY <2>1, <2>3 DEF Begun
<1>5. ASSUME item = <<"data", 0, TRUE>> PROVE Carries
  <2>1. 1 \in 1..Len(inq) /\ \A j \in 1..Len(inq) : ~(j < 1)
    BY <1>1
  <2>2. Begun(1)
    BY <1>1, <1>5, <2>1 DEF Grammar
  <2>3. QED
    BY <2>1, <2>2 DEF Begun
<1>6. QED
  BY <1>3, <1>4, <1>5 DEF Grammar

LEMMA PutKeepsGrammar ==
  ASSUME inq \in Seq(Items), Grammar, NEW kind, NEW item \in Items,
         PeerPut(kind, item), msg' = msg,
         item = <<"data", 0, TRUE>> => peer.in /\ peer.got,
         peer'.in /\ peer'.got =>
           \/ item = <<"data", 1, FALSE>>
           \/ item \notin Finals /\ peer.in /\ peer.got
  PROVE  Grammar'
<1>1. /\ Len(inq) \in Nat /\ Len(inq') = Len(inq) + 1
      /\ inq'[Len(inq) + 1] = item
      /\ \A i \in 1..Len(inq) : inq'[i] = inq[i]
  BY DEF PeerPut
<1>2. ASSUME NEW k \in 1..(Len(inq) + 1), Begun(k) PROVE Begun(k)'
  <2>1. \A i \in 1..Len(inq') : i < k => i \in 1..Len(inq)
    BY <1>1
  <2>2. \A j \in 1..Len(inq) : j \in 1..Len(inq')
    BY <1>1
  <2>3. QED
    BY <1>1, <1>2, <2>1, <2>2 DEF Begun, Carries
<1>3. ASSUME NEW k \in 1..Len(inq'), inq'[k] = <<"data", 0, TRUE>>
      PROVE  Begun(k)'
  <2>1. CASE k \in 1..Len(inq)
    <3>1. k \in 1..(Len(inq) + 1)
      BY <1>1
    <3>2. QED
      BY <1>1, <1>2, <1>3, <2>1, <3>1 DEF Grammar
  <2>2. CASE k = Len(inq) + 1
    <3>1. Begun(k) /\ k \in 1..(Len(inq) + 1)
      BY <1>1, <1>3, <2>2 DEF Grammar
    <3>2. QED
      BY <1>2, <3>1
  <2>3. QED
    BY <1>1, <2>1, <2>2
<1>4. ASSUME peer'.in, peer'.got PROVE Begun(Len(inq) + 1)'
  <2>1. PICK k : k = Len(inq') + 1
    OBVIOUS
  <2>2. Len(inq) + 1 \in 1..Len(inq') /\ Len(inq) + 1 < k
    BY <1>1, <2>1
  <2>3. CASE item = <<"data", 1, FALSE>>
    <3>1. item \notin Finals
      BY <2>3 DEF Finals
    <3>2. \A i \in 1..Len(inq') : Len(inq) + 1 <= i => i = Len(inq) + 1
      BY <1>1
    <3>3. Begun(k)'
      BY <1>1, <2>2, <2>3, <3>1, <3>2 DEF Begun
    <3>4. QED
      BY <2>1, <3>3 DEF Begun
  <2>4. CASE item \notin Finals /\ peer.in /\ peer.got
    <3>1. Begun(Len(inq) + 1)
      BY <2>4 DEF Grammar
    <3>2. ASSUME NEW i \in 1..Len(inq') PROVE i = Len(inq) + 1 \/ i \in 1..Len(inq)
      BY <1>1
    <3>3. \A i \in 1..Len(inq) : i < Len(inq) + 1 /\ i < k /\ i \in 1..Len(inq')
      BY <1>1, <2>1
    <3>4. Begun(k)'
      <4>1. CASE /\ Carries
                 /\ \A i \in 1..Len(inq) :
                      i < Len(inq) + 1 => inq[i] \notin Finals
        <5>1. \A i \in 1..Len(inq') : inq'[i] \notin Finals
          BY <1>1, <2>4, <3>2, <3>3, <4>1
        <5>2. Carries'
          BY <4>1 DEF Carries
        <5>3. QED
          BY <5>1, <5>2 DEF Begun
      <4>2. ASSUME NEW j \in 1..Len(inq), inq[j] = <<"data", 1, FALSE>>,
                   \A i \in 1..Len(inq) :
                     j <= i /\ i < Len(inq) + 1 => inq[i] \notin Finals
            PROVE  Begun(k)'
        <5>1. \A i \in 1..Len(inq') : j <= i => inq'[i] \notin Finals
          BY <1>1, <2>4, <3>2, <3>3, <4>2
        <5>2. j \in 1..Len(inq') /\ j < k /\ inq'[j] = <<"data", 1, FALSE>>
          BY <1>1, <3>3, <4>2
        <5>3. QED
          BY <5>1, <5>2 DEF Begun
      <4>3. QED
        BY <3>1, <4>1, <4>2 DEF Begun
    <3>5. QED
      BY <2>1, <3>4 DEF Begun
  <2>5. QED
    BY <1>4, <2>3, <2>4
<1>5. QED
  BY <1>3, <1>4 DEF Grammar

(* Where the loop is in a message.                                         *)
LoopInv ==
  /\ \/ pc[Loop] \in {"frame", "try", "write"}
     \/ pc[Loop] \in {"arm", "armset"} /\ msg.next = "frame"
     => msg.left = 0 /\ (msg.in => ~msg.fin)
  /\ pc[Loop] \in {"arm", "armset"} /\ msg.next = "body" =>
       msg.in /\ ~msg.got /\ ~(msg.left = 0 /\ msg.fin)
  /\ pc[Loop] = "body" => /\ msg.in /\ msg.next = "body"
                          /\ msg.left = 0 /\ msg.fin => msg.got
  /\ pc[Loop] = "pipe" => msg.in /\ msg.got /\ msg.left = 0

LEMMA MessageInvariant ==
  ASSUME ~EmptyMessages
  PROVE  Spec => [](Grammar /\ LoopInv)
<1>1. Init => Grammar /\ LoopInv
  <2> SUFFICES ASSUME Init PROVE Grammar /\ LoopInv
    OBVIOUS
  <2>1. 1..Len(inq) = {} /\ ~peer.in
    BY DEF Init
  <2>2. QED
    BY <2>1, LoopIsThread DEF Init, Grammar, LoopInv
<1>2. TypeOK /\ PipeInv /\ Grammar /\ LoopInv /\ [Next]_vars => Grammar'
  <2> SUFFICES ASSUME TypeOK, PipeInv, Grammar, LoopInv, [Next]_vars
               PROVE  Grammar'
    OBVIOUS
  <2>0. UNCHANGED <<inq, peer, msg>> => Grammar'
    BY MessageKeepsGrammar DEF Carries
  <2> USE <2>0 DEF shut, peers, write, read
  <2>1. CASE ArmLoad
    BY <2>1 DEF ArmLoad
  <2>2. CASE ArmSet
    BY <2>2 DEF ArmSet
  <2>3. ASSUME NEW len \in {0, 1}, NEW fin \in BOOLEAN, DataHeader(len, fin)
       PROVE  Grammar'
    <3>1. /\ pc[Loop] = "frame" /\ Take(<<"data", len, fin>>)
          /\ peer' = peer /\ inq \in Seq(Items)
      BY <2>3 DEF DataHeader, TypeOK, ReadTypeOK
    <3>2. /\ msg'.in = TRUE /\ msg'.fin = fin /\ msg'.left = len
          /\ msg'.got = (msg.in /\ msg.got)
      BY <2>3 DEF DataHeader
    <3>3. msg.left = 0
      BY <3>1 DEF LoopInv
    <3>4. \/ Carries /\ <<"data", len, fin>> \notin Finals
          \/ <<"data", len, fin>> = <<"data", 1, FALSE>>
          => Carries'
      BY <3>2, <3>3 DEF Carries, Finals
    <3>5. Grammar' /\ (<<"data", len, fin>> = <<"data", 0, TRUE>> => Carries)
      BY <3>1, <3>4, TakeKeepsGrammar
    <3>6. QED
      BY <3>5
  <2>4. CASE DataByte
    <3>1. /\ Take(<<"byte">>) /\ peer' = peer /\ inq \in Seq(Items)
          /\ Carries => Carries'
      BY <2>4 DEF DataByte, Carries, TypeOK, ReadTypeOK
    <3>2. <<"byte">> # <<"data", 1, FALSE>>
      OBVIOUS
    <3>3. QED
      BY <3>1, <3>2, TakeKeepsGrammar
  <2>5. CASE PipeTaken
    <3>1. UNCHANGED <<inq, peer>>
      BY <2>5 DEF PipeTaken
    <3>2. Carries => Carries'
      BY <2>5 DEF PipeTaken, Carries, LoopInv, TypeOK, ReadTypeOK
    <3>3. QED
      BY <3>1, <3>2, MessageKeepsGrammar
  <2>6. CASE PipeClosed
    BY <2>6 DEF PipeClosed
  <2>7. CASE FragmentEmpty
    <3>1. UNCHANGED <<inq, peer>>
      BY <2>7 DEF FragmentEmpty
    <3>2. Carries => Carries'
      BY <2>7 DEF FragmentEmpty, Carries, LoopInv, TypeOK, ReadTypeOK
    <3>3. QED
      BY <3>1, <3>2, MessageKeepsGrammar
  <2>8. CASE ControlFrame("ping", "pong")
    <3>1. /\ Take(<<"ping">>) /\ peer' = peer /\ inq \in Seq(Items)
          /\ Carries => Carries'
      BY <2>8 DEF ControlFrame, Carries, TypeOK, ReadTypeOK
    <3>2. <<"ping">> # <<"data", 1, FALSE>>
      OBVIOUS
    <3>3. QED
      BY <3>1, <3>2, TakeKeepsGrammar
  <2>9. CASE ControlFrame("close", "bye")
    <3>1. /\ Take(<<"close">>) /\ peer' = peer /\ inq \in Seq(Items)
          /\ Carries => Carries'
      BY <2>9 DEF ControlFrame, Carries, TypeOK, ReadTypeOK
    <3>2. <<"close">> # <<"data", 1, FALSE>>
      OBVIOUS
    <3>3. QED
      BY <3>1, <3>2, TakeKeepsGrammar
  <2>10. CASE TryLock
    BY <2>10 DEF TryLock, AfterReply
  <2>11. ASSUME NEW kind \in {"eof", "bad"}, StreamEnd(kind) PROVE Grammar'
    <3>1. /\ Take(<<kind>>) /\ peer' = peer /\ inq \in Seq(Items)
          /\ Carries => Carries'
      BY <2>11 DEF StreamEnd, Carries, TypeOK, ReadTypeOK
    <3>2. <<kind>> # <<"data", 1, FALSE>>
      OBVIOUS
    <3>3. QED
      BY <3>1, <3>2, TakeKeepsGrammar
  <2>12. CASE ReadFail
    BY <2>12 DEF ReadFail
  <2>13. CASE RecvCall
    BY <2>13 DEF RecvCall
  <2>14. CASE RecvByte
    BY <2>14 DEF RecvByte
  <2>15. CASE RecvErr
    BY <2>15 DEF RecvErr
  <2>16. ASSUME NEW g \in Threads, NEW p \in Packets, SendCall(g, p)
       PROVE  Grammar'
    BY <2>16 DEF SendCall
  <2>17. ASSUME NEW g \in Threads, WriteSome(g) PROVE Grammar'
    BY <2>17 DEF WriteSome
  <2>18. ASSUME NEW g \in Threads, WriteFail(g) PROVE Grammar'
    BY <2>18 DEF WriteFail
  <2>19. ASSUME NEW g \in Threads, NEW v \in Durations, SetTimeOut(g, v)
       PROVE  Grammar'
    BY <2>19 DEF SetTimeOut
  <2>20. ASSUME NEW g \in Threads, CloseCall(g) PROVE Grammar'
    BY <2>20 DEF CloseCall
  <2>21. ASSUME NEW g \in Threads, SendLock(g) PROVE Grammar'
    BY <2>21 DEF SendLock
  <2>22. ASSUME NEW g \in Threads, WriteDone(g) PROVE Grammar'
    BY <2>22 DEF WriteDone, AfterReply
  <2>23. ASSUME NEW g \in Threads, SetRead(g) PROVE Grammar'
    BY <2>23 DEF SetRead
  <2>24. ASSUME NEW g \in Threads, CloseOnce(g) PROVE Grammar'
    BY <2>24 DEF CloseOnce
  <2>25. ASSUME NEW g \in Threads, CloseAgain(g) PROVE Grammar'
    BY <2>25 DEF CloseAgain
  <2>26. ASSUME NEW g \in Threads, CloseFlag(g) PROVE Grammar'
    BY <2>26 DEF CloseFlag
  <2>27. ASSUME NEW g \in Threads, ClosePipe(g) PROVE Grammar'
    BY <2>27 DEF ClosePipe
  <2>28. ASSUME NEW g \in Threads, CloseConn(g) PROVE Grammar'
    BY <2>28 DEF CloseConn
  <2>29. ASSUME NEW len \in {0, 1}, NEW fin \in BOOLEAN, PeerHeader(len, fin)
       PROVE  Grammar'
    <3>1. /\ PeerPut("data", <<"data", len, fin>>) /\ msg' = msg
          /\ fin => len = 1 \/ (peer.in /\ peer.got)
          /\ peer'.in = ~fin
          /\ peer'.got = (~fin /\ (len = 1 \/ (peer.in /\ peer.got)))
          /\ inq \in Seq(Items)
      BY <2>29 DEF PeerHeader, TypeOK, ReadTypeOK
    <3>2. <<"data", len, fin>> \in Items
      BY ItemFacts
    <3>3. <<"data", len, fin>> = <<"data", 0, TRUE>> => peer.in /\ peer.got
      BY <3>1
    <3>4. peer'.in /\ peer'.got =>
            \/ <<"data", len, fin>> = <<"data", 1, FALSE>>
            \/ <<"data", len, fin>> \notin Finals /\ peer.in /\ peer.got
      BY <3>1 DEF Finals
    <3>5. QED
      BY <3>1, <3>2, <3>3, <3>4, PutKeepsGrammar
  <2>30. CASE PeerByte
    <3>1. /\ PeerPut("data", <<"byte">>) /\ msg' = msg
          /\ peer'.in = peer.in /\ peer'.got = peer.got
          /\ inq \in Seq(Items)
      BY <2>30 DEF PeerByte, TypeOK, ReadTypeOK
    <3>2. <<"byte">> \in Items /\ <<"byte">> \notin Finals
      BY ItemFacts DEF Finals
    <3>3. <<"byte">> # <<"data", 0, TRUE>>
      BY <3>2 DEF Finals
    <3>4. QED
      BY <3>1, <3>2, <3>3, PutKeepsGrammar
  <2>31. ASSUME NEW kind \in {"ping", "close", "eof", "bad"}, PeerControl(kind)
       PROVE  Grammar'
    <3>1. /\ PeerPut(kind, <<kind>>) /\ msg' = msg
          /\ peer'.in = peer.in /\ peer'.got = peer.got
          /\ inq \in Seq(Items)
      BY <2>31 DEF PeerControl, TypeOK, ReadTypeOK
    <3>2. <<kind>> \in Items /\ <<kind>> \notin Finals
      BY ItemFacts DEF Finals
    <3>3. <<kind>> # <<"data", 0, TRUE>>
      BY <3>2 DEF Finals
    <3>4. QED
      BY <3>1, <3>2, <3>3, PutKeepsGrammar
  <2>32. CASE Tick
    BY <2>32 DEF Tick
  <2>33. CASE UNCHANGED vars
    BY <2>33 DEF vars
  <2>34. QED
    <3> HIDE DEF shut, peers, write, read
    <3>1. QED
      BY <2>1, <2>2, <2>3, <2>4, <2>5, <2>6, <2>7, <2>8, <2>9, <2>10, <2>11,
         <2>12, <2>13, <2>14, <2>15, <2>16, <2>17, <2>18, <2>19, <2>20, <2>21,
         <2>22, <2>23, <2>24, <2>25, <2>26, <2>27, <2>28, <2>29, <2>30, <2>31,
         <2>32, <2>33 DEF Next, Step, LoopStep, LoopRead, PeerStep
<1>3. TypeOK /\ PipeInv /\ Grammar /\ LoopInv /\ [Next]_vars => LoopInv'
  <2> SUFFICES ASSUME TypeOK, PipeInv, Grammar, LoopInv, [Next]_vars
               PROVE  LoopInv'
    OBVIOUS
  <2> USE ConstantsType, LoopIsThread
      DEF TypeOK, SocketTypeOK, ReadTypeOK, ThreadTypeOK, PipeInv, LoopInv,
          Goto, Closed, CloseFor, shut, peers, write, read
  <2>1. CASE ArmLoad
    BY <2>1 DEF ArmLoad
  <2>2. CASE ArmSet
    BY <2>2 DEF ArmSet
  <2>3. ASSUME NEW len \in {0, 1}, NEW fin \in BOOLEAN, DataHeader(len, fin)
       PROVE  LoopInv'
    <3>1. /\ pc[Loop] = "frame" /\ Take(<<"data", len, fin>>)
          /\ peer' = peer /\ inq \in Seq(Items)
      BY <2>3 DEF DataHeader
    <3>2. /\ msg' = [in |-> TRUE, got |-> msg.in /\ msg.got, left |-> len,
                     fin |-> fin, next |-> "body"]
          /\ pc'[Loop] = IF msg.in THEN "body" ELSE "arm"
      BY <2>3 DEF DataHeader
    <3>3. msg.left = 0
      BY <3>1
    <3>4. len = 0 /\ fin => msg.in /\ msg.got
      <4>1. PICK item : item = <<"data", len, fin>>
        OBVIOUS
      <4>2. \/ Carries /\ item \notin Finals
            \/ item = <<"data", 1, FALSE>>
            => Carries'
        BY <3>2, <3>3, <4>1 DEF Carries, Finals
      <4>3. item = <<"data", 0, TRUE>> => Carries
        BY <3>1, <4>1, <4>2, TakeKeepsGrammar
      <4>4. QED
        BY <3>3, <4>1, <4>3 DEF Carries
    <3>5. QED
      BY <3>2, <3>4
  <2>4. CASE DataByte
    BY <2>4 DEF DataByte, Take
  <2>5. CASE PipeTaken
    BY <2>5 DEF PipeTaken
  <2>6. CASE PipeClosed
    BY <2>6 DEF PipeClosed
  <2>7. CASE FragmentEmpty
    BY <2>7 DEF FragmentEmpty
  <2>8. CASE ControlFrame("ping", "pong")
    BY <2>8 DEF ControlFrame, Take
  <2>9. CASE ControlFrame("close", "bye")
    BY <2>9 DEF ControlFrame, Take
  <2>10. CASE TryLock
    BY <2>10 DEF TryLock, AfterReply
  <2>11. ASSUME NEW kind \in {"eof", "bad"}, StreamEnd(kind) PROVE LoopInv'
    BY <2>11 DEF StreamEnd, Take
  <2>12. CASE ReadFail
    BY <2>12 DEF ReadFail
  <2>13. CASE RecvCall
    BY <2>13 DEF RecvCall
  <2>14. CASE RecvByte
    BY <2>14 DEF RecvByte
  <2>15. CASE RecvErr
    BY <2>15 DEF RecvErr
  <2>16. ASSUME NEW g \in Threads, NEW p \in Packets, SendCall(g, p)
       PROVE  LoopInv'
    <3>1. CASE closed
      BY <2>16, <3>1 DEF SendCall
    <3>2. CASE ~closed
      BY <2>16, <3>2 DEF SendCall
    <3>3. QED
      BY <3>1, <3>2
  <2>17. ASSUME NEW g \in Threads, WriteSome(g) PROVE LoopInv'
    BY <2>17 DEF WriteSome
  <2>18. ASSUME NEW g \in Threads, WriteFail(g) PROVE LoopInv'
    BY <2>18 DEF WriteFail
  <2>19. ASSUME NEW g \in Threads, NEW v \in Durations, SetTimeOut(g, v)
       PROVE  LoopInv'
    BY <2>19 DEF SetTimeOut
  <2>20. ASSUME NEW g \in Threads, CloseCall(g) PROVE LoopInv'
    BY <2>20 DEF CloseCall
  <2>21. ASSUME NEW g \in Threads, SendLock(g) PROVE LoopInv'
    BY <2>21 DEF SendLock
  <2>22. ASSUME NEW g \in Threads, WriteDone(g) PROVE LoopInv'
    BY <2>22 DEF WriteDone, AfterReply
  <2>23. ASSUME NEW g \in Threads, SetRead(g) PROVE LoopInv'
    BY <2>23 DEF SetRead
  <2>24. ASSUME NEW g \in Threads, CloseOnce(g) PROVE LoopInv'
    BY <2>24 DEF CloseOnce
  <2>25. ASSUME NEW g \in Threads, CloseAgain(g) PROVE LoopInv'
    BY <2>25 DEF CloseAgain
  <2>26. ASSUME NEW g \in Threads, CloseFlag(g) PROVE LoopInv'
    BY <2>26 DEF CloseFlag
  <2>27. ASSUME NEW g \in Threads, ClosePipe(g) PROVE LoopInv'
    BY <2>27 DEF ClosePipe
  <2>28. ASSUME NEW g \in Threads, CloseConn(g) PROVE LoopInv'
    BY <2>28 DEF CloseConn
  <2>29. ASSUME NEW len \in {0, 1}, NEW fin \in BOOLEAN, PeerHeader(len, fin)
       PROVE  LoopInv'
    BY <2>29 DEF PeerHeader, PeerPut
  <2>30. CASE PeerByte
    BY <2>30 DEF PeerByte, PeerPut
  <2>31. ASSUME NEW kind \in {"ping", "close", "eof", "bad"}, PeerControl(kind)
       PROVE  LoopInv'
    BY <2>31 DEF PeerControl, PeerPut
  <2>32. CASE Tick
    BY <2>32 DEF Tick
  <2>33. CASE UNCHANGED vars
    BY <2>33 DEF vars
  <2>34. QED
    <3> HIDE DEF TypeOK, SocketTypeOK, ReadTypeOK, ThreadTypeOK,
            PipeInv, LoopInv, Goto, Closed, CloseFor, shut, peers, write,
            read
    <3>1. QED
      BY <2>1, <2>2, <2>3, <2>4, <2>5, <2>6, <2>7, <2>8, <2>9, <2>10, <2>11,
         <2>12, <2>13, <2>14, <2>15, <2>16, <2>17, <2>18, <2>19, <2>20, <2>21,
         <2>22, <2>23, <2>24, <2>25, <2>26, <2>27, <2>28, <2>29, <2>30, <2>31,
         <2>32, <2>33 DEF Next, Step, LoopStep, LoopRead, PeerStep
<1>4. QED
  BY <1>1, <1>2, <1>3, TypeInvariant, PTL DEF Spec

(* How long the loop may have waited, since the last data byte, before the *)
(* deadline it reads under was set.  In a message with a byte the deadline *)
(* is that of the byte; the end of that message may have renewed it, and   *)
(* the header of the next one again; behind that only a byte does.  A      *)
(* reply can outlast the deadline by its own.                              *)
Spent == IF ~msg.in THEN timeout ELSE IF msg.got THEN 0 ELSE 2 * timeout
Ahead == IF rdl > 0 THEN rdl ELSE 0

QuietInv ==
  /\ IdleBounded
  /\ rdl = NoDl \/ pc[Loop] = "pipe" => quiet = 0
  /\ open /\ pc[Loop] \in {"arm", "armset"} => quiet <= Spent
  /\ \/ pc[Loop] = "write"
     \/ open /\ pc[Loop] \in {"frame", "body", "try"}
     => (rdl # 0 => quiet + Ahead <= Spent + timeout)
  /\ \/ pc[Loop] = "try"
     \/ pc[Loop] = "body" /\ msg.left = 0
     => (open => rdl # 0)
  /\ pc[Loop] = "write" /\ rdl = 0 => quiet + d[Loop] < 4 * timeout

LEMMA QuietInvariant ==
  ASSUME NEW T, Durations = {T}, T > 0, ~EmptyMessages
  PROVE  Spec => []QuietInv
<1>0. T \in Nat /\ Ticks = 0..T
  <2>1. T \in Nat
    BY ConstantsType
  <2>2. ASSUME NEW x PROVE x \in Ticks <=> x \in 0..T
    <3>1. x \in Ticks <=> \E v \in {T, 0} : x \in 0..v
      BY DEF Ticks
    <3>2. x \in 0..0 => x \in 0..T
      BY <2>1
    <3>3. QED
      BY <3>1, <3>2
  <2>3. QED
    BY <2>1, <2>2
<1>1. Init => QuietInv
  BY <1>0, ConstantsType, LoopIsThread
  DEF Init, QuietInv, IdleBounded, Spent, Ahead, NoDl
<1>2. TypeOK /\ TypeOK' /\ PipeInv /\ IdleInv /\ LoopInv /\ QuietInv
        /\ [Next]_vars => QuietInv'
  <2> SUFFICES ASSUME TypeOK, TypeOK', PipeInv, IdleInv, LoopInv, QuietInv,
                      [Next]_vars
               PROVE  QuietInv'
    OBVIOUS
  <2>0. /\ timeout = T /\ timeout' = T /\ quiet \in Nat
        /\ rdl \in 0..T \/ rdl = NoDl
        /\ pc \in [Threads -> Labels] /\ d \in [Threads -> 0..T]
        /\ msg.in \in BOOLEAN /\ msg.got \in BOOLEAN /\ msg.fin \in BOOLEAN
        /\ msg.left \in {0, 1} /\ msg.next \in {"frame", "body"}
        /\ msg \in [in : BOOLEAN, got : BOOLEAN, left : {0, 1},
                    fin : BOOLEAN, next : {"frame", "body"}]
        /\ open \in BOOLEAN
    BY <1>0 DEF TypeOK, SocketTypeOK, ReadTypeOK, ThreadTypeOK
  <2> USE <1>0, <2>0, ConstantsType, LoopIsThread
      DEF PipeInv, IdleInv, LoopInv, QuietInv, IdleBounded, Spent, Ahead,
          Goto, Closed, CloseFor, NoDl, shut, peers, write, read
  <2>1. CASE ArmLoad
    BY <2>1 DEF ArmLoad
  <2>2. CASE ArmSet
    BY <2>2 DEF ArmSet
  <2>3. ASSUME NEW len \in {0, 1}, NEW fin \in BOOLEAN, DataHeader(len, fin)
       PROVE  QuietInv'
    BY <2>3 DEF DataHeader, Take
  <2>4. CASE DataByte
    BY <2>4 DEF DataByte, Take
  <2>5. CASE PipeTaken
    BY <2>5 DEF PipeTaken
  <2>6. CASE PipeClosed
    BY <2>6 DEF PipeClosed
  <2>7. CASE FragmentEmpty
    BY <2>7 DEF FragmentEmpty
  <2>8. CASE ControlFrame("ping", "pong")
    BY <2>8 DEF ControlFrame, Take
  <2>9. CASE ControlFrame("close", "bye")
    BY <2>9 DEF ControlFrame, Take
  <2>10. CASE TryLock
    BY <2>10 DEF TryLock, AfterReply
  <2>11. ASSUME NEW kind \in {"eof", "bad"}, StreamEnd(kind) PROVE QuietInv'
    BY <2>11 DEF StreamEnd, Take
  <2>12. CASE ReadFail
    BY <2>12 DEF ReadFail
  <2>13. CASE RecvCall
    BY <2>13 DEF RecvCall
  <2>14. CASE RecvByte
    BY <2>14 DEF RecvByte
  <2>15. CASE RecvErr
    BY <2>15 DEF RecvErr
  <2>16. ASSUME NEW g \in Threads, NEW p \in Packets, SendCall(g, p)
       PROVE  QuietInv'
    <3>1. CASE closed
      BY <2>16, <3>1 DEF SendCall
    <3>2. CASE ~closed
      BY <2>16, <3>2 DEF SendCall
    <3>3. QED
      BY <3>1, <3>2
  <2>17. ASSUME NEW g \in Threads, WriteSome(g) PROVE QuietInv'
    BY <2>17 DEF WriteSome
  <2>18. ASSUME NEW g \in Threads, WriteFail(g) PROVE QuietInv'
    BY <2>18 DEF WriteFail
  <2>19. ASSUME NEW g \in Threads, NEW v \in Durations, SetTimeOut(g, v)
       PROVE  QuietInv'
    BY <2>19 DEF SetTimeOut
  <2>20. ASSUME NEW g \in Threads, CloseCall(g) PROVE QuietInv'
    BY <2>20 DEF CloseCall
  <2>21. ASSUME NEW g \in Threads, SendLock(g) PROVE QuietInv'
    BY <2>21 DEF SendLock
  <2>22. ASSUME NEW g \in Threads, WriteDone(g) PROVE QuietInv'
    BY <2>22 DEF WriteDone, AfterReply
  <2>23. ASSUME NEW g \in Threads, SetRead(g) PROVE QuietInv'
    BY <2>23 DEF SetRead
  <2>24. ASSUME NEW g \in Threads, CloseOnce(g) PROVE QuietInv'
    BY <2>24 DEF CloseOnce
  <2>25. ASSUME NEW g \in Threads, CloseAgain(g) PROVE QuietInv'
    BY <2>25 DEF CloseAgain
  <2>26. ASSUME NEW g \in Threads, CloseFlag(g) PROVE QuietInv'
    BY <2>26 DEF CloseFlag
  <2>27. ASSUME NEW g \in Threads, ClosePipe(g) PROVE QuietInv'
    BY <2>27 DEF ClosePipe
  <2>28. ASSUME NEW g \in Threads, CloseConn(g) PROVE QuietInv'
    BY <2>28 DEF CloseConn
  <2>29. ASSUME NEW len \in {0, 1}, NEW fin \in BOOLEAN, PeerHeader(len, fin)
       PROVE  QuietInv'
    BY <2>29 DEF PeerHeader, PeerPut
  <2>30. CASE PeerByte
    BY <2>30 DEF PeerByte, PeerPut
  <2>31. ASSUME NEW kind \in {"ping", "close", "eof", "bad"}, PeerControl(kind)
       PROVE  QuietInv'
    BY <2>31 DEF PeerControl, PeerPut
  <2>32. CASE Tick
    <3>1. /\ rdl \in Nat /\ UNCHANGED <<pc, open, timeout, msg>>
          /\ rdl' = IF rdl > 0 THEN rdl - 1 ELSE 0
      BY <2>32 DEF Tick
    <3>2. CASE /\ pc[Loop] = "frame" \/ (pc[Loop] = "body" /\ msg.left = 1)
               /\ inq = <<>> /\ open /\ rdl > 0
               /\ quiet' = quiet + 1 /\ UNCHANGED d
      <4>1. quiet + rdl <= Spent + timeout
        BY <3>1, <3>2
      <4>2. quiet' + rdl' <= Spent + timeout
        BY <3>1, <3>2, <4>1
      <4>3. QED
        BY <3>1, <3>2, <4>2
    <3>3. CASE /\ pc[Loop] = "write" /\ d[Loop] > 0
               /\ quiet' = quiet + 1 /\ d' = [d EXCEPT ![Loop] = d[Loop] - 1]
      <4>1. d[Loop] \in 0..T /\ d'[Loop] = d[Loop] - 1
        BY <3>3
      <4>2. CASE rdl = 0
        BY <3>1, <3>3, <4>1, <4>2
      <4>3. CASE rdl > 0
        BY <3>1, <3>3, <4>1, <4>3
      <4>4. QED
        BY <3>1, <4>2, <4>3
    <3>4. CASE /\ pc[Loop] = "pipe" /\ pend /\ cause = None /\ rdl > 0
               /\ UNCHANGED <<quiet, d>>
      BY <3>1, <3>4
    <3>5. QED
      BY <2>32, <3>2, <3>3, <3>4 DEF Tick
  <2>33. CASE UNCHANGED vars
    BY <2>33 DEF vars
  <2>34. QED
    <3> HIDE DEF PipeInv, IdleInv, LoopInv, QuietInv, IdleBounded,
            Spent, Ahead, Goto, Closed, CloseFor, NoDl, shut, peers,
            write, read
    <3>1. QED
      BY <2>1, <2>2, <2>3, <2>4, <2>5, <2>6, <2>7, <2>8, <2>9, <2>10, <2>11,
         <2>12, <2>13, <2>14, <2>15, <2>16, <2>17, <2>18, <2>19, <2>20, <2>21,
         <2>22, <2>23, <2>24, <2>25, <2>26, <2>27, <2>28, <2>29, <2>30, <2>31,
         <2>32, <2>33 DEF Next, Step, LoopStep, LoopRead, PeerStep
<1>3. QED
  BY <1>1, <1>2, TypeInvariant, IdleInvariant, MessageInvariant, PTL
     DEF Spec

(* IdleBounded: a peer that sends pings, empty fragments and headers but   *)
(* no data byte is cut off before four timeouts have passed, whatever the  *)
(* timeout, provided that its messages are not empty (with empty messages  *)
(* it is not: run ws_empty).                                               *)
THEOREM IdlePeerIsCutOff ==
  ASSUME NEW T, Durations = {T}, ~EmptyMessages
  PROVE  Spec => []IdleBounded
<1>0. T \in Nat
  BY ConstantsType
<1>1. CASE T > 0
  BY <1>1, QuietInvariant, PTL DEF QuietInv
<1>2. CASE ~(T > 0)
  <2>1. TypeOK => IdleBounded
    BY <1>2 DEF TypeOK, SocketTypeOK, IdleBounded
  <2>2. QED
    BY <2>1, TypeInvariant, PTL
<1>3. QED
  BY <1>1, <1>2
=============================================================================
