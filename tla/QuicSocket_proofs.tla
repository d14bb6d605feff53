-------------------------- MODULE QuicSocket_proofs -------------------------
(***************************************************************************)
(* Proofs about QuicSocket for every set of goroutines, packets, durations *)
(* and packet sizes.                                                       *)
(***************************************************************************)
EXTENDS QuicSocket, TLAPS

(* A Send has the packet it was given until it returns or closes.          *)
HasPacket ==
  \A g \in Threads :
    pc[g] \in {"lock", "arm", "write", "writing"} => pkt[g] \in Packets

(* Types alone are not inductive: a Send writes only what it was given.    *)
LEMMA TypeInvariant == Spec => [](TypeOK /\ HasPacket)
<1>1. Init => TypeOK /\ HasPacket
  <2> SUFFICES ASSUME Init PROVE TypeOK /\ HasPacket
    OBVIOUS
  <2> USE ConstantsType DEF Init
  <2>1. wire \in Seq(Packets \X Nat) /\ Len(wire) = 0
    OBVIOUS
  <2>2. delivered \in 0..Len(wire) /\ atClose \in 0..Len(wire)
    BY <2>1
  <2>3. HasPacket
    BY DEF HasPacket
  <2>4. /\ pc \in [Threads -> Labels]
        /\ d \in [Threads -> Durations \cup {0}]
        /\ n \in [Threads -> Nat] /\ pkt \in [Threads -> Packets \cup {None}]
    BY DEF Labels
  <2>5. QED
    BY <2>1, <2>2, <2>3, <2>4 DEF TypeOK
<1>2. TypeOK /\ HasPacket /\ [Next]_vars => (TypeOK /\ HasPacket)'
  <2> SUFFICES ASSUME TypeOK, HasPacket, [Next]_vars
               PROVE  (TypeOK /\ HasPacket)'
    OBVIOUS
  <2> USE ConstantsType DEF TypeOK, HasPacket, Labels, Goto, Return,
          CloseOrder, shut, lines, net, sends
  <2>1. ASSUME NEW g \in Threads, RecvCall(g) PROVE (TypeOK /\ HasPacket)'
    BY <2>1 DEF RecvCall
  <2>2. ASSUME NEW g \in Threads, RecvArm(g) PROVE (TypeOK /\ HasPacket)'
    BY <2>2 DEF RecvArm
  <2>3. ASSUME NEW g \in Threads, RecvData(g) PROVE (TypeOK /\ HasPacket)'
    BY <2>3 DEF RecvData
  <2>4. ASSUME NEW g \in Threads, NEW e \in {"EOF", "own", "other"},
               RecvFail(g, e)
       PROVE  (TypeOK /\ HasPacket)'
    BY <2>4 DEF RecvFail, ReadFails
  <2>5. ASSUME NEW g \in Threads, RecvReturn(g) PROVE (TypeOK /\ HasPacket)'
    BY <2>5 DEF RecvReturn
  <2>6. ASSUME NEW g \in Threads, NEW p \in Packets, SendCall(g, p)
       PROVE  (TypeOK /\ HasPacket)'
    <3>1. CASE closed
      BY <2>6, <3>1 DEF SendCall
    <3>2. CASE ~closed
      <4>1. /\ pc' = [pc EXCEPT ![g] = "lock"] /\ pkt' = [pkt EXCEPT ![g] = p]
            /\ unsent' \subseteq Packets
        BY <2>6, <3>2 DEF SendCall
      <4>2. pc' \in [Threads -> Labels] /\ pkt' \in [Threads -> Packets \cup {None}]
        BY <4>1
      <4>3. HasPacket'
        BY <4>1
      <4>4. QED
        BY <2>6, <4>1, <4>2, <4>3 DEF SendCall
    <3>3. QED
      BY <3>1, <3>2
  <2>7. ASSUME NEW g \in Threads, SendLock(g) PROVE (TypeOK /\ HasPacket)'
    BY <2>7 DEF SendLock
  <2>8. ASSUME NEW g \in Threads, SendArm(g) PROVE (TypeOK /\ HasPacket)'
    BY <2>8 DEF SendArm
  <2>9. ASSUME NEW g \in Threads, WriteBegin(g) PROVE (TypeOK /\ HasPacket)'
    BY <2>9 DEF WriteBegin
  <2>10. ASSUME NEW g \in Threads, WriteSome(g) PROVE (TypeOK /\ HasPacket)'
    <3> DEFINE b == <<pkt[g], n[g] + 1>>
    <3>1. /\ b \in Packets \X Nat /\ wire \in Seq(Packets \X Nat)
          /\ wire' = Append(wire, b)
      BY <2>10 DEF WriteSome
    <3> HIDE DEF b
    <3>2. wire' \in Seq(Packets \X Nat) /\ Len(wire') = Len(wire) + 1
      BY ONLY <3>1
    <3>3. delivered' \in 0..Len(wire') /\ atClose' \in 0..Len(wire')
      BY <2>10, <3>2 DEF WriteSome
    <3>4. n' \in [Threads -> Nat]
      BY <2>10 DEF WriteSome
    <3>5. pc' = pc \/ pc' = [pc EXCEPT ![g] = "write"]
      BY <2>10 DEF WriteSome
    <3>6. pc' \in [Threads -> Labels] /\ pkt' = pkt
      BY <2>10, <3>5 DEF WriteSome
    <3>7. HasPacket'
      BY <2>10, <3>5, <3>6 DEF WriteSome
    <3>8. QED
      BY <2>10, <3>2, <3>3, <3>4, <3>6, <3>7 DEF WriteSome
  <2>11. ASSUME NEW g \in Threads, WriteDone(g) PROVE (TypeOK /\ HasPacket)'
    BY <2>11 DEF WriteDone
  <2>12. ASSUME NEW g \in Threads, WriteFail(g) PROVE (TypeOK /\ HasPacket)'
    <3>1. CASE n[g] > 0
      <4>1. pc' = [pc EXCEPT ![g] = "close"] /\ UNCHANGED <<wmu, n, pkt>>
        BY <2>12, <3>1 DEF WriteFail
      <4>2. pc' \in [Threads -> Labels] /\ HasPacket'
        BY <4>1
      <4>3. QED
        BY <2>12, <4>1, <4>2 DEF WriteFail
    <3>2. CASE ~(n[g] > 0)
      <4>1. Return(g)
        BY <2>12, <3>2 DEF WriteFail
      <4>2. QED
        BY <2>12, <4>1 DEF WriteFail
    <3>3. QED
      BY <3>1, <3>2
  <2>13. ASSUME NEW g \in Threads, WritePanic(g) PROVE (TypeOK /\ HasPacket)'
    BY <2>13 DEF WritePanic
  <2>14. ASSUME NEW g \in Threads, NEW v \in Durations, SetTimeOut(g, v)
       PROVE  (TypeOK /\ HasPacket)'
    BY <2>14 DEF SetTimeOut
  <2>15. ASSUME NEW g \in Threads, SetRead(g) PROVE (TypeOK /\ HasPacket)'
    BY <2>15 DEF SetRead
  <2>16. ASSUME NEW g \in Threads, SetWrite(g) PROVE (TypeOK /\ HasPacket)'
    BY <2>16 DEF SetWrite
  <2>17. ASSUME NEW g \in Threads, CloseCall(g) PROVE (TypeOK /\ HasPacket)'
    BY <2>17 DEF CloseCall
  <2>18. ASSUME NEW g \in Threads, CloseOnce(g) PROVE (TypeOK /\ HasPacket)'
    BY <2>18 DEF CloseOnce
  <2>19. ASSUME NEW g \in Threads, CloseAgain(g) PROVE (TypeOK /\ HasPacket)'
    BY <2>19 DEF CloseAgain
  <2>20. ASSUME NEW g \in Threads, CloseFlag(g) PROVE (TypeOK /\ HasPacket)'
    BY <2>20 DEF CloseFlag
  <2>21. ASSUME NEW g \in Threads, CloseStream(g) PROVE (TypeOK /\ HasPacket)'
    BY <2>21 DEF CloseStream
  <2>22. ASSUME NEW g \in Threads, CloseCancel(g) PROVE (TypeOK /\ HasPacket)'
    BY <2>22 DEF CloseCancel
  <2>23. ASSUME NEW g \in Threads, CloseSpawn(g) PROVE (TypeOK /\ HasPacket)'
    BY <2>23 DEF CloseSpawn
  <2>24. CASE GraceFire
    BY <2>24 DEF GraceFire
  <2>25. CASE TearDown
    BY SMTT(60), <2>25 DEF TearDown
  <2>26. CASE Deliver
    BY SMTT(60), <2>26 DEF Deliver
  <2>27. CASE PeerReset
    BY <2>27 DEF PeerReset
  <2>28. CASE ConnLost
    BY <2>28 DEF ConnLost
  <2>29. CASE UNCHANGED vars
    BY <2>29 DEF vars
  <2>30. QED
    <3> HIDE DEF TypeOK, HasPacket, Labels, Goto, Return, CloseOrder,
            shut, lines, net, sends
    <3>1. QED
      BY <2>1, <2>2, <2>3, <2>4, <2>5, <2>6, <2>7, <2>8, <2>9, <2>10, <2>11,
         <2>12, <2>13, <2>14, <2>15, <2>16, <2>17, <2>18, <2>19, <2>20, <2>21,
         <2>22, <2>23, <2>24, <2>25, <2>26, <2>27, <2>28, <2>29 DEF Next, Step
<1>3. QED
  BY <1>1, <1>2, PTL DEF Spec

(* Type correctness: every variable keeps its type; in particular nothing  *)
(* is delivered that the stream did not accept, and only bytes of packets  *)
(* are written.                                                            *)
THEOREM TypeCorrect == Spec => []TypeOK
BY TypeInvariant, PTL

(* How far a Close has come: closeOnce runs once, in one goroutine, and     *)
(* its steps come in the order of the code.                                *)
Closing == {"flag", "fin", "cancel", "spawn"}

OneCloser ==
  /\ \A g \in Threads : pc[g] \in Closing => once = "running"
  /\ \A g, h \in Threads : pc[g] \in Closing /\ pc[h] \in Closing => g = h

FlagFirst ==
  /\ \A g \in Threads : pc[g] \in {"fin", "cancel", "spawn"} => closed
  /\ once = "done" => closed
  /\ cancelled => closed
  /\ err = "own" => closed

(* FIN once, and before the connection is left to the grace goroutine.     *)
FinBeforeGrace ==
  /\ \A g \in Threads : pc[g] \in {"cancel", "spawn"} => fin
  /\ once = "done" => fin
  /\ grace # "none" => once = "done"

(* The connection is ended by the grace goroutine alone, and only after    *)
(* the peer has got what was accepted or the timer has found it late.      *)
Drained ==
  /\ conn = "ended" => grace = "done"
  /\ grace = "fired" /\ ~late => delivered >= atClose
  /\ GraceDrains

CloseInv == OneCloser /\ FlagFirst /\ FinBeforeGrace /\ Drained

(* The steps of Close, its goroutine and the network, in whatever order    *)
(* they interleave, keep all of this.                                      *)
LEMMA CloseInvariant == Spec => []CloseInv
<1>1. Init => CloseInv
  BY ConstantsType DEF Init, CloseInv, OneCloser, FlagFirst, FinBeforeGrace,
     Drained, GraceDrains, Closing
<1>2. TypeOK /\ CloseInv /\ [Next]_vars => CloseInv'
  <2> SUFFICES ASSUME TypeOK, CloseInv, [Next]_vars PROVE CloseInv'
    OBVIOUS
  <2> USE ConstantsType DEF TypeOK, CloseInv, OneCloser, FlagFirst,
          FinBeforeGrace, Drained, GraceDrains, Closing, Labels, Goto,
          Return, CloseOrder, shut, lines, net, sends
  <2>1. ASSUME NEW g \in Threads, RecvCall(g) PROVE CloseInv'
    BY <2>1 DEF RecvCall
  <2>2. ASSUME NEW g \in Threads, RecvArm(g) PROVE CloseInv'
    BY <2>2 DEF RecvArm
  <2>3. ASSUME NEW g \in Threads, RecvData(g) PROVE CloseInv'
    BY <2>3 DEF RecvData
  <2>4. ASSUME NEW g \in Threads, NEW e \in {"EOF", "own", "other"},
               RecvFail(g, e)
       PROVE  CloseInv'
    BY <2>4 DEF RecvFail, ReadFails
  <2>5. ASSUME NEW g \in Threads, RecvReturn(g) PROVE CloseInv'
    BY <2>5 DEF RecvReturn
  <2>6. ASSUME NEW g \in Threads, NEW p \in Packets, SendCall(g, p)
       PROVE  CloseInv'
    BY SMTT(60), <2>6 DEF SendCall
  <2>7. ASSUME NEW g \in Threads, SendLock(g) PROVE CloseInv'
    BY <2>7 DEF SendLock
  <2>8. ASSUME NEW g \in Threads, SendArm(g) PROVE CloseInv'
    BY <2>8 DEF SendArm
  <2>9. ASSUME NEW g \in Threads, WriteBegin(g) PROVE CloseInv'
    BY SMTT(60), <2>9 DEF WriteBegin
  <2>10. ASSUME NEW g \in Threads, WriteSome(g) PROVE CloseInv'
    BY SMTT(60), <2>10 DEF WriteSome
  <2>11. ASSUME NEW g \in Threads, WriteDone(g) PROVE CloseInv'
    BY <2>11 DEF WriteDone
  <2>12. ASSUME NEW g \in Threads, WriteFail(g) PROVE CloseInv'
    <3>1. UNCHANGED <<closed, once, fin, cancelled, grace, atClose, late>>
          /\ UNCHANGED <<conn, delivered, err>>
      BY <2>12 DEF WriteFail
    <3>2. CASE pc' = [pc EXCEPT ![g] = "close"]
      BY <3>1, <3>2
    <3>3. CASE pc' = [pc EXCEPT ![g] = "idle"]
      BY SMTT(60), <3>1, <3>3
    <3>4. QED
      BY <2>12, <3>2, <3>3 DEF WriteFail
  <2>13. ASSUME NEW g \in Threads, WritePanic(g) PROVE CloseInv'
    BY <2>13 DEF WritePanic
  <2>14. ASSUME NEW g \in Threads, NEW v \in Durations, SetTimeOut(g, v)
       PROVE  CloseInv'
    BY <2>14 DEF SetTimeOut
  <2>15. ASSUME NEW g \in Threads, SetRead(g) PROVE CloseInv'
    BY <2>15 DEF SetRead
  <2>16. ASSUME NEW g \in Threads, SetWrite(g) PROVE CloseInv'
    BY <2>16 DEF SetWrite
  <2>17. ASSUME NEW g \in Threads, CloseCall(g) PROVE CloseInv'
    BY <2>17 DEF CloseCall
  <2>18. ASSUME NEW g \in Threads, CloseOnce(g) PROVE CloseInv'
    BY SMTT(60), <2>18 DEF CloseOnce
  <2>19. ASSUME NEW g \in Threads, CloseAgain(g) PROVE CloseInv'
    BY <2>19 DEF CloseAgain
  <2>20. ASSUME NEW g \in Threads, CloseFlag(g) PROVE CloseInv'
    BY SMTT(60), <2>20 DEF CloseFlag
  <2>21. ASSUME NEW g \in Threads, CloseStream(g) PROVE CloseInv'
    BY SMTT(60), <2>21 DEF CloseStream
  <2>22. ASSUME NEW g \in Threads, CloseCancel(g) PROVE CloseInv'
    BY <2>22 DEF CloseCancel
  <2>23. ASSUME NEW g \in Threads, CloseSpawn(g) PROVE CloseInv'
    BY <2>23 DEF CloseSpawn
  <2>24. CASE GraceFire
    <3>1. Drained'
      <4>1. grace' = "fired" /\ conn # "ended" /\ conn' = conn
        BY <2>24 DEF GraceFire
      <4>2. delivered' = delivered /\ atClose' = atClose
        BY <2>24 DEF GraceFire
      <4>3. delivered \in Nat /\ atClose \in Nat
        OBVIOUS
      <4>4. late' = (delivered < atClose)
        BY <2>24 DEF GraceFire
      <4>5. CASE delivered < atClose
        <5>1. late' = TRUE
          BY <4>4, <4>5
        <5>2. QED
          BY <4>1, <5>1
      <4>6. CASE ~(delivered < atClose)
        BY <4>1, <4>2, <4>3, <4>6
      <4>7. QED
        BY <4>5, <4>6
    <3>2. QED
      BY <2>24, <3>1 DEF GraceFire
  <2>25. CASE TearDown
    BY <2>25 DEF TearDown
  <2>26. CASE Deliver
    BY <2>26 DEF Deliver
  <2>27. CASE PeerReset
    BY <2>27 DEF PeerReset
  <2>28. CASE ConnLost
    BY <2>28 DEF ConnLost
  <2>29. CASE UNCHANGED vars
    BY <2>29 DEF vars
  <2>30. QED
    <3> HIDE DEF TypeOK, CloseInv, OneCloser, FlagFirst,
            FinBeforeGrace, Drained, GraceDrains, Closing, Labels, Goto,
            Return, CloseOrder, shut, lines, net, sends
    <3>1. QED
      BY <2>1, <2>2, <2>3, <2>4, <2>5, <2>6, <2>7, <2>8, <2>9, <2>10, <2>11,
         <2>12, <2>13, <2>14, <2>15, <2>16, <2>17, <2>18, <2>19, <2>20, <2>21,
         <2>22, <2>23, <2>24, <2>25, <2>26, <2>27, <2>28, <2>29 DEF Next, Step
<1>3. QED
  BY <1>1, <1>2, TypeCorrect, PTL DEF Spec

(* Recv never shows an error that the socket's own Close provoked.         *)
THEOREM OwnErrorsHidden == Spec => []OwnErrorHidden
<1>1. TypeOK /\ CloseInv => OwnErrorHidden
  BY ConstantsType DEF CloseInv, FlagFirst, OwnErrorHidden, RecvError
<1>2. QED
  BY <1>1, TypeCorrect, CloseInvariant, PTL

(* Ending the connection discards nothing accepted before Close, unless    *)
(* the whole grace period was too short for it.                            *)
THEOREM GraceDrainsAccepted == Spec => []GraceDrains
BY CloseInvariant, PTL DEF CloseInv, Drained

-----------------------------------------------------------------------------
(* A Send writes, and fails, under wmu; while it has written anything its  *)
(* last byte is the last byte of the stream.                               *)
Writer(g) ==
  /\ pc[g] \in {"arm", "write", "writing"} => wmu = g
  /\ wmu = g => pc[g] \in {"arm", "write", "writing", "close"} \cup Closing
  /\ pc[g] = "writing" => n[g] < Size[pkt[g]]
  /\ n[g] # 0 => /\ wmu = g /\ pc[g] # "arm"
                 /\ LastByte = <<pkt[g], n[g]>>

Writers == \A g \in Threads : Writer(g)

(* Mutual exclusion of the writers, although Close does not take wmu.      *)
LEMMA WritersInvariant == Spec => []Writers
<1>1. Init => Writers
  BY ConstantsType DEF Init, Writers, Writer
<1>2. TypeOK /\ HasPacket /\ Writers /\ [Next]_vars => Writers'
  <2> SUFFICES ASSUME TypeOK, HasPacket, Writers, [Next]_vars,
                      NEW h \in Threads
               PROVE  Writer(h)'
    BY DEF Writers
  <2> USE ConstantsType DEF TypeOK, Writers, Writer, LastByte, Closing,
          Labels, Goto, Return, CloseOrder, shut, lines, net, sends
  <2>1. ASSUME NEW g \in Threads, RecvCall(g) PROVE Writer(h)'
    BY <2>1 DEF RecvCall
  <2>2. ASSUME NEW g \in Threads, RecvArm(g) PROVE Writer(h)'
    BY <2>2 DEF RecvArm
  <2>3. ASSUME NEW g \in Threads, RecvData(g) PROVE Writer(h)'
    BY <2>3 DEF RecvData
  <2>4. ASSUME NEW g \in Threads, NEW e \in {"EOF", "own", "other"},
               RecvFail(g, e)
       PROVE  Writer(h)'
    BY <2>4 DEF RecvFail, ReadFails
  <2>5. ASSUME NEW g \in Threads, RecvReturn(g) PROVE Writer(h)'
    BY <2>5 DEF RecvReturn
  <2>6. ASSUME NEW g \in Threads, NEW p \in Packets, SendCall(g, p)
       PROVE  Writer(h)'
    <3>1. CASE closed
      BY <2>6, <3>1 DEF SendCall
    <3>2. CASE ~closed
      BY <2>6, <3>2 DEF SendCall
    <3>3. QED
      BY <3>1, <3>2
  <2>7. ASSUME NEW g \in Threads, SendLock(g) PROVE Writer(h)'
    BY <2>7 DEF SendLock
  <2>8. ASSUME NEW g \in Threads, SendArm(g) PROVE Writer(h)'
    BY <2>8 DEF SendArm
  <2>9. ASSUME NEW g \in Threads, WriteBegin(g) PROVE Writer(h)'
    BY <2>9 DEF WriteBegin
  <2>10. ASSUME NEW g \in Threads, WriteSome(g) PROVE Writer(h)'
    <3> DEFINE b == <<pkt[g], n[g] + 1>>
    <3>1. /\ b \in Packets \X Nat /\ wire \in Seq(Packets \X Nat)
          /\ wire' = Append(wire, b)
      BY <2>10 DEF WriteSome, HasPacket
    <3> HIDE DEF b
    <3>2. Len(wire') = Len(wire) + 1 /\ wire'[Len(wire')] = b /\ wire' # <<>>
      BY ONLY <3>1
    <3>3. LastByte' = b
      BY <3>2
    <3>4. wmu = g /\ wmu' = wmu /\ n' = [n EXCEPT ![g] = n[g] + 1]
          /\ pkt' = pkt
      BY <2>10 DEF WriteSome
    <3>5. CASE h # g
      <4>1. n'[h] = 0 /\ pc'[h] = pc[h] /\ pkt'[h] = pkt[h]
        BY <2>10, <3>4, <3>5 DEF WriteSome
      <4>2. QED
        BY <3>4, <3>5, <4>1
    <3>6. CASE h = g
      <4>1. \/ pc'[g] = "write"
            \/ pc'[g] = "writing" /\ n[g] + 1 < Size[pkt[g]]
        BY <2>10 DEF WriteSome
      <4>2. n'[g] = n[g] + 1 /\ LastByte' = <<pkt'[g], n'[g]>>
        BY <3>3, <3>4 DEF b
      <4>3. QED
        BY <3>4, <3>6, <4>1, <4>2
    <3>7. QED
      BY <3>5, <3>6
  <2>11. ASSUME NEW g \in Threads, WriteDone(g) PROVE Writer(h)'
    BY <2>11 DEF WriteDone
  <2>12. ASSUME NEW g \in Threads, WriteFail(g) PROVE Writer(h)'
    <3>1. CASE n[g] > 0
      BY <2>12, <3>1 DEF WriteFail, WriteFails
    <3>2. CASE ~(n[g] > 0)
      BY <2>12, <3>2 DEF WriteFail, WriteFails
    <3>3. QED
      BY <3>1, <3>2
  <2>13. ASSUME NEW g \in Threads, WritePanic(g) PROVE Writer(h)'
    BY <2>13 DEF WritePanic
  <2>14. ASSUME NEW g \in Threads, NEW v \in Durations, SetTimeOut(g, v)
       PROVE  Writer(h)'
    BY <2>14 DEF SetTimeOut
  <2>15. ASSUME NEW g \in Threads, SetRead(g) PROVE Writer(h)'
    BY <2>15 DEF SetRead
  <2>16. ASSUME NEW g \in Threads, SetWrite(g) PROVE Writer(h)'
    BY <2>16 DEF SetWrite
  <2>17. ASSUME NEW g \in Threads, CloseCall(g) PROVE Writer(h)'
    BY <2>17 DEF CloseCall
  <2>18. ASSUME NEW g \in Threads, CloseOnce(g) PROVE Writer(h)'
    BY <2>18 DEF CloseOnce
  <2>19. ASSUME NEW g \in Threads, CloseAgain(g) PROVE Writer(h)'
    BY <2>19 DEF CloseAgain
  <2>20. ASSUME NEW g \in Threads, CloseFlag(g) PROVE Writer(h)'
    BY <2>20 DEF CloseFlag
  <2>21. ASSUME NEW g \in Threads, CloseStream(g) PROVE Writer(h)'
    BY <2>21 DEF CloseStream
  <2>22. ASSUME NEW g \in Threads, CloseCancel(g) PROVE Writer(h)'
    BY <2>22 DEF CloseCancel
  <2>23. ASSUME NEW g \in Threads, CloseSpawn(g) PROVE Writer(h)'
    BY <2>23 DEF CloseSpawn
  <2>24. CASE GraceFire
    BY <2>24 DEF GraceFire
  <2>25. CASE TearDown
    BY <2>25 DEF TearDown
  <2>26. CASE Deliver
    BY <2>26 DEF Deliver
  <2>27. CASE PeerReset
    BY <2>27 DEF PeerReset
  <2>28. CASE ConnLost
    BY <2>28 DEF ConnLost
  <2>29. CASE UNCHANGED vars
    BY <2>29 DEF vars
  <2>30. QED
    <3> HIDE DEF TypeOK, Writers, Writer, LastByte, Closing, Labels,
            Goto, Return, CloseOrder, shut, lines, net, sends
    <3>1. QED
      BY <2>1, <2>2, <2>3, <2>4, <2>5, <2>6, <2>7, <2>8, <2>9, <2>10, <2>11,
         <2>12, <2>13, <2>14, <2>15, <2>16, <2>17, <2>18, <2>19, <2>20, <2>21,
         <2>22, <2>23, <2>24, <2>25, <2>26, <2>27, <2>28, <2>29 DEF Next, Step
<1>3. QED
  BY <1>1, <1>2, TypeInvariant, PTL DEF Spec

(* While the stream takes data and no marshaler has panicked, a packet cut *)
(* at its end belongs to a Send that has not returned, or the stream is    *)
(* finished and no Write is left that could go on.                         *)
CutIsOwned ==
  ~panicked /\ Writable /\ ~PW!AtBoundary(LastByte) =>
    \/ \E g \in Threads : n[g] # 0
    \/ fin /\ \A g \in Threads : pc[g] # "writing"

LEMMA CutInvariant == Spec => []CutIsOwned
<1>1. Init => CutIsOwned
  BY DEF Init, CutIsOwned, LastByte, PW!AtBoundary
<1>2. TypeOK /\ CloseInv /\ Writers /\ CutIsOwned /\ [Next]_vars => CutIsOwned'
  <2> SUFFICES ASSUME TypeOK, CloseInv, Writers, CutIsOwned, [Next]_vars
               PROVE  CutIsOwned'
    OBVIOUS
  <2> USE ConstantsType DEF TypeOK, Writers, Writer, LastByte, Closing,
          Labels, Goto, Return, CloseOrder, shut, lines, net, sends,
          CutIsOwned, PW!AtBoundary, Writable
  <2>1. ASSUME NEW g \in Threads, RecvCall(g) PROVE CutIsOwned'
    BY <2>1 DEF RecvCall
  <2>2. ASSUME NEW g \in Threads, RecvArm(g) PROVE CutIsOwned'
    BY <2>2 DEF RecvArm
  <2>3. ASSUME NEW g \in Threads, RecvData(g) PROVE CutIsOwned'
    BY <2>3 DEF RecvData
  <2>4. ASSUME NEW g \in Threads, NEW e \in {"EOF", "own", "other"},
               RecvFail(g, e)
       PROVE  CutIsOwned'
    BY <2>4 DEF RecvFail, ReadFails
  <2>5. ASSUME NEW g \in Threads, RecvReturn(g) PROVE CutIsOwned'
    BY <2>5 DEF RecvReturn
  <2>6. ASSUME NEW g \in Threads, NEW p \in Packets, SendCall(g, p)
       PROVE  CutIsOwned'
    <3>1. CASE closed
      BY <2>6, <3>1 DEF SendCall
    <3>2. CASE ~closed
      BY <2>6, <3>2 DEF SendCall
    <3>3. QED
      BY <3>1, <3>2
  <2>7. ASSUME NEW g \in Threads, SendLock(g) PROVE CutIsOwned'
    BY <2>7 DEF SendLock
  <2>8. ASSUME NEW g \in Threads, SendArm(g) PROVE CutIsOwned'
    BY <2>8 DEF SendArm
  <2>9. ASSUME NEW g \in Threads, WriteBegin(g) PROVE CutIsOwned'
    BY <2>9 DEF WriteBegin
  <2>10. ASSUME NEW g \in Threads, WriteSome(g) PROVE CutIsOwned'
    <3>1. n'[g] # 0
      BY <2>10 DEF WriteSome
    <3>2. QED
      BY <3>1
  <2>11. ASSUME NEW g \in Threads, WriteDone(g) PROVE CutIsOwned'
    BY <2>11 DEF WriteDone
  <2>12. ASSUME NEW g \in Threads, WriteFail(g) PROVE CutIsOwned'
    <3>1. CASE n[g] > 0
      BY <2>12, <3>1 DEF WriteFail, WriteFails
    <3>2. CASE ~(n[g] > 0)
      BY <2>12, <3>2 DEF WriteFail, WriteFails
    <3>3. QED
      BY <3>1, <3>2
  <2>13. ASSUME NEW g \in Threads, WritePanic(g) PROVE CutIsOwned'
    <3>1. CASE n[g] = 0
      <4>1. ~panicked' => ~panicked
        BY <2>13 DEF WritePanic
      <4>2. \A h \in Threads : n'[h] = n[h] /\ (pc[h] # "writing" => pc'[h] # "writing")
        BY <2>13, <3>1 DEF WritePanic
      <4>3. UNCHANGED <<wire, conn, fin>>
        BY <2>13 DEF WritePanic
      <4>4. QED
        BY <4>1, <4>2, <4>3
    <3>2. CASE n[g] # 0
      <4>1. n[g] > 0
        BY <3>2
      <4>2. panicked' = TRUE
        BY <2>13, <4>1 DEF WritePanic
      <4>3. QED
        BY <4>2
    <3>3. QED
      BY <3>1, <3>2
  <2>14. ASSUME NEW g \in Threads, NEW v \in Durations, SetTimeOut(g, v)
       PROVE  CutIsOwned'
    BY <2>14 DEF SetTimeOut
  <2>15. ASSUME NEW g \in Threads, SetRead(g) PROVE CutIsOwned'
    BY <2>15 DEF SetRead
  <2>16. ASSUME NEW g \in Threads, SetWrite(g) PROVE CutIsOwned'
    BY <2>16 DEF SetWrite
  <2>17. ASSUME NEW g \in Threads, CloseCall(g) PROVE CutIsOwned'
    BY <2>17 DEF CloseCall
  <2>18. ASSUME NEW g \in Threads, CloseOnce(g) PROVE CutIsOwned'
    BY <2>18 DEF CloseOnce
  <2>19. ASSUME NEW g \in Threads, CloseAgain(g) PROVE CutIsOwned'
    <3>1. fin
      BY <2>19 DEF CloseAgain, CloseInv, FinBeforeGrace
    <3>2. QED
      BY <2>19, <3>1 DEF CloseAgain
  <2>20. ASSUME NEW g \in Threads, CloseFlag(g) PROVE CutIsOwned'
    BY <2>20 DEF CloseFlag
  <2>21. ASSUME NEW g \in Threads, CloseStream(g) PROVE CutIsOwned'
    BY <2>21 DEF CloseStream
  <2>22. ASSUME NEW g \in Threads, CloseCancel(g) PROVE CutIsOwned'
    BY <2>22 DEF CloseCancel
  <2>23. ASSUME NEW g \in Threads, CloseSpawn(g) PROVE CutIsOwned'
    <3>1. fin
      BY <2>23 DEF CloseSpawn, CloseInv, FinBeforeGrace
    <3>2. QED
      BY <2>23, <3>1 DEF CloseSpawn
  <2>24. CASE GraceFire
    BY <2>24 DEF GraceFire
  <2>25. CASE TearDown
    BY <2>25 DEF TearDown
  <2>26. CASE Deliver
    BY <2>26 DEF Deliver
  <2>27. CASE PeerReset
    BY <2>27 DEF PeerReset
  <2>28. CASE ConnLost
    BY <2>28 DEF ConnLost
  <2>29. CASE UNCHANGED vars
    BY <2>29 DEF vars
  <2>30. QED
    <3> HIDE DEF TypeOK, Writers, Writer, LastByte, Closing, Labels,
            Goto, Return, CloseOrder, shut, lines, net, sends, CutIsOwned,
            PW!AtBoundary, Writable
    <3>1. QED
      BY <2>1, <2>2, <2>3, <2>4, <2>5, <2>6, <2>7, <2>8, <2>9, <2>10, <2>11,
         <2>12, <2>13, <2>14, <2>15, <2>16, <2>17, <2>18, <2>19, <2>20, <2>21,
         <2>22, <2>23, <2>24, <2>25, <2>26, <2>27, <2>28, <2>29 DEF Next, Step
<1>3. QED
  BY <1>1, <1>2, TypeCorrect, CloseInvariant, WritersInvariant, PTL DEF Spec

(* Only WriteSome puts anything on the stream.                             *)
LEMMA OnlyWrites ==
  ASSUME [Next]_vars, TypeOK
  PROVE  \/ \E g \in Threads : WriteSome(g)
         \/ UNCHANGED wire
<1> USE DEF shut, lines, net, sends
<1>1. ASSUME NEW g \in Threads, RecvCall(g) PROVE UNCHANGED wire
  BY <1>1 DEF RecvCall
<1>2. ASSUME NEW g \in Threads, RecvArm(g) PROVE UNCHANGED wire
  BY <1>2 DEF RecvArm
<1>3. ASSUME NEW g \in Threads, RecvData(g) PROVE UNCHANGED wire
  BY <1>3 DEF RecvData
<1>4. ASSUME NEW g \in Threads, NEW e \in {"EOF", "own", "other"},
             RecvFail(g, e)
     PROVE  UNCHANGED wire
  BY <1>4 DEF RecvFail, ReadFails
<1>5. ASSUME NEW g \in Threads, RecvReturn(g) PROVE UNCHANGED wire
  BY <1>5 DEF RecvReturn
<1>6. ASSUME NEW g \in Threads, NEW p \in Packets, SendCall(g, p)
     PROVE  UNCHANGED wire
  BY <1>6 DEF SendCall
<1>7. ASSUME NEW g \in Threads, SendLock(g) PROVE UNCHANGED wire
  BY <1>7 DEF SendLock
<1>8. ASSUME NEW g \in Threads, SendArm(g) PROVE UNCHANGED wire
  BY <1>8 DEF SendArm
<1>9. ASSUME NEW g \in Threads, WriteBegin(g) PROVE UNCHANGED wire
  BY <1>9 DEF WriteBegin
<1>10. ASSUME NEW g \in Threads, WriteDone(g) PROVE UNCHANGED wire
  BY <1>10 DEF WriteDone
<1>11. ASSUME NEW g \in Threads, WriteFail(g) PROVE UNCHANGED wire
  BY <1>11 DEF WriteFail
<1>12. ASSUME NEW g \in Threads, WritePanic(g) PROVE UNCHANGED wire
  BY <1>12 DEF WritePanic
<1>13. ASSUME NEW g \in Threads, NEW v \in Durations, SetTimeOut(g, v)
     PROVE  UNCHANGED wire
  BY <1>13 DEF SetTimeOut
<1>14. ASSUME NEW g \in Threads, SetRead(g) PROVE UNCHANGED wire
  BY <1>14 DEF SetRead
<1>15. ASSUME NEW g \in Threads, SetWrite(g) PROVE UNCHANGED wire
  BY <1>15 DEF SetWrite
<1>16. ASSUME NEW g \in Threads, CloseCall(g) PROVE UNCHANGED wire
  BY <1>16 DEF CloseCall
<1>17. ASSUME NEW g \in Threads, CloseOnce(g) PROVE UNCHANGED wire
  BY <1>17 DEF CloseOnce
<1>18. ASSUME NEW g \in Threads, CloseAgain(g) PROVE UNCHANGED wire
  BY <1>18 DEF CloseAgain
<1>19. ASSUME NEW g \in Threads, CloseFlag(g) PROVE UNCHANGED wire
  BY <1>19 DEF CloseFlag
<1>20. ASSUME NEW g \in Threads, CloseStream(g) PROVE UNCHANGED wire
  BY <1>20 DEF CloseStream
<1>21. ASSUME NEW g \in Threads, CloseCancel(g) PROVE UNCHANGED wire
  BY <1>21 DEF CloseCancel
<1>22. ASSUME NEW g \in Threads, CloseSpawn(g) PROVE UNCHANGED wire
  BY <1>22 DEF CloseSpawn
<1>23. CASE GraceFire
  BY <1>23 DEF GraceFire
<1>24. CASE TearDown
  BY <1>24 DEF TearDown
<1>25. CASE Deliver
  BY <1>25 DEF Deliver
<1>26. CASE PeerReset
  BY <1>26 DEF PeerReset
<1>27. CASE ConnLost
  BY <1>27 DEF ConnLost
<1>28. CASE UNCHANGED vars
  BY <1>28 DEF vars
<1>29. QED
  BY <1>1, <1>2, <1>3, <1>4, <1>5, <1>6, <1>7, <1>8, <1>9, <1>10, <1>11, <1>12,
     <1>13, <1>14, <1>15, <1>16, <1>17, <1>18, <1>19, <1>20, <1>21, <1>22,
     <1>23, <1>24, <1>25, <1>26, <1>27, <1>28 DEF Next, Step

(* quicSocket keeps Send's promise: as long as no marshaler has panicked   *)
(* between two writes, whatever a step puts on the stream starts a packet  *)
(* at a packet boundary or continues the packet the stream stops in.       *)
THEOREM QuicKeepsFraming == Spec => Framing
<1>1. TypeOK /\ HasPacket /\ Writers /\ CutIsOwned /\ [Next]_vars
        => [~panicked => PW!Next \/ UNCHANGED LastByte]_vars
  <2> SUFFICES ASSUME TypeOK, HasPacket, Writers, CutIsOwned, [Next]_vars,
                      ~panicked
               PROVE  PW!Next \/ UNCHANGED LastByte
    OBVIOUS
  <2>1. ASSUME NEW g \in Threads, WriteSome(g) PROVE PW!Next
    <3> DEFINE p == pkt[g]
               k == n[g] + 1
    <3>1. /\ p \in Packets /\ n[g] \in Nat /\ Size[p] \in Nat
          /\ wire \in Seq(Packets \X Nat) /\ wire' = Append(wire, <<p, k>>)
          /\ n[g] < Size[p]
      BY <2>1, ConstantsType DEF WriteSome, TypeOK, HasPacket, Writers, Writer
    <3>2. k \in 1..Size[p]
      BY <3>1
    <3>3. LastByte' = <<p, k>>
      <4>1. <<p, k>> \in Packets \X Nat
        BY <3>1
      <4>2. wire' # <<>> /\ wire'[Len(wire')] = <<p, k>>
        BY ONLY <3>1, <4>1
      <4>3. QED
        BY <4>2 DEF LastByte
    <3>4. PW!MayFollow(LastByte, p, k)
      <4>1. CASE n[g] = 0
        <5>1. \A h \in Threads : n[h] = 0
          BY <2>1, <4>1 DEF WriteSome, Writers, Writer
        <5>2. PW!AtBoundary(LastByte)
          BY <2>1, <5>1 DEF WriteSome, CutIsOwned
        <5>3. QED
          BY <4>1, <5>2 DEF PW!MayFollow
      <4>2. CASE n[g] # 0
        <5>1. LastByte = <<p, n[g]>>
          BY <4>2 DEF Writers, Writer
        <5>2. ~PW!AtBoundary(LastByte)
          BY <3>1, <5>1 DEF PW!AtBoundary
        <5>3. k - 1 = n[g]
          BY <3>1
        <5>4. QED
          BY <5>1, <5>2, <5>3 DEF PW!MayFollow
      <4>3. QED
        BY <4>1, <4>2
    <3>5. QED
      BY <3>1, <3>2, <3>3, <3>4 DEF PW!Next, PW!Put
  <2>2. CASE UNCHANGED wire
    BY <2>2 DEF LastByte
  <2>3. QED
    BY <2>1, <2>2, OnlyWrites
<1>2. QED
  BY <1>1, TypeInvariant, WritersInvariant, CutInvariant, PTL
     DEF Spec, Framing
=============================================================================
