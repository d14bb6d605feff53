-------------------------- MODULE TcpSocket_proofs --------------------------
(***************************************************************************)
(* Proofs about TcpSocket for every set of goroutines, packets, durations  *)
(* and packet sizes.                                                       *)
(***************************************************************************)
EXTENDS TcpSocket, TLAPS

(* Type correctness: every variable keeps its type, whatever is called.    *)
THEOREM TypeCorrect == Spec => []TypeOK
<1>1. Init => TypeOK
  <2> SUFFICES ASSUME Init PROVE TypeOK
    OBVIOUS
  <2> USE ConstantsType DEF Init
  <2>1. (CHOOSE p \in Packets : TRUE) \in Packets
    OBVIOUS
  <2>2. pkt \in [Threads -> Packets]
    BY <2>1
  <2>3. wire \in Seq(Packets \X Nat)
    OBVIOUS
  <2>4. hs \in {"pending", "done", "failed"}
    OBVIOUS
  <2>5. QED
    BY <2>2, <2>3, <2>4 DEF TypeOK, Labels
<1>2. TypeOK /\ [Next]_vars => TypeOK'
  <2> SUFFICES ASSUME TypeOK, [Next]_vars PROVE TypeOK'
    OBVIOUS
  <2> USE ConstantsType DEF TypeOK, Labels, Goto, Return, conn, sends
  <2>1. ASSUME NEW g \in Threads, RecvCall(g) PROVE TypeOK'
    BY <2>1 DEF RecvCall
  <2>2. ASSUME NEW g \in Threads, RecvArm(g) PROVE TypeOK'
    BY <2>2 DEF RecvArm
  <2>3. ASSUME NEW g \in Threads, RecvData(g) PROVE TypeOK'
    BY <2>3 DEF RecvData
  <2>4. ASSUME NEW g \in Threads, RecvFail(g) PROVE TypeOK'
    BY <2>4 DEF RecvFail
  <2>5. ASSUME NEW g \in Threads, NEW p \in Packets, SendCall(g, p)
        PROVE TypeOK'
    BY <2>5 DEF SendCall
  <2>6. ASSUME NEW g \in Threads, SendLock(g) PROVE TypeOK'
    BY <2>6 DEF SendLock
  <2>7. ASSUME NEW g \in Threads, ShakeDone(g) PROVE TypeOK'
    BY <2>7 DEF ShakeDone
  <2>8. ASSUME NEW g \in Threads, ShakeFail(g) PROVE TypeOK'
    BY <2>8 DEF ShakeFail
  <2>9. ASSUME NEW g \in Threads, SendArm(g) PROVE TypeOK'
    BY <2>9 DEF SendArm
  <2>10. ASSUME NEW g \in Threads, WriteSome(g) PROVE TypeOK'
    BY <2>10 DEF WriteSome
  <2>11. ASSUME NEW g \in Threads, WriteDone(g) PROVE TypeOK'
    BY <2>11 DEF WriteDone
  <2>12. ASSUME NEW g \in Threads, WriteFail(g) PROVE TypeOK'
    BY <2>12 DEF WriteFail
  <2>13. ASSUME NEW g \in Threads, WritePanic(g) PROVE TypeOK'
    BY <2>13 DEF WritePanic
  <2>14. ASSUME NEW g \in Threads, NEW v \in Durations, SetTimeOut(g, v)
         PROVE TypeOK'
    BY <2>14 DEF SetTimeOut
  <2>15. ASSUME NEW g \in Threads, SetRead(g) PROVE TypeOK'
    BY <2>15 DEF SetRead
  <2>16. ASSUME NEW g \in Threads, SetWrite(g) PROVE TypeOK'
    BY <2>16 DEF SetWrite
  <2>17. ASSUME NEW g \in Threads, CloseCall(g) PROVE TypeOK'
    BY <2>17 DEF CloseCall
  <2>18. ASSUME NEW g \in Threads, CloseOnce(g) PROVE TypeOK'
    BY <2>18 DEF CloseOnce
  <2>19. ASSUME NEW g \in Threads, CloseAgain(g) PROVE TypeOK'
    BY <2>19 DEF CloseAgain
  <2>20. ASSUME NEW g \in Threads, CloseFlag(g) PROVE TypeOK'
    BY <2>20 DEF CloseFlag
  <2>21. ASSUME NEW g \in Threads, CloseConn(g) PROVE TypeOK'
    BY <2>21 DEF CloseConn
  <2>22. CASE PeerShake
    BY <2>22 DEF PeerShake
  <2>23. CASE UNCHANGED vars
    BY <2>23 DEF vars
  <2>24. QED
    BY <2>1, <2>2, <2>3, <2>4, <2>5, <2>6, <2>7, <2>8, <2>9, <2>10, <2>11,
       <2>12, <2>13, <2>14, <2>15, <2>16, <2>17, <2>18, <2>19, <2>20, <2>21,
       <2>22, <2>23 DEF Next
<1>3. QED
  BY <1>1, <1>2, PTL DEF Spec

(* The i-th of the last k of l places keeps its number when both grow.     *)
LEMMA SamePlace ==
  ASSUME NEW l \in Nat, NEW k \in Nat, NEW i \in 1..k, k <= l
  PROVE  /\ (l + 1) - (k + 1) + i = l - k + i
         /\ l - k + i \in 1..l
OBVIOUS

(* Mutual exclusion of writers, and a writer's bytes end the wire: holds   *)
(* whatever fails, closes or panics.                                       *)
LEMMA WritersInvariant == Spec => []Writers
<1>1. Init => Writers
  BY ConstantsType DEF Init, Writers, Writer
<1>2. TypeOK /\ Writers /\ [Next]_vars => Writers'
  <2> SUFFICES ASSUME TypeOK, Writers, [Next]_vars,
                      NEW h \in Threads
               PROVE  Writer(h)'
    BY DEF Writers
  <2> USE ConstantsType DEF TypeOK, Labels, Writers, Writer, Goto, Return,
          conn, sends
  <2>1. ASSUME NEW g \in Threads, RecvCall(g)
        PROVE  Writer(h)'
    BY <2>1 DEF RecvCall
  <2>2. ASSUME NEW g \in Threads, RecvArm(g)
        PROVE  Writer(h)'
    BY <2>2 DEF RecvArm
  <2>3. ASSUME NEW g \in Threads, RecvData(g)
        PROVE  Writer(h)'
    BY <2>3 DEF RecvData
  <2>4. ASSUME NEW g \in Threads, RecvFail(g)
        PROVE  Writer(h)'
    BY <2>4 DEF RecvFail
  <2>5. ASSUME NEW g \in Threads, NEW p \in Packets, SendCall(g, p)
        PROVE  Writer(h)'
    BY <2>5 DEF SendCall
  <2>6. ASSUME NEW g \in Threads, SendLock(g)
        PROVE  Writer(h)'
    BY <2>6 DEF SendLock
  <2>7. ASSUME NEW g \in Threads, ShakeDone(g)
        PROVE  Writer(h)'
    BY <2>7 DEF ShakeDone
  <2>8. ASSUME NEW g \in Threads, ShakeFail(g)
        PROVE  Writer(h)'
    BY <2>8 DEF ShakeFail
  <2>9. ASSUME NEW g \in Threads, SendArm(g)
        PROVE  Writer(h)'
    BY <2>9 DEF SendArm
  <2>10. ASSUME NEW g \in Threads, WriteSome(g)
        PROVE  Writer(h)'
    <3>1. CASE h # g
      BY <2>10, <3>1 DEF WriteSome
    <3>2. CASE h = g
      <4> DEFINE b == <<pkt[g], n[g] + 1>>
      <4>1. b \in Packets \X Nat /\ Len(wire) \in Nat
        BY <2>10 DEF WriteSome
      <4>2. /\ Len(wire') = Len(wire) + 1
            /\ wire'[Len(wire) + 1] = b
            /\ \A j \in 1..Len(wire) : wire'[j] = wire[j]
        BY <2>10, <4>1 DEF WriteSome
      <4>3. n'[g] = n[g] + 1 /\ pkt' = pkt /\ pc' = pc /\ wmu' = wmu
        BY <2>10 DEF WriteSome
      <4>4. n[g] + 1 <= Size[pkt[g]] /\ n[g] + 1 <= Len(wire')
        BY <2>10, <4>1, <4>2 DEF WriteSome
      <4>5. ASSUME NEW i \in 1..(n[g] + 1)
            PROVE  wire'[Len(wire') - (n[g] + 1) + i] = <<pkt[g], i>>
        <5>1. CASE i = n[g] + 1
          BY SMTT(60), <4>1, <4>2, <5>1
        <5>2. CASE i # n[g] + 1
          <6>1. i \in 1..n[g] /\ n[g] <= Len(wire)
            BY <2>10, <5>2 DEF WriteSome
          <6>2. wire[Len(wire) - n[g] + i] = <<pkt[g], i>>
            BY <2>10, <6>1 DEF WriteSome
          <6>3. /\ Len(wire') - (n[g] + 1) + i = Len(wire) - n[g] + i
                /\ Len(wire) - n[g] + i \in 1..Len(wire)
            <7> HIDE DEF TypeOK, Writers, Writer
            <7>1. n[g] \in Nat
              BY DEF TypeOK
            <7>2. Len(wire') = Len(wire) + 1
              BY <4>2
            <7>3. /\ (Len(wire) + 1) - (n[g] + 1) + i = Len(wire) - n[g] + i
                  /\ Len(wire) - n[g] + i \in 1..Len(wire)
              BY ONLY <4>1, <6>1, <7>1, SamePlace
            <7>4. QED
              BY ONLY <7>2, <7>3
          <6>4. wire'[Len(wire) - n[g] + i] = wire[Len(wire) - n[g] + i]
            BY <4>2, <6>3
          <6>5. QED
            BY <6>2, <6>3, <6>4
        <5>3. QED
          BY <5>1, <5>2
      <4>6. QED
        BY <2>10, <3>2, <4>3, <4>4, <4>5 DEF WriteSome
    <3>3. QED
      BY <3>1, <3>2
  <2>11. ASSUME NEW g \in Threads, WriteDone(g)
        PROVE  Writer(h)'
    BY <2>11 DEF WriteDone
  <2>12. ASSUME NEW g \in Threads, WriteFail(g)
        PROVE  Writer(h)'
    BY <2>12 DEF WriteFail
  <2>13. ASSUME NEW g \in Threads, WritePanic(g)
        PROVE  Writer(h)'
    BY <2>13 DEF WritePanic
  <2>14. ASSUME NEW g \in Threads, NEW v \in Durations, SetTimeOut(g, v)
        PROVE  Writer(h)'
    BY <2>14 DEF SetTimeOut
  <2>15. ASSUME NEW g \in Threads, SetRead(g)
        PROVE  Writer(h)'
    BY <2>15 DEF SetRead
  <2>16. ASSUME NEW g \in Threads, SetWrite(g)
        PROVE  Writer(h)'
    BY <2>16 DEF SetWrite
  <2>17. ASSUME NEW g \in Threads, CloseCall(g)
        PROVE  Writer(h)'
    BY <2>17 DEF CloseCall
  <2>18. ASSUME NEW g \in Threads, CloseOnce(g)
        PROVE  Writer(h)'
    BY <2>18 DEF CloseOnce
  <2>19. ASSUME NEW g \in Threads, CloseAgain(g)
        PROVE  Writer(h)'
    BY <2>19 DEF CloseAgain
  <2>20. ASSUME NEW g \in Threads, CloseFlag(g)
        PROVE  Writer(h)'
    BY <2>20 DEF CloseFlag
  <2>21. ASSUME NEW g \in Threads, CloseConn(g)
        PROVE  Writer(h)'
    BY <2>21 DEF CloseConn
  <2>22. CASE PeerShake
    BY <2>22 DEF PeerShake
  <2>23. CASE UNCHANGED vars
    BY <2>23 DEF vars
  <2>24. QED
    BY <2>1, <2>2, <2>3, <2>4, <2>5, <2>6, <2>7, <2>8, <2>9, <2>10, <2>11,
       <2>12, <2>13, <2>14, <2>15, <2>16, <2>17, <2>18, <2>19, <2>20, <2>21,
       <2>22, <2>23 DEF Next
<1>3. QED
  BY <1>1, <1>2, TypeCorrect, PTL DEF Spec

(* Only two steps concern the peer: a byte is written, a Send returns nil. *)
LEMMA OnlyWrites ==
  ASSUME [Next]_vars
  PROVE  \/ \E g \in Threads : WriteSome(g) \/ WriteDone(g)
         \/ UNCHANGED <<wire, acked>>
<1> USE DEF conn, sends
<1>1. ASSUME NEW g \in Threads, RecvCall(g)
      PROVE  UNCHANGED <<wire, acked>>
  BY <1>1 DEF RecvCall
<1>2. ASSUME NEW g \in Threads, RecvArm(g)
      PROVE  UNCHANGED <<wire, acked>>
  BY <1>2 DEF RecvArm
<1>3. ASSUME NEW g \in Threads, RecvData(g)
      PROVE  UNCHANGED <<wire, acked>>
  BY <1>3 DEF RecvData
<1>4. ASSUME NEW g \in Threads, RecvFail(g)
      PROVE  UNCHANGED <<wire, acked>>
  BY <1>4 DEF RecvFail
<1>5. ASSUME NEW g \in Threads, NEW p \in Packets, SendCall(g, p)
      PROVE  UNCHANGED <<wire, acked>>
  BY <1>5 DEF SendCall
<1>6. ASSUME NEW g \in Threads, SendLock(g)
      PROVE  UNCHANGED <<wire, acked>>
  BY <1>6 DEF SendLock
<1>7. ASSUME NEW g \in Threads, ShakeDone(g)
      PROVE  UNCHANGED <<wire, acked>>
  BY <1>7 DEF ShakeDone
<1>8. ASSUME NEW g \in Threads, ShakeFail(g)
      PROVE  UNCHANGED <<wire, acked>>
  BY <1>8 DEF ShakeFail
<1>9. ASSUME NEW g \in Threads, SendArm(g)
      PROVE  UNCHANGED <<wire, acked>>
  BY <1>9 DEF SendArm
<1>10. ASSUME NEW g \in Threads, WriteFail(g)
      PROVE  UNCHANGED <<wire, acked>>
  BY <1>10 DEF WriteFail
<1>11. ASSUME NEW g \in Threads, WritePanic(g)
      PROVE  UNCHANGED <<wire, acked>>
  BY <1>11 DEF WritePanic
<1>12. ASSUME NEW g \in Threads, NEW v \in Durations, SetTimeOut(g, v)
      PROVE  UNCHANGED <<wire, acked>>
  BY <1>12 DEF SetTimeOut
<1>13. ASSUME NEW g \in Threads, SetRead(g)
      PROVE  UNCHANGED <<wire, acked>>
  BY <1>13 DEF SetRead
<1>14. ASSUME NEW g \in Threads, SetWrite(g)
      PROVE  UNCHANGED <<wire, acked>>
  BY <1>14 DEF SetWrite
<1>15. ASSUME NEW g \in Threads, CloseCall(g)
      PROVE  UNCHANGED <<wire, acked>>
  BY <1>15 DEF CloseCall
<1>16. ASSUME NEW g \in Threads, CloseOnce(g)
      PROVE  UNCHANGED <<wire, acked>>
  BY <1>16 DEF CloseOnce
<1>17. ASSUME NEW g \in Threads, CloseAgain(g)
      PROVE  UNCHANGED <<wire, acked>>
  BY <1>17 DEF CloseAgain
<1>18. ASSUME NEW g \in Threads, CloseFlag(g)
      PROVE  UNCHANGED <<wire, acked>>
  BY <1>18 DEF CloseFlag
<1>19. ASSUME NEW g \in Threads, CloseConn(g)
      PROVE  UNCHANGED <<wire, acked>>
  BY <1>19 DEF CloseConn
<1>20. ASSUME PeerShake PROVE UNCHANGED <<wire, acked>>
  BY <1>20 DEF PeerShake
<1>21. ASSUME UNCHANGED vars PROVE UNCHANGED <<wire, acked>>
  BY <1>21 DEF vars
<1>22. QED
    BY <1>1, <1>2, <1>3, <1>4, <1>5, <1>6, <1>7, <1>8, <1>9, <1>10, <1>11,
       <1>12, <1>13, <1>14, <1>15, <1>16, <1>17, <1>18, <1>19, <1>20,
       <1>21 DEF Next

(* A Send that returned nil put its whole packet on the wire in one piece, *)
(* and no later step, of whatever goroutine, takes it apart.               *)
THEOREM AckedPacketsWhole == Spec => []AckedWhole
<1>1. Init => AckedWhole
  BY DEF Init, AckedWhole
<1>2. TypeOK /\ Writers /\ AckedWhole /\ [Next]_vars => AckedWhole'
  <2> SUFFICES ASSUME TypeOK, Writers, AckedWhole, [Next]_vars
               PROVE  AckedWhole'
    OBVIOUS
  <2>1. CASE UNCHANGED <<wire, acked>>
    BY <2>1 DEF AckedWhole
  <2>2. ASSUME NEW g \in Threads, WriteSome(g) PROVE AckedWhole'
    <3> DEFINE b == <<pkt[g], n[g] + 1>>
    <3>1. b \in Packets \X Nat /\ wire \in Seq(Packets \X Nat)
      BY DEF TypeOK
    <3>2. acked' = acked /\ wire' = Append(wire, b)
      BY <2>2 DEF WriteSome, sends
    <3> HIDE DEF b
    <3>3. /\ Len(wire') = Len(wire) + 1 /\ Len(wire) \in Nat
          /\ \A j \in 1..Len(wire) : wire'[j] = wire[j]
      BY <3>1, <3>2
    <3>4. ASSUME NEW p \in acked'
          PROVE  \E k \in 0..Len(wire') :
                   /\ k + Size[p] <= Len(wire')
                   /\ \A i \in 1..Size[p] : wire'[k + i] = <<p, i>>
      <4>1. PICK k \in 0..Len(wire) :
                   /\ k + Size[p] <= Len(wire)
                   /\ \A i \in 1..Size[p] : wire[k + i] = <<p, i>>
        BY <3>2 DEF AckedWhole
      <4>2. Size[p] \in Nat
        BY <3>2, ConstantsType DEF TypeOK
      <4>3. \A i \in 1..Size[p] : k + i \in 1..Len(wire)
        BY <3>3, <4>1, <4>2
      <4>4. \A i \in 1..Size[p] : wire'[k + i] = <<p, i>>
        BY <3>3, <4>1, <4>3
      <4>5. k \in 0..Len(wire') /\ k + Size[p] <= Len(wire')
        BY <3>3, <4>1, <4>2
      <4>6. QED
        BY <4>4, <4>5
    <3>5. QED
      BY <3>4 DEF AckedWhole
  <2>3. ASSUME NEW g \in Threads, WriteDone(g) PROVE AckedWhole'
    <3>1. wire' = wire /\ acked' = acked \cup {pkt[g]} /\ n[g] = Size[pkt[g]]
      BY <2>3 DEF WriteDone, conn
    <3>2. Len(wire) \in Nat /\ n[g] \in Nat
      BY DEF TypeOK
    <3>3. /\ n[g] <= Len(wire)
          /\ \A i \in 1..n[g] : wire[Len(wire) - n[g] + i] = <<pkt[g], i>>
      BY <2>3 DEF WriteDone, Writers, Writer
    <3>4. /\ Len(wire) - n[g] \in 0..Len(wire)
          /\ (Len(wire) - n[g]) + n[g] <= Len(wire)
      BY <3>2, <3>3
    <3>5. QED
      BY <3>1, <3>3, <3>4 DEF AckedWhole
  <2>4. QED
    BY <2>1, <2>2, <2>3, OnlyWrites
<1>3. QED
  BY <1>1, <1>2, TypeCorrect, WritersInvariant, PTL DEF Spec

(* Unless the connection is closed, a cut packet at the end of the wire is *)
(* the lock holder's: it writes on, or it is closing the connection.       *)
LEMMA CutInvariant ==
  ASSUME ~MarshalerPanics PROVE Spec => []CutIsOwned
<1>1. Init => CutIsOwned
  BY DEF Init, CutIsOwned, LastByte, PW!AtBoundary
<1>2. TypeOK /\ Writers /\ CutIsOwned /\ [Next]_vars => CutIsOwned'
  <2> SUFFICES ASSUME TypeOK, Writers, CutIsOwned, [Next]_vars
               PROVE  CutIsOwned'
    OBVIOUS
  <2> USE ConstantsType DEF TypeOK, Labels, Writers, Writer, CutIsOwned, Cut,
          LastByte, PW!AtBoundary, Goto, Return, conn, sends
  <2>1. ASSUME NEW g \in Threads, RecvCall(g) PROVE CutIsOwned'
    BY <2>1 DEF RecvCall
  <2>2. ASSUME NEW g \in Threads, RecvArm(g) PROVE CutIsOwned'
    BY <2>2 DEF RecvArm
  <2>3. ASSUME NEW g \in Threads, RecvData(g) PROVE CutIsOwned'
    BY <2>3 DEF RecvData
  <2>4. ASSUME NEW g \in Threads, RecvFail(g) PROVE CutIsOwned'
    BY <2>4 DEF RecvFail
  <2>5. ASSUME NEW g \in Threads, NEW p \in Packets, SendCall(g, p)
         PROVE CutIsOwned'
    BY <2>5 DEF SendCall
  <2>6. ASSUME NEW g \in Threads, SendLock(g) PROVE CutIsOwned'
    BY <2>6 DEF SendLock
  <2>7. ASSUME NEW g \in Threads, ShakeDone(g) PROVE CutIsOwned'
    BY <2>7 DEF ShakeDone
  <2>8. ASSUME NEW g \in Threads, ShakeFail(g) PROVE CutIsOwned'
    BY <2>8 DEF ShakeFail
  <2>9. ASSUME NEW g \in Threads, SendArm(g) PROVE CutIsOwned'
    BY <2>9 DEF SendArm
  <2>10. ASSUME NEW g \in Threads, WriteSome(g) PROVE CutIsOwned'
    <3> DEFINE b == <<pkt[g], n[g] + 1>>
    <3>1. /\ b \in Packets \X Nat /\ wire \in Seq(Packets \X Nat)
          /\ wire' = Append(wire, b)
      BY <2>10 DEF WriteSome
    <3> HIDE DEF b
    <3>2. Len(wire') = Len(wire) + 1 /\ wire'[Len(wire')] = b /\ wire' # <<>>
      BY ONLY <3>1
    <3>3. wmu' = g /\ pc'[g] = "write" /\ n'[g] = n[g] + 1 /\ pkt' = pkt
      BY <2>10 DEF WriteSome
    <3>4. Cut(g)'
      <4>1. 0 < n'[g]
        BY <3>3
      <4>2. b = <<pkt'[g], n'[g]>>
        BY <3>3 DEF b
      <4>3. QED
        BY <3>2, <3>3, <4>1, <4>2
    <3>5. once' = once /\ open' = open
      BY <2>10 DEF WriteSome
    <3>6. QED
      BY <3>3, <3>4, <3>5
  <2>11. ASSUME NEW g \in Threads, WriteDone(g) PROVE CutIsOwned'
    BY <2>11 DEF WriteDone
  <2>12. ASSUME NEW g \in Threads, WriteFail(g) PROVE CutIsOwned'
    BY <2>12 DEF WriteFail
  <2>13. ASSUME NEW g \in Threads, NEW v \in Durations, SetTimeOut(g, v)
         PROVE CutIsOwned'
    BY <2>13 DEF SetTimeOut
  <2>14. ASSUME NEW g \in Threads, SetRead(g) PROVE CutIsOwned'
    BY <2>14 DEF SetRead
  <2>15. ASSUME NEW g \in Threads, SetWrite(g) PROVE CutIsOwned'
    BY <2>15 DEF SetWrite
  <2>16. ASSUME NEW g \in Threads, CloseCall(g) PROVE CutIsOwned'
    BY <2>16 DEF CloseCall
  <2>17. ASSUME NEW g \in Threads, CloseOnce(g) PROVE CutIsOwned'
    BY <2>17 DEF CloseOnce
  <2>18. ASSUME NEW g \in Threads, CloseAgain(g) PROVE CutIsOwned'
    BY <2>18 DEF CloseAgain
  <2>19. ASSUME NEW g \in Threads, CloseFlag(g) PROVE CutIsOwned'
    BY <2>19 DEF CloseFlag
  <2>20. ASSUME NEW g \in Threads, CloseConn(g) PROVE CutIsOwned'
    BY <2>20 DEF CloseConn
  <2>21. ASSUME NEW g \in Threads, WritePanic(g) PROVE CutIsOwned'
    BY <2>21 DEF WritePanic
  <2>22. CASE PeerShake
    BY <2>22 DEF PeerShake
  <2>23. CASE UNCHANGED vars
    BY <2>23 DEF vars
  <2>24. QED
    BY <2>1, <2>2, <2>3, <2>4, <2>5, <2>6, <2>7, <2>8, <2>9, <2>10, <2>11,
       <2>12, <2>13, <2>14, <2>15, <2>16, <2>17, <2>18, <2>19, <2>20, <2>21,
       <2>22, <2>23 DEF Next
<1>3. QED
  BY <1>1, <1>2, TypeCorrect, WritersInvariant, PTL DEF Spec

(* The invariant the runs check, for every instance.                       *)
THEOREM OwnershipInvariant ==
  ASSUME ~MarshalerPanics PROVE Spec => []WriteOwnership
BY WritersInvariant, CutInvariant, PTL DEF WriteOwnership

(* tcpSocket keeps Send's promise: TcpSocket implements PacketWire.  Every *)
(* byte written starts a packet at a packet boundary or continues the      *)
(* packet the wire stops in; all other steps leave the wire alone.         *)
THEOREM TcpKeepsFraming ==
  ASSUME ~MarshalerPanics PROVE Spec => Framing
<1>1. Init => PW!Init
  BY DEF Init, LastByte, PW!Init
<1>2. TypeOK /\ Writers /\ CutIsOwned /\ [Next]_vars => [PW!Next]_LastByte
  <2> SUFFICES ASSUME TypeOK, Writers, CutIsOwned, [Next]_vars
               PROVE  PW!Next \/ UNCHANGED wire
    BY DEF LastByte
  <2>1. ASSUME NEW g \in Threads, WriteSome(g) PROVE PW!Next
    <3>1. /\ pkt[g] \in Packets /\ n[g] + 1 \in 1..Size[pkt[g]]
          /\ wire' = Append(wire, <<pkt[g], n[g] + 1>>)
      BY <2>1, ConstantsType DEF WriteSome, TypeOK
    <3>2. wmu = g /\ wmu # None /\ open
      BY <2>1, ConstantsType DEF WriteSome, Writers, Writer
    <3>3. PW!MayFollow(LastByte, pkt[g], n[g] + 1)
      <4>1. CASE n[g] = 0
        BY <3>2, <4>1 DEF CutIsOwned, Cut, PW!MayFollow
      <4>2. CASE n[g] # 0
        <5>1. n[g] \in 1..n[g] /\ n[g] <= Len(wire) /\ Len(wire) \in Nat
              /\ n[g] \in Nat
          BY <2>1, <4>2 DEF WriteSome, Writers, Writer, TypeOK
        <5>2. wire[Len(wire) - n[g] + n[g]] = <<pkt[g], n[g]>>
          BY <2>1, <5>1 DEF WriteSome, Writers, Writer
        <5>3. LastByte = <<pkt[g], n[g]>>
          BY <5>1, <5>2 DEF LastByte
        <5>4. n[g] # Size[pkt[g]]
          BY <3>1, <5>1, ConstantsType
        <5>5. ~PW!AtBoundary(LastByte)
          BY <5>3, <5>4 DEF PW!AtBoundary
        <5>6. (n[g] + 1) - 1 = n[g]
          BY <5>1
        <5>7. QED
          BY <5>3, <5>5, <5>6 DEF PW!MayFollow
      <4>3. QED
        BY <4>1, <4>2
    <3>4. LastByte' = <<pkt[g], n[g] + 1>>
      <4>1. /\ wire \in Seq(Packets \X Nat)
            /\ <<pkt[g], n[g] + 1>> \in Packets \X Nat
        BY <2>1 DEF WriteSome, TypeOK
      <4>2. wire' # <<>> /\ wire'[Len(wire')] = <<pkt[g], n[g] + 1>>
        BY ONLY <3>1, <4>1
      <4>3. QED
        BY <4>2 DEF LastByte
    <3>5. QED
      BY <3>1, <3>3, <3>4 DEF PW!Next, PW!Put
  <2>2. ASSUME NEW g \in Threads, WriteDone(g) PROVE UNCHANGED wire
    BY <2>2 DEF WriteDone, conn
  <2>3. QED
    BY <2>1, <2>2, OnlyWrites
<1>3. QED
  BY <1>1, <1>2, TypeCorrect, WritersInvariant, CutInvariant, PTL
     DEF Spec, Framing, PW!Spec
=============================================================================
