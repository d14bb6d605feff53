-------------------------- MODULE Establish_proofs --------------------------
(***************************************************************************)
(* Proofs about Establish for every set of clients, every set of           *)
(* transports, and all bounds.                                             *)
(***************************************************************************)
EXTENDS Establish, TLAPS

(* Type correctness; in particular the back-off never exceeds its cap.     *)
THEOREM TypeCorrect == Spec => []TypeOK
<1>1. Init => TypeOK
  <2> SUFFICES ASSUME Init PROVE TypeOK
    OBVIOUS
  <2>1. flight \in [Conns -> [Dirs -> Seq(Nat)]]
    BY DEF Init
  <2>2. extra \in [Conns -> [Dirs -> Seq(Nat)]]
    BY DEF Init
  <2>3. sent \in [Conns -> [Dirs -> Nat]]
    BY DEF Init
  <2>4. tempDelay \in 0..MaxDelay /\ errors \in 0..MaxErrors
    BY ConstantsType DEF Init
  <2>5. QED
    BY <2>1, <2>2, <2>3, <2>4 DEF Init, TypeOK
<1>2. TypeOK /\ [Next]_vars => TypeOK'
  <2> SUFFICES ASSUME TypeOK, [Next]_vars PROVE TypeOK'
    OBVIOUS
  <2> USE ConstantsType DEF TypeOK, listener, bytes
  <2>1. CASE Listen
    BY <2>1 DEF Listen
  <2>2. CASE ListenRefused
    BY <2>2 DEF ListenRefused
  <2>3. CASE AcceptCall
    BY <2>3 DEF AcceptCall
  <2>4. CASE ListenerClose
    BY <2>4 DEF ListenerClose
  <2>5. CASE Serve
    BY <2>5 DEF Serve
  <2>6. CASE Wake
    BY <2>6 DEF Wake
  <2>7. CASE AcceptReturns
    BY <2>7 DEF AcceptReturns
  <2>8. ASSUME NEW c \in Conns, AcceptConn(c) PROVE TypeOK'
    BY <2>8 DEF AcceptConn
  <2>9. CASE AcceptTemporary
    <3>1. tempDelay' \in 0..MaxDelay
      BY <2>9 DEF AcceptTemporary, NextDelay, Smaller
    <3>2. errors' \in 0..MaxErrors
      BY <2>9 DEF AcceptTemporary
    <3>3. QED
      BY <2>9, <3>1, <3>2 DEF AcceptTemporary
  <2>10. CASE AcceptPermanent
    BY <2>10 DEF AcceptPermanent
  <2>11. ASSUME NEW c \in Conns, NEW k \in 0..Len(flight[c]["up"]),
                Upgrade(c, k)
       PROVE  TypeOK'
    <3>1. /\ flight[c] \in [Dirs -> Seq(Nat)] /\ "up" \in Dirs
          /\ k \in 0..Len(flight[c]["up"])
      BY DEF Dirs
    <3>2. /\ SubSeq(flight[c]["up"], 1, k) \in Seq(Nat)
          /\ SubSeq(flight[c]["up"], k + 1, Len(flight[c]["up"])) \in Seq(Nat)
      BY SMTT(60), <3>1
    <3>3. flight' \in [Conns -> [Dirs -> Seq(Nat)]]
      BY <2>11, <3>1, <3>2 DEF Upgrade, TakeBuffered
    <3>4. extra' \in [Conns -> [Dirs -> Seq(Nat)]]
      BY <2>11, <3>1, <3>2 DEF Upgrade, TakeBuffered
    <3>5. QED
      BY <2>11, <3>3, <3>4 DEF Upgrade
  <2>12. ASSUME NEW c \in Conns, UpgradeFails(c) PROVE TypeOK'
    BY <2>12 DEF UpgradeFails
  <2>13. ASSUME NEW c \in Conns, HttpError(c) PROVE TypeOK'
    BY <2>13 DEF HttpError
  <2>14. ASSUME NEW c \in Conns, HttpExpires(c) PROVE TypeOK'
    BY <2>14 DEF HttpExpires
  <2>15. ASSUME NEW c \in Conns, HttpBody(c) PROVE TypeOK'
    BY <2>15 DEF HttpBody
  <2>16. ASSUME NEW c \in Conns, AcceptStream(c) PROVE TypeOK'
    BY <2>16 DEF AcceptStream
  <2>17. ASSUME NEW c \in Conns, AcceptStreamFails(c) PROVE TypeOK'
    BY <2>17 DEF AcceptStreamFails
  <2>18. ASSUME NEW c \in Conns, HandlerEnds(c) PROVE TypeOK'
    BY ZenonT(60), <2>18 DEF HandlerEnds
  <2>19. ASSUME NEW c \in Conns, DialCall(c) PROVE TypeOK'
    BY ZenonT(60), <2>19 DEF DialCall
  <2>20. ASSUME NEW c \in Conns, Connected(c) PROVE TypeOK'
    BY <2>20 DEF Connected
  <2>21. ASSUME NEW c \in Conns, DialFails(c) PROVE TypeOK'
    BY <2>21 DEF DialFails
  <2>22. ASSUME NEW c \in Conns, ClientLeaves(c) PROVE TypeOK'
    BY <2>22 DEF ClientLeaves
  <2>23. ASSUME NEW c \in Conns, NEW k \in 0..Len(flight[c]["down"]),
                Opened(c, k)
       PROVE  TypeOK'
    <3>1. /\ flight[c] \in [Dirs -> Seq(Nat)] /\ "down" \in Dirs
          /\ k \in 0..Len(flight[c]["down"])
      BY DEF Dirs
    <3>2. /\ SubSeq(flight[c]["down"], 1, k) \in Seq(Nat)
          /\ SubSeq(flight[c]["down"], k + 1, Len(flight[c]["down"]))
               \in Seq(Nat)
      BY SMTT(60), <3>1
    <3>3. flight' \in [Conns -> [Dirs -> Seq(Nat)]]
      BY <2>23, <3>1, <3>2 DEF Opened, TakeBuffered
    <3>4. extra' \in [Conns -> [Dirs -> Seq(Nat)]]
      BY <2>23, <3>1, <3>2 DEF Opened, TakeBuffered
    <3>5. QED
      BY <2>23, <3>3, <3>4 DEF Opened
  <2>24. ASSUME NEW c \in Conns, NEW dir \in Dirs, SendByte(c, dir)
       PROVE  TypeOK'
    <3>1. Append(flight[c][dir], sent[c][dir] + 1) \in Seq(Nat)
      OBVIOUS
    <3>2. flight' \in [Conns -> [Dirs -> Seq(Nat)]]
      BY <2>24, <3>1 DEF SendByte
    <3>3. sent' \in [Conns -> [Dirs -> Nat]]
      BY <2>24 DEF SendByte
    <3>4. QED
      BY <2>24, <3>2, <3>3 DEF SendByte
  <2>25. CASE UNCHANGED vars
    BY <2>25 DEF vars
  <2>26. QED
    <3> HIDE DEF TypeOK, listener, bytes
    <3>1. QED
      BY <2>1, <2>2, <2>3, <2>4, <2>5, <2>6, <2>7, <2>8, <2>9, <2>10, <2>11,
         <2>12, <2>13, <2>14, <2>15, <2>16, <2>17, <2>18, <2>19, <2>20, <2>21,
         <2>22, <2>23, <2>24, <2>25 DEF Next, LoopStep
<1>3. QED
  BY <1>1, <1>2, PTL DEF Spec

(* A listener that was refused or closed holds no port.                    *)
THEOREM PortIsReleased == Spec => []PortReleased
<1>1. Init => PortReleased
  BY DEF Init, PortReleased
<1>2. PortReleased /\ [Next]_vars => PortReleased'
  <2> SUFFICES ASSUME PortReleased, [Next]_vars PROVE PortReleased'
    OBVIOUS
  <2> USE DEF PortReleased, listener
  <2>1. CASE Listen
    BY <2>1 DEF Listen
  <2>2. CASE ListenRefused
    BY <2>2 DEF ListenRefused
  <2>3. CASE AcceptCall
    BY <2>3 DEF AcceptCall
  <2>4. CASE ListenerClose
    BY <2>4 DEF ListenerClose
  <2>5. CASE Serve
    BY <2>5 DEF Serve
  <2>6. CASE Wake
    BY <2>6 DEF Wake
  <2>7. CASE AcceptReturns
    BY <2>7 DEF AcceptReturns
  <2>8. ASSUME NEW c \in Conns, AcceptConn(c) PROVE PortReleased'
    BY <2>8 DEF AcceptConn
  <2>9. CASE AcceptTemporary
    BY <2>9 DEF AcceptTemporary
  <2>10. CASE AcceptPermanent
    BY <2>10 DEF AcceptPermanent
  <2>11. ASSUME NEW c \in Conns, NEW k \in 0..Len(flight[c]["up"]),
                Upgrade(c, k)
       PROVE  PortReleased'
    BY <2>11 DEF Upgrade
  <2>12. ASSUME NEW c \in Conns, UpgradeFails(c) PROVE PortReleased'
    BY <2>12 DEF UpgradeFails
  <2>13. ASSUME NEW c \in Conns, HttpError(c) PROVE PortReleased'
    BY <2>13 DEF HttpError
  <2>14. ASSUME NEW c \in Conns, HttpExpires(c) PROVE PortReleased'
    BY <2>14 DEF HttpExpires
  <2>15. ASSUME NEW c \in Conns, HttpBody(c) PROVE PortReleased'
    BY <2>15 DEF HttpBody
  <2>16. ASSUME NEW c \in Conns, AcceptStream(c) PROVE PortReleased'
    BY <2>16 DEF AcceptStream
  <2>17. ASSUME NEW c \in Conns, AcceptStreamFails(c) PROVE PortReleased'
    BY <2>17 DEF AcceptStreamFails
  <2>18. ASSUME NEW c \in Conns, HandlerEnds(c) PROVE PortReleased'
    BY <2>18 DEF HandlerEnds
  <2>19. ASSUME NEW c \in Conns, DialCall(c) PROVE PortReleased'
    BY <2>19 DEF DialCall
  <2>20. ASSUME NEW c \in Conns, Connected(c) PROVE PortReleased'
    BY <2>20 DEF Connected
  <2>21. ASSUME NEW c \in Conns, DialFails(c) PROVE PortReleased'
    BY <2>21 DEF DialFails
  <2>22. ASSUME NEW c \in Conns, ClientLeaves(c) PROVE PortReleased'
    BY <2>22 DEF ClientLeaves
  <2>23. ASSUME NEW c \in Conns, NEW k \in 0..Len(flight[c]["down"]),
                Opened(c, k)
       PROVE  PortReleased'
    BY <2>23 DEF Opened
  <2>24. ASSUME NEW c \in Conns, NEW dir \in Dirs, SendByte(c, dir)
       PROVE  PortReleased'
    BY <2>24 DEF SendByte
  <2>25. CASE UNCHANGED vars
    BY <2>25 DEF vars
  <2>26. QED
    <3> HIDE DEF PortReleased, listener
    <3>1. QED
      BY <2>1, <2>2, <2>3, <2>4, <2>5, <2>6, <2>7, <2>8, <2>9, <2>10, <2>11,
         <2>12, <2>13, <2>14, <2>15, <2>16, <2>17, <2>18, <2>19, <2>20, <2>21,
         <2>22, <2>23, <2>24, <2>25 DEF Next, LoopStep
<1>3. QED
  BY <1>1, <1>2, PTL DEF Spec

-----------------------------------------------------------------------------
(* The bytes x followed by the bytes f are the first m ones, in order.     *)
Numbered(x, f, m) ==
  /\ Len(x) + Len(f) = m
  /\ \A i \in 1..Len(x) : x[i] = i
  /\ \A i \in 1..Len(f) : f[i] = Len(x) + i

(* A piece of what is on its way becomes the socket's.                     *)
LEMMA NumberedSplit ==
  ASSUME NEW f \in Seq(Nat), NEW m \in Nat, NEW k \in 0..Len(f),
         Numbered(<<>>, f, m)
  PROVE  Numbered(SubSeq(f, 1, k), SubSeq(f, k + 1, Len(f)), m)
<1> DEFINE x == SubSeq(f, 1, k)
           y == SubSeq(f, k + 1, Len(f))
<1>1. Len(f) \in Nat /\ Len(f) = m /\ \A i \in 1..Len(f) : f[i] = i
  BY DEF Numbered
<1>2. Len(x) = k /\ \A i \in 1..k : x[i] = f[i]
  BY <1>1
<1>3. Len(y) = Len(f) - k /\ \A i \in 1..(Len(f) - k) : y[i] = f[k + i]
  BY <1>1
<1> HIDE DEF x, y
<1>4. Numbered(x, y, m)
  BY <1>1, <1>2, <1>3 DEF Numbered
<1>5. QED
  BY <1>4 DEF x, y

(* One more byte is sent.                                                  *)
LEMMA NumberedAppend ==
  ASSUME NEW x \in Seq(Nat), NEW f \in Seq(Nat), NEW m \in Nat,
         Numbered(x, f, m)
  PROVE  Numbered(x, Append(f, m + 1), m + 1)
<1> DEFINE y == Append(f, m + 1)
<1>1. Len(f) \in Nat /\ Len(x) \in Nat /\ Len(x) + Len(f) = m
      /\ \A i \in 1..Len(f) : f[i] = Len(x) + i
  BY DEF Numbered
<1>2. /\ Len(y) = Len(f) + 1 /\ y[Len(f) + 1] = m + 1
      /\ \A i \in 1..Len(f) : y[i] = f[i]
  BY <1>1
<1> HIDE DEF y
<1>3. \A i \in 1..Len(y) : y[i] = Len(x) + i
  <2>1. ASSUME NEW i \in 1..Len(y) PROVE y[i] = Len(x) + i
    <3>1. CASE i = Len(f) + 1
      BY <1>1, <1>2, <3>1
    <3>2. CASE i \in 1..Len(f)
      BY <1>1, <1>2, <3>2
    <3>3. QED
      BY <1>1, <1>2, <3>1, <3>2
  <2>2. QED
    BY <2>1
<1>4. Numbered(x, y, m + 1)
  BY <1>1, <1>2, <1>3 DEF Numbered
<1>5. QED
  BY <1>4 DEF y

(* Numbered bytes are the ones FirstBytesKept asks for.                    *)
LEMMA NumberedIsAll ==
  ASSUME NEW x \in Seq(Nat), NEW f \in Seq(Nat), NEW m \in Nat,
         Numbered(x, f, m)
  PROVE  x \o f = [i \in 1..m |-> i]
<1> DEFINE s == x \o f
           t == [i \in 1..m |-> i]
<1>1. /\ Len(x) \in Nat /\ Len(f) \in Nat /\ s \in Seq(Nat)
      /\ Len(s) = Len(x) + Len(f)
      /\ \A i \in 1..Len(s) :
           s[i] = IF i <= Len(x) THEN x[i] ELSE f[i - Len(x)]
  OBVIOUS
<1>2. Len(s) = m
  BY <1>1 DEF Numbered
<1>3. \A i \in 1..m : s[i] = i
  <2>1. ASSUME NEW i \in 1..m PROVE s[i] = i
    <3> HIDE DEF s
    <3>1. CASE i <= Len(x)
      <4>1. i \in 1..Len(x)
        BY <3>1
      <4>2. x[i] = i
        BY <4>1 DEF Numbered
      <4>3. QED
        BY <1>1, <1>2, <3>1, <4>2
    <3>2. CASE ~(i <= Len(x))
      <4>1. i - Len(x) \in 1..Len(f) /\ Len(x) + (i - Len(x)) = i
        BY <1>1, <1>2, <3>2
      <4>2. f[i - Len(x)] = Len(x) + (i - Len(x))
        BY <4>1 DEF Numbered
      <4>3. QED
        BY <1>1, <1>2, <3>2, <4>1, <4>2
    <3>3. QED
      BY <3>1, <3>2
  <2>2. QED
    BY <2>1
<1>4. t \in Seq(Nat) /\ Len(t) = m /\ \A i \in 1..m : t[i] = i
  OBVIOUS
<1> HIDE DEF s, t
<1>5. s = t
  BY <1>1, <1>2, <1>3, <1>4
<1>6. QED
  BY <1>5 DEF s, t

(* No byte is lost or reordered at any time, and the handshake's reader is *)
(* handed over once: until then nothing counts as handed over.             *)
AllNumbered ==
  \A c \in Conns, dir \in Dirs :
    Numbered(extra[c][dir], flight[c][dir], sent[c][dir])

Fresh ==
  \A c \in Conns :
    /\ dial[c] \in {"none", "connecting"} => srv[c] = "none"
    /\ srv[c] \in {"none", "backlog", "setup"} => extra[c]["up"] = <<>>
    /\ dial[c] \in {"none", "connecting", "opening"}
         => extra[c]["down"] = <<>>

LEMMA BytesInvariant == Spec => [](AllNumbered /\ Fresh)
<1>1. Init => AllNumbered /\ Fresh
  BY DEF Init, AllNumbered, Fresh, Numbered, Dirs
<1>2. TypeOK /\ AllNumbered /\ Fresh /\ [Next]_vars => (AllNumbered /\ Fresh)'
  <2> SUFFICES ASSUME TypeOK, AllNumbered, Fresh, [Next]_vars
               PROVE  (AllNumbered /\ Fresh)'
    OBVIOUS
  <2> USE ConstantsType DEF TypeOK, AllNumbered, Fresh, listener, bytes
  <2>1. CASE Listen
    BY <2>1 DEF Listen
  <2>2. CASE ListenRefused
    BY <2>2 DEF ListenRefused
  <2>3. CASE AcceptCall
    BY <2>3 DEF AcceptCall
  <2>4. CASE ListenerClose
    <3>1. UNCHANGED <<dial, sent, flight, extra>>
      BY <2>4 DEF ListenerClose
    <3>2. \A c \in Conns : srv'[c] = IF Dropped(c) THEN "closed" ELSE srv[c]
      BY <2>4 DEF ListenerClose
    <3>3. \A c \in Conns : Dropped(c) => srv[c] # "none"
      BY DEF Dropped
    <3>4. QED
      BY <3>1, <3>2, <3>3
  <2>5. CASE Serve
    BY <2>5 DEF Serve
  <2>6. CASE Wake
    BY <2>6 DEF Wake
  <2>7. CASE AcceptReturns
    BY <2>7 DEF AcceptReturns
  <2>8. ASSUME NEW c \in Conns, AcceptConn(c) PROVE (AllNumbered /\ Fresh)'
    BY <2>8 DEF AcceptConn
  <2>9. CASE AcceptTemporary
    BY <2>9 DEF AcceptTemporary
  <2>10. CASE AcceptPermanent
    BY <2>10 DEF AcceptPermanent
  <2>11. ASSUME NEW c \in Conns, NEW k \in 0..Len(flight[c]["up"]),
                Upgrade(c, k)
       PROVE  (AllNumbered /\ Fresh)'
    <3>1. \A e \in Conns, s \in Dirs :
            ~(e = c /\ s = "up") =>
              extra'[e][s] = extra[e][s] /\ flight'[e][s] = flight[e][s]
      BY <2>11 DEF Upgrade, TakeBuffered
    <3>2. /\ flight[c]["up"] \in Seq(Nat) /\ extra[c]["up"] = <<>>
          /\ extra'[c]["up"] = SubSeq(flight[c]["up"], 1, k)
          /\ flight'[c]["up"] =
               SubSeq(flight[c]["up"], k + 1, Len(flight[c]["up"]))
      BY <2>11 DEF Upgrade, TakeBuffered, Dirs
    <3>3. sent' = sent /\ sent[c]["up"] \in Nat
          /\ k \in 0..Len(flight[c]["up"])
      BY <2>11 DEF Upgrade, Dirs
    <3>4. Numbered(extra'[c]["up"], flight'[c]["up"], sent[c]["up"])
      <4>1. Numbered(<<>>, flight[c]["up"], sent[c]["up"])
        BY <3>2 DEF Dirs
      <4>2. QED
        BY <3>2, <3>3, <4>1, NumberedSplit
    <3>5. ASSUME NEW e \in Conns, NEW s \in Dirs
          PROVE  Numbered(extra'[e][s], flight'[e][s], sent'[e][s])
      <4>1. CASE e = c /\ s = "up"
        BY <3>3, <3>4, <4>1
      <4>2. CASE ~(e = c /\ s = "up")
        BY <3>1, <3>3, <4>2
      <4>3. QED
        BY <4>1, <4>2
    <3>6. ASSUME NEW e \in Conns
          PROVE  /\ dial'[e] \in {"none", "connecting"} => srv'[e] = "none"
                 /\ srv'[e] \in {"none", "backlog", "setup"}
                      => extra'[e]["up"] = <<>>
                 /\ dial'[e] \in {"none", "connecting", "opening"}
                      => extra'[e]["down"] = <<>>
      <4>1. CASE e = c
        BY <2>11, <3>1, <4>1 DEF Upgrade, Dirs
      <4>2. CASE e # c
        BY <2>11, <3>1, <4>2 DEF Upgrade, Dirs
      <4>3. QED
        BY <4>1, <4>2
    <3>7. QED
      BY <3>5, <3>6
  <2>12. ASSUME NEW c \in Conns, UpgradeFails(c) PROVE (AllNumbered /\ Fresh)'
    BY <2>12 DEF UpgradeFails
  <2>13. ASSUME NEW c \in Conns, HttpError(c) PROVE (AllNumbered /\ Fresh)'
    BY <2>13 DEF HttpError
  <2>14. ASSUME NEW c \in Conns, HttpExpires(c) PROVE (AllNumbered /\ Fresh)'
    BY <2>14 DEF HttpExpires
  <2>15. ASSUME NEW c \in Conns, HttpBody(c) PROVE (AllNumbered /\ Fresh)'
    BY <2>15 DEF HttpBody
  <2>16. ASSUME NEW c \in Conns, AcceptStream(c) PROVE (AllNumbered /\ Fresh)'
    BY <2>16 DEF AcceptStream
  <2>17. ASSUME NEW c \in Conns, AcceptStreamFails(c)
       PROVE  (AllNumbered /\ Fresh)'
    BY <2>17 DEF AcceptStreamFails
  <2>18. ASSUME NEW c \in Conns, HandlerEnds(c) PROVE (AllNumbered /\ Fresh)'
    BY <2>18 DEF HandlerEnds
  <2>19. ASSUME NEW c \in Conns, DialCall(c) PROVE (AllNumbered /\ Fresh)'
    BY <2>19 DEF DialCall
  <2>20. ASSUME NEW c \in Conns, Connected(c) PROVE (AllNumbered /\ Fresh)'
    BY <2>20 DEF Connected
  <2>21. ASSUME NEW c \in Conns, DialFails(c) PROVE (AllNumbered /\ Fresh)'
    BY <2>21 DEF DialFails
  <2>22. ASSUME NEW c \in Conns, ClientLeaves(c) PROVE (AllNumbered /\ Fresh)'
    BY <2>22 DEF ClientLeaves
  <2>23. ASSUME NEW c \in Conns, NEW k \in 0..Len(flight[c]["down"]),
                Opened(c, k)
       PROVE  (AllNumbered /\ Fresh)'
    <3>1. \A e \in Conns, s \in Dirs :
            ~(e = c /\ s = "down") =>
              extra'[e][s] = extra[e][s] /\ flight'[e][s] = flight[e][s]
      BY <2>23 DEF Opened, TakeBuffered
    <3>2. /\ flight[c]["down"] \in Seq(Nat) /\ extra[c]["down"] = <<>>
          /\ extra'[c]["down"] = SubSeq(flight[c]["down"], 1, k)
          /\ flight'[c]["down"] =
               SubSeq(flight[c]["down"], k + 1, Len(flight[c]["down"]))
      BY SMTT(60), <2>23 DEF Opened, TakeBuffered, Dirs
    <3>3. sent' = sent /\ sent[c]["down"] \in Nat
          /\ k \in 0..Len(flight[c]["down"])
      BY <2>23 DEF Opened, Dirs
    <3>4. Numbered(extra'[c]["down"], flight'[c]["down"], sent[c]["down"])
      <4>1. Numbered(<<>>, flight[c]["down"], sent[c]["down"])
        BY <3>2 DEF Dirs
      <4>2. QED
        BY <3>2, <3>3, <4>1, NumberedSplit
    <3>5. ASSUME NEW e \in Conns, NEW s \in Dirs
          PROVE  Numbered(extra'[e][s], flight'[e][s], sent'[e][s])
      <4>1. CASE e = c /\ s = "down"
        BY <3>3, <3>4, <4>1
      <4>2. CASE ~(e = c /\ s = "down")
        BY <3>1, <3>3, <4>2
      <4>3. QED
        BY <4>1, <4>2
    <3>6. ASSUME NEW e \in Conns
          PROVE  /\ dial'[e] \in {"none", "connecting"} => srv'[e] = "none"
                 /\ srv'[e] \in {"none", "backlog", "setup"}
                      => extra'[e]["up"] = <<>>
                 /\ dial'[e] \in {"none", "connecting", "opening"}
                      => extra'[e]["down"] = <<>>
      <4>1. CASE e = c
        BY <2>23, <3>1, <4>1 DEF Opened, Dirs
      <4>2. CASE e # c
        BY <2>23, <3>1, <4>2 DEF Opened, Dirs
      <4>3. QED
        BY <4>1, <4>2
    <3>7. QED
      BY <3>5, <3>6
  <2>24. ASSUME NEW c \in Conns, NEW dir \in Dirs, SendByte(c, dir)
       PROVE  (AllNumbered /\ Fresh)'
    <3>1. Numbered(extra[c][dir], Append(flight[c][dir], sent[c][dir] + 1),
                   sent[c][dir] + 1)
      BY NumberedAppend
    <3>2. \A e \in Conns, s \in Dirs :
            ~(e = c /\ s = dir) =>
              flight'[e][s] = flight[e][s] /\ sent'[e][s] = sent[e][s]
      BY SMTT(60), <2>24 DEF SendByte
    <3>3. /\ flight'[c][dir] = Append(flight[c][dir], sent[c][dir] + 1)
          /\ sent'[c][dir] = sent[c][dir] + 1 /\ extra' = extra
      BY <2>24 DEF SendByte
    <3>4. ASSUME NEW e \in Conns, NEW s \in Dirs
          PROVE  Numbered(extra'[e][s], flight'[e][s], sent'[e][s])
      <4>1. CASE e = c /\ s = dir
        BY <3>1, <3>3, <4>1
      <4>2. CASE ~(e = c /\ s = dir)
        BY SMTT(60), <3>2, <3>3, <4>2
      <4>3. QED
        BY <4>1, <4>2
    <3>5. QED
      BY <2>24, <3>4 DEF SendByte
  <2>25. CASE UNCHANGED vars
    BY <2>25 DEF vars
  <2>26. QED
    <3> HIDE DEF TypeOK, AllNumbered, Fresh, listener, bytes
    <3>1. QED
      BY <2>1, <2>2, <2>3, <2>4, <2>5, <2>6, <2>7, <2>8, <2>9, <2>10, <2>11,
         <2>12, <2>13, <2>14, <2>15, <2>16, <2>17, <2>18, <2>19, <2>20, <2>21,
         <2>22, <2>23, <2>24, <2>25 DEF Next, LoopStep
<1>3. QED
  BY <1>1, <1>2, TypeCorrect, PTL DEF Spec

(* A socket reads what the peer sent, from the first byte and in order,    *)
(* however much of it arrived with the handshake.                          *)
THEOREM NoByteLost == Spec => []FirstBytesKept
<1>1. TypeOK /\ AllNumbered => FirstBytesKept
  <2> SUFFICES ASSUME TypeOK, AllNumbered, NEW c \in Conns, NEW dir \in Dirs
               PROVE  extra[c][dir] \o flight[c][dir]
                        = [i \in 1..sent[c][dir] |-> i]
    BY DEF FirstBytesKept
  <2>1. /\ extra[c][dir] \in Seq(Nat) /\ flight[c][dir] \in Seq(Nat)
        /\ sent[c][dir] \in Nat
    BY DEF TypeOK
  <2>2. QED
    BY <2>1, NumberedIsAll DEF AllNumbered
<1>2. QED
  BY <1>1, TypeCorrect, BytesInvariant, PTL

(* The back-off is a doubled first delay, up to the cap, and depends on    *)
(* the errors since the last connection only.  The provers know no law of  *)
(* exponentiation: the two of arithmetic that are needed are the           *)
(* hypothesis.                                                             *)
THEOREM BackoffExact ==
  ASSUME \A k \in Nat : 2^k \in Nat \ {0} /\ 2^(k + 1) = 2 * 2^k
  PROVE  Spec => []BackoffFollowsErrors
<1>1. Init => BackoffFollowsErrors
  BY DEF Init, BackoffFollowsErrors
<1>2. TypeOK /\ BackoffFollowsErrors /\ [Next]_vars => BackoffFollowsErrors'
  <2> SUFFICES ASSUME TypeOK, BackoffFollowsErrors, [Next]_vars
               PROVE  BackoffFollowsErrors'
    OBVIOUS
  <2> USE DEF BackoffFollowsErrors, listener
  <2>1. CASE Listen
    BY <2>1 DEF Listen
  <2>2. CASE ListenRefused
    BY <2>2 DEF ListenRefused
  <2>3. CASE AcceptCall
    BY <2>3 DEF AcceptCall
  <2>4. CASE ListenerClose
    BY <2>4 DEF ListenerClose
  <2>5. CASE Serve
    BY <2>5 DEF Serve
  <2>6. CASE Wake
    BY <2>6 DEF Wake
  <2>7. CASE AcceptReturns
    BY <2>7 DEF AcceptReturns
  <2>8. ASSUME NEW c \in Conns, AcceptConn(c) PROVE BackoffFollowsErrors'
    BY <2>8 DEF AcceptConn
  <2>9. CASE AcceptTemporary
    <3>1. errors \in Nat /\ tempDelay \in Nat
      BY DEF TypeOK
    <3>2. tempDelay' = NextDelay(tempDelay) /\ errors' = errors + 1
      BY <2>9 DEF AcceptTemporary
    <3>3. CASE errors = 0
      <4>1. 2^0 = 1
        OBVIOUS
      <4>2. errors' - 1 = 0
        BY <3>2, <3>3
      <4>3. QED
        BY <3>2, <3>3, <4>1, <4>2, ConstantsType DEF NextDelay, Smaller
    <3>4. CASE errors > 0
      <4> DEFINE k == errors - 1
                 p == 2^k
      <4>1. k \in Nat /\ errors' - 1 = k + 1
        BY <3>1, <3>2, <3>4
      <4>2. p \in Nat \ {0} /\ 2^(errors' - 1) = 2 * p
        BY <4>1
      <4>3. tempDelay = Smaller(FirstDelay * p, MaxDelay)
        BY <3>4
      <4> HIDE DEF p
      <4>4. /\ FirstDelay * p \in Nat \ {0}
            /\ FirstDelay * (2 * p) = 2 * (FirstDelay * p)
        BY <4>2, ConstantsType
      <4> DEFINE q == FirstDelay * p
      <4>5. tempDelay # 0 /\ NextDelay(tempDelay) = Smaller(2 * q, MaxDelay)
        <5> HIDE DEF q
        <5>1. q \in Nat \ {0} /\ tempDelay = Smaller(q, MaxDelay)
          BY <4>3, <4>4 DEF q
        <5>2. QED
          BY <5>1, ConstantsType DEF NextDelay, Smaller
      <4>6. errors' # 0 /\ FirstDelay * 2^(errors' - 1) = 2 * q
        BY <3>1, <3>2, <4>2, <4>4
      <4>7. QED
        BY <3>2, <4>5, <4>6
    <3>5. QED
      BY <3>1, <3>3, <3>4
  <2>10. CASE AcceptPermanent
    BY <2>10 DEF AcceptPermanent
  <2>11. ASSUME NEW c \in Conns, NEW k \in 0..Len(flight[c]["up"]),
                Upgrade(c, k)
       PROVE  BackoffFollowsErrors'
    BY <2>11 DEF Upgrade
  <2>12. ASSUME NEW c \in Conns, UpgradeFails(c) PROVE BackoffFollowsErrors'
    BY <2>12 DEF UpgradeFails
  <2>13. ASSUME NEW c \in Conns, HttpError(c) PROVE BackoffFollowsErrors'
    BY <2>13 DEF HttpError
  <2>14. ASSUME NEW c \in Conns, HttpExpires(c) PROVE BackoffFollowsErrors'
    BY <2>14 DEF HttpExpires
  <2>15. ASSUME NEW c \in Conns, HttpBody(c) PROVE BackoffFollowsErrors'
    BY <2>15 DEF HttpBody
  <2>16. ASSUME NEW c \in Conns, AcceptStream(c) PROVE BackoffFollowsErrors'
    BY <2>16 DEF AcceptStream
  <2>17. ASSUME NEW c \in Conns, AcceptStreamFails(c)
       PROVE  BackoffFollowsErrors'
    BY <2>17 DEF AcceptStreamFails
  <2>18. ASSUME NEW c \in Conns, HandlerEnds(c) PROVE BackoffFollowsErrors'
    BY <2>18 DEF HandlerEnds
  <2>19. ASSUME NEW c \in Conns, DialCall(c) PROVE BackoffFollowsErrors'
    BY <2>19 DEF DialCall
  <2>20. ASSUME NEW c \in Conns, Connected(c) PROVE BackoffFollowsErrors'
    BY <2>20 DEF Connected
  <2>21. ASSUME NEW c \in Conns, DialFails(c) PROVE BackoffFollowsErrors'
    BY <2>21 DEF DialFails
  <2>22. ASSUME NEW c \in Conns, ClientLeaves(c) PROVE BackoffFollowsErrors'
    BY <2>22 DEF ClientLeaves
  <2>23. ASSUME NEW c \in Conns, NEW k \in 0..Len(flight[c]["down"]),
                Opened(c, k)
       PROVE  BackoffFollowsErrors'
    BY <2>23 DEF Opened
  <2>24. ASSUME NEW c \in Conns, NEW dir \in Dirs, SendByte(c, dir)
       PROVE  BackoffFollowsErrors'
    BY <2>24 DEF SendByte
  <2>25. CASE UNCHANGED vars
    BY <2>25 DEF vars
  <2>26. QED
    <3> HIDE DEF BackoffFollowsErrors, listener
    <3>1. QED
      BY <2>1, <2>2, <2>3, <2>4, <2>5, <2>6, <2>7, <2>8, <2>9, <2>10, <2>11,
         <2>12, <2>13, <2>14, <2>15, <2>16, <2>17, <2>18, <2>19, <2>20, <2>21,
         <2>22, <2>23, <2>24, <2>25 DEF Next, LoopStep
<1>3. QED
  BY <1>1, <1>2, TypeCorrect, PTL DEF Spec
=============================================================================
