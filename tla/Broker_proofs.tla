---------------------------- MODULE Broker_proofs ----------------------------
(***************************************************************************)
(* Proofs about Broker for every set of connections, filters and messages, *)
(* and every largest packet id.                                            *)
(***************************************************************************)
EXTENDS Broker, TLAPS

(* The maximum of a set of QoS levels is one of them.                      *)
LEMMA MaxIsMember ==
  ASSUME NEW S \in SUBSET (0..2), S # {}
  PROVE  Max(S) \in S
<1>1. PICK x \in S : \A y \in S : y <= x
  <2>1. CASE 2 \in S
    BY <2>1
  <2>2. CASE 2 \notin S /\ 1 \in S
    BY <2>2
  <2>3. CASE 2 \notin S /\ 1 \notin S
    <3>1. \A y \in S : y = 0
      BY <2>3
    <3>2. PICK x \in S : TRUE
      OBVIOUS
    <3>3. QED
      BY <3>1, <3>2
  <2>4. QED
    BY <2>1, <2>2, <2>3
<1>2. QED
  BY <1>1 DEF Max

(* nextID++ on a uint16, with 0 left out, is a packet id.                  *)
LEMMA NextIDIsValid ==
  ASSUME NEW i \in 0..IdMax
  PROVE  NextID(i) \in 1..IdMax
<1>1. IdMax + 1 \in Nat \ {0} /\ i + 1 \in Nat
  BY ConstantsType
<1>2. (i + 1) % (IdMax + 1) \in 0..IdMax
  BY <1>1, ConstantsType
<1>3. QED
  BY <1>2, ConstantsType DEF NextID

(* What a reply consists of.                                               *)
LEMMA ReplyFacts ==
  /\ \A r \in Replies : /\ r[1] \in Answer
                        /\ r[2] \in {"register", "close", "loop", "deliver"}
  /\ \A p \in Answer, l \in {"register", "close", "loop", "deliver"} :
       <<p, l>> \in Replies
  /\ {<<"CONNACK">>, <<"PINGRESP">>, <<"UNSUBACK">>, <<"PUBACK">>,
      <<"PUBREC">>, <<"PUBREL">>, <<"PUBCOMP">>} \subseteq Answer
  /\ \A f \in Filters : <<"SUBACK", f>> \in Answer
BY DEF Replies, Answer

(* The QoS that deliver chooses for a target.                              *)
LEMMA TargetQos ==
  ASSUME TypeOK, NEW h \in Conns, NEW t \in Conns, msg[h] \in Msgs
  PROVE  LET hits == {s \in subs[t] : s[1] \in Matching}
         IN  Max({0} \cup {Min(s[2], Qos[msg[h]]) : s \in hits}) \in 0..2
<1> DEFINE hits == {s \in subs[t] : s[1] \in Matching}
           S == {0} \cup {Min(s[2], Qos[msg[h]]) : s \in hits}
<1>1. ASSUME NEW s \in hits PROVE Min(s[2], Qos[msg[h]]) \in 0..2
  <2>1. s \in Filters \X (0..2)
    BY DEF TypeOK, SessionTypeOK
  <2>2. s[2] \in 0..2 /\ Qos[msg[h]] \in 0..2
    BY <2>1, ConstantsType
  <2>3. QED
    BY <2>2 DEF Min
<1>2. S \in SUBSET (0..2) /\ S # {}
  BY <1>1
<1>3. Max(S) \in 0..2
  <2> HIDE DEF S
  <2>1. QED
    BY <1>2, MaxIsMember
<1>4. QED
  BY <1>3

-----------------------------------------------------------------------------
(* Types, and what a handler holds at each point of its control: a message *)
(* exactly from its PUBACK or PUBCOMP to the end of deliver, and a packet  *)
(* exactly while it sends it.                                              *)

Delivering(c) == \/ pc[c] \in {"deliver", "fan", "send"}
                 \/ pc[c] = "reply" /\ reply[c][2] = "deliver"

HandlerInv == \A c \in Conns : /\ Delivering(c) <=> msg[c] # None
                               /\ pc[c] = "send" <=> out[c] # None

(* A handler that answers its client.                                      *)
LEMMA ReplyKeepsHandler ==
  ASSUME TypeOK, HandlerInv, NEW c \in Conns, NEW p \in Answer,
         NEW l \in {"register", "close", "loop", "deliver"},
         Reply(c, p, l), pc[c] \in {"connect", "loop"}, UNCHANGED <<todo, out>>,
         \/ l # "deliver" /\ msg' = msg
         \/ l = "deliver" /\ \E m \in Msgs : msg' = [msg EXCEPT ![c] = m]
  PROVE  HandlerTypeOK' /\ HandlerInv'
<1> DEFINE r == <<p, l>>
<1>1. r \in Replies /\ r # None /\ r[2] = l
  BY ZenonT(60), ReplyFacts, ConstantsType
<1>2. /\ pc' = [pc EXCEPT ![c] = "reply"]
      /\ reply' = [reply EXCEPT ![c] = r]
  BY DEF Reply, Goto
<1> HIDE DEF r
<1>3. HandlerTypeOK'
  BY <1>1, <1>2, ConstantsType DEF TypeOK, HandlerTypeOK, Labels
<1>4. HandlerInv'
  BY <1>1, <1>2, ConstantsType
  DEF TypeOK, HandlerTypeOK, HandlerInv, Delivering, Labels
<1>5. QED
  BY <1>3, <1>4

(* deliver's look at one target: it is passed over when none of its        *)
(* filters match, or it is sent a packet with an id above QoS 0 and with   *)
(* none at QoS 0.                                                          *)
LEMMA TargetStep ==
  ASSUME TypeOK, HandlerInv, NEW c \in Conns, NEW t \in Conns, Target(c, t)
  PROVE  /\ pc[c] = "fan" /\ out[c] = None /\ msg[c] \in Msgs
         /\ t \in todo[c] /\ todo' = [todo EXCEPT ![c] = todo[c] \ {t}]
         /\ UNCHANGED <<bclosed, clients, closing, closer, open, subs,
                        inbound2, reply, msg, peers, acked, owed, got>>
         /\ \/ /\ \A s \in subs[t] : s[1] \notin Matching
               /\ UNCHANGED <<pc, out, nextID, outbound2>>
            \/ \E pkt \in Packet, v \in 0..IdMax, O \in SUBSET (1..IdMax) :
                 /\ pkt.to = t /\ (pkt.id = 0 <=> pkt.qos = 0)
                 /\ pc' = [pc EXCEPT ![c] = "send"]
                 /\ out' = [out EXCEPT ![c] = pkt]
                 /\ nextID' = [nextID EXCEPT ![t] = v]
                 /\ outbound2' = [outbound2 EXCEPT ![t] = O]
<1> DEFINE hits == {s \in subs[t] : s[1] \in Matching}
           q == Max({0} \cup {Min(s[2], Qos[msg[c]]) : s \in hits})
           i == NextID(nextID[t])
           v == IF q > 0 THEN i ELSE nextID[t]
           O == IF q = 2 THEN outbound2[t] \cup {i} ELSE outbound2[t]
           pkt == [to |-> t, qos |-> q, id |-> IF q > 0 THEN i ELSE 0]
<1>1. pc[c] = "fan" /\ out[c] = None /\ msg[c] \in Msgs
  BY ConstantsType
  DEF Target, TypeOK, HandlerTypeOK, HandlerInv, Delivering
<1>2. q \in 0..2
  BY <1>1, TargetQos
<1>3. i \in 1..IdMax /\ nextID[t] \in 0..IdMax
      /\ outbound2[t] \in SUBSET (1..IdMax)
  BY NextIDIsValid DEF TypeOK, SessionTypeOK
<1>4. v \in 0..IdMax /\ O \in SUBSET (1..IdMax)
  <2> HIDE DEF q, i
  <2>1. i \in 0..IdMax
    BY <1>3
  <2>2. QED
    BY <1>3, <2>1
<1>5. /\ pkt \in Packet /\ pkt.to = t
      /\ pkt.id = 0 <=> pkt.qos = 0
  <2> HIDE DEF q, i
  <2>1. CASE q = 0
    BY <1>2, <2>1, ConstantsType DEF Packet
  <2>2. CASE q > 0
    BY <1>2, <1>3, <2>2, ConstantsType DEF Packet
  <2>3. QED
    BY <1>2, <2>1, <2>2
<1>6. /\ t \in todo[c] /\ todo' = [todo EXCEPT ![c] = todo[c] \ {t}]
      /\ UNCHANGED <<bclosed, clients, closing, closer, open, subs,
                     inbound2, reply, msg, peers, acked, owed, got>>
      /\ \/ hits = {} /\ UNCHANGED <<pc, out, nextID, outbound2>>
         \/ /\ pc' = [pc EXCEPT ![c] = "send"]
            /\ out' = [out EXCEPT ![c] = pkt]
            /\ nextID' = [nextID EXCEPT ![t] = v]
            /\ outbound2' = [outbound2 EXCEPT ![t] = O]
  BY DEF Target, Goto
<1>7. hits = {} => \A s \in subs[t] : s[1] \notin Matching
  OBVIOUS
<1> HIDE DEF hits, q, i, v, O, pkt
<1>8. QED
  BY <1>1, <1>4, <1>5, <1>6, <1>7

LEMMA TypeInvariant == Spec => [](TypeOK /\ HandlerInv)
<1>1. Init => TypeOK /\ HandlerInv
  <2> SUFFICES ASSUME Init PROVE TypeOK /\ HandlerInv
    OBVIOUS
  <2>1. SessionTypeOK
    BY ConstantsType DEF Init, SessionTypeOK
  <2>2. HandlerTypeOK /\ HandlerInv
    BY ConstantsType
    DEF Init, HandlerTypeOK, HandlerInv, Delivering, Labels
  <2>3. got \in [Conns -> [Msgs -> Nat]]
    BY DEF Init
  <2>4. QED
    BY <2>1, <2>2, <2>3 DEF Init, TypeOK, BrokerTypeOK, HistoryTypeOK
<1>2. TypeOK /\ HandlerInv /\ [Next]_vars => (TypeOK /\ HandlerInv)'
  <2> SUFFICES ASSUME TypeOK, HandlerInv, [Next]_vars
               PROVE  (TypeOK /\ HandlerInv)'
    OBVIOUS
  <2> USE ConstantsType
      DEF TypeOK, BrokerTypeOK, SessionTypeOK, HandlerTypeOK, HistoryTypeOK,
          HandlerInv, Delivering, Labels, session, fan, peers
  <2>1. ASSUME NEW c \in Conns, NEW a \in BOOLEAN, RecvConnect(c, a)
       PROVE  (TypeOK /\ HandlerInv)'
    <3>1. HandlerTypeOK' /\ HandlerInv'
      <4> HIDE DEF TypeOK, HandlerTypeOK, HandlerInv
      <4>1. pc[c] \in {"connect", "loop"} /\ <<"CONNACK">> \in Answer
        BY <2>1, ReplyFacts DEF RecvConnect, InLoop
      <4>2. QED
        BY <2>1, <4>1, ReplyKeepsHandler DEF RecvConnect
    <3>2. BrokerTypeOK'
      BY <2>1 DEF RecvConnect
    <3>3. SessionTypeOK'
      BY <2>1 DEF RecvConnect
    <3>4. HistoryTypeOK'
      BY <2>1 DEF RecvConnect
    <3>5. QED
      <4> HIDE DEF BrokerTypeOK, SessionTypeOK, HandlerTypeOK, HistoryTypeOK,
                   HandlerInv
      <4>1. QED
        BY <3>1, <3>2, <3>3, <3>4
  <2>2. ASSUME NEW c \in Conns, RecvPing(c) PROVE (TypeOK /\ HandlerInv)'
    <3>1. HandlerTypeOK' /\ HandlerInv'
      <4> HIDE DEF TypeOK, HandlerTypeOK, HandlerInv
      <4>1. pc[c] \in {"connect", "loop"} /\ <<"PINGRESP">> \in Answer
        BY <2>2, ReplyFacts DEF RecvPing, InLoop
      <4>2. QED
        BY <2>2, <4>1, ReplyKeepsHandler DEF RecvPing
    <3>2. BrokerTypeOK'
      BY <2>2 DEF RecvPing
    <3>3. SessionTypeOK'
      BY <2>2 DEF RecvPing
    <3>4. HistoryTypeOK'
      BY <2>2 DEF RecvPing
    <3>5. QED
      <4> HIDE DEF BrokerTypeOK, SessionTypeOK, HandlerTypeOK, HistoryTypeOK,
                   HandlerInv
      <4>1. QED
        BY <3>1, <3>2, <3>3, <3>4
  <2>3. ASSUME NEW c \in Conns, NEW f \in Filters, RecvUnsubscribe(c, f)
       PROVE  (TypeOK /\ HandlerInv)'
    <3>1. HandlerTypeOK' /\ HandlerInv'
      <4> HIDE DEF TypeOK, HandlerTypeOK, HandlerInv
      <4>1. pc[c] \in {"connect", "loop"} /\ <<"UNSUBACK">> \in Answer
        BY <2>3, ReplyFacts DEF RecvUnsubscribe, InLoop
      <4>2. QED
        BY <2>3, <4>1, ReplyKeepsHandler DEF RecvUnsubscribe
    <3>2. BrokerTypeOK'
      BY <2>3 DEF RecvUnsubscribe
    <3>3. SessionTypeOK'
      BY <2>3 DEF RecvUnsubscribe
    <3>4. HistoryTypeOK'
      BY <2>3 DEF RecvUnsubscribe
    <3>5. QED
      <4> HIDE DEF BrokerTypeOK, SessionTypeOK, HandlerTypeOK, HistoryTypeOK,
                   HandlerInv
      <4>1. QED
        BY <3>1, <3>2, <3>3, <3>4
  <2>4. ASSUME NEW c \in Conns, NEW f \in Filters, NEW q \in Asked,
               RecvSubscribe(c, f, q)
       PROVE  (TypeOK /\ HandlerInv)'
    <3>1. HandlerTypeOK' /\ HandlerInv'
      <4> HIDE DEF TypeOK, HandlerTypeOK, HandlerInv
      <4>1. pc[c] \in {"connect", "loop"} /\ <<"SUBACK", f>> \in Answer
        BY <2>4, ReplyFacts DEF RecvSubscribe, InLoop
      <4>2. QED
        BY <2>4, <4>1, ReplyKeepsHandler DEF RecvSubscribe
    <3>2. BrokerTypeOK'
      BY <2>4 DEF RecvSubscribe
    <3>3. SessionTypeOK'
      <4>1. <<f, q>> \in Filters \X (0..2)
        OBVIOUS
      <4>2. {s \in subs[c] : s[1] # f} \cup {<<f, q>>}
              \in SUBSET (Filters \X (0..2))
        BY <4>1
      <4>3. QED
        BY <2>4, <4>2 DEF RecvSubscribe
    <3>4. HistoryTypeOK'
      BY <2>4 DEF RecvSubscribe
    <3>5. QED
      <4> HIDE DEF BrokerTypeOK, SessionTypeOK, HandlerTypeOK, HistoryTypeOK,
                   HandlerInv
      <4>1. QED
        BY <3>1, <3>2, <3>3, <3>4
  <2>5. ASSUME NEW c \in Conns, NEW m \in Msgs, RecvPublish(c, m)
       PROVE  (TypeOK /\ HandlerInv)'
    <3>1. HandlerTypeOK' /\ HandlerInv'
      <4> HIDE DEF TypeOK, HandlerTypeOK, HandlerInv
      <4>1. pc[c] \in {"connect", "loop"} /\ <<"PUBACK">> \in Answer
        BY <2>5, ReplyFacts DEF RecvPublish, InLoop
      <4>2. CASE Qos[m] = 0
        <5>1. /\ pc[c] = "loop" /\ pc' = [pc EXCEPT ![c] = "deliver"]
              /\ msg' = [msg EXCEPT ![c] = m]
              /\ UNCHANGED <<reply, todo, out>>
          BY <2>5, <4>2 DEF RecvPublish, InLoop, Goto
        <5>2. HandlerTypeOK'
          BY <5>1 DEF TypeOK, HandlerTypeOK
        <5>3. HandlerInv'
          BY <5>1 DEF TypeOK, HandlerTypeOK, HandlerInv
        <5>4. QED
          BY <5>2, <5>3
      <4>3. CASE Qos[m] # 0
        BY <2>5, <4>1, <4>3, ReplyKeepsHandler DEF RecvPublish
      <4>4. QED
        BY <4>2, <4>3
    <3>2. BrokerTypeOK'
      BY <2>5 DEF RecvPublish
    <3>3. SessionTypeOK'
      BY <2>5 DEF RecvPublish
    <3>4. HistoryTypeOK'
      BY <2>5 DEF RecvPublish, Owe
    <3>5. QED
      <4> HIDE DEF BrokerTypeOK, SessionTypeOK, HandlerTypeOK, HistoryTypeOK,
                   HandlerInv
      <4>1. QED
        BY <3>1, <3>2, <3>3, <3>4
  <2>6. ASSUME NEW c \in Conns, NEW m \in Msgs, RecvPublish2(c, m)
       PROVE  (TypeOK /\ HandlerInv)'
    <3>1. HandlerTypeOK' /\ HandlerInv'
      <4> HIDE DEF TypeOK, HandlerTypeOK, HandlerInv
      <4>1. pc[c] \in {"connect", "loop"} /\ <<"PUBREC">> \in Answer
        BY <2>6, ReplyFacts DEF RecvPublish2, InLoop
      <4>2. QED
        BY <2>6, <4>1, ReplyKeepsHandler DEF RecvPublish2
    <3>2. BrokerTypeOK'
      BY <2>6 DEF RecvPublish2
    <3>3. SessionTypeOK'
      BY <2>6 DEF RecvPublish2
    <3>4. HistoryTypeOK'
      BY <2>6 DEF RecvPublish2
    <3>5. QED
      <4> HIDE DEF BrokerTypeOK, SessionTypeOK, HandlerTypeOK, HistoryTypeOK,
                   HandlerInv
      <4>1. QED
        BY <3>1, <3>2, <3>3, <3>4
  <2>7. ASSUME NEW c \in Conns, NEW m \in Msgs, RecvPubrel(c, m)
       PROVE  (TypeOK /\ HandlerInv)'
    <3>1. HandlerTypeOK' /\ HandlerInv'
      <4> HIDE DEF TypeOK, HandlerTypeOK, HandlerInv
      <4>1. pc[c] \in {"connect", "loop"} /\ <<"PUBCOMP">> \in Answer
        BY <2>7, ReplyFacts DEF RecvPubrel, InLoop
      <4>2. QED
        BY <2>7, <4>1, ReplyKeepsHandler DEF RecvPubrel, Owe
    <3>2. BrokerTypeOK'
      BY <2>7 DEF RecvPubrel
    <3>3. SessionTypeOK'
      BY <2>7 DEF RecvPubrel
    <3>4. HistoryTypeOK'
      <4>1. owed' \in [Conns -> SUBSET Conns]
        <5>1. CASE m \in inbound2[c]
          <6> DEFINE S == {t \in clients :
                             \E f \in Matching : <<t, f>> \in acked}
          <6>1. S \in SUBSET Conns
            OBVIOUS
          <6>2. owed' = [owed EXCEPT ![c] = S]
            BY <2>7, <5>1 DEF RecvPubrel, Owe
          <6>3. QED
            BY <6>1, <6>2
        <5>2. CASE m \notin inbound2[c]
          BY <2>7, <5>2 DEF RecvPubrel
        <5>3. QED
          BY <5>1, <5>2
      <4>2. held' \subseteq Conns \X Msgs /\ released' \subseteq Conns \X Msgs
        BY <2>7 DEF RecvPubrel
      <4>3. UNCHANGED <<fresh, acked, got>>
        BY <2>7 DEF RecvPubrel
      <4>4. QED
        BY <4>1, <4>2, <4>3
    <3>5. QED
      <4> HIDE DEF BrokerTypeOK, SessionTypeOK, HandlerTypeOK, HistoryTypeOK,
                   HandlerInv
      <4>1. QED
        BY <3>1, <3>2, <3>3, <3>4
  <2>8. ASSUME NEW c \in Conns, NEW i \in 1..IdMax, RecvPubrec(c, i)
       PROVE  (TypeOK /\ HandlerInv)'
    <3>1. HandlerTypeOK' /\ HandlerInv'
      <4> HIDE DEF TypeOK, HandlerTypeOK, HandlerInv
      <4>1. pc[c] \in {"connect", "loop"} /\ <<"PUBREL">> \in Answer
        BY <2>8, ReplyFacts DEF RecvPubrec, InLoop
      <4>2. QED
        BY <2>8, <4>1, ReplyKeepsHandler DEF RecvPubrec
    <3>2. BrokerTypeOK'
      BY <2>8 DEF RecvPubrec
    <3>3. SessionTypeOK'
      BY <2>8 DEF RecvPubrec
    <3>4. HistoryTypeOK'
      BY <2>8 DEF RecvPubrec
    <3>5. QED
      <4> HIDE DEF BrokerTypeOK, SessionTypeOK, HandlerTypeOK, HistoryTypeOK,
                   HandlerInv
      <4>1. QED
        BY <3>1, <3>2, <3>3, <3>4
  <2>9. ASSUME NEW c \in Conns, RecvNoConnect(c) PROVE (TypeOK /\ HandlerInv)'
    BY <2>9 DEF RecvNoConnect, Goto
  <2>10. ASSUME NEW c \in Conns, RecvEnd(c) PROVE (TypeOK /\ HandlerInv)'
    BY <2>10 DEF RecvEnd, Goto
  <2>11. ASSUME NEW c \in Conns, SendReply(c) PROVE (TypeOK /\ HandlerInv)'
    <3>0. /\ reply[c] \in Replies
          /\ reply[c][2] \in {"register", "close", "loop", "deliver"}
      BY SMTT(60), <2>11, ReplyFacts DEF SendReply
    <3>1. HandlerTypeOK'
      BY <2>11, <3>0 DEF SendReply, Goto
    <3>2. HandlerInv'
      BY <2>11, <3>0 DEF SendReply, Goto
    <3>3. BrokerTypeOK'
      BY <2>11 DEF SendReply, Goto
    <3>4. SessionTypeOK'
      BY <2>11 DEF SendReply, Goto
    <3>5. HistoryTypeOK'
      BY <2>11 DEF SendReply, Goto
    <3>6. QED
      <4> HIDE DEF BrokerTypeOK, SessionTypeOK, HandlerTypeOK, HistoryTypeOK,
                   HandlerInv
      <4>1. QED
        BY <3>1, <3>2, <3>3, <3>4, <3>5
  <2>12. ASSUME NEW c \in Conns, ReplyFails(c) PROVE (TypeOK /\ HandlerInv)'
    <3>1. HandlerTypeOK'
      BY <2>12 DEF ReplyFails, SendFails, Goto
    <3>2. HandlerInv'
      BY <2>12 DEF ReplyFails, SendFails, Goto
    <3>3. BrokerTypeOK'
      BY ZenonT(60), <2>12 DEF ReplyFails, SendFails, Goto
    <3>4. SessionTypeOK'
      BY <2>12 DEF ReplyFails, SendFails, Goto
    <3>5. HistoryTypeOK'
      BY <2>12 DEF ReplyFails, SendFails, Goto
    <3>6. QED
      <4> HIDE DEF BrokerTypeOK, SessionTypeOK, HandlerTypeOK, HistoryTypeOK,
                   HandlerInv
      <4>1. QED
        BY <3>1, <3>2, <3>3, <3>4, <3>5
  <2>13. ASSUME NEW c \in Conns, SendTo(c) PROVE (TypeOK /\ HandlerInv)'
    <3>0. /\ out[c] \in Packet /\ out[c].to \in Conns
          /\ msg[c] \in Msgs
      BY <2>13 DEF SendTo, Packet
    <3>1. HandlerTypeOK'
      BY <2>13 DEF SendTo, Sent, Goto
    <3>2. HandlerInv'
      BY <2>13 DEF SendTo, Sent, Goto
    <3>3. BrokerTypeOK'
      BY <2>13 DEF SendTo, Sent, Goto
    <3>4. SessionTypeOK'
      BY <2>13 DEF SendTo, Sent, Goto
    <3>5. HistoryTypeOK'
      <4>1. got' \in [Conns -> [Msgs -> Nat]]
        BY <2>13, <3>0 DEF SendTo
      <4>2. owed' \in [Conns -> SUBSET Conns]
        BY <2>13, <3>0 DEF SendTo, Sent
      <4>3. QED
        BY <2>13, <4>1, <4>2 DEF SendTo
    <3>6. QED
      <4> HIDE DEF BrokerTypeOK, SessionTypeOK, HandlerTypeOK, HistoryTypeOK,
                   HandlerInv
      <4>1. QED
        BY <3>1, <3>2, <3>3, <3>4, <3>5
  <2>14. ASSUME NEW c \in Conns, SendToFails(c) PROVE (TypeOK /\ HandlerInv)'
    <3>0. out[c] \in Packet /\ out[c].to \in Conns
      BY <2>14 DEF SendToFails, Packet
    <3>1. HandlerTypeOK'
      BY <2>14, <3>0 DEF SendToFails, SendFails, Sent, Goto
    <3>2. HandlerInv'
      BY <2>14 DEF SendToFails, SendFails, Sent, Goto
    <3>3. BrokerTypeOK'
      BY ZenonT(60), <2>14, <3>0 DEF SendToFails, SendFails, Sent, Goto
    <3>4. SessionTypeOK'
      BY <2>14, <3>0 DEF SendToFails, SendFails, Sent, Goto
    <3>5. HistoryTypeOK'
      BY <2>14, <3>0 DEF SendToFails, SendFails, Sent, Goto
    <3>6. QED
      <4> HIDE DEF BrokerTypeOK, SessionTypeOK, HandlerTypeOK, HistoryTypeOK,
                   HandlerInv
      <4>1. QED
        BY <3>1, <3>2, <3>3, <3>4, <3>5
  <2>15. ASSUME NEW c \in Conns, Register(c) PROVE (TypeOK /\ HandlerInv)'
    <3>0. /\ UNCHANGED <<reply, msg, todo, out>> /\ pc[c] = "register"
          /\ \E l \in {"close", "loop"} : pc' = [pc EXCEPT ![c] = l]
      <4>1. CASE bclosed
        BY <2>15, <4>1 DEF Register, Goto
      <4>2. CASE ~bclosed
        BY <2>15, <4>2 DEF Register, Goto
      <4>3. QED
        BY <4>1, <4>2
    <3>1. HandlerTypeOK'
      BY <3>0
    <3>2. HandlerInv'
      BY <3>0
    <3>3. BrokerTypeOK'
      BY <2>15 DEF Register, Goto
    <3>4. SessionTypeOK'
      BY <2>15 DEF Register, Goto
    <3>5. HistoryTypeOK'
      BY <2>15 DEF Register, Goto
    <3>6. QED
      <4> HIDE DEF BrokerTypeOK, SessionTypeOK, HandlerTypeOK, HistoryTypeOK,
                   HandlerInv
      <4>1. QED
        BY <3>1, <3>2, <3>3, <3>4, <3>5
  <2>16. ASSUME NEW c \in Conns, Leave(c) PROVE (TypeOK /\ HandlerInv)'
    BY <2>16 DEF Leave, Goto
  <2>17. ASSUME NEW c \in Conns, CloseSock(c) PROVE (TypeOK /\ HandlerInv)'
    BY <2>17 DEF CloseSock, Goto
  <2>18. ASSUME NEW c \in Conns, Snapshot(c) PROVE (TypeOK /\ HandlerInv)'
    BY <2>18 DEF Snapshot, Goto
  <2>19. ASSUME NEW c \in Conns, NEW t \in Conns, Target(c, t)
       PROVE  (TypeOK /\ HandlerInv)'
    <3>1. /\ pc[c] = "fan" /\ out[c] = None
          /\ todo' = [todo EXCEPT ![c] = todo[c] \ {t}]
          /\ UNCHANGED <<bclosed, clients, closing, closer, open, subs,
                         inbound2, reply, msg, peers, acked, owed, got>>
      <4> HIDE DEF TypeOK, HandlerInv, peers
      <4>1. QED
        BY <2>19, TargetStep
    <3>2. CASE UNCHANGED <<pc, out, nextID, outbound2>>
      <4>1. todo' \in [Conns -> SUBSET Conns]
        BY <3>1
      <4>2. QED
        BY <3>1, <3>2, <4>1
    <3>3. ASSUME NEW p \in Packet, NEW v \in 0..IdMax,
                 NEW O \in SUBSET (1..IdMax),
                 pc' = [pc EXCEPT ![c] = "send"],
                 out' = [out EXCEPT ![c] = p],
                 nextID' = [nextID EXCEPT ![t] = v],
                 outbound2' = [outbound2 EXCEPT ![t] = O]
          PROVE  (TypeOK /\ HandlerInv)'
      <4>1. todo' \in [Conns -> SUBSET Conns]
        BY <3>1
      <4>2. out' \in [Conns -> Packet \cup {None}]
        BY <3>3
      <4>3. \A d \in Conns : (pc'[d] = "reply") = (pc[d] = "reply")
        BY <3>1, <3>3
      <4>4. HandlerTypeOK'
        BY <3>1, <3>3, <4>1, <4>2, <4>3
      <4>5. HandlerInv'
        BY <3>1, <3>3
      <4>6. nextID' \in [Conns -> 0..IdMax]
        BY <3>3
      <4>7. outbound2' \in [Conns -> SUBSET (1..IdMax)]
        BY <3>3
      <4>8. SessionTypeOK'
        BY <3>1, <4>6, <4>7
      <4>9. QED
        BY <3>1, <4>4, <4>5, <4>8
    <3>4. \/ UNCHANGED <<pc, out, nextID, outbound2>>
          \/ \E p \in Packet, v \in 0..IdMax, O \in SUBSET (1..IdMax) :
               /\ p.to = t /\ (p.id = 0 <=> p.qos = 0)
               /\ pc' = [pc EXCEPT ![c] = "send"]
               /\ out' = [out EXCEPT ![c] = p]
               /\ nextID' = [nextID EXCEPT ![t] = v]
               /\ outbound2' = [outbound2 EXCEPT ![t] = O]
      <4> HIDE ConstantsType DEF TypeOK, HandlerInv, peers
      <4>1. QED
        BY SMTT(60), <2>19, TargetStep
    <3>5. QED
      <4> HIDE DEF TypeOK, HandlerInv
      <4>1. QED
        BY <3>2, <3>3, <3>4, Zenon
  <2>20. ASSUME NEW c \in Conns, Delivered(c) PROVE (TypeOK /\ HandlerInv)'
    BY <2>20 DEF Delivered, Goto
  <2>21. CASE BrokerClose
    BY <2>21 DEF BrokerClose
  <2>22. CASE CloseClient
    BY <2>22 DEF CloseClient
  <2>23. CASE CloseReturns
    BY <2>23 DEF CloseReturns
  <2>24. CASE UNCHANGED vars
    BY <2>24 DEF vars
  <2>25. QED
    <3> HIDE DEF TypeOK, BrokerTypeOK, SessionTypeOK, HandlerTypeOK,
            HistoryTypeOK, HandlerInv, Delivering, Labels, session, fan,
            peers
    <3>1. QED
      BY <2>1, <2>2, <2>3, <2>4, <2>5, <2>6, <2>7, <2>8, <2>9, <2>10, <2>11,
         <2>12, <2>13, <2>14, <2>15, <2>16, <2>17, <2>18, <2>19, <2>20, <2>21,
         <2>22, <2>23, <2>24 DEF Next, Recv, Step
<1>3. QED
  BY <1>1, <1>2, PTL DEF Spec

(* Type correctness of the broker.                                         *)
THEOREM TypeCorrect == Spec => []TypeOK
BY TypeInvariant, PTL

-----------------------------------------------------------------------------
(* A publish above QoS 0 carries a packet id other than 0, and QoS 0 none, *)
(* also when the counter wraps.                                            *)
THEOREM PacketIdsValid == Spec => []PacketIdValid
<1>1. Init => PacketIdValid
  BY DEF Init, PacketIdValid
<1>2. TypeOK /\ HandlerInv /\ PacketIdValid /\ [Next]_vars => PacketIdValid'
  <2> SUFFICES ASSUME TypeOK, HandlerInv, PacketIdValid, [Next]_vars
               PROVE  PacketIdValid'
    OBVIOUS
  <2> USE DEF PacketIdValid, TypeOK, HandlerTypeOK, fan
  <2>1. ASSUME NEW c \in Conns, NEW a \in BOOLEAN, RecvConnect(c, a)
       PROVE  PacketIdValid'
    BY <2>1 DEF RecvConnect, Reply, Goto
  <2>2. ASSUME NEW c \in Conns, RecvPing(c) PROVE PacketIdValid'
    BY <2>2 DEF RecvPing, InLoop, Reply, Goto
  <2>3. ASSUME NEW c \in Conns, NEW f \in Filters, RecvUnsubscribe(c, f)
       PROVE  PacketIdValid'
    BY <2>3 DEF RecvUnsubscribe, InLoop, Reply, Goto
  <2>4. ASSUME NEW c \in Conns, NEW f \in Filters, NEW q \in Asked,
               RecvSubscribe(c, f, q)
       PROVE  PacketIdValid'
    BY <2>4 DEF RecvSubscribe, InLoop, Reply, Goto
  <2>5. ASSUME NEW c \in Conns, NEW m \in Msgs, RecvPublish(c, m)
       PROVE  PacketIdValid'
    BY <2>5 DEF RecvPublish, InLoop, Reply, Goto, Owe
  <2>6. ASSUME NEW c \in Conns, NEW m \in Msgs, RecvPublish2(c, m)
       PROVE  PacketIdValid'
    BY <2>6 DEF RecvPublish2, InLoop, Reply, Goto
  <2>7. ASSUME NEW c \in Conns, NEW m \in Msgs, RecvPubrel(c, m)
       PROVE  PacketIdValid'
    BY <2>7 DEF RecvPubrel, InLoop, Reply, Goto, Owe
  <2>8. ASSUME NEW c \in Conns, NEW i \in 1..IdMax, RecvPubrec(c, i)
       PROVE  PacketIdValid'
    BY <2>8 DEF RecvPubrec, InLoop, Reply, Goto
  <2>9. ASSUME NEW c \in Conns, RecvNoConnect(c) PROVE PacketIdValid'
    BY <2>9 DEF RecvNoConnect, Goto
  <2>10. ASSUME NEW c \in Conns, RecvEnd(c) PROVE PacketIdValid'
    BY <2>10 DEF RecvEnd, Goto
  <2>11. ASSUME NEW c \in Conns, SendReply(c) PROVE PacketIdValid'
    BY <2>11 DEF SendReply, Goto
  <2>12. ASSUME NEW c \in Conns, ReplyFails(c) PROVE PacketIdValid'
    BY <2>12 DEF ReplyFails, SendFails, Goto
  <2>13. ASSUME NEW c \in Conns, SendTo(c) PROVE PacketIdValid'
    BY <2>13 DEF SendTo, Sent, Goto
  <2>14. ASSUME NEW c \in Conns, SendToFails(c) PROVE PacketIdValid'
    BY <2>14 DEF SendToFails, SendFails, Sent, Goto
  <2>15. ASSUME NEW c \in Conns, Register(c) PROVE PacketIdValid'
    BY <2>15 DEF Register, Goto
  <2>16. ASSUME NEW c \in Conns, Leave(c) PROVE PacketIdValid'
    BY <2>16 DEF Leave, Goto
  <2>17. ASSUME NEW c \in Conns, CloseSock(c) PROVE PacketIdValid'
    BY <2>17 DEF CloseSock, Goto
  <2>18. ASSUME NEW c \in Conns, Snapshot(c) PROVE PacketIdValid'
    BY <2>18 DEF Snapshot, Goto
  <2>19. ASSUME NEW c \in Conns, NEW t \in Conns, Target(c, t)
       PROVE  PacketIdValid'
    <3>1. \/ UNCHANGED out
          \/ \E p \in Packet : /\ p.id = 0 <=> p.qos = 0
                               /\ out' = [out EXCEPT ![c] = p]
      <4> HIDE DEF TypeOK
      <4>1. QED
        BY <2>19, TargetStep
    <3>2. QED
      BY <3>1
  <2>20. ASSUME NEW c \in Conns, Delivered(c) PROVE PacketIdValid'
    BY <2>20 DEF Delivered, Goto
  <2>21. CASE BrokerClose
    BY <2>21 DEF BrokerClose
  <2>22. CASE CloseClient
    BY <2>22 DEF CloseClient
  <2>23. CASE CloseReturns
    BY <2>23 DEF CloseReturns
  <2>24. CASE UNCHANGED vars
    BY <2>24 DEF vars
  <2>25. QED
    <3> HIDE DEF PacketIdValid, TypeOK, HandlerTypeOK, fan
    <3>1. QED
      BY <2>1, <2>2, <2>3, <2>4, <2>5, <2>6, <2>7, <2>8, <2>9, <2>10, <2>11,
         <2>12, <2>13, <2>14, <2>15, <2>16, <2>17, <2>18, <2>19, <2>20, <2>21,
         <2>22, <2>23, <2>24 DEF Next, Recv, Step
<1>3. QED
  BY <1>1, <1>2, TypeInvariant, PTL DEF Spec

-----------------------------------------------------------------------------
(* Broker.Close: the flag goes up with its snapshot, so that a handler     *)
(* that registers later sees it, and every client of the snapshot that     *)
(* still has an open socket is one that Close has yet to close.            *)

CloseInv ==
  /\ bclosed <=> closer # "idle"
  /\ closer = "busy" => \A c \in clients : open[c] => c \in closing
  /\ closer = "done" => \A c \in clients : ~open[c]

LEMMA CloseInvariant == Spec => []CloseInv
<1>1. Init => CloseInv
  BY DEF Init, CloseInv
<1>2. TypeOK /\ HandlerInv /\ CloseInv /\ [Next]_vars => CloseInv'
  <2> SUFFICES ASSUME TypeOK, HandlerInv, CloseInv, [Next]_vars
               PROVE  CloseInv'
    OBVIOUS
  <2> USE DEF TypeOK, BrokerTypeOK, CloseInv, session, fan, peers
  <2>1. ASSUME NEW c \in Conns, NEW a \in BOOLEAN, RecvConnect(c, a)
       PROVE  CloseInv'
    BY <2>1 DEF RecvConnect, Reply, Goto
  <2>2. ASSUME NEW c \in Conns, RecvPing(c) PROVE CloseInv'
    BY <2>2 DEF RecvPing, InLoop, Reply, Goto
  <2>3. ASSUME NEW c \in Conns, NEW f \in Filters, RecvUnsubscribe(c, f)
       PROVE  CloseInv'
    BY <2>3 DEF RecvUnsubscribe, InLoop, Reply, Goto
  <2>4. ASSUME NEW c \in Conns, NEW f \in Filters, NEW q \in Asked,
               RecvSubscribe(c, f, q)
       PROVE  CloseInv'
    BY <2>4 DEF RecvSubscribe, InLoop, Reply, Goto
  <2>5. ASSUME NEW c \in Conns, NEW m \in Msgs, RecvPublish(c, m)
       PROVE  CloseInv'
    BY <2>5 DEF RecvPublish, InLoop, Reply, Goto, Owe
  <2>6. ASSUME NEW c \in Conns, NEW m \in Msgs, RecvPublish2(c, m)
       PROVE  CloseInv'
    BY <2>6 DEF RecvPublish2, InLoop, Reply, Goto
  <2>7. ASSUME NEW c \in Conns, NEW m \in Msgs, RecvPubrel(c, m)
       PROVE  CloseInv'
    BY <2>7 DEF RecvPubrel, InLoop, Reply, Goto, Owe
  <2>8. ASSUME NEW c \in Conns, NEW i \in 1..IdMax, RecvPubrec(c, i)
       PROVE  CloseInv'
    BY <2>8 DEF RecvPubrec, InLoop, Reply, Goto
  <2>9. ASSUME NEW c \in Conns, RecvNoConnect(c) PROVE CloseInv'
    BY <2>9 DEF RecvNoConnect, Goto
  <2>10. ASSUME NEW c \in Conns, RecvEnd(c) PROVE CloseInv'
    BY <2>10 DEF RecvEnd, Goto
  <2>11. ASSUME NEW c \in Conns, SendReply(c) PROVE CloseInv'
    BY <2>11 DEF SendReply, Goto
  <2>12. ASSUME NEW c \in Conns, ReplyFails(c) PROVE CloseInv'
    BY <2>12 DEF ReplyFails, SendFails, Goto
  <2>13. ASSUME NEW c \in Conns, SendTo(c) PROVE CloseInv'
    BY <2>13 DEF SendTo, Sent, Goto
  <2>14. ASSUME NEW c \in Conns, SendToFails(c) PROVE CloseInv'
    BY <2>14 DEF SendToFails, SendFails, Sent, Goto
  <2>15. ASSUME NEW c \in Conns, Register(c) PROVE CloseInv'
    BY <2>15 DEF Register, Goto
  <2>16. ASSUME NEW c \in Conns, Leave(c) PROVE CloseInv'
    BY <2>16 DEF Leave, Goto
  <2>17. ASSUME NEW c \in Conns, CloseSock(c) PROVE CloseInv'
    BY <2>17 DEF CloseSock, Goto
  <2>18. ASSUME NEW c \in Conns, Snapshot(c) PROVE CloseInv'
    BY <2>18 DEF Snapshot, Goto
  <2>19. ASSUME NEW c \in Conns, NEW t \in Conns, Target(c, t) PROVE CloseInv'
    BY <2>19 DEF Target, Goto
  <2>20. ASSUME NEW c \in Conns, Delivered(c) PROVE CloseInv'
    BY <2>20 DEF Delivered, Goto
  <2>21. CASE BrokerClose
    BY <2>21 DEF BrokerClose
  <2>22. CASE CloseClient
    BY <2>22 DEF CloseClient
  <2>23. CASE CloseReturns
    BY <2>23 DEF CloseReturns
  <2>24. CASE UNCHANGED vars
    BY <2>24 DEF vars
  <2>25. QED
    <3> HIDE DEF TypeOK, BrokerTypeOK, CloseInv, session, fan, peers
    <3>1. QED
      BY <2>1, <2>2, <2>3, <2>4, <2>5, <2>6, <2>7, <2>8, <2>9, <2>10, <2>11,
         <2>12, <2>13, <2>14, <2>15, <2>16, <2>17, <2>18, <2>19, <2>20, <2>21,
         <2>22, <2>23, <2>24 DEF Next, Recv, Step
<1>3. QED
  BY <1>1, <1>2, TypeInvariant, PTL DEF Spec

(* "Close disconnects every connected client": when it has returned no     *)
(* registered client has an open socket.                                   *)
THEOREM CloseDisconnects == Spec => []ClosedMeansDisconnected
<1>1. CloseInv => ClosedMeansDisconnected
  BY DEF CloseInv, ClosedMeansDisconnected
<1>2. QED
  BY <1>1, CloseInvariant, PTL

-----------------------------------------------------------------------------
(* QoS 2.  A message belongs to nobody while it is fresh, then to the      *)
(* client that stored it, then to the handler that delivers it, and then   *)
(* to nobody again; until the fan-out no client has been sent it, and      *)
(* during the fan-out none of those that are left.                         *)

Untouched(m) == \A c \in Conns : got[c][m] = 0
Has(c, m)    == m \in inbound2[c] \/ msg[c] = m

NotYet(m)  == m \in fresh => /\ Untouched(m)
                             /\ \A c \in Conns : /\ ~Has(c, m)
                                                 /\ <<c, m>> \notin held
Stored(m)  == \A c \in Conns :
                /\ <<c, m>> \in held => m \in inbound2[c]
                /\ m \in inbound2[c] => msg[c] # m /\ Untouched(m)
OneOwner(m) == \A c, d \in Conns : Has(c, m) /\ Has(d, m) => c = d
Pending(m) == \A h \in Conns : msg[h] = m =>
                /\ pc[h] \in {"reply", "deliver"} => Untouched(m)
                /\ pc[h] \in {"fan", "send"} =>
                     \A t \in todo[h] : got[t][m] = 0
                /\ pc[h] = "send" => /\ got[out[h].to][m] = 0
                                     /\ out[h].to \notin todo[h]
AtMostOnce(m) == \A c \in Conns : got[c][m] <= 1

Once(m) == NotYet(m) /\ Stored(m) /\ OneOwner(m) /\ Pending(m) /\ AtMostOnce(m)
OnceInv == \A m \in Msgs : Qos[m] = 2 => Once(m)

LEMMA OnceInvariant == Spec => []OnceInv
<1>1. Init => OnceInv
  <2> SUFFICES ASSUME Init, NEW m \in Msgs PROVE Once(m)
    BY DEF OnceInv
  <2>1. /\ \A c \in Conns : got[c][m] = 0 /\ msg[c] = None /\ inbound2[c] = {}
        /\ held = {} /\ m # None
    BY ConstantsType DEF Init
  <2>2. QED
    BY <2>1 DEF Once, NotYet, Stored, OneOwner, Pending, AtMostOnce,
                Untouched, Has
<1>2. TypeOK /\ HandlerInv /\ OnceInv /\ [Next]_vars => OnceInv'
  <2> SUFFICES ASSUME TypeOK, HandlerInv, OnceInv, [Next]_vars,
                      NEW n \in Msgs, Qos[n] = 2
               PROVE  Once(n)'
    BY DEF OnceInv
  <2>0. Once(n) /\ n # None
    BY ConstantsType DEF OnceInv
  <2> USE <2>0 DEF TypeOK, SessionTypeOK, HandlerTypeOK, HistoryTypeOK,
          HandlerInv, Delivering, session, fan, peers,
          Once, NotYet, Stored, OneOwner, Pending, AtMostOnce, Untouched, Has
  <2>1. ASSUME NEW c \in Conns, NEW a \in BOOLEAN, RecvConnect(c, a)
       PROVE  Once(n)'
    BY <2>1 DEF RecvConnect, Reply, Goto
  <2>2. ASSUME NEW c \in Conns, RecvPing(c) PROVE Once(n)'
    BY <2>2 DEF RecvPing, InLoop, Reply, Goto
  <2>3. ASSUME NEW c \in Conns, NEW f \in Filters, RecvUnsubscribe(c, f)
       PROVE  Once(n)'
    BY <2>3 DEF RecvUnsubscribe, InLoop, Reply, Goto
  <2>4. ASSUME NEW c \in Conns, NEW f \in Filters, NEW q \in Asked,
               RecvSubscribe(c, f, q)
       PROVE  Once(n)'
    BY <2>4 DEF RecvSubscribe, InLoop, Reply, Goto
  <2>5. ASSUME NEW c \in Conns, NEW m \in Msgs, RecvPublish(c, m)
       PROVE  Once(n)'
    BY <2>5 DEF RecvPublish, InLoop, Reply, Goto, Owe
  <2>6. ASSUME NEW c \in Conns, NEW m \in Msgs, RecvPublish2(c, m)
       PROVE  Once(n)'
    <3>1. CASE n # m
      BY <2>6, <3>1 DEF RecvPublish2, InLoop, Reply, Goto
    <3>2. CASE n = m
      <4>1. /\ pc[c] = "loop" /\ msg[c] = None /\ Untouched(n)
            /\ n \in fresh \/ n \in inbound2[c]
            /\ \A h \in Conns : msg[h] # n
        BY <2>6, <3>2 DEF RecvPublish2, InLoop
      <4>2. /\ fresh' = fresh \ {n} /\ held' = held \cup {<<c, n>>}
            /\ inbound2' = [inbound2 EXCEPT ![c] = inbound2[c] \cup {n}]
            /\ UNCHANGED <<msg, got>>
        BY <2>6, <3>2 DEF RecvPublish2
      <4>3. NotYet(n)' /\ Pending(n)' /\ AtMostOnce(n)'
        BY <4>1, <4>2
      <4>4. Stored(n)'
        BY <4>1, <4>2
      <4>5. OneOwner(n)'
        BY ZenonT(60), <4>1, <4>2
      <4>6. QED
        BY <4>3, <4>4, <4>5
    <3>3. QED
      BY <3>1, <3>2
  <2>7. ASSUME NEW c \in Conns, NEW m \in Msgs, RecvPubrel(c, m) PROVE Once(n)'
    BY <2>7 DEF RecvPubrel, InLoop, Reply, Goto, Owe
  <2>8. ASSUME NEW c \in Conns, NEW i \in 1..IdMax, RecvPubrec(c, i)
       PROVE  Once(n)'
    BY <2>8 DEF RecvPubrec, InLoop, Reply, Goto
  <2>9. ASSUME NEW c \in Conns, RecvNoConnect(c) PROVE Once(n)'
    BY <2>9 DEF RecvNoConnect, Goto
  <2>10. ASSUME NEW c \in Conns, RecvEnd(c) PROVE Once(n)'
    BY <2>10 DEF RecvEnd, Goto
  <2>11. ASSUME NEW c \in Conns, SendReply(c) PROVE Once(n)'
    BY <2>11 DEF SendReply, Goto
  <2>12. ASSUME NEW c \in Conns, ReplyFails(c) PROVE Once(n)'
    BY <2>12 DEF ReplyFails, SendFails, Goto
  <2>13. ASSUME NEW c \in Conns, SendTo(c) PROVE Once(n)'
    <3> DEFINE t == out[c].to
    <3>1. t \in Conns /\ msg[c] \in Msgs /\ pc[c] = "send"
      BY <2>13 DEF SendTo, Packet
    <3>2. /\ pc' = [pc EXCEPT ![c] = "fan"] /\ out' = [out EXCEPT ![c] = None]
          /\ got' = [got EXCEPT ![t] =
                       [got[t] EXCEPT ![msg[c]] = got[t][msg[c]] + 1]]
          /\ UNCHANGED <<inbound2, msg, todo, fresh, held>>
      BY <2>13 DEF SendTo, Sent, Goto
    <3>3. CASE msg[c] # n
      <4>1. \A d \in Conns : got'[d][n] = got[d][n]
        BY <3>1, <3>2, <3>3
      <4>2. NotYet(n)' /\ Stored(n)' /\ OneOwner(n)' /\ AtMostOnce(n)'
        BY <3>2, <4>1
      <4>3. \A d \in Conns : msg[d] = n => pc'[d] = pc[d] /\ out'[d] = out[d]
        BY <3>2, <3>3
      <4>4. Pending(n)'
        BY <3>1, <3>2, <4>1, <4>3
      <4>5. QED
        BY <4>2, <4>4
    <3>4. CASE msg[c] = n
      <4>1. /\ got[t][n] = 0 /\ t \notin todo[c]
            /\ \A h \in Conns : n \notin inbound2[h] /\ (msg[h] = n => h = c)
            /\ n \notin fresh /\ \A h \in Conns : <<h, n>> \notin held
        BY <3>1, <3>4
      <4>2. \A d \in Conns : got'[d][n] = IF d = t THEN 1 ELSE got[d][n]
        BY <3>1, <3>2, <3>4, <4>1
      <4>3. todo[c] \subseteq Conns /\ pc'[c] = "fan"
        BY <3>2
      <4> HIDE DEF t
      <4>4. Pending(n)'
        BY <3>2, <4>1, <4>2, <4>3
      <4>5. QED
        BY <3>2, <4>1, <4>2, <4>4
    <3>5. QED
      BY <3>3, <3>4
  <2>14. ASSUME NEW c \in Conns, SendToFails(c) PROVE Once(n)'
    BY <2>14 DEF SendToFails, SendFails, Sent, Goto
  <2>15. ASSUME NEW c \in Conns, Register(c) PROVE Once(n)'
    BY <2>15 DEF Register, Goto
  <2>16. ASSUME NEW c \in Conns, Leave(c) PROVE Once(n)'
    BY <2>16 DEF Leave, Goto
  <2>17. ASSUME NEW c \in Conns, CloseSock(c) PROVE Once(n)'
    BY <2>17 DEF CloseSock, Goto
  <2>18. ASSUME NEW c \in Conns, Snapshot(c) PROVE Once(n)'
    <3>1. /\ pc[c] = "deliver" /\ pc' = [pc EXCEPT ![c] = "fan"]
          /\ todo' = [todo EXCEPT ![c] = clients]
          /\ UNCHANGED <<inbound2, msg, out, fresh, held, got>>
      BY <2>18 DEF Snapshot, Goto
    <3>2. clients \subseteq Conns
      BY DEF BrokerTypeOK
    <3>3. Pending(n)'
      BY <3>1, <3>2
    <3>4. QED
      BY <3>1, <3>3
  <2>19. ASSUME NEW c \in Conns, NEW t \in Conns, Target(c, t) PROVE Once(n)'
    BY <2>19 DEF Target, Goto
  <2>20. ASSUME NEW c \in Conns, Delivered(c) PROVE Once(n)'
    BY <2>20 DEF Delivered, Goto
  <2>21. CASE BrokerClose
    BY <2>21 DEF BrokerClose
  <2>22. CASE CloseClient
    BY <2>22 DEF CloseClient
  <2>23. CASE CloseReturns
    BY <2>23 DEF CloseReturns
  <2>24. CASE UNCHANGED vars
    BY <2>24 DEF vars
  <2>25. QED
    <3> HIDE DEF TypeOK, SessionTypeOK, HandlerTypeOK, HistoryTypeOK,
            HandlerInv, Delivering, session, fan, peers, Once, NotYet,
            Stored, OneOwner, Pending, AtMostOnce, Untouched, Has
    <3>1. QED
      BY <2>1, <2>2, <2>3, <2>4, <2>5, <2>6, <2>7, <2>8, <2>9, <2>10, <2>11,
         <2>12, <2>13, <2>14, <2>15, <2>16, <2>17, <2>18, <2>19, <2>20, <2>21,
         <2>22, <2>23, <2>24 DEF Next, Recv, Step
<1>3. QED
  BY <1>1, <1>2, TypeInvariant, PTL DEF Spec

(* However often PUBLISH and PUBREL are repeated, no subscriber is sent a  *)
(* QoS 2 message twice.                                                    *)
THEOREM Qos2DeliveredOnce == Spec => []Qos2OnlyOnce
<1>1. OnceInv => Qos2OnlyOnce
  BY DEF OnceInv, Once, AtMostOnce, Qos2OnlyOnce
<1>2. QED
  BY <1>1, OnceInvariant, PTL

-----------------------------------------------------------------------------
(* Fan-out.  A client with a SUBACK, or one that is about to get it, is    *)
(* subscribed; whoever is owed a message is registered, has a matching     *)
(* SUBACK, and is among the targets that the fan-out has still to serve.   *)

Subscribed(t, f) == \E s \in subs[t] : s[1] = f
Answers(t, f)    == pc[t] = "reply" /\ reply[t][1] = <<"SUBACK", f>>

AckedInv == \A t \in Conns, f \in Filters :
              <<t, f>> \in acked \/ Answers(t, f) => Subscribed(t, f)

Deserves(t) == t \in clients /\ \E f \in Matching : <<t, f>> \in acked

Owes(h) ==
  /\ \A t \in owed[h] : Deserves(t)
  /\ ~Delivering(h) => owed[h] = {}
  /\ pc[h] = "fan" => owed[h] \subseteq todo[h]
  /\ pc[h] = "send" => owed[h] \subseteq todo[h] \cup {out[h].to}

OwedInv == \A h \in Conns : Owes(h)

LEMMA AckedInvariant == Spec => []AckedInv
<1>1. Init => AckedInv
  BY DEF Init, AckedInv, Answers
<1>2. TypeOK /\ HandlerInv /\ AckedInv /\ [Next]_vars => AckedInv'
  <2> SUFFICES ASSUME TypeOK, HandlerInv, AckedInv, [Next]_vars,
                      NEW u \in Conns, NEW e \in Filters
               PROVE  (<<u, e>> \in acked \/ Answers(u, e)
                         => Subscribed(u, e))'
    BY DEF AckedInv
  <2> DEFINE Fine == <<u, e>> \in acked \/ Answers(u, e) => Subscribed(u, e)
  <2>0. Fine
    BY DEF AckedInv
  <2> USE <2>0 DEF TypeOK, SessionTypeOK, HandlerTypeOK, HistoryTypeOK,
          session, fan, peers, Answers, Subscribed
  <2>1. ASSUME NEW c \in Conns, NEW a \in BOOLEAN, RecvConnect(c, a)
       PROVE  Fine'
    BY <2>1 DEF RecvConnect, Reply, Goto
  <2>2. ASSUME NEW c \in Conns, RecvPing(c) PROVE Fine'
    BY <2>2 DEF RecvPing, InLoop, Reply, Goto
  <2>3. ASSUME NEW c \in Conns, NEW f \in Filters, RecvUnsubscribe(c, f)
       PROVE  Fine'
    BY <2>3 DEF RecvUnsubscribe, InLoop, Reply, Goto
  <2>4. ASSUME NEW c \in Conns, NEW f \in Filters, NEW q \in Asked,
               RecvSubscribe(c, f, q)
       PROVE  Fine'
    <3>1. /\ pc' = [pc EXCEPT ![c] = "reply"] /\ UNCHANGED acked
          /\ reply' = [reply EXCEPT ![c] = <<<<"SUBACK", f>>, "loop">>]
          /\ subs' = [subs EXCEPT ![c] = {s \in subs[c] : s[1] # f}
                                          \cup {<<f, q>>}]
      BY <2>4 DEF RecvSubscribe, Reply, Goto
    <3>2. CASE u # c
      BY <3>1, <3>2
    <3>3. CASE u = c /\ e # f
      <4>1. ~Answers(u, e)'
        BY <3>1, <3>3
      <4>2. \A s \in subs[u] : s[1] = e => s \in subs'[u]
        BY <3>1, <3>3
      <4>3. QED
        BY <3>1, <4>1, <4>2
    <3>4. CASE u = c /\ e = f
      <4>1. <<f, q>> \in subs'[u]
        BY <3>1, <3>4
      <4>2. QED
        BY <3>4, <4>1
    <3>5. QED
      BY <3>2, <3>3, <3>4
  <2>5. ASSUME NEW c \in Conns, NEW m \in Msgs, RecvPublish(c, m) PROVE Fine'
    BY <2>5 DEF RecvPublish, InLoop, Reply, Goto, Owe
  <2>6. ASSUME NEW c \in Conns, NEW m \in Msgs, RecvPublish2(c, m) PROVE Fine'
    BY <2>6 DEF RecvPublish2, InLoop, Reply, Goto
  <2>7. ASSUME NEW c \in Conns, NEW m \in Msgs, RecvPubrel(c, m) PROVE Fine'
    BY <2>7 DEF RecvPubrel, InLoop, Reply, Goto, Owe
  <2>8. ASSUME NEW c \in Conns, NEW i \in 1..IdMax, RecvPubrec(c, i)
       PROVE  Fine'
    BY <2>8 DEF RecvPubrec, InLoop, Reply, Goto
  <2>9. ASSUME NEW c \in Conns, RecvNoConnect(c) PROVE Fine'
    BY <2>9 DEF RecvNoConnect, Goto
  <2>10. ASSUME NEW c \in Conns, RecvEnd(c) PROVE Fine'
    BY <2>10 DEF RecvEnd, Goto
  <2>11. ASSUME NEW c \in Conns, SendReply(c) PROVE Fine'
    <3>1. /\ pc[c] = "reply" /\ pc' = [pc EXCEPT ![c] = reply[c][2]]
          /\ reply' = [reply EXCEPT ![c] = None] /\ UNCHANGED subs
          /\ acked' = acked \cup
               {a \in {c} \X Filters : reply[c][1] = <<"SUBACK", a[2]>>}
      BY <2>11 DEF SendReply, Goto
    <3>2. reply[c][2] # "reply"
      BY <3>1, ReplyFacts
    <3>3. Answers(u, e)' => Answers(u, e)
      BY <3>1, <3>2
    <3>4. <<u, e>> \in acked' => <<u, e>> \in acked \/ Answers(u, e)
      BY <3>1
    <3>5. QED
      BY <3>1, <3>3, <3>4
  <2>12. ASSUME NEW c \in Conns, ReplyFails(c) PROVE Fine'
    BY <2>12 DEF ReplyFails, SendFails, Goto
  <2>13. ASSUME NEW c \in Conns, SendTo(c) PROVE Fine'
    BY <2>13 DEF SendTo, Sent, Goto
  <2>14. ASSUME NEW c \in Conns, SendToFails(c) PROVE Fine'
    BY <2>14 DEF SendToFails, SendFails, Sent, Goto
  <2>15. ASSUME NEW c \in Conns, Register(c) PROVE Fine'
    BY <2>15 DEF Register, Goto
  <2>16. ASSUME NEW c \in Conns, Leave(c) PROVE Fine'
    BY <2>16 DEF Leave, Goto
  <2>17. ASSUME NEW c \in Conns, CloseSock(c) PROVE Fine'
    BY <2>17 DEF CloseSock, Goto
  <2>18. ASSUME NEW c \in Conns, Snapshot(c) PROVE Fine'
    BY <2>18 DEF Snapshot, Goto
  <2>19. ASSUME NEW c \in Conns, NEW t \in Conns, Target(c, t) PROVE Fine'
    BY <2>19 DEF Target, Goto
  <2>20. ASSUME NEW c \in Conns, Delivered(c) PROVE Fine'
    BY <2>20 DEF Delivered, Goto
  <2>21. CASE BrokerClose
    BY <2>21 DEF BrokerClose
  <2>22. CASE CloseClient
    BY <2>22 DEF CloseClient
  <2>23. CASE CloseReturns
    BY <2>23 DEF CloseReturns
  <2>24. CASE UNCHANGED vars
    BY <2>24 DEF vars
  <2>25. QED
    <3> HIDE DEF TypeOK, SessionTypeOK, HandlerTypeOK, HistoryTypeOK,
            session, fan, peers, Answers, Subscribed
    <3>1. QED
      BY <2>1, <2>2, <2>3, <2>4, <2>5, <2>6, <2>7, <2>8, <2>9, <2>10, <2>11,
         <2>12, <2>13, <2>14, <2>15, <2>16, <2>17, <2>18, <2>19, <2>20, <2>21,
         <2>22, <2>23, <2>24 DEF Next, Recv, Step
<1>3. QED
  BY <1>1, <1>2, TypeInvariant, PTL DEF Spec

LEMMA OwedInvariant == Spec => []OwedInv
<1>1. Init => OwedInv
  BY DEF Init, OwedInv, Owes
<1>2. TypeOK /\ HandlerInv /\ AckedInv /\ OwedInv /\ [Next]_vars => OwedInv'
  <2> SUFFICES ASSUME TypeOK, HandlerInv, AckedInv, OwedInv, [Next]_vars,
                      NEW h \in Conns
               PROVE  Owes(h)'
    BY DEF OwedInv
  <2>0. Owes(h)
    BY DEF OwedInv
  <2> USE <2>0 DEF TypeOK, BrokerTypeOK, HandlerTypeOK, HistoryTypeOK,
          HandlerInv, Delivering, session, fan, peers, Owes, Deserves
  <2>1. ASSUME NEW c \in Conns, NEW a \in BOOLEAN, RecvConnect(c, a)
       PROVE  Owes(h)'
    BY <2>1 DEF RecvConnect, Reply, Goto
  <2>2. ASSUME NEW c \in Conns, RecvPing(c) PROVE Owes(h)'
    BY <2>2 DEF RecvPing, InLoop, Reply, Goto
  <2>3. ASSUME NEW c \in Conns, NEW f \in Filters, RecvUnsubscribe(c, f)
       PROVE  Owes(h)'
    BY <2>3 DEF RecvUnsubscribe, InLoop, Reply, Goto
  <2>4. ASSUME NEW c \in Conns, NEW f \in Filters, NEW q \in Asked,
               RecvSubscribe(c, f, q)
       PROVE  Owes(h)'
    BY <2>4 DEF RecvSubscribe, InLoop, Reply, Goto
  <2>5. ASSUME NEW c \in Conns, NEW m \in Msgs, RecvPublish(c, m)
       PROVE  Owes(h)'
    <3>1. CASE h # c
      <4>1. pc'[h] = pc[h] /\ UNCHANGED <<clients, acked, todo, out>>
        BY <2>5, <3>1 DEF RecvPublish, Reply, Goto
      <4>2. owed'[h] = owed[h] /\ reply'[h] = reply[h]
        BY <2>5, <3>1 DEF RecvPublish, Reply, Owe
      <4>3. QED
        BY <4>1, <4>2
    <3>2. CASE h = c
      <4>1. /\ owed'[c] = {t \in clients :
                            \E f \in Matching : <<t, f>> \in acked}
            /\ UNCHANGED <<clients, acked>>
        BY <2>5 DEF RecvPublish, Owe
      <4>2. \A t \in owed'[c] : Deserves(t)'
        BY <4>1
      <4>3. Delivering(c)' /\ pc'[c] \notin {"fan", "send"}
        <5>1. CASE Qos[m] = 0
          BY <2>5, <5>1 DEF RecvPublish, Goto
        <5>2. CASE Qos[m] # 0
          <6>1. /\ pc' = [pc EXCEPT ![c] = "reply"]
                /\ reply' = [reply EXCEPT ![c] = <<<<"PUBACK">>, "deliver">>]
            BY <2>5, <5>2 DEF RecvPublish, Reply, Goto
          <6>2. QED
            BY <6>1
        <5>3. QED
          BY <5>1, <5>2
      <4>4. QED
        BY <3>2, <4>2, <4>3
    <3>3. QED
      BY <3>1, <3>2
  <2>6. ASSUME NEW c \in Conns, NEW m \in Msgs, RecvPublish2(c, m)
       PROVE  Owes(h)'
    BY <2>6 DEF RecvPublish2, InLoop, Reply, Goto
  <2>7. ASSUME NEW c \in Conns, NEW m \in Msgs, RecvPubrel(c, m) PROVE Owes(h)'
    <3>1. /\ pc[c] = "loop" /\ pc' = [pc EXCEPT ![c] = "reply"]
          /\ UNCHANGED <<clients, acked, todo, out>>
      BY <2>7 DEF RecvPubrel, InLoop, Reply, Goto
    <3>2. CASE h # c
      <4>1. owed'[h] = owed[h] /\ reply'[h] = reply[h]
        BY <2>7, <3>2 DEF RecvPubrel, Reply, Owe
      <4>2. QED
        BY <3>1, <3>2, <4>1
    <3>3. CASE h = c /\ m \in inbound2[c]
      <4>1. /\ owed'[c] = {t \in clients :
                            \E f \in Matching : <<t, f>> \in acked}
            /\ reply' = [reply EXCEPT ![c] = <<<<"PUBCOMP">>, "deliver">>]
        BY <2>7, <3>3 DEF RecvPubrel, Reply, Owe
      <4>2. \A t \in owed'[c] : Deserves(t)'
        BY <3>1, <4>1
      <4>3. Delivering(c)' /\ pc'[c] \notin {"fan", "send"}
        BY <3>1, <4>1
      <4>4. QED
        BY <3>3, <4>2, <4>3
    <3>4. CASE h = c /\ m \notin inbound2[c]
      BY <2>7, <3>1, <3>4 DEF RecvPubrel
    <3>5. QED
      BY <3>2, <3>3, <3>4
  <2>8. ASSUME NEW c \in Conns, NEW i \in 1..IdMax, RecvPubrec(c, i)
       PROVE  Owes(h)'
    BY <2>8 DEF RecvPubrec, InLoop, Reply, Goto
  <2>9. ASSUME NEW c \in Conns, RecvNoConnect(c) PROVE Owes(h)'
    BY <2>9 DEF RecvNoConnect, Goto
  <2>10. ASSUME NEW c \in Conns, RecvEnd(c) PROVE Owes(h)'
    BY <2>10 DEF RecvEnd, Goto
  <2>11. ASSUME NEW c \in Conns, SendReply(c) PROVE Owes(h)'
    BY <2>11 DEF SendReply, Goto
  <2>12. ASSUME NEW c \in Conns, ReplyFails(c) PROVE Owes(h)'
    BY SMTT(60), <2>12 DEF ReplyFails, SendFails, Goto
  <2>13. ASSUME NEW c \in Conns, SendTo(c) PROVE Owes(h)'
    BY ZenonT(60), <2>13 DEF SendTo, Sent, Goto
  <2>14. ASSUME NEW c \in Conns, SendToFails(c) PROVE Owes(h)'
    BY ZenonT(60), <2>14 DEF SendToFails, SendFails, Sent, Goto
  <2>15. ASSUME NEW c \in Conns, Register(c) PROVE Owes(h)'
    BY <2>15 DEF Register, Goto
  <2>16. ASSUME NEW c \in Conns, Leave(c) PROVE Owes(h)'
    BY <2>16 DEF Leave, Goto
  <2>17. ASSUME NEW c \in Conns, CloseSock(c) PROVE Owes(h)'
    BY <2>17 DEF CloseSock, Goto
  <2>18. ASSUME NEW c \in Conns, Snapshot(c) PROVE Owes(h)'
    BY <2>18 DEF Snapshot, Goto
  <2>19. ASSUME NEW c \in Conns, NEW t \in Conns, Target(c, t) PROVE Owes(h)'
    <3>1. /\ pc[c] = "fan" /\ t \in todo[c]
          /\ todo' = [todo EXCEPT ![c] = todo[c] \ {t}]
          /\ UNCHANGED <<clients, reply, acked, owed>>
          /\ \/ /\ \A s \in subs[t] : s[1] \notin Matching
                /\ UNCHANGED <<pc, out>>
             \/ /\ pc' = [pc EXCEPT ![c] = "send"] /\ out'[c].to = t
                /\ \A d \in Conns \ {c} : out'[d] = out[d]
      <4>1. UNCHANGED <<clients, reply, acked, owed>>
        BY <2>19 DEF Target
      <4>2. QED
        BY <2>19, <4>1 DEF Target, Goto
    <3>2. CASE h # c
      BY SMTT(60), <3>1, <3>2
    <3>3. CASE h = c /\ UNCHANGED <<pc, out>>
                    /\ \A s \in subs[t] : s[1] \notin Matching
      <4>1. ASSUME NEW f \in Matching PROVE <<t, f>> \notin acked
        <5>1. f \in Filters /\ ~Subscribed(t, f)
          BY <3>3, ConstantsType DEF Subscribed
        <5>2. QED
          BY <5>1 DEF AckedInv
      <4>2. t \notin owed[c]
        BY <3>3, <4>1
      <4>3. /\ pc'[c] = "fan" /\ owed'[c] = owed[c]
            /\ owed[c] \subseteq todo[c] /\ todo'[c] = todo[c] \ {t}
        BY <3>1, <3>3
      <4>4. owed'[c] \subseteq todo'[c]
        BY <4>2, <4>3
      <4>5. \A x \in owed'[c] : Deserves(x)'
        BY <3>1, <3>3
      <4>6. QED
        BY <3>3, <4>3, <4>4, <4>5
    <3>4. CASE h = c /\ pc'[c] = "send" /\ out'[c].to = t
      <4>1. /\ owed'[c] = owed[c] /\ owed[c] \subseteq todo[c]
            /\ todo'[c] = todo[c] \ {t}
        BY <3>1, <3>4
      <4>2. owed'[c] \subseteq todo'[c] \cup {out'[c].to}
        BY <3>4, <4>1
      <4>3. \A x \in owed'[c] : Deserves(x)'
        BY <3>1, <3>4
      <4>4. QED
        BY <3>4, <4>2, <4>3
    <3>5. QED
      BY <3>1, <3>2, <3>3, <3>4
  <2>20. ASSUME NEW c \in Conns, Delivered(c) PROVE Owes(h)'
    BY <2>20 DEF Delivered, Goto
  <2>21. CASE BrokerClose
    BY <2>21 DEF BrokerClose
  <2>22. CASE CloseClient
    BY <2>22 DEF CloseClient
  <2>23. CASE CloseReturns
    BY <2>23 DEF CloseReturns
  <2>24. CASE UNCHANGED vars
    BY <2>24 DEF vars
  <2>25. QED
    <3> HIDE DEF TypeOK, BrokerTypeOK, HandlerTypeOK, HistoryTypeOK,
            HandlerInv, Delivering, session, fan, peers, Owes, Deserves
    <3>1. QED
      BY <2>1, <2>2, <2>3, <2>4, <2>5, <2>6, <2>7, <2>8, <2>9, <2>10, <2>11,
         <2>12, <2>13, <2>14, <2>15, <2>16, <2>17, <2>18, <2>19, <2>20, <2>21,
         <2>22, <2>23, <2>24 DEF Next, Recv, Step
<1>3. QED
  BY <1>1, <1>2, TypeInvariant, AckedInvariant, PTL DEF Spec

(* Every client that has its SUBACK when the broker takes on a message,    *)
(* and stays, was served when the publisher's handler turns to its next    *)
(* packet.                                                                 *)
THEOREM SubscribersServed == Spec => []AckedSubscribersServed
<1>1. OwedInv => AckedSubscribersServed
  BY DEF OwedInv, Owes, Delivering, AckedSubscribersServed
<1>2. QED
  BY <1>1, OwedInvariant, PTL
==============================================================================
