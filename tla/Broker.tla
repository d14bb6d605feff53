------------------------------- MODULE Broker -------------------------------
(***************************************************************************)
(* The interoperability broker (src/interop/broker.go).  Each connection   *)
(* has a handler goroutine; a handler that delivers a publish writes to    *)
(* the sockets of the others.  A critical section of b.mu or of a client's *)
(* mu is one step: neither is held across a call that can block, nor while *)
(* the other is taken.                                                     *)
(*                                                                         *)
(* A socket is what Socket promises: Send writes a whole packet or fails,  *)
(* Recv yields the peer's packets in order until it fails.  A timeout of   *)
(* the keep alive is one way for Recv to fail.  Receiving a packet picks   *)
(* any packet a client that follows the protocol may send next.  There is  *)
(* one topic; a message's id is the message itself.                        *)
(***************************************************************************)
EXTENDS Naturals, FiniteSets

CONSTANTS
  Conns,          \* connections, each with its handler and its client
  Filters,        \* topic filters clients subscribe to
  Matching,       \* the filters that match the topic (MatchFilter)
  Msgs, Qos,      \* messages clients publish; Qos[m] in 0..2
  Asked,          \* the QoS levels clients ask for in SUBSCRIBE
  IdMax,          \* the largest packet id: 2^16 - 1 in the code
  Stalling,       \* ws connections whose client may keep renewing the idle
                  \* timeout with empty messages and send no CONNECT
  None

(* What a deliver sends, and what a handler answers its own client.        *)
Packet == [to : Conns, qos : 0..2, id : 0..IdMax]
Answer == {<<p>> : p \in {"CONNACK", "PINGRESP", "UNSUBACK", "PUBACK", "PUBREC",
                          "PUBREL", "PUBCOMP"}}
          \cup {"SUBACK"} \X Filters
Replies == Answer \X {"register", "close", "loop", "deliver"}

ASSUME ConstantsType ==
  /\ Matching \subseteq Filters
  /\ Qos \in [Msgs -> 0..2] /\ Asked \subseteq 0..2
  /\ IdMax \in Nat \ {0} /\ Stalling \subseteq Conns
  /\ None \notin Msgs \cup Conns /\ None \notin Packet /\ None \notin Replies

VARIABLES
  bclosed,        \* Broker.closed
  clients,        \* Broker.clients
  closing,        \* sockets Broker.Close has yet to close
  closer,         \* the goroutine in Broker.Close: "idle", "busy", "done"
  open,           \* open[c]: c's socket
  subs,           \* client.subs: a set of <<filter, granted>>
  nextID,         \* client.nextID
  inbound2,       \* client.inbound2
  outbound2,      \* client.outbound2
  pc,             \* control of each handler
  reply,          \* <<packet, label>>: what a handler sends to its own
                  \* client, and where it goes then; else None
  msg, todo,      \* deliver: its message and the targets left
  out,            \* deliver: the packet it sends, and to which target
  fresh,          \* messages nobody has published yet
  held,           \* <<c, m>>: c has published m at QoS 2 and not released it
  released,       \* <<c, m>>: c has sent PUBREL for m
  acked,          \* <<c, f>>: c has a SUBACK for f and has not unsubscribed
  owed,           \* owed[h]: clients that must get the message h delivers
  got             \* got[c][m]: how often m was sent to c

session == <<subs, nextID, inbound2, outbound2>>
fan     == <<msg, todo, out>>
peers   == <<fresh, held, released>>
vars    == <<bclosed, clients, closing, closer, open, session, pc, reply,
             fan, peers, acked, owed, got>>

Goto(c, l) == pc' = [pc EXCEPT ![c] = l]

(* A handler sends packet p to its own client and then goes to l.          *)
Reply(c, p, l) == /\ Goto(c, "reply")
                  /\ reply' = [reply EXCEPT ![c] = <<p, l>>]

(* Send fails on a closed socket, and may fail on an open one; a failure   *)
(* halfway closes the socket.                                              *)
SendFails(c) == open' \in {open, [open EXCEPT ![c] = FALSE]}

-----------------------------------------------------------------------------
(* handle: from the first packet to the loop *)

RecvConnect(c, accepted) ==
  /\ pc[c] = "connect" /\ open[c]
  /\ Reply(c, <<"CONNACK">>, IF accepted THEN "register" ELSE "close")
  /\ UNCHANGED <<bclosed, clients, closing, closer, open, session, fan, peers,
                 acked, owed, got>>

RecvNoConnect(c) ==       \* another packet, an error, or the 30 s are over
  /\ pc[c] = "connect"
  /\ Goto(c, "close")
  /\ UNCHANGED <<bclosed, clients, closing, closer, open, session, reply, fan,
                 peers, acked, owed, got>>

(* Mutant: the client is registered without a look at the flag.            *)
RegisterUnchecked(c) ==
  /\ pc[c] = "register"
  /\ Goto(c, "loop") /\ clients' = clients \cup {c}
  /\ UNCHANGED <<bclosed, closing, closer, open, session, reply, fan, peers,
                 acked, owed, got>>

Register(c) ==
  /\ pc[c] = "register"
  /\ IF bclosed THEN Goto(c, "close") /\ UNCHANGED clients
                ELSE Goto(c, "loop") /\ clients' = clients \cup {c}
  /\ UNCHANGED <<bclosed, closing, closer, open, session, reply, fan, peers,
                 acked, owed, got>>

(* Recv fails, or dispatch refuses the packet: the loop ends.              *)
RecvEnd(c) ==
  /\ pc[c] = "loop"
  /\ Goto(c, "leave")
  /\ UNCHANGED <<bclosed, clients, closing, closer, open, session, reply, fan,
                 peers, acked, owed, got>>

Leave(c) ==               \* the deferred delete from b.clients
  /\ pc[c] = "leave"
  /\ clients' = clients \ {c}
  /\ owed' = [h \in Conns |-> owed[h] \ {c}]
  /\ acked' = {x \in acked : x[1] # c}
  /\ held' = {x \in held : x[1] # c}
  /\ released' = {x \in released : x[1] # c}
  /\ Goto(c, "close")
  /\ UNCHANGED <<bclosed, closing, closer, open, session, reply, fan, fresh,
                 got>>

CloseSock(c) ==           \* Serve's deferred sock.Close
  /\ pc[c] = "close"
  /\ open' = [open EXCEPT ![c] = FALSE]
  /\ Goto(c, "end")
  /\ UNCHANGED <<bclosed, clients, closing, closer, session, reply, fan,
                 peers, acked, owed, got>>

-----------------------------------------------------------------------------
(* dispatch: one action per packet type *)

InLoop(c) == pc[c] = "loop" /\ open[c]

RecvPing(c) ==
  /\ InLoop(c)
  /\ Reply(c, <<"PINGRESP">>, "loop")
  /\ UNCHANGED <<bclosed, clients, closing, closer, open, session, fan, peers,
                 acked, owed, got>>

RecvSubscribe(c, f, q) ==
  /\ InLoop(c)
  /\ subs' = [subs EXCEPT ![c] = {s \in @ : s[1] # f} \cup {<<f, q>>}]
  /\ Reply(c, <<"SUBACK", f>>, "loop")
  /\ UNCHANGED <<bclosed, clients, closing, closer, open, nextID, inbound2,
                 outbound2, fan, peers, acked, owed, got>>

RecvUnsubscribe(c, f) ==
  /\ InLoop(c)
  /\ subs' = [subs EXCEPT ![c] = {s \in @ : s[1] # f}]
  /\ acked' = acked \ {<<c, f>>}
  /\ owed' = [h \in Conns |-> IF \E g \in Matching : <<c, g>> \in acked'
                              THEN owed[h] ELSE owed[h] \ {c}]
  /\ Reply(c, <<"UNSUBACK">>, "loop")
  /\ UNCHANGED <<bclosed, clients, closing, closer, open, nextID, inbound2,
                 outbound2, fan, peers, got>>

(* Who must get a message that c's handler delivers from now on.           *)
Owe(c) == owed' = [owed EXCEPT ![c] =
            {t \in clients : \E f \in Matching : <<t, f>> \in acked}]

RecvPublish(c, m) ==      \* QoS 0 or 1
  /\ InLoop(c) /\ m \in fresh /\ Qos[m] < 2
  /\ fresh' = fresh \ {m}
  /\ msg' = [msg EXCEPT ![c] = m]
  /\ Owe(c)
  /\ IF Qos[m] = 0 THEN Goto(c, "deliver") /\ UNCHANGED reply
                   ELSE Reply(c, <<"PUBACK">>, "deliver")
  /\ UNCHANGED <<bclosed, clients, closing, closer, open, session, todo, out,
                 held, released, acked, got>>

(* QoS 2: the message is stored until PUBREL; the client may send it again *)
(* until then.                                                             *)
RecvPublish2(c, m) ==
  /\ InLoop(c) /\ Qos[m] = 2
  /\ m \in fresh \/ (<<c, m>> \in held)
  /\ fresh' = fresh \ {m} /\ held' = held \cup {<<c, m>>}
  /\ inbound2' = [inbound2 EXCEPT ![c] = @ \cup {m}]
  /\ Reply(c, <<"PUBREC">>, "loop")
  /\ UNCHANGED <<bclosed, clients, closing, closer, open, subs, nextID,
                 outbound2, fan, released, acked, owed, got>>

(* Mutant: PUBREL leaves the message stored.                               *)
RecvPubrelKeep(c, m) ==
  /\ InLoop(c) /\ <<c, m>> \in held \cup released
  /\ held' = held \ {<<c, m>>} /\ released' = released \cup {<<c, m>>}
  /\ Reply(c, <<"PUBCOMP">>, "deliver")
  /\ msg' = [msg EXCEPT ![c] = m] /\ Owe(c)
  /\ UNCHANGED <<bclosed, clients, closing, closer, open, session, todo, out,
                 fresh, acked, got>>

(* PUBREL, which the client may repeat, takes the message out and, after   *)
(* PUBCOMP, delivers it.                                                   *)
RecvPubrel(c, m) ==
  /\ InLoop(c) /\ <<c, m>> \in held \cup released
  /\ held' = held \ {<<c, m>>} /\ released' = released \cup {<<c, m>>}
  /\ inbound2' = [inbound2 EXCEPT ![c] = @ \ {m}]
  /\ IF m \in inbound2[c]
       THEN /\ Reply(c, <<"PUBCOMP">>, "deliver")
            /\ msg' = [msg EXCEPT ![c] = m] /\ Owe(c)
       ELSE Reply(c, <<"PUBCOMP">>, "loop") /\ UNCHANGED <<msg, owed>>
  /\ UNCHANGED <<bclosed, clients, closing, closer, open, subs, nextID,
                 outbound2, todo, out, fresh, acked, got>>

RecvPubrec(c, i) ==       \* the client acknowledges a QoS 2 delivery
  /\ InLoop(c)
  /\ outbound2' = [outbound2 EXCEPT ![c] = @ \ {i}]
  /\ Reply(c, <<"PUBREL">>, "loop")
  /\ UNCHANGED <<bclosed, clients, closing, closer, open, subs, nextID,
                 inbound2, fan, peers, acked, owed, got>>

SendReply(c) ==
  /\ pc[c] = "reply" /\ open[c]
  /\ Goto(c, reply[c][2])
  /\ reply' = [reply EXCEPT ![c] = None]
  /\ acked' = acked \cup
                {a \in {c} \X Filters : reply[c][1] = <<"SUBACK", a[2]>>}
  /\ UNCHANGED <<bclosed, clients, closing, closer, open, session, fan, peers,
                 owed, got>>

(* The reply fails: the handler gives up, and with it a message it was     *)
(* about to deliver.                                                       *)
ReplyFails(c) ==
  /\ pc[c] = "reply"
  /\ SendFails(c)
  /\ Goto(c, IF c \in clients THEN "leave" ELSE "close")
  /\ reply' = [reply EXCEPT ![c] = None]
  /\ msg' = [msg EXCEPT ![c] = None]
  /\ owed' = [owed EXCEPT ![c] = {}]
  /\ UNCHANGED <<bclosed, clients, closing, closer, session, todo, out, peers,
                 acked, got>>

-----------------------------------------------------------------------------
(* deliver *)

Snapshot(h) ==            \* the targets, under b.mu
  /\ pc[h] = "deliver"
  /\ todo' = [todo EXCEPT ![h] = clients]
  /\ Goto(h, "fan")
  /\ UNCHANGED <<bclosed, clients, closing, closer, open, session, reply, msg,
                 out, peers, acked, owed, got>>

Max(S) == CHOOSE x \in S : \A y \in S : y <= x
Min(x, y) == IF x < y THEN x ELSE y

(* Mutant: the counter has no width.                                       *)
NextIDWide(i) == i + 1

(* Mutant: the wrapped counter is used as it is.                           *)
NextIDPlain(i) == (i + 1) % (IdMax + 1)

(* nextID++ on a uint16, and 0 is not a packet id.                         *)
NextID(i) == LET j == (i + 1) % (IdMax + 1) IN IF j = 0 THEN 1 ELSE j

(* Mutant: a target that does not match ends the loop.                     *)
TargetBreak(h, t) ==
  LET hits == {s \in subs[t] : s[1] \in Matching}
  IN  /\ pc[h] = "fan" /\ t \in todo[h]
      /\ IF hits = {}
           THEN todo' = [todo EXCEPT ![h] = {}] /\ UNCHANGED <<pc, out>>
           ELSE /\ todo' = [todo EXCEPT ![h] = @ \ {t}]
                /\ Goto(h, "send")
                /\ out' = [out EXCEPT ![h] = [to |-> t, qos |-> 0, id |-> 0]]
      /\ UNCHANGED <<bclosed, clients, closing, closer, open, session, reply,
                     msg, peers, acked, owed, got>>

(* One target, under its mu: does it match, at which QoS, with which id.   *)
Target(h, t) ==
  LET hits == {s \in subs[t] : s[1] \in Matching}
      q    == Max({0} \cup {Min(s[2], Qos[msg[h]]) : s \in hits})
      i    == NextID(nextID[t])
  IN  /\ pc[h] = "fan" /\ t \in todo[h]
      /\ todo' = [todo EXCEPT ![h] = @ \ {t}]
      /\ IF hits = {} THEN UNCHANGED <<pc, out, nextID, outbound2>>
         ELSE /\ Goto(h, "send")
              /\ out' = [out EXCEPT ![h] =
                   [to |-> t, qos |-> q, id |-> IF q > 0 THEN i ELSE 0]]
              /\ nextID' = [nextID EXCEPT ![t] = IF q > 0 THEN i ELSE @]
              /\ outbound2' = [outbound2 EXCEPT ![t] =
                                 IF q = 2 THEN @ \cup {i} ELSE @]
      /\ UNCHANGED <<bclosed, clients, closing, closer, open, subs, inbound2,
                     reply, msg, peers, acked, owed, got>>

(* After the send to the target: the next one.                             *)
Sent(h) ==
  /\ Goto(h, "fan")
  /\ out' = [out EXCEPT ![h] = None]
  /\ owed' = [owed EXCEPT ![h] = @ \ {out[h].to}]

SendTo(h) ==
  /\ pc[h] = "send" /\ open[out[h].to]
  /\ got' = [got EXCEPT ![out[h].to][msg[h]] = @ + 1]
  /\ Sent(h)
  /\ UNCHANGED <<bclosed, clients, closing, closer, open, session, reply, msg,
                 todo, peers, acked>>

SendToFails(h) ==         \* only logged
  /\ pc[h] = "send"
  /\ SendFails(out[h].to)
  /\ Sent(h)
  /\ UNCHANGED <<bclosed, clients, closing, closer, session, reply, msg, todo,
                 peers, acked, got>>

Delivered(h) ==
  /\ pc[h] = "fan" /\ todo[h] = {}
  /\ Goto(h, "loop")
  /\ msg' = [msg EXCEPT ![h] = None]
  /\ UNCHANGED <<bclosed, clients, closing, closer, open, session, reply,
                 todo, out, peers, acked, owed, got>>

-----------------------------------------------------------------------------
(* Broker.Close: the flag and the snapshot, then each socket *)

(* Mutant: Close forgets the flag.                                         *)
BrokerCloseNoFlag ==
  /\ closer = "idle"
  /\ closer' = "busy"
  /\ closing' = clients
  /\ UNCHANGED <<bclosed, clients, open, session, pc, reply, fan, peers,
                 acked, owed, got>>

BrokerClose ==
  /\ closer = "idle"
  /\ closer' = "busy"
  /\ bclosed' = TRUE /\ closing' = clients
  /\ UNCHANGED <<clients, open, session, pc, reply, fan, peers, acked, owed,
                 got>>

CloseClient ==
  /\ closer = "busy"
  /\ \E c \in closing : /\ open' = [open EXCEPT ![c] = FALSE]
                        /\ closing' = closing \ {c}
  /\ UNCHANGED <<bclosed, clients, closer, session, pc, reply, fan, peers,
                 acked, owed, got>>

CloseReturns ==
  /\ closer = "busy" /\ closing = {}
  /\ closer' = "done"
  /\ UNCHANGED <<bclosed, clients, closing, open, session, pc, reply, fan,
                 peers, acked, owed, got>>

-----------------------------------------------------------------------------
Init ==
  /\ bclosed = FALSE /\ clients = {} /\ closing = {} /\ closer = "idle"
  /\ open = [c \in Conns |-> TRUE]
  /\ subs = [c \in Conns |-> {}] /\ nextID = [c \in Conns |-> 0]
  /\ inbound2 = [c \in Conns |-> {}] /\ outbound2 = [c \in Conns |-> {}]
  /\ pc = [c \in Conns |-> "connect"] /\ reply = [c \in Conns |-> None]
  /\ msg = [c \in Conns |-> None] /\ todo = [c \in Conns |-> {}]
  /\ out = [c \in Conns |-> None]
  /\ fresh = Msgs /\ held = {} /\ released = {} /\ acked = {}
  /\ owed = [c \in Conns |-> {}]
  /\ got = [c \in Conns |-> [m \in Msgs |-> 0]]

(* What c's handler receives.  PUBACK and PUBCOMP change nothing.          *)
Recv(c) ==
  \/ \E a \in BOOLEAN : RecvConnect(c, a)
  \/ RecvPing(c)
  \/ \E f \in Filters : \/ RecvUnsubscribe(c, f)
                        \/ \E q \in Asked : RecvSubscribe(c, f, q)
  \/ \E m \in Msgs : \/ RecvPublish(c, m) \/ RecvPublish2(c, m)
                     \/ RecvPubrel(c, m)
  \/ \E i \in 1..IdMax : RecvPubrec(c, i)

(* What it does by itself.                                                 *)
Step(c) ==
  \/ Register(c) \/ Leave(c) \/ CloseSock(c)
  \/ Snapshot(c) \/ (\E t \in Conns : Target(c, t)) \/ Delivered(c)

Next ==
  \/ \E c \in Conns :
       \/ Recv(c) \/ RecvNoConnect(c) \/ RecvEnd(c)
       \/ SendReply(c) \/ ReplyFails(c) \/ SendTo(c) \/ SendToFails(c)
       \/ Step(c)
  \/ BrokerClose \/ CloseClient \/ CloseReturns

Spec == Init /\ [][Next]_vars

(* Goroutines that can run do; calls on a closed socket fail; and until    *)
(* the CONNACK is sent the socket's timeout of 30 s ends a Send, and also  *)
(* the wait for CONNECT, unless the client stalls: on ws it is an idle     *)
(* timeout (src/transports/ws/socket.go:109).  The peers owe nothing: a    *)
(* Send to a client that does not read may block for as long as its socket *)
(* is open, since a keep alive of 0 switches the timeout off.              *)
FairSpec ==
  /\ Spec
  /\ WF_vars(CloseClient) /\ WF_vars(CloseReturns)
  /\ \A c \in Conns :
       /\ WF_vars(Step(c))
       /\ WF_vars(c \notin Stalling /\ RecvNoConnect(c))
       /\ WF_vars(~open[c] /\ RecvEnd(c))
       /\ WF_vars((~open[c] \/ c \notin clients) /\ ReplyFails(c))
       /\ WF_vars(/\ pc[c] = "send" /\ ~open[out[c].to]
                  /\ SendToFails(c))

-----------------------------------------------------------------------------
Labels == {"connect", "reply", "register", "loop", "deliver", "fan", "send",
           "leave", "close", "end"}

BrokerTypeOK ==
  /\ bclosed \in BOOLEAN /\ clients \subseteq Conns /\ closing \subseteq Conns
  /\ closer \in {"idle", "busy", "done"} /\ open \in [Conns -> BOOLEAN]

SessionTypeOK ==
  /\ subs \in [Conns -> SUBSET (Filters \X (0..2))]
  /\ nextID \in [Conns -> 0..IdMax]
  /\ inbound2 \in [Conns -> SUBSET Msgs]
  /\ outbound2 \in [Conns -> SUBSET (1..IdMax)]

HandlerTypeOK ==
  /\ pc \in [Conns -> Labels] /\ reply \in [Conns -> Replies \cup {None}]
  /\ msg \in [Conns -> Msgs \cup {None}] /\ todo \in [Conns -> SUBSET Conns]
  /\ out \in [Conns -> Packet \cup {None}]
  /\ \A c \in Conns : (pc[c] = "reply") = (reply[c] # None)

HistoryTypeOK ==
  /\ fresh \subseteq Msgs
  /\ held \subseteq Conns \X Msgs /\ released \subseteq Conns \X Msgs
  /\ acked \subseteq Conns \X Filters /\ owed \in [Conns -> SUBSET Conns]
  /\ got \in [Conns -> [Msgs -> Nat]]

TypeOK == BrokerTypeOK /\ SessionTypeOK /\ HandlerTypeOK /\ HistoryTypeOK

(* A client that has its SUBACK when the broker takes on a message, and    *)
(* neither unsubscribes nor leaves, is sent that message (or its socket    *)
(* fails) before the publisher's handler turns to its next packet, however *)
(* subscribing, unsubscribing, leaving and the fan-out interleave.         *)
AckedSubscribersServed == \A h \in Conns : pc[h] = "loop" => owed[h] = {}

(* QoS 2: however often a client repeats PUBLISH and PUBREL, no subscriber *)
(* is sent the message twice (src/interop/broker.go:51-52).                *)
Qos2OnlyOnce ==
  \A c \in Conns, m \in Msgs : Qos[m] = 2 => got[c][m] <= 1

(* A publish above QoS 0 carries a packet id other than 0, also when the   *)
(* 16-bit counter wraps (src/interop/broker.go:284-287), and QoS 0 carries *)
(* none.                                                                   *)
PacketIdValid ==
  \A h \in Conns : out[h] # None => (out[h].id = 0 <=> out[h].qos = 0)

(* "Close disconnects every connected client" (src/interop/broker.go:66):  *)
(* when Close has returned no client in the table has an open socket, not  *)
(* even one whose CONNECT was being handled meanwhile.                     *)
ClosedMeansDisconnected ==
  closer = "done" => \A c \in clients : ~open[c]

(* After Close every handler ends, also one that is blocked in a Send to a *)
(* client that does not read, so the goroutines of Serve do not leak.  The *)
(* exception is one that has no CONNECT yet and whose ws client stalls: it *)
(* is not in the table, and Close leaves its socket alone                  *)
(* (src/interop/broker.go:66-78 and 95).                                   *)
CloseEndsHandlers ==
  \A c \in Conns :
    bclosed ~> (pc[c] = "end" \/ (c \in Stalling /\ pc[c] = "connect"))
=============================================================================
