----------------------------- MODULE MCMqttCodec -----------------------------
(* A small instance of MqttCodec for TLC: packets of every type, at the    *)
(* limits of each field, and frames another implementation might send.     *)
EXTENDS MqttCodec

Flagged(type, qos) == [NewHeader(type) EXCEPT !.qos = qos]

\* "a", "$a", "a/b", "/a"; "#", "+", "a/#", "+/b", "/+"
A == <<97>>
TopicNames == {A, <<36, 97>>, <<97, 47, 98>>, <<47, 97>>}
Filters    == {<<35>>, <<43>>, <<97, 47, 35>>, <<43, 47, 98>>, <<47, 43>>}

MinConnect ==
  [h |-> NewHeader(Connect), name |-> MQTT, ver |-> 4, reserved |-> 0,
   clean |-> TRUE, will |-> FALSE, wqos |-> 0, wretain |-> FALSE,
   pass |-> FALSE, user |-> FALSE, keep |-> 300, strs |-> << <<>> >>]
MaxConnect ==
  [MinConnect EXCEPT !.will = TRUE, !.wqos = 2, !.wretain = TRUE,
                     !.pass = TRUE, !.user = TRUE,
                     !.strs = <<A, A, <<>>, A, A>>]
Topic(t, qos, id, size) ==
  [h |-> [Flagged(Publish, qos) EXCEPT !.dup = qos = 1, !.retain = qos = 1],
   topic |-> t,
   id |-> id, payload |-> [i \in 1..size |-> i]]
Ack(type) == [h |-> NewHeader(type), id |-> 258]
Sub(topics, qoss) ==
  [h |-> NewHeader(Subscribe), id |-> 7, topics |-> topics, qoss |-> qoss]
Unsub(topics) == [h |-> NewHeader(Unsubscribe), id |-> 7, topics |-> topics]

MCPackets ==
  {MinConnect, MaxConnect, [MaxConnect EXCEPT !.wqos = 3]}
  \cup {Topic(t, 0, 0, 0) : t \in TopicNames}
  \cup {Topic(A, 1, 1, 1), Topic(A, 2, 9, 20), Topic(A, 0, 0, 21),
        Topic(A, 3, 1, 0), Topic(<<97, 97, 97, 97>>, 0, 0, 1)}
  \cup {Topic(A, 0, 0, size) : size \in {12, 13, 60, 61}}
  \cup {Ack(t) : t \in {Puback, Pubrec, Pubrel, Pubcomp, Unsuback}}
  \cup {[h |-> NewHeader(t)] : t \in {Pingreq, Pingresp, Disconnect}}
  \cup {Sub(<<f>>, <<2>>) : f \in Filters}
  \cup {Sub(<<A, A>>, <<0, 1>>), Sub(<<A, A>>, <<0>>), Sub(<<>>, <<>>)}
  \cup {Unsub(<<A, <<35>> >>), Unsub(<<>>)}
  \cup {[h |-> NewHeader(Connack), present |-> TRUE, code |-> 5],
        [h |-> NewHeader(Suback), id |-> 7, codes |-> <<0, 128>>],
        [h |-> NewHeader(Suback), id |-> 7, codes |-> <<3>>]}

Other(b, body) == [b |-> b, len |-> EncodedLength(Len(body)), body |-> body,
                   pkt |-> None]
Clipped(p) == Other(HeaderByte(p.h), SubSeq(Body(p), 1, Len(Body(p)) - 1))
Padded(p)  == Other(HeaderByte(p.h), Append(Body(p), 1))

MCForeign ==
  {Clipped(p) : p \in {MinConnect, Ack(Puback), Sub(<<A>>, <<1>>)}}
  \cup {Padded(p) : p \in {MinConnect, Ack(Puback), Sub(<<A>>, <<1>>),
                           [h |-> NewHeader(Pingreq)]}}
  \cup {Other(16, [Body(MinConnect) EXCEPT ![5] = @ + 1]),
        Other(Connack * 16, <<2, 0>>),
        Other(HeaderByte(Flagged(Pubrel, 0)), <<0, 1>>),
        Other(HeaderByte([NewHeader(Subscribe) EXCEPT !.dup = TRUE]),
              Body(Sub(<<A>>, <<1>>))),
        [Other(Pingreq * 16, <<>>) EXCEPT !.len = <<129, 129, 129>>]}
=============================================================================
