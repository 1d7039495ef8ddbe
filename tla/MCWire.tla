------------------------------- MODULE MCWire -------------------------------
(* Small instances of Wire. *)
EXTENDS Wire

\* Data that looks like headers, wherever a read happens to begin in it: 48 is
\* the first byte of a PUBLISH, 50 that of one with QoS 1, and <<32, 50, 48, 0>>
\* passes for a CONNACK that accepts.
Headers == <<50, 32, 50, 48, 0, 0, 0>>

Filler(n) == [i \in 1..n |-> 7]

\* After the first read of the message a PUBLISH with more bytes of length than
\* the standard allows.
Endless == <<7, 7, 48>> \o [i \in 1..6 |-> 200] \o Filler(117)

Publication(qos, id, topic, data) ==
  [type |-> PUBLISH, qos |-> qos, id |-> id, topic |-> topic, data |-> data]

\* One that fits the in buffer, one that comes in pieces with an id, one whose
\* length takes two bytes, the answer to a subscription.
MCMessages == {Publication(0, 0, <<65>>, <<50, 50>>),
               Publication(1, 259, <<65>>, Headers),
               Publication(0, 0, <<65>>, Endless),
               Plain(SUBACK, 258)}

\* With a topic of one byte, data of 124 and 125 bytes are the last to fit one
\* byte of length and the first not to; 135 still fit the out buffer, 136 not.
\* A subscription to 132 bytes is the longest to fit.
MCOutbound == {Publication(0, 0, <<65>>, Filler(n)) : n \in {124, 125, 134, 135}}
              \cup {[type |-> SUBSCRIBE, qos |-> 0, id |-> 0, topic |-> Filler(n), data |-> <<1>>]
                      : n \in {1, 132, 133}}

\* A heap that is filled with a pattern, and a CONNACK some earlier owner left.
MCGarbage == {<<206, 206, 206, 206>>, <<32, 2, 0, 0>>}

Info(user, pass) == [client |-> <<67, 68>>, clean |-> TRUE, keepalive |-> 300,
                     username |-> user, password |-> pass]
MCInfos == {Info(<<>>, <<>>), Info(<<85>>, <<80, 81>>)}
=============================================================================
