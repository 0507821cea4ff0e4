------------------------------ MODULE MCCodec ------------------------------
EXTENDS Codec, Bitwise

MCXor == [p \in Byte \X Byte |-> p[1] ^^ p[2]]

\* Names without characters, of one and two, of as many as a byte can count, and of one more.
MCNames == {<<>>, <<6>>, <<5, 6>>, <<4, 4, 4, 4, 4, 4, 4>>, <<7, 3, 7, 3, 7, 3, 7, 3>>}

MCSends ==
    [kind : {"send"}, id : MCNames \ {<<>>}, remote : MCNames,
     data : {<<>>, <<3>>, <<3, 3>>, <<0, 1, 3>>}, ttl : {5}, options : {0, 4}]

MCSubscriptions ==
    [kind : {"subscribe"}, id : {<<6>>, <<5, 6>>},
     groups : UNION {[1..n -> MCNames] : n \in 0..2} \cup {[i \in 1..9 |-> <<>>]}]

MCUnsubscriptions == [kind : {"unsubscribe"}, id : MCNames]

MCAssigns ==
    [kind : {"assign"}, id : {<<6>>}, error : {0}, tx : MCNames, rx : MCNames]
        \cup [kind : {"assign"}, id : MCNames, error : {1}, tx : {<<>>}, rx : {<<>>}]

\* The C++ objects also take names with a 0 in them and any int as time to live.
MCObjects ==
    [kind : {"object"}, id : MCNames \cup {<<5, 0, 6>>}, remote : MCNames,
     data : {<<>>, <<3, 3>>}, ttl : {5, 12, -1}, options : {0, 4}]

MCFirst == MCSends \cup MCObjects \cup MCSubscriptions \cup MCUnsubscriptions \cup MCAssigns

MCLater ==
    {[kind |-> "send", id |-> <<6>>, remote |-> <<5>>, data |-> <<3>>, ttl |-> 3, options |-> 0]}
=============================================================================
