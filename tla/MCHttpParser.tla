---------------------------- MODULE MCHttpParser ----------------------------
EXTENDS HttpParser

\* A method recognised with its following space, one as long as its four
\* bytes, and the longest, which may reach past a short recv.
Method == {
    [mask |-> "GET",     text |-> <<"G", "E", "T">>],
    [mask |-> "POST",    text |-> <<"P", "O", "S", "T">>],
    [mask |-> "OPTIONS", text |-> <<"O", "P", "T", "I", "O", "N", "S">>] }

MCAlphabet ==
    {" ", "/", "?", "&", "=", ":", "H", "T", "P", "1", ".", "\r", "\n",
     "G", "E", "O", "S", "I", "N", "K", "p", "a", "b", "c", "v", "w", "x", "y", "z"}

Pair(k, v) == [key |-> k, value |-> v]
A == Pair(<<"a">>, <<"1">>)
B == Pair(<<"b">>, <<>>)
C == Pair(<<"c">>, <<"/">>)

\* A header of exactly five characters, one that contains every separator of
\* the query, and one of four characters.
Five == Pair(<<"H">>, <<"v", "w">>)
Separators == Pair(<<"K">>, <<"?", "x", "&", "y", "=", ":", "z">>)
Four4 == Pair(<<"S">>, <<"v">>)

MCRequests ==
    [method : Method, path : {<<"/">>, <<"/", "p">>},
     query : {<<>>, <<A>>, <<A, B>>, <<A, B, C>>},
     headers : {<<>>, <<Five>>, <<Separators, Five>>, <<Five, Separators, Five>>,
                <<Four4, Five>>, <<Five, Four4>>}]

Empty == <<"K", "e", "y", "s", ":", "\r", "\n">>

\* An unknown method, no space after the method, a path without its slash or
\* without its end, another protocol, a query without '=', headers without a
\* value and without a separator; the last fills the buffer.
MCMalformed == {
    <<"G", "O">> \o <<" ", "/">> \o ProtocolLine \o <<"\r", "\n">>,
    <<"P", "O", "S", "T", "/">> \o ProtocolLine \o <<"\r", "\n">>,
    <<"P", "U", "T", " ", " ", " ", "p">> \o ProtocolLine \o <<"\r", "\n">>,
    <<"G", "E", "T", " ", "/", "p", "p", "p", "p", "p", "p", "p", "p", "p", "p", "p", "p", "p">>,
    <<"G", "E", "T", " ", "/", " ", "G", "O", "P", "H", "E", "R", "/", "1", "\r", "\n", "\r", "\n">>,
    <<"G", "E", "T", " ", "/", "?", "q", "&">> \o ProtocolLine \o <<"n", "o", "s", "e", "p", "\r", "\n">> \o Empty,
    <<"G", "E", "T", " ", "/">> \o ProtocolLine \o [i \in 1..35 |-> "x"] \o <<"\r", "\n">> \o Empty
        \o <<"\r", "\n">> \o [i \in 1..20 |-> "x"] }
=============================================================================
