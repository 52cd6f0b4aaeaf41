--------------------------- MODULE MCHttpRequest ---------------------------
(* An instance of HttpRequest. *)
EXTENDS HttpRequest

CONSTANT t1

Words == {"GET", "POST", "HTTP", "consume", "get", "produce", "a", "b", "1", "65800"}
MCCell == Words \cup {NUL} \cup Separators \cup Keys
MCNumberOf == [v \in {<<"1">>, <<"65800">>} |-> IF v = <<"1">> THEN 1 ELSE 65800]
MCBehind == {<<>>, <<"b">>, <<"&", "type=", "a", " ">>}

Param(key, at, value) == [key |-> key, value |-> value, at |-> at]
Sent(text, params) == [text |-> text, params |-> params]

\* The documented requests: parameters behind the method, or in a body whose last value
\* nothing closes; with a word like a parameter in a value, a second parameter of a name,
\* more than the buffer holds, an index above 65535 and a NUL among the cells. And what is
\* no request: silence, a space in front, no space at all.
MCMessage ==
  {Silence,
   Sent(<<"POST", " ", "type=", "produce", "&", "queue=", "a", "&", "data=", "b", "queue=", "b", " ">>,
        {Param("type=", 3, <<"produce">>), Param("queue=", 6, <<"a">>), Param("data=", 9, <<"b", "queue=", "b">>)}),
   Sent(<<"POST", " ", "\n", "type=", "produce", "&", "queue=", "b", "&", "data=", "a", "a">>,
        {Param("type=", 4, <<"produce">>), Param("queue=", 7, <<"b">>), Param("data=", 10, <<"a", "a">>)}),
   Sent(<<"GET", " ", "type=", "get", "&", "index=", "1", "&", "queue=", "a", " ", "queue=", "b">>,
        {Param("type=", 3, <<"get">>), Param("index=", 6, <<"1">>), Param("queue=", 9, <<"a">>),
         Param("queue=", 12, <<"b">>)}),
   Sent(<<"GET", " ", "type=", "consume", "&", "queue=", "b", " ", "HTTP", "a", "a", "a", "index=", "1", "1">>,
        {Param("type=", 3, <<"consume">>), Param("queue=", 6, <<"b">>), Param("index=", 13, <<"1", "1">>)}),
   Sent(<<"GET", " ", "index=", "65800", "&", NUL, "type=", "get">>,
        {Param("index=", 3, <<"65800">>), Param("type=", 7, <<"get">>)}),
   Sent(<<" ", "GET">>, {}),
   Sent(<<"GET", "type=", "get">>, {})}
=============================================================================
