------------------------------- MODULE MCIncoming ------------------------------
(* A small instance of Incoming for TLC. *)
EXTENDS Incoming, TLC

\* A byte of 12 values, since TLC's integers have 32 bits: a size_t has 12^8.
MCRadix == 12

\* One payload length per form of the length field, the last the greatest a client may
\* use: two of that are one message too big, whose sum is just below a size_t's end; that
\* one and the shortest are as big as the limit.
MCLengths == {1, 130, 12^8 \div 2 - 1}
MCMax     == 12^8 \div 2

\* The characters a query gives a meaning to, and their codes.
MCCodes == ("&" :> <<"2", "6">>) @@ ("=" :> <<"3", "D">>) @@ ("%" :> <<"2", "5">>)
           @@ ("+" :> <<"2", "B">>) @@ ("SP" :> <<"2", "0">>) @@ ("?" :> <<"3", "F">>) @@ ("/" :> <<"2", "F">>)
MCPortNumber == ("80" :> 80) @@ ("81" :> 81)
MCEndpointPaths == {<<"/", "ue4">>, <<"/", "ue4", "/">>}
MCLowerCase == ("Host" :> "host") @@ ("Sec-WebSocket-Key" :> "sec-websocket-key")
               @@ ("Sec-WebSocket-Accept" :> "sec-websocket-accept")

Urls == [host : {<<"name">>}, ipv6 : {FALSE}, port : {None, "80", "81"},
         path : {<< >>, <<"/">>, <<"/", "ue4">>, <<"/", "ue4", "/">>, <<"/", "ue4", "/", "x">>}]
        \cup [host : {<<":", ":", "1">>}, ipv6 : {TRUE}, port : {None, "81"}, path : {<<"/", "ue4">>}]
Values == {<< >>, <<"a">>, <<"a", "%">>, <<"&", "=">>, <<"+", "SP">>, <<"%", "2", "6">>, <<"?", "/">>}
Queries == {<< >>} \cup {<<<<<<"q">>, v>>>> : v \in Values}
           \cup {<<<<<<"q">>, v>>, <<<<"r">>, <<"%", "2">>>>>> : v \in Values}
Headers == {<< >>, <<<<<<"Origin">>, <<"http", ":", "/", "/", "x">>>>, <<<<"Empty">>, << >>>>>>}

MCAsked == {u @@ [fields |-> q, header |-> h] :
              u \in {v \in Urls : v.path # << >>}, q \in Queries, h \in Headers}
           \cup {u @@ [fields |-> << >>, header |-> h] : u \in Urls, h \in Headers}

Get(path, protocol) == <<"GET", "SP">> \o path \o <<"SP">> \o protocol \o <<"CR">>
Http == <<"HTTP", "/", "1.1">>
End  == <<"CR">>
MCRequests ==
  {<<Get(<<"/", "ue4">>, Http), <<"sec-websocket-key", ":", "other", "CR">>, End>>,
   <<Get(<<"/", "ue4", "?">>, Http), <<"Sec-WebSocket-Key", ":", "SP", "SP", "other", "CR">>, End>>,
   <<Get(<<"/", "ue4">>, Http), <<"Host", ":", "SP", "name", "CR">>, End>>,
   <<Get(<<"/", "ue4">>, <<"FTP", "/", "1.1">>), End>>,
   <<Get(<<"/", "ue4">>, <<"HTTP">>), End>>,
   <<<<"GET", "SP", "/", "ue4", "CR">>, End>>, <<<<"CR">>>>}

Behind == <<"frame", ":", "bytes">>
Accepts(name, spaces, key) == <<name, ":">> \o spaces \o <<"accept">> \o key \o <<"CR">>
Status(code) == <<"HTTP", "/", "1.1", "SP", code, "SP", "CR">>
MCAnswers(key) ==
  {[lines |-> <<Status("101"), Accepts(n, s, key), End>>, accepts |-> TRUE, behind |-> b] :
     n \in {"Sec-WebSocket-Accept", "sec-websocket-accept"}, s \in {<< >>, <<"SP", "SP">>},
     b \in {<< >>, <<Behind>>}}
  \cup {[lines |-> l, accepts |-> FALSE, behind |-> << >>] :
          l \in {<<Status("101"), Accepts("Sec-WebSocket-Accept", <<"SP">>, <<"other">>), End>>,
                 <<Status("101"), End>>,
                 <<Status("403"), Accepts("Sec-WebSocket-Accept", <<"SP">>, key), End>>,
                 <<<<"HTTP", "CR">>, End>>}}
===============================================================================
