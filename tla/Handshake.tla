------------------------------- MODULE Handshake -------------------------------
(***************************************************************************)
(* How a connection is upgraded: the client's upgrade (ws/client_ws.hpp)    *)
(* writes a request made of its owner's URL and header, read_handshake and  *)
(* write_handshake of the server (ws/server_ws.hpp) take it apart and       *)
(* answer, the client takes the answer apart.  Either end may also have a   *)
(* stranger at the other: a browser, or some other server.                  *)
(*                                                                         *)
(* The hash of the key is abstracted to the key behind a mark.  Timers are  *)
(* WsServer's and WsClient's business, the proxy is left out.               *)
(***************************************************************************)
EXTENDS HttpText

CONSTANTS Asked,            \* what owners ask for: host, port, path, query, header
          PortNumber,       \* std::stoul of a port's digits
          default_port,
          EndpointPaths,    \* the paths the endpoint's expression matches
          LowerCase,        \* tolower of the words with capitals in them
          Requests,         \* of clients of another make
          Answers(_),       \* of servers of another make, to a key
          None

VARIABLES target,       \* the client's host, port, path, header, until it is settled
          asked,        \* history: what its owner asked for
          cl,           \* the client's stage
          inClient,     \* lines written by the server and not taken by the client
          sv,           \* the server's stage
          inServer,     \* lines written by the client and not taken by the server
          understood,   \* Connection::method, path, query_string, header, until it is open
          answer        \* history: whether the server accepted, and what it sent behind its answer

clientVars == <<target, asked, cl>>
serverVars == <<sv, understood>>
vars == <<clientVars, inClient, serverVars, inServer, answer>>

Nonce == <<"nonce">>

-------------------------------------------------------------------------------
(* The client. *)

UrlText(a) == (IF a.ipv6 THEN <<"[">> \o a.host \o <<"]">> ELSE a.host)
              \o (IF a.port = None THEN << >> ELSE <<":", a.port>>)
              \o a.path \o (IF a.fields = << >> THEN << >> ELSE <<"?">> \o CreateQuery(a.fields))

\* stoul throws for what is no number; the number is cast to 16 bits.
PortOf(digits) == IF Len(digits) = 1 /\ digits[1] \in DOMAIN PortNumber
                  THEN PortNumber[digits[1]] % 2^16 ELSE default_port

\* What the constructor makes of the URL.
Target(a) == LET hp == HostAndPort(SubSeq(UrlText(a), 1, HostEnd(UrlText(a)) - 1))
             IN [host |-> hp.host, port |-> PortOf(hp.port), path |-> PathOf(UrlText(a)), header |-> a.header]

PortDigits(port)   == CHOOSE d \in DOMAIN PortNumber : PortNumber[d] = port
Field(name, value) == name \o <<":", "SP">> \o value \o <<"CR">>

HostField(t) == t.host \o (IF t.port = default_port THEN << >> ELSE <<":", PortDigits(t.port)>>)

RequestOf(t) ==
  <<<<"GET", "SP">> \o t.path \o <<"SP", "HTTP", "/", "1.1", "CR">>,
    Field(<<"Host">>, HostField(t)),
    Field(<<"Upgrade">>, <<"websocket">>), Field(<<"Connection">>, <<"Upgrade">>),
    Field(<<"Sec-WebSocket-Key">>, Nonce), Field(<<"Sec-WebSocket-Version">>, <<"13">>)>>
  \o [k \in DOMAIN t.header |-> Field(t.header[k][1], t.header[k][2])]
  \o <<<<"CR">>>>

Upgrade ==
  /\ cl = "connected"
  /\ cl' = "writing" /\ inServer' = RequestOf(target)
  /\ UNCHANGED <<target, asked, inClient, serverVars, answer>>

ClientWritten ==
  /\ cl = "writing" /\ cl' = "waiting"
  /\ UNCHANGED <<target, asked, inClient, serverVars, inServer, answer>>

\* base64(sha1(key and magic string)); no two keys of the model have the same.
Accept(key) == <<"accept">> \o key

Lower(name) == [k \in DOMAIN name |-> IF name[k] \in DOMAIN LowerCase THEN LowerCase[name[k]] ELSE name[k]]

\* CaseInsensitiveMultimap::find.
Values(header, name) == {f[2] : f \in {g \in header : Lower(g[1]) = Lower(name)}}

IsAccepted(r) == /\ IsPrefix(<<"101", "SP">>, r.status_code)
                 /\ Values(r.header, <<"Sec-WebSocket-Accept">>) = {Accept(Nonce)}

\* The handler of the answer; what the parser leaves belongs to the first frames.
ClientReads ==
  /\ cl = "waiting" /\ inClient # << >>
  /\ \/ \E r \in Response(inClient) :
          /\ inClient' = r.rest
          /\ cl' = IF IsAccepted(r) THEN "open" ELSE "refused"
     \/ Response(inClient) = {} /\ cl' = "refused" /\ UNCHANGED inClient
  /\ asked' = None /\ target' = None
  /\ UNCHANGED <<serverVars, inServer, answer>>

\* The server closed without a word.
ClientHearsEnd ==
  /\ cl = "waiting" /\ inClient = << >> /\ sv = "refused"
  /\ cl' = "refused" /\ asked' = None /\ target' = None
  /\ UNCHANGED <<inClient, serverVars, inServer, answer>>

\* The connection breaks or times out.
ClientFails ==
  /\ cl \in {"writing", "waiting"}
  /\ cl' = "failed" /\ asked' = None /\ target' = None
  /\ UNCHANGED <<inClient, serverVars, inServer, answer>>

-------------------------------------------------------------------------------
(* The server. *)

StatusLine(code, reason) == <<"HTTP", "/", "1.1", "SP", code, "SP", reason, "CR">>

\* The multimap has its fields in any order.
Accepting(key) ==
  {<<StatusLine("101", "Web_Socket_Protocol_Handshake")>> \o fields \o <<<<"CR">>>> :
     fields \in SetToSeqs({Field(<<"Upgrade">>, <<"websocket">>), Field(<<"Connection">>, <<"Upgrade">>),
                           Field(<<"Sec-WebSocket-Accept">>, Accept(key))})}
Refusing == <<StatusLine("426", "Upgrade_Required"), <<"CR">>>>

\* write_handshake: the key is looked for, then the endpoint's on_handshake is asked,
\* which in the game accepts.
Write(header) ==
  LET keys == Values(header, <<"Sec-WebSocket-Key">>)
  IN /\ sv' = "writing" /\ answer' = [accepts |-> keys # {}, behind |-> << >>]
     /\ \/ keys = {} /\ inClient' = Refusing
        \/ \E key \in keys : inClient' \in Accepting(key)

\* The handler of the request.  One that is not understood, or whose path no endpoint
\* matches, gets no answer: the connection is let go.
ServerReads ==
  /\ sv = "reading" /\ inServer # << >>
  /\ \/ \E r \in Request(inServer) :
          /\ inServer' = r.rest
          /\ \/ /\ r.line.path \in EndpointPaths
                /\ understood' = [line |-> r.line, header |-> r.header]
                /\ Write(r.header)
             \/ /\ r.line.path \notin EndpointPaths /\ sv' = "refused"
                /\ UNCHANGED <<understood, inClient, answer>>
     \/ Request(inServer) = {} /\ sv' = "refused" /\ UNCHANGED <<inServer, understood, inClient, answer>>
  /\ UNCHANGED clientVars

\* connection_open, unless the answer was another than 101.
ServerWritten ==
  /\ sv = "writing"
  /\ sv' = IF answer.accepts THEN "open" ELSE "refused"
  /\ understood' = None
  /\ UNCHANGED <<clientVars, inClient, inServer, answer>>

ServerReadFails ==
  /\ sv = "reading" /\ sv' = "failed"
  /\ UNCHANGED <<clientVars, inClient, understood, inServer, answer>>

\* connection_error, if the connection was accepted.
ServerWriteFails ==
  /\ sv = "writing" /\ sv' = "failed" /\ understood' = None
  /\ UNCHANGED <<clientVars, inClient, inServer, answer>>

\* A server of another make (external).
StrangerAnswers ==
  /\ sv = "stranger" /\ inServer # << >>
  /\ \E a \in Answers(Nonce) : /\ inClient' = a.lines \o a.behind
                                 /\ answer' = [accepts |-> a.accepts, behind |-> a.behind]
  /\ sv' = "answered" /\ inServer' = << >>
  /\ UNCHANGED <<clientVars, understood>>

-------------------------------------------------------------------------------
Init ==
  /\ inClient = << >> /\ understood = None /\ answer = [accepts |-> FALSE, behind |-> << >>]
  /\ \/ cl = "connected" /\ asked \in Asked /\ target = Target(asked) /\ inServer = << >> /\ sv \in {"reading", "stranger"}
     \/ cl = "stranger" /\ asked = None /\ target = None /\ inServer \in Requests /\ sv = "reading"

Client == Upgrade \/ ClientWritten \/ ClientReads \/ ClientHearsEnd
Server == ServerReads \/ ServerWritten
Fails  == ClientFails \/ ServerReadFails

-------------------------------------------------------------------------------
(* Properties. *)

\* What the owner of a client asks for is what the server's Connection says
\* (utility.hpp:247 "Path from request URI", "Query string from request URI",
\* "Header fields"): URL, constructor, request, parsers and percent coding undo
\* each other.
AskedIsUnderstood ==
  asked # None /\ understood # None =>
    /\ understood.line.method = <<"GET">> /\ understood.line.version = <<"1.1">>
    /\ understood.line.path = (IF asked.path = << >> THEN <<"/">> ELSE asked.path)
    /\ ParseQuery(understood.line.query_string) = ToSet(asked.fields)
    /\ ToSet(asked.header) \subseteq understood.header
    /\ ~asked.ipv6 => Values(understood.header, <<"host">>) =
         {asked.host \o (IF asked.port = None \/ PortNumber[asked.port] = default_port THEN << >>
                         ELSE <<":", asked.port>>)}

\* The client opens on an answer that accepts its request, and on each of those
\* that reaches it (client_ws.hpp:464-476), whatever server wrote it; once it or the
\* server is open nothing of the texts is left before the first frame.
OpensOnAcceptance ==
  /\ cl = "open" => answer.accepts /\ inClient = answer.behind
  /\ cl = "refused" => ~answer.accepts
  /\ sv = "open" => inServer = << >>
===============================================================================
