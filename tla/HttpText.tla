-------------------------------- MODULE HttpText -------------------------------
(***************************************************************************)
(* The texts of the upgrade, as ws/utility.hpp and the client's constructor *)
(* take them apart.  A text is a sequence of lines, a line a sequence of    *)
(* tokens: words, and the separators the parsers look for, each a token of  *)
(* its own.  getline takes the first line and its "\n"; the "\r" before it  *)
(* is the token "CR", a blank is "SP".  Pure operators, no state.           *)
(***************************************************************************)
EXTENDS Integers, SequencesExt, FiniteSetsExt

CONSTANTS Codes             \* the two hexadecimal digits of a character that is not safe

\* find(t, from): the first place, 0 for npos.
FindFrom(line, t, from) == SelectInSubSeq(line, from, Len(line), LAMBDA w : w = t)
Find(line, t)           == FindFrom(line, t, 1)

WithoutCR(line) == IF line # << >> /\ Last(line) = "CR" THEN Front(line) ELSE line

-------------------------------------------------------------------------------
(* HttpHeader. *)

\* Leading spaces are skipped, but not the line's last character.
ValueStart(line) == Min({i \in Find(line, ":") + 1 .. Len(line) : line[i] # "SP" \/ i = Len(line)})

FieldOf(line) == <<SubSeq(line, 1, Find(line, ":") - 1),
                   WithoutCR(SubSeq(line, ValueStart(line), Len(line)))>>

\* The first line without a colon ends the header, and getline has taken it.
HeaderEnd(lines) == Min({i \in DOMAIN lines : Find(lines[i], ":") = 0} \cup {Len(lines) + 1})

Header(lines) ==
  {FieldOf(lines[i]) : i \in {j \in 1 .. HeaderEnd(lines) - 1 :
                                Find(lines[j], ":") < Len(lines[j])}}

\* Mutant: the line that ends the header is put back.
AfterHeader_Kept(lines) == SubSeq(lines, HeaderEnd(lines), Len(lines))

AfterHeader(lines) == SubSeq(lines, HeaderEnd(lines) + 1, Len(lines))

-------------------------------------------------------------------------------
(* RequestMessage::parse and ResponseMessage::parse of a non-empty text; the *)
(* empty set when they return false, else the one result.                    *)

RequestLine(line) ==
  LET method == Find(line, "SP")
      end    == FindFrom(line, "SP", method + 1)
      query  == SelectInSubSeq(line, method + 1, end - 1, LAMBDA w : w = "?")
      slash  == FindFrom(line, "/", end + 1)
  IN IF method = 0 \/ end = 0 \/ slash = 0 \/ SubSeq(line, end + 1, slash - 1) # <<"HTTP">> THEN {}
     ELSE {[method |-> SubSeq(line, 1, method - 1),
            path |-> SubSeq(line, method + 1, (IF query = 0 THEN end ELSE query) - 1),
            query_string |-> IF query = 0 THEN << >> ELSE SubSeq(line, query + 1, end - 1),
            version |-> SubSeq(line, slash + 1, Len(line) - 1)]}

Request(lines) == {[line |-> r, header |-> Header(Tail(lines)), rest |-> AfterHeader(Tail(lines))] :
                     r \in RequestLine(Head(lines))}

Response(lines) ==
  LET version == Find(Head(lines), "SP")
  IN IF version \in {0, Len(Head(lines))} THEN {}
     ELSE {[status_code |-> WithoutCR(SubSeq(Head(lines), version + 1, Len(Head(lines)))),
            header |-> Header(Tail(lines)), rest |-> AfterHeader(Tail(lines))]}

-------------------------------------------------------------------------------
(* Percent and QueryString.  A value is a sequence of characters. *)

Encode(value) == FlattenSeq([i \in DOMAIN value |->
                   IF value[i] \in DOMAIN Codes THEN <<"%">> \o Codes[value[i]] ELSE <<value[i]>>])

\* Mutant: a code needs another character behind it.
CodeAt_Short(value, i) == value[i] = "%" /\ i + 2 < Len(value)
CodeAt(value, i)       == value[i] = "%" /\ i + 2 <= Len(value)

\* strtol makes a 0 of what no digit begins.
Decoded(code) == IF \E c \in DOMAIN Codes : Codes[c] = code
                 THEN CHOOSE c \in DOMAIN Codes : Codes[c] = code ELSE "NUL"

Decode(value) ==
  LET From[i \in 1 .. Len(value) + 1] ==
        IF i > Len(value) THEN << >>
        ELSE IF CodeAt(value, i) THEN <<Decoded(SubSeq(value, i + 1, i + 2))>> \o From[i + 3]
        ELSE <<IF value[i] = "+" THEN "SP" ELSE value[i]>> \o From[i + 1]
  IN From[1]

\* QueryString::create, of the fields in the order in which the multimap has them.
CreateQuery(fields) ==
  FlattenSeq([k \in DOMAIN fields |-> (IF k = 1 THEN << >> ELSE <<"&">>)
                                      \o fields[k][1] \o <<"=">> \o Encode(fields[k][2])])

\* QueryString::parse: what is between two "&", its name before the first "=".
Pieces(query) ==
  LET ends == {i \in DOMAIN query : query[i] = "&"} \cup {0, Len(query) + 1}
  IN {SubSeq(query, a + 1, Min({b \in ends : b > a}) - 1) : a \in ends \ {Len(query) + 1}}

ParseQuery(query) ==
  LET Named(p) == IF Find(p, "=") = 0 THEN <<p, << >>>>
                  ELSE <<SubSeq(p, 1, Find(p, "=") - 1), Decode(SubSeq(p, Find(p, "=") + 1, Len(p)))>>
  IN {Named(p) : p \in {q \in Pieces(query) : Named(q)[1] # << >>}}

-------------------------------------------------------------------------------
(* The client's constructor. *)

\* parse_host_port, character by character: brackets go, and the colons outside of
\* them; the first of those ends the name.
Parsed(r, chr) ==
  CASE chr = "[" -> [r EXCEPT !.square_count = @ + 1]
    [] chr = "]" -> [r EXCEPT !.square_count = @ - 1]
    [] chr = ":" /\ r.square_count = 0 -> [r EXCEPT !.parse_port = TRUE]
    [] OTHER -> IF r.parse_port THEN [r EXCEPT !.port = Append(@, chr)]
                                ELSE [r EXCEPT !.host = Append(@, chr)]

HostAndPort(s) ==
  LET At[i \in 0 .. Len(s)] ==
        IF i = 0 THEN [host |-> << >>, port |-> << >>, parse_port |-> FALSE, square_count |-> 0]
                 ELSE Parsed(At[i - 1], s[i])
  IN At[Len(s)]

\* SocketClientBase::SocketClientBase; the path has its query with it.
HostEnd(url) == IF Find(url, "/") = 0 THEN Len(url) + 1 ELSE Find(url, "/")

\* Mutant: the path begins behind the slash.
PathOf_NoSlash(url) == IF Find(url, "/") = 0 THEN <<"/">> ELSE SubSeq(url, Find(url, "/") + 1, Len(url))

PathOf(url)  == IF Find(url, "/") = 0 THEN <<"/">> ELSE SubSeq(url, Find(url, "/"), Len(url))
===============================================================================
