---------------------------- MODULE IncomingProofs -----------------------------
(***************************************************************************)
(* What a connection tells the game of the frames it reads, for any        *)
(* handshake before them and any frames, lengths and size limit: messages  *)
(* in the order of their sending, each with all its fragments, whatever    *)
(* control frames stand between them; none bigger than a limit that leaves *)
(* room in a size_t; and nothing after its end but the rest of the report  *)
(* of a message that is too big.  And of the handshake: on which answers the      *)
(* client opens, and that the server understands what the client's owner   *)
(* asked for.                                                              *)
(*                                                                         *)
(* The invariant has five parts.  IInv says that the frames on their way    *)
(* take the reader, one after the other, from what it has delivered and    *)
(* collected to where the client is.  SizeInv says that the length bytes   *)
(* are those of the payload and that what is collected has the size of its *)
(* fragments; it rests on what the folds of the library add up to, and on  *)
(* what division leaves over.  EndReported says what was told of the end.  *)
(* UpgradeInv says what is read of the texts under way; it rests on lemmas *)
(* about how lines and headers are taken apart.  AskedInv says that what    *)
(* the server has understood is what was asked for; it rests on lemmas that *)
(* each parser of the texts undoes what made its text.                     *)
(***************************************************************************)
EXTENDS Incoming, FiniteSetTheorems, SequenceTheorems, TLAPS

\* Every set of naturals that is not empty has a least member.
LEMMA Least ==
  ASSUME NEW T \in SUBSET Nat, T # {}
  PROVE  \E n \in T : \A m \in T : n <= m
<1>1. PICK n \in T : \A m \in T : <<m, n>> \notin OpToRel(<, Nat)
  BY NatLessThanWellFounded, WFMin
<1>2. \A m \in T : ~(m < n)
  BY <1>1 DEF OpToRel
<1> QED
  BY <1>2

Payloads == R!Ids \X Lengths

\* A frame as the client writes it.
Sent == [fin : BOOLEAN, op : R!Opcodes, masked : BOOLEAN, short : {R!Encode(l).short : l \in Lengths},
         bytes : {R!Encode(l).bytes : l \in Lengths}, payload : Payloads]

\* None is not the record of a message amid its fragments, nor that of a frame.
NoneIsNoRecord == \A n, x : None # [length |-> n, body |-> x] /\ None # [f |-> x, length |-> n]

AmidFrame == stage \in {"length", "content"}

Types ==
  /\ wire \in Seq(Sent) /\ part \in Seq(Payloads) /\ sent \in Seq(Seq(Payloads))
  /\ delivered \in Seq(Seq(Payloads)) /\ frames \in 0 .. MaxFrames
  /\ stage \in {"header", "length", "content", "toobig", "closed", "done"}
  /\ reports \in Seq({"close", "error"})
  /\ AmidFrame => frame.f \in Sent
  /\ fragmented # None => fragmented.body \in Seq(Payloads) /\ Len(fragmented.body) > 0

\* The k-th message of the client that completed s and is amid p.
Message(s, p, k) == IF k <= Len(s) THEN s[k] ELSE p

Collected == IF fragmented = None THEN 0 ELSE Len(fragmented.body)

\* What was delivered and what is collected are the messages sent, so far.
Ordered ==
  /\ Len(delivered) <= Len(sent) /\ \A k \in 1 .. Len(delivered) : delivered[k] = sent[k]
  /\ R!Reading =>
       /\ Collected <= Len(Message(sent, part, Len(delivered) + 1))
       /\ \A i \in 1 .. Collected : fragmented.body[i] = Message(sent, part, Len(delivered) + 1)[i]

\* Frame f takes a reader that has m messages and j fragments of the next one to m2 and j2.
Takes(s, p, f, m, j, m2, j2) ==
  /\ m <= Len(s)
  /\ IF R!IsControl(f) THEN m2 = m /\ j2 = j
     ELSE /\ j < Len(Message(s, p, m + 1)) /\ Message(s, p, m + 1)[j + 1] = f.payload
          /\ f.op = "continue" <=> j > 0
          /\ IF f.fin THEN m < Len(s) /\ Len(s[m + 1]) = j + 1 /\ m2 = m + 1 /\ j2 = 0
                      ELSE m2 = m /\ j2 = j + 1

\* The frames that are on their way take the reader to where the client is.
Leads(m, j) ==
  /\ m[Len(wire)] = Len(sent) /\ j[Len(wire)] = Len(part)
  /\ \A i \in 1 .. Len(wire) : Takes(sent, part, wire[i], m[i - 1], j[i - 1], m[i], j[i])
  /\ IF AmidFrame THEN Takes(sent, part, frame.f, Len(delivered), Collected, m[0], j[0])
                  ELSE m[0] = Len(delivered) /\ j[0] = Collected

OnItsWay == R!Reading => \E m, j \in [0 .. Len(wire) -> Nat] : Leads(m, j)

IInv == Types /\ Ordered /\ OnItsWay

\* A control frame is as short as any.
LEMMA ShortestIsLength == R!Min(Lengths) \in Lengths
<1>1. Lengths \in SUBSET Nat /\ Lengths # {}
  BY IncomingAssumption
<1>2. PICK n \in Lengths : \A m \in Lengths : n <= m
  BY <1>1, Least
<1> QED
  BY <1>2 DEF R!Min

--------------------------------------------------------------------------------
(* The client goes on: one more payload, which may complete the message. *)

GoesOn(s, p, s2, p2, x) == \/ s2 = Append(s, Append(p, x)) /\ p2 = << >>
                           \/ s2 = s /\ p2 = Append(p, x)

LEMMA MessageGrows ==
  ASSUME NEW s \in Seq(Seq(Payloads)), NEW p \in Seq(Payloads), NEW s2, NEW p2,
         NEW x \in Payloads, GoesOn(s, p, s2, p2, x), NEW k \in 1 .. Len(s) + 1
  PROVE  /\ Message(s, p, k) \in Seq(Payloads) /\ Message(s2, p2, k) \in Seq(Payloads)
         /\ Len(Message(s, p, k)) <= Len(Message(s2, p2, k))
         /\ \A i \in 1 .. Len(Message(s, p, k)) : Message(s2, p2, k)[i] = Message(s, p, k)[i]
         /\ k <= Len(s) => k <= Len(s2) /\ s2[k] = s[k]
<1>1. CASE s2 = Append(s, Append(p, x)) /\ p2 = << >>
  <2>1. PICK q \in Seq(Payloads) : /\ q = Append(p, x) /\ Len(q) = Len(p) + 1
                                   /\ \A i \in 1 .. Len(p) : q[i] = p[i]
    <3>1. Append(p, x) \in Seq(Payloads) /\ Len(Append(p, x)) = Len(p) + 1
          /\ \A i \in 1 .. Len(p) : Append(p, x)[i] = p[i]
      OBVIOUS
    <3> QED
      BY <3>1
  <2>2. Len(s2) = Len(s) + 1 /\ s2[Len(s) + 1] = q /\ \A i \in 1 .. Len(s) : s2[i] = s[i]
    <3>1. s2 = Append(s, q)
      BY <1>1, <2>1
    <3> QED
      BY <3>1
  <2>3. CASE k <= Len(s)
    BY <2>2, <2>3 DEF Message
  <2>4. CASE k = Len(s) + 1
    <3>1. Message(s, p, k) = p /\ Message(s2, p2, k) = q
      BY <2>2, <2>4 DEF Message
    <3> QED
      <4>1. Len(p) \in Nat /\ Len(s) \in Nat /\ ~(k <= Len(s)) /\ Len(p) <= Len(q)
        BY <2>1, <2>4
      <4> QED
        BY <2>1, <3>1, <4>1
  <2> QED
    BY <2>3, <2>4
<1>2. CASE s2 = s /\ p2 = Append(p, x)
  BY <1>2 DEF Message
<1> QED
  BY <1>1, <1>2 DEF GoesOn

LEMMA TakesStill ==
  ASSUME NEW s \in Seq(Seq(Payloads)), NEW p \in Seq(Payloads), NEW s2, NEW p2,
         NEW x \in Payloads, GoesOn(s, p, s2, p2, x),
         NEW f, NEW m \in Nat, NEW j \in Nat, NEW m2, NEW j2, Takes(s, p, f, m, j, m2, j2)
  PROVE  Takes(s2, p2, f, m, j, m2, j2)
<1>1. Len(s) \in Nat /\ Len(s2) \in Nat /\ Len(s) <= Len(s2)
  BY DEF GoesOn
<1>2. m <= Len(s2)
  BY <1>1 DEF Takes
<1>3. CASE R!IsControl(f)
  BY <1>2, <1>3 DEF Takes
<1>4. CASE ~R!IsControl(f)
  <2>1. m + 1 \in 1 .. Len(s) + 1
    BY <1>1 DEF Takes
  <2>2. /\ Len(Message(s, p, m + 1)) \in Nat /\ Len(Message(s2, p2, m + 1)) \in Nat
        /\ Len(Message(s, p, m + 1)) <= Len(Message(s2, p2, m + 1))
        /\ \A i \in 1 .. Len(Message(s, p, m + 1)) : Message(s2, p2, m + 1)[i] = Message(s, p, m + 1)[i]
        /\ m < Len(s) => s2[m + 1] = s[m + 1]
    BY <1>1, <2>1, MessageGrows
  <2>3. j < Len(Message(s, p, m + 1)) /\ Message(s, p, m + 1)[j + 1] = f.payload
    BY <1>4 DEF Takes
  <2>4. j < Len(Message(s2, p2, m + 1)) /\ Message(s2, p2, m + 1)[j + 1] = f.payload
    BY <2>2, <2>3
  <2> QED
    BY <1>1, <1>2, <1>4, <2>2, <2>4 DEF Takes
<1> QED
  BY <1>3, <1>4
--------------------------------------------------------------------------------
(* The client's steps. *)

\* A frame behind the others, if it leads from where the client was to where it is.
LEMMA OneMoreFrame ==
  ASSUME IInv, R!Reading, UNCHANGED <<stage, frame, fragmented, delivered>>,
         NEW new \in Sent, wire' = Append(wire, new),
         Takes(sent', part', new, Len(sent), Len(part), Len(sent'), Len(part')),
         sent' \in Seq(Seq(Payloads)), part' \in Seq(Payloads),
         \/ UNCHANGED <<sent, part>>
         \/ \E x \in Payloads : GoesOn(sent, part, sent', part', x)
  PROVE  OnItsWay'
<1>1. PICK m \in [0 .. Len(wire) -> Nat], j \in [0 .. Len(wire) -> Nat] : Leads(m, j)
  BY DEF IInv, OnItsWay
<1> DEFINE n == Len(wire)
<1>2. /\ n \in Nat /\ Len(wire') = n + 1 /\ wire'[n + 1] = new
      /\ \A i \in 1 .. n : wire'[i] = wire[i]
  BY DEF IInv, Types
<1>3. Len(sent') \in Nat /\ Len(part') \in Nat
  OBVIOUS
<1>4. ASSUME NEW f, NEW a \in Nat, NEW b \in Nat, NEW c, NEW d, Takes(sent, part, f, a, b, c, d)
      PROVE  Takes(sent', part', f, a, b, c, d)
  <2>1. CASE UNCHANGED <<sent, part>>
    BY <1>4, <2>1
  <2>2. ASSUME NEW x \in Payloads, GoesOn(sent, part, sent', part', x)
        PROVE  Takes(sent', part', f, a, b, c, d)
    BY <1>4, <2>2, TakesStill DEF IInv, Types
  <2> QED
    BY <2>1, <2>2
<1>5. PICK m2 \in [0 .. n + 1 -> Nat], j2 \in [0 .. n + 1 -> Nat] :
        /\ m2[n + 1] = Len(sent') /\ j2[n + 1] = Len(part')
        /\ \A i \in 0 .. n : m2[i] = m[i] /\ j2[i] = j[i]
  <2> DEFINE ms == [i \in 0 .. n + 1 |-> IF i <= n THEN m[i] ELSE Len(sent')]
             js == [i \in 0 .. n + 1 |-> IF i <= n THEN j[i] ELSE Len(part')]
  <2>1. ms \in [0 .. n + 1 -> Nat] /\ js \in [0 .. n + 1 -> Nat]
    BY <1>2, <1>3
  <2>2. /\ ms[n + 1] = Len(sent') /\ js[n + 1] = Len(part')
        /\ \A i \in 0 .. n : ms[i] = m[i] /\ js[i] = j[i]
    BY <1>2
  <2> QED
    BY <2>1, <2>2
<1>6. m2[n] = Len(sent) /\ j2[n] = Len(part)
  <2>1. n \in 0 .. n
    BY <1>2
  <2>2. m[n] = Len(sent) /\ j[n] = Len(part)
    BY <1>1 DEF Leads
  <2> QED
    BY <1>5, <2>1, <2>2
<1>7. ASSUME NEW i \in 1 .. n + 1
      PROVE  Takes(sent', part', wire'[i], m2[i - 1], j2[i - 1], m2[i], j2[i])
  <2>1. CASE i = n + 1
    <3>1. i - 1 = n
      BY <1>2, <2>1
    <3> QED
      BY <1>2, <1>5, <1>6, <2>1, <3>1
  <2>2. CASE i # n + 1
    <3>1. i \in 1 .. n /\ i \in 0 .. n /\ i - 1 \in 0 .. n
      BY <1>2, <2>2
    <3>2. Takes(sent, part, wire[i], m[i - 1], j[i - 1], m[i], j[i]) /\ m[i - 1] \in Nat /\ j[i - 1] \in Nat
      BY <1>1, <3>1 DEF Leads
    <3> QED
      BY <1>2, <1>4, <1>5, <3>1, <3>2
  <2> QED
    BY <2>1, <2>2
<1>8. IF AmidFrame' THEN Takes(sent', part', frame'.f, Len(delivered'), Collected', m2[0], j2[0])
                    ELSE m2[0] = Len(delivered') /\ j2[0] = Collected'
  <2>1. AmidFrame' = AmidFrame /\ Collected' = Collected /\ m2[0] = m[0] /\ j2[0] = j[0]
    BY <1>2, <1>5 DEF AmidFrame, Collected
  <2>2. Len(delivered) \in Nat /\ Collected \in Nat
    BY DEF IInv, Types, Collected
  <2> QED
    BY <1>1, <1>4, <2>1, <2>2 DEF Leads
<1>9. Leads(m2, j2)'
  BY <1>2, <1>5, <1>7, <1>8 DEF Leads
<1> QED
  BY <1>2, <1>5, <1>9 DEF OnItsWay

\* What was delivered and collected is still the beginning of what is sent.
LEMMA OrderedStill ==
  ASSUME IInv, UNCHANGED <<stage, frame, fragmented, delivered>>,
         NEW x \in Payloads, GoesOn(sent, part, sent', part', x)
  PROVE  Ordered'
<1>1. Len(delivered) \in Nat /\ Len(sent) \in Nat /\ Len(delivered) <= Len(sent)
  BY DEF IInv, Types, Ordered, R!Reading
<1>2. \A k \in 1 .. Len(sent) + 1 :
         /\ Message(sent, part, k) \in Seq(Payloads) /\ Message(sent', part', k) \in Seq(Payloads)
         /\ Len(Message(sent, part, k)) <= Len(Message(sent', part', k))
         /\ \A i \in 1 .. Len(Message(sent, part, k)) : Message(sent', part', k)[i] = Message(sent, part, k)[i]
         /\ k <= Len(sent) => k <= Len(sent') /\ sent'[k] = sent[k]
  BY MessageGrows DEF IInv, Types
<1>3. Len(sent') \in Nat /\ Len(sent) <= Len(sent')
  BY DEF GoesOn, IInv, Types
<1>4. Len(delivered) <= Len(sent') /\ \A k \in 1 .. Len(delivered) : delivered[k] = sent'[k]
  BY <1>1, <1>2, <1>3 DEF IInv, Ordered, R!Reading
<1>5. ASSUME R!Reading
      PROVE  /\ Collected <= Len(Message(sent', part', Len(delivered) + 1))
             /\ \A i \in 1 .. Collected : fragmented.body[i] = Message(sent', part', Len(delivered) + 1)[i]
  <2>1. Len(delivered) + 1 \in 1 .. Len(sent) + 1 /\ Collected \in Nat
    BY <1>1 DEF IInv, Types, Collected
  <2>2. /\ Collected <= Len(Message(sent, part, Len(delivered) + 1))
        /\ \A i \in 1 .. Collected : fragmented.body[i] = Message(sent, part, Len(delivered) + 1)[i]
    BY <1>5 DEF IInv, Ordered, R!Reading
  <2>3. /\ Len(Message(sent, part, Len(delivered) + 1)) \in Nat
        /\ Len(Message(sent', part', Len(delivered) + 1)) \in Nat
    BY <1>2, <2>1
  <2> QED
    BY SMTT(30), <1>2, <2>1, <2>2, <2>3
<1>6. Collected' = Collected /\ R!Reading' = R!Reading
  BY DEF Collected, R!Reading
<1> QED
  BY <1>4, <1>5, <1>6 DEF Ordered, R!Reading

LEMMA ClientKeeps == ASSUME IInv, R!Client PROVE IInv'
<1>1. ASSUME NEW fin \in BOOLEAN, NEW l \in Lengths, NEW masked \in BOOLEAN,
             R!ClientSendsData(fin, l, masked)
      PROVE  IInv'
  <2> DEFINE x   == <<frames + 1, l>>
             op  == IF part = << >> THEN "data" ELSE "continue"
             new == [fin |-> fin, op |-> op, masked |-> masked, short |-> R!Encode(l).short,
                     bytes |-> R!Encode(l).bytes, payload |-> x]
  <2>1. /\ frames < MaxFrames /\ stage # "done" /\ frames' = frames + 1 /\ wire' = Append(wire, new)
        /\ IF fin THEN sent' = Append(sent, Append(part, x)) /\ part' = << >>
                  ELSE part' = Append(part, x) /\ sent' = sent
        /\ UNCHANGED <<stage, frame, fragmented, delivered, pongs, closes, reports>>
    BY <1>1 DEF R!ClientSendsData, R!Put, R!readVars, R!outVars
  <2>2. x \in Payloads /\ frames' \in 0 .. MaxFrames
    <3>1. MaxFrames \in Nat
      BY IncomingAssumption
    <3> QED
      BY SMTT(30), <2>1, <3>1 DEF IInv, Types, Payloads, R!Ids
  <2>3. new \in Sent
    BY <2>2 DEF Sent, R!Opcodes
  <2>4. GoesOn(sent, part, sent', part', x)
    BY <2>1 DEF GoesOn
  <2>5. PICK q \in Seq(Payloads) : /\ q = Append(part, x) /\ Len(q) = Len(part) + 1 /\ q[Len(part) + 1] = x
    <3> HIDE DEF x
    <3>1. /\ Append(part, x) \in Seq(Payloads) /\ Len(Append(part, x)) = Len(part) + 1
          /\ Append(part, x)[Len(part) + 1] = x
      BY <2>2 DEF IInv, Types
    <3> QED
      BY <3>1
  <2>6. /\ sent' \in Seq(Seq(Payloads)) /\ part' \in Seq(Payloads)
        /\ Len(part) \in Nat /\ Len(sent) \in Nat
    <3>1. sent \in Seq(Seq(Payloads)) /\ part \in Seq(Payloads)
      BY DEF IInv, Types
    <3>2. \/ sent' = Append(sent, q) /\ part' = << >>
          \/ sent' = sent /\ part' = q
      BY <2>1, <2>5
    <3>3. CASE sent' = Append(sent, q) /\ part' = << >>
      <4> DEFINE S == Seq(Payloads)
      <4>1. sent \in Seq(S) /\ q \in S
        BY <3>1
      <4>2. Append(sent, q) \in Seq(S)
        <5> HIDE DEF S
        <5> QED
          BY <4>1
      <4> QED
        BY <3>1, <3>3, <4>2
    <3>4. CASE sent' = sent /\ part' = q
      BY <3>1, <3>4
    <3> QED
      BY <3>2, <3>3, <3>4
  <2>7. Takes(sent', part', new, Len(sent), Len(part), Len(sent'), Len(part'))
    <3>1. ~R!IsControl(new) /\ (new.op = "continue" <=> Len(part) > 0)
      BY <2>6 DEF R!IsControl, IInv, Types
    <3>2. CASE fin
      <4>1. sent' = Append(sent, q) /\ part' = << >>
        BY <2>1, <2>5, <3>2
      <4>2. Len(sent') = Len(sent) + 1 /\ sent'[Len(sent) + 1] = q /\ Len(part') = 0
        BY <2>5, <4>1 DEF IInv, Types
      <4>3. Message(sent', part', Len(sent) + 1) = q
        BY <4>2, <2>6 DEF Message
      <4> QED
        BY <2>5, <2>6, <3>1, <3>2, <4>2, <4>3 DEF Takes
    <3>3. CASE ~fin
      <4>1. sent' = sent /\ part' = q
        BY <2>1, <2>5, <3>3
      <4>2. Message(sent', part', Len(sent) + 1) = q
        BY <2>6, <4>1 DEF Message
      <4> QED
        BY <2>5, <2>6, <3>1, <3>3, <4>1, <4>2 DEF Takes
    <3> QED
      BY <3>2, <3>3
  <2>8. OnItsWay'
    <3>1. CASE R!Reading
      BY <2>1, <2>2, <2>3, <2>4, <2>6, <2>7, <3>1, OneMoreFrame
    <3> QED
      BY <2>1, <3>1 DEF OnItsWay, R!Reading
  <2>9. Ordered'
    BY <2>1, <2>2, <2>4, OrderedStill
  <2>10. Types'
    BY <2>1, <2>2, <2>3, <2>6 DEF IInv, Types, AmidFrame
  <2> QED
    BY <2>8, <2>9, <2>10 DEF IInv
<1>2. ASSUME NEW op \in {"close", "ping", "pong"}, R!ClientSendsControl(op) PROVE IInv'
  <2> DEFINE l   == R!Min(Lengths)
             new == [fin |-> TRUE, op |-> op, masked |-> TRUE, short |-> R!Encode(l).short,
                     bytes |-> R!Encode(l).bytes, payload |-> <<frames + 1, l>>]
  <2>1. /\ frames < MaxFrames /\ stage # "done" /\ frames' = frames + 1 /\ wire' = Append(wire, new)
        /\ UNCHANGED <<part, sent, stage, frame, fragmented, delivered, pongs, closes, reports>>
    BY <1>2 DEF R!ClientSendsControl, R!Put, R!readVars, R!outVars
  <2>2. <<frames + 1, l>> \in Payloads /\ frames' \in 0 .. MaxFrames
    BY <2>1, IncomingAssumption, ShortestIsLength DEF IInv, Types, Payloads, R!Ids
  <2>3. new \in Sent
    BY <2>2, ShortestIsLength DEF Sent, R!Opcodes
  <2>4. R!IsControl(new)
    BY DEF R!IsControl
  <2>5. sent \in Seq(Seq(Payloads)) /\ part \in Seq(Payloads)
    BY DEF IInv, Types
  <2>6. Takes(sent', part', new, Len(sent), Len(part), Len(sent'), Len(part'))
    BY <2>1, <2>4, <2>5 DEF Takes
  <2>7. OnItsWay'
    <3> HIDE DEF new
    <3>1. CASE R!Reading
      BY <2>1, <2>3, <2>5, <2>6, <3>1, OneMoreFrame
    <3> QED
      BY <2>1, <3>1 DEF OnItsWay, R!Reading
  <2>8. Types'
    <3> HIDE DEF new
    <3> QED
      BY <2>1, <2>2, <2>3, <2>5 DEF IInv, Types, AmidFrame
  <2>9. Ordered'
    BY <2>1 DEF IInv, Ordered, Collected, R!Reading
  <2> QED
    BY <2>7, <2>8, <2>9 DEF IInv
<1> QED
  BY <1>1, <1>2 DEF R!Client
--------------------------------------------------------------------------------
(* The reader's steps. *)

\* However the reads of a connection end, what was delivered stays.
LEMMA EndKeeps ==
  ASSUME IInv, stage' \in {"toobig", "closed", "done"}, wire' \in Seq(Sent),
         reports' \in Seq({"close", "error"}), UNCHANGED <<frames, part, sent, fragmented, delivered>>
  PROVE  IInv'
  BY DEF IInv, Types, Ordered, OnItsWay, AmidFrame, R!Reading

LEMMA Calls == <<"close">> \in Seq({"close", "error"}) /\ <<"error">> \in Seq({"close", "error"})
  OBVIOUS

LEMMA EndReadingKeeps ==
  ASSUME IInv, NEW calls \in Seq({"close", "error"}), R!EndReading(calls), wire' \in Seq(Sent),
         UNCHANGED <<frames, part, sent, fragmented, delivered>>
  PROVE  IInv'
<1>1. stage' = "done" /\ reports' = reports \o calls
  BY DEF R!EndReading
<1>2. reports' \in Seq({"close", "error"})
  BY <1>1 DEF IInv, Types
<1> QED
  BY <1>1, <1>2, EndKeeps

LEMMA TooBigKeeps ==
  ASSUME IInv, R!ReportTooBig, wire' \in Seq(Sent),
         UNCHANGED <<frames, part, sent, fragmented, delivered>>
  PROVE  IInv'
<1>1. stage' = "toobig" /\ reports' = Append(reports, "error")
  BY DEF R!ReportTooBig
<1>2. reports' \in Seq({"close", "error"})
  BY <1>1 DEF IInv, Types
<1> QED
  BY <1>1, <1>2, EndKeeps

LEMMA EndTooBigKeeps == ASSUME IInv, R!EndTooBig PROVE IInv'
<1>1. UNCHANGED <<wire, frames, part, sent, fragmented, delivered>> /\ wire' \in Seq(Sent)
  BY DEF R!EndTooBig, R!clientVars, IInv, Types
<1>2. CASE stage' = "closed" /\ reports' = reports
  <2>1. reports' \in Seq({"close", "error"})
    BY <1>2 DEF IInv, Types
  <2> QED
    BY <1>1, <1>2, <2>1, EndKeeps
<1>3. CASE R!EndReading(<<"close">>)
  BY <1>1, <1>3, Calls, EndReadingKeeps
<1> QED
  BY <1>2, <1>3 DEF R!EndTooBig

\* The first frame on its way becomes the frame being read.
LEMMA HeadTaken ==
  ASSUME IInv, stage = "header", wire # << >>, wire' = Tail(wire),
         stage' \in {"length", "content"}, frame'.f = Head(wire),
         UNCHANGED <<frames, part, sent, fragmented, delivered, reports>>
  PROVE  IInv'
<1>1. PICK m \in [0 .. Len(wire) -> Nat], j \in [0 .. Len(wire) -> Nat] : Leads(m, j)
  BY DEF IInv, OnItsWay, R!Reading
<1> DEFINE n == Len(wire)
<1>2. /\ n \in Nat \ {0} /\ Len(wire') = n - 1 /\ Head(wire) = wire[1] /\ Head(wire) \in Sent
      /\ wire' \in Seq(Sent) /\ \A i \in 1 .. n - 1 : wire'[i] = wire[i + 1]
  BY DEF IInv, Types
<1>3. PICK m2 \in [0 .. n - 1 -> Nat], j2 \in [0 .. n - 1 -> Nat] :
        \A i \in 0 .. n - 1 : m2[i] = m[i + 1] /\ j2[i] = j[i + 1]
  <2> DEFINE ms == [i \in 0 .. n - 1 |-> m[i + 1]]
             js == [i \in 0 .. n - 1 |-> j[i + 1]]
  <2>1. \A i \in 0 .. n - 1 : i + 1 \in 0 .. n
    BY <1>2
  <2>2. ms \in [0 .. n - 1 -> Nat] /\ js \in [0 .. n - 1 -> Nat]
    BY <2>1
  <2>3. \A i \in 0 .. n - 1 : ms[i] = m[i + 1] /\ js[i] = j[i + 1]
    OBVIOUS
  <2> QED
    BY <2>2, <2>3
<1>4. /\ m[n] = Len(sent) /\ j[n] = Len(part) /\ m[0] = Len(delivered) /\ j[0] = Collected
      /\ \A i \in 1 .. n : Takes(sent, part, wire[i], m[i - 1], j[i - 1], m[i], j[i])
  BY <1>1 DEF Leads, AmidFrame
<1>5. m2[n - 1] = Len(sent) /\ j2[n - 1] = Len(part)
  <2>1. n - 1 \in 0 .. n - 1 /\ (n - 1) + 1 = n
    BY <1>2
  <2> QED
    BY <1>3, <1>4, <2>1
<1>6. ASSUME NEW i \in 1 .. n - 1 PROVE Takes(sent, part, wire'[i], m2[i - 1], j2[i - 1], m2[i], j2[i])
  <2>1. i + 1 \in 1 .. n /\ (i + 1) - 1 = i /\ i - 1 \in 0 .. n - 1 /\ i \in 0 .. n - 1 /\ (i - 1) + 1 = i
    BY <1>2
  <2>2. Takes(sent, part, wire[i + 1], m[i], j[i], m[i + 1], j[i + 1])
    BY <1>4, <2>1
  <2>3. m2[i] = m[i + 1] /\ j2[i] = j[i + 1] /\ m2[i - 1] = m[i] /\ j2[i - 1] = j[i]
    BY <1>3, <2>1
  <2> QED
    BY <1>2, <2>2, <2>3
<1>7. Takes(sent, part, frame'.f, Len(delivered), Collected, m2[0], j2[0])
  <2>1. 1 \in 1 .. n /\ 1 - 1 = 0 /\ 0 \in 0 .. n - 1 /\ 0 + 1 = 1
    BY <1>2
  <2>2. Takes(sent, part, wire[1], m[0], j[0], m[1], j[1])
    BY <1>4, <2>1
  <2>3. m2[0] = m[1] /\ j2[0] = j[1]
    BY <1>3, <2>1
  <2> QED
    BY <1>2, <1>4, <2>2, <2>3
<1>8. AmidFrame' /\ Collected' = Collected
  BY DEF AmidFrame, Collected
<1>9. Leads(m2, j2)'
  BY <1>2, <1>5, <1>6, <1>7, <1>8 DEF Leads
<1>10. OnItsWay'
  BY <1>2, <1>3, <1>9 DEF OnItsWay
<1>11. Ordered'
  BY <1>8 DEF IInv, Ordered, R!Reading
<1>12. Types'
  BY <1>2 DEF IInv, Types, AmidFrame
<1> QED
  BY <1>10, <1>11, <1>12 DEF IInv

LEMMA HeaderReadKeeps == ASSUME IInv, R!HeaderRead PROVE IInv'
<1> DEFINE f == Head(wire)
<1>1. /\ stage = "header" /\ wire # << >> /\ wire' = Tail(wire)
      /\ UNCHANGED <<frames, part, sent, fragmented, delivered, pongs>>
  BY DEF R!HeaderRead, R!clientVars
<1>2. wire' \in Seq(Sent)
  BY <1>1 DEF IInv, Types
<1>3. CASE R!Unmasked
  <2>1. R!EndReading(<<"close">>)
    BY <1>3 DEF R!Unmasked
  <2> QED
    BY <1>1, <1>2, <2>1, Calls, EndReadingKeeps
<1>4. CASE R!ReadContent(f, f.short)
  <2>1. CASE R!ReportTooBig
    BY <1>1, <1>2, <2>1, TooBigKeeps
  <2>2. CASE R!StartRead(f, f.short)
    BY <1>1, <2>2, HeadTaken DEF R!StartRead
  <2> QED
    BY <1>4, <2>1, <2>2 DEF R!ReadContent
<1>5. CASE stage' = "length" /\ frame' = [f |-> f, length |-> 0] /\ UNCHANGED <<closes, reports>>
  BY <1>1, <1>5, HeadTaken
<1> QED
  BY <1>3, <1>4, <1>5 DEF R!HeaderRead

LEMMA LengthReadKeeps == ASSUME IInv, R!LengthRead PROVE IInv'
<1> DEFINE f == frame.f
           l == R!LengthOf(f.bytes)
<1>1. stage = "length" /\ UNCHANGED <<wire, frames, part, sent, fragmented, delivered, pongs>>
  BY DEF R!LengthRead, R!clientVars
<1>2. R!ReadContent(f, l)
  BY DEF R!LengthRead
<1>3. CASE R!ReportTooBig
  <2>1. wire' \in Seq(Sent)
    BY <1>1 DEF IInv, Types
  <2> QED
    BY <1>1, <1>3, <2>1, TooBigKeeps
<1>4. CASE R!StartRead(f, l)
  <2>1. stage' = "content" /\ frame'.f = frame.f /\ reports' = reports
    BY <1>4 DEF R!StartRead
  <2>2. AmidFrame /\ AmidFrame' /\ Collected' = Collected
    BY <1>1, <2>1 DEF AmidFrame, Collected
  <2>3. PICK m \in [0 .. Len(wire) -> Nat], j \in [0 .. Len(wire) -> Nat] : Leads(m, j)
    BY <1>1 DEF IInv, OnItsWay, R!Reading
  <2>4. Leads(m, j)'
    BY <1>1, <2>1, <2>2, <2>3 DEF Leads
  <2>5. OnItsWay'
    BY <1>1, <2>3, <2>4 DEF OnItsWay
  <2>6. Ordered' /\ Types'
    BY <1>1, <2>1, <2>2 DEF IInv, Ordered, Types, R!Reading
  <2> QED
    BY <2>5, <2>6 DEF IInv
<1> QED
  BY <1>2, <1>3, <1>4 DEF R!ReadContent
\* The message a fragment is put into.
LEMMA Collects ==
  ASSUME Types, NEW f \in Sent, NEW l
  PROVE  /\ Collected \in Nat
         /\ R!Collect(f, l).body \in Seq(Payloads) /\ Len(R!Collect(f, l).body) = Collected + 1
         /\ \A i \in 1 .. Collected : R!Collect(f, l).body[i] = fragmented.body[i]
         /\ R!Collect(f, l).body[Collected + 1] = f.payload
         /\ NoneIsNoRecord => R!Collect(f, l) # None
<1>1. f.payload \in Payloads
  BY DEF Sent
<1>2. CASE fragmented = None
  <2>1. R!Collect(f, l) = [length |-> l, body |-> <<f.payload>>] /\ Collected = 0
    BY <1>2 DEF R!Collect, Collected
  <2> QED
    BY <1>1, <2>1 DEF NoneIsNoRecord
<1>3. CASE fragmented # None
  <2>1. /\ R!Collect(f, l) = [length |-> R!Plus(fragmented.length, l),
                              body |-> Append(fragmented.body, f.payload)]
        /\ Collected = Len(fragmented.body) /\ fragmented.body \in Seq(Payloads)
    <3>1. fragmented.body \in Seq(Payloads)
      BY <1>3 DEF Types
    <3> QED
      BY <1>3, <3>1 DEF R!Collect, Collected
  <2>2. R!Collect(f, l).body = Append(fragmented.body, f.payload)
    BY <2>1
  <2>3. NoneIsNoRecord => R!Collect(f, l) # None
    BY <2>1 DEF NoneIsNoRecord
  <2> QED
    BY <1>1, <2>1, <2>2, <2>3
<1> QED
  BY <1>2, <1>3

\* The frame that was read is gone: the others lead on from where it took the reader.
LEMMA FrameDone ==
  ASSUME IInv, stage = "content", stage' = "header",
         UNCHANGED <<wire, frames, part, sent, reports>>,
         \A m, j : Takes(sent, part, frame.f, Len(delivered), Collected, m, j)
                     => m = Len(delivered') /\ j = Collected'
  PROVE  OnItsWay'
<1>1. PICK m \in [0 .. Len(wire) -> Nat], j \in [0 .. Len(wire) -> Nat] : Leads(m, j)
  BY DEF IInv, OnItsWay, R!Reading
<1>2. AmidFrame /\ ~AmidFrame'
  BY DEF AmidFrame
<1>3. m[0] = Len(delivered') /\ j[0] = Collected'
  BY <1>1, <1>2 DEF Leads
<1>4. Leads(m, j)'
  BY <1>1, <1>2, <1>3 DEF Leads
<1> QED
  BY <1>1, <1>4 DEF OnItsWay

LEMMA ContentReadKeeps == ASSUME NoneIsNoRecord, IInv, R!ContentRead PROVE IInv'
<1> DEFINE f == frame.f
           D == Len(delivered)
<1>1. /\ stage = "content" /\ UNCHANGED <<wire, frames, part, sent>>
      /\ f \in Sent /\ wire' \in Seq(Sent)
  BY DEF R!ContentRead, R!clientVars, IInv, Types, AmidFrame
<1>2. PICK m0, j0 : Takes(sent, part, f, D, Collected, m0, j0)
  <2>1. PICK m \in [0 .. Len(wire) -> Nat], j \in [0 .. Len(wire) -> Nat] : Leads(m, j)
    BY <1>1 DEF IInv, OnItsWay, R!Reading
  <2> QED
    BY <1>1, <2>1 DEF Leads, AmidFrame
<1>3. CASE R!IsControl(f) /\ R!ControlRead(f)
  <2>1. UNCHANGED <<fragmented, delivered>> /\ Collected' = Collected
    BY <1>3 DEF R!ControlRead, R!KeptByControl, R!CloseRead, R!PingRead, R!PongRead, R!ReadOn, Collected
  <2>2. CASE R!EndReading(<<"close">>)
    BY <1>1, <2>1, <2>2, Calls, EndReadingKeeps
  <2>3. CASE R!ReadOn
    <3>1. stage' = "header" /\ reports' = reports
      BY <2>3 DEF R!ReadOn
    <3>2. OnItsWay'
      BY <1>1, <1>3, <2>1, <3>1, FrameDone DEF Takes
    <3>3. Ordered' /\ Types'
      BY <1>1, <2>1, <3>1 DEF IInv, Ordered, Types, AmidFrame, R!Reading
    <3> QED
      BY <3>2, <3>3 DEF IInv
  <2> QED
    BY <1>3, <2>2, <2>3 DEF R!ControlRead, R!CloseRead, R!PingRead, R!PongRead
<1>4. CASE ~R!IsControl(f) /\ R!DataRead(f, frame.length)
  <2> DEFINE body == R!Collect(f, frame.length).body
             next == Message(sent, part, D + 1)
  <2>1. stage' = "header" /\ reports' = reports
    BY <1>4 DEF R!DataRead, R!ReadOn
  <2>2. /\ Collected \in Nat /\ body \in Seq(Payloads) /\ Len(body) = Collected + 1
        /\ \A i \in 1 .. Collected : body[i] = fragmented.body[i]
        /\ body[Collected + 1] = f.payload /\ R!Collect(f, frame.length) # None
    BY <1>1, Collects DEF IInv
  <2>3. /\ D \in Nat /\ Len(sent) \in Nat /\ sent \in Seq(Seq(Payloads)) /\ part \in Seq(Payloads)
        /\ delivered \in Seq(Seq(Payloads)) /\ f.payload \in Payloads
    BY <1>1 DEF IInv, Types, Sent
  <2>4. /\ D <= Len(sent) /\ Collected < Len(next) /\ next[Collected + 1] = f.payload
        /\ f.op = "continue" <=> Collected > 0
    BY <1>2, <1>4 DEF Takes
  <2>5. next \in Seq(Payloads)
    BY <2>3, <2>4 DEF Message
  <2>6. \A i \in 1 .. Collected + 1 : body[i] = next[i]
    BY <1>1, <2>2, <2>4 DEF IInv, Ordered, R!Reading
  <2>7. CASE f.fin
    <3> DEFINE msg == IF R!IsFragment(f) THEN body ELSE <<f.payload>>
    <3>1. delivered' = Append(delivered, msg) /\ fragmented' = None
      BY <1>4, <2>7 DEF R!DataRead
    <3>2. D < Len(sent) /\ Len(sent[D + 1]) = Collected + 1 /\ sent[D + 1] \in Seq(Payloads)
      BY <1>2, <1>4, <2>3, <2>7 DEF Takes
    <3>3. msg = sent[D + 1]
      <4>1. next = sent[D + 1]
        BY <2>3, <3>2 DEF Message
      <4>2. CASE R!IsFragment(f)
        <5>1. body \in Seq(Payloads) /\ Len(body) = Len(next) /\ \A i \in 1 .. Len(next) : body[i] = next[i]
          BY <2>2, <2>6, <3>2, <4>1
        <5>2. body = next
          BY <2>5, <5>1
        <5> QED
          BY <4>1, <4>2, <5>2
      <4>3. CASE ~R!IsFragment(f)
        <5>1. Collected = 0
          BY <2>2, <2>4, <4>3 DEF R!IsFragment
        <5>2. Len(next) = 1 /\ next[1] = f.payload
          BY <2>4, <3>2, <4>1, <5>1
        <5>3. next = <<f.payload>>
          BY <2>3, <2>5, <5>2
        <5> QED
          BY <4>1, <4>3, <5>3
      <4> QED
        BY <4>2, <4>3
    <3>4. /\ delivered' \in Seq(Seq(Payloads)) /\ Len(delivered') = D + 1 /\ delivered'[D + 1] = sent[D + 1]
          /\ \A k \in 1 .. D : delivered'[k] = delivered[k]
      <4> DEFINE q == sent[D + 1]
                 Bodies == Seq(Payloads)
      <4>1. q \in Bodies /\ delivered \in Seq(Bodies) /\ delivered' = Append(delivered, q)
        BY <2>3, <3>1, <3>2, <3>3
      <4> HIDE DEF q, Bodies
      <4>2. /\ delivered' \in Seq(Bodies) /\ Len(delivered') = D + 1 /\ delivered'[D + 1] = q
            /\ \A k \in 1 .. D : delivered'[k] = delivered[k]
        BY <4>1
      <4> QED
        BY <4>2 DEF q, Bodies
    <3>5. Collected' = 0
      BY <3>1 DEF Collected
    <3>6. OnItsWay'
      <4>1. \A m, j : Takes(sent, part, frame.f, Len(delivered), Collected, m, j)
                        => m = Len(delivered') /\ j = Collected'
        BY <1>4, <2>7, <3>4, <3>5 DEF Takes
      <4> QED
        BY <1>1, <2>1, <4>1, FrameDone
    <3>7. Ordered'
      <4>1. /\ Len(delivered') <= Len(sent)
            /\ \A k \in 1 .. Len(delivered') : delivered'[k] = sent[k]
        <5>1. \A k \in 1 .. D : delivered[k] = sent[k]
          BY DEF IInv, Ordered, R!Reading
        <5>2. ASSUME NEW k \in 1 .. D + 1 PROVE delivered'[k] = sent[k]
          <6>1. k = D + 1 \/ k \in 1 .. D
            BY <2>3
          <6> QED
            BY <3>4, <5>1, <6>1
        <5>3. D + 1 <= Len(sent)
          BY <2>3, <3>2
        <5> QED
          BY <3>4, <5>2, <5>3
      <4>2. 0 <= Len(Message(sent, part, Len(delivered') + 1))
        <5>1. Message(sent, part, Len(delivered') + 1) \in Seq(Payloads)
          BY <2>3, <3>2, <3>4 DEF Message
        <5> QED
          BY <5>1
      <4> QED
        BY <1>1, <3>5, <4>1, <4>2 DEF Ordered, R!Reading
    <3>8. Types'
      BY <1>1, <2>1, <3>1, <3>4 DEF IInv, Types, AmidFrame
    <3> QED
      BY <3>6, <3>7, <3>8 DEF IInv
  <2>8. CASE ~f.fin
    <3>1. fragmented' = R!Collect(f, frame.length) /\ delivered' = delivered
      BY <1>4, <2>8 DEF R!DataRead
    <3>2. fragmented' # None /\ fragmented'.body = body /\ Collected' = Collected + 1
      BY <2>2, <3>1 DEF Collected
    <3>3. OnItsWay'
      <4>1. \A m, j : Takes(sent, part, frame.f, Len(delivered), Collected, m, j)
                        => m = Len(delivered') /\ j = Collected'
        BY <1>4, <2>8, <3>1, <3>2 DEF Takes
      <4> QED
        BY <1>1, <2>1, <4>1, FrameDone
    <3>4. Ordered'
      <4>1. Collected + 1 <= Len(next)
        BY <2>2, <2>4, <2>5
      <4> QED
        BY <1>1, <2>6, <3>1, <3>2, <4>1 DEF IInv, Ordered, R!Reading
    <3>5. Types'
      BY <1>1, <2>1, <2>2, <3>1, <3>2 DEF IInv, Types, AmidFrame
    <3> QED
      BY <3>3, <3>4, <3>5 DEF IInv
  <2> QED
    BY <2>7, <2>8
<1> QED
  BY <1>3, <1>4 DEF R!ContentRead

--------------------------------------------------------------------------------
LEMMA InitHolds == Init => IInv
<1> SUFFICES ASSUME Init PROVE IInv
  OBVIOUS
<1>1. /\ wire = << >> /\ frames = 0 /\ part = << >> /\ sent = << >> /\ stage = "header"
      /\ fragmented = None /\ delivered = << >> /\ reports = << >>
  BY DEF Init, R!Init
<1>2. Types
  BY <1>1, IncomingAssumption DEF Types, AmidFrame
<1>3. Collected = 0 /\ Ordered
  BY <1>1 DEF Ordered, Collected, Message, R!Reading
<1>4. OnItsWay
  <2> DEFINE z == [i \in 0 .. 0 |-> 0]
  <2>1. z \in [0 .. Len(wire) -> Nat] /\ z[0] = 0 /\ Len(wire) = 0
    BY <1>1
  <2>2. Leads(z, z)
    BY <1>1, <1>3, <2>1 DEF Leads, AmidFrame
  <2> QED
    BY <2>1, <2>2 DEF OnItsWay
<1> QED
  BY <1>2, <1>3, <1>4 DEF IInv

LEMMA StepKeeps == NoneIsNoRecord /\ IInv /\ [Next]_vars => IInv'
<1> SUFFICES ASSUME NoneIsNoRecord, IInv, [Next]_vars PROVE IInv'
  OBVIOUS
<1>1. CASE UNCHANGED frameVars
  BY <1>1 DEF frameVars, IInv, Types, Ordered, OnItsWay, Leads, AmidFrame, Collected, R!Reading
<1>2. CASE R!ReadFails
  <2>1. R!EndReading(<<"error">>) /\ UNCHANGED <<wire, frames, part, sent, fragmented, delivered>>
    BY <1>2 DEF R!ReadFails, R!clientVars
  <2>2. wire' \in Seq(Sent)
    BY <2>1 DEF IInv, Types
  <2> QED
    BY <2>1, <2>2, Calls, EndReadingKeeps
<1>3. CASE R!Read
  BY <1>3, HeaderReadKeeps, LengthReadKeeps, ContentReadKeeps, EndTooBigKeeps DEF R!Read
<1>4. CASE R!Client
  BY <1>4, ClientKeeps
<1> QED
  BY <1>1, <1>2, <1>3, <1>4
     DEF Next, vars, ClientHandshake, ServerHandshake, Stranger, HandshakeFails, WriteFails, Frames, Read, ReadFails

\* The frames under way lead the reader to where the client is.
THEOREM Invariance == ASSUME NoneIsNoRecord PROVE Spec => []IInv
<1>1. Init => IInv
  BY InitHolds
<1>2. IInv /\ [Next]_vars => IInv'
  BY StepKeeps
<1> QED
  BY <1>1, <1>2, PTL DEF Spec

\* What on_message got is at every moment the beginning of what the client sent
\* (server_ws.hpp:774): no message is lost, doubled, torn or out of order.
THEOREM InOrder == ASSUME NoneIsNoRecord PROVE Spec => []R!IsPrefix(delivered, sent)
<1>1. IInv => R!IsPrefix(delivered, sent)
  <2> SUFFICES ASSUME IInv PROVE R!IsPrefix(delivered, sent)
    OBVIOUS
  <2>1. /\ delivered \in Seq(Seq(Payloads)) /\ sent \in Seq(Seq(Payloads)) /\ Len(delivered) <= Len(sent)
        /\ \A k \in 1 .. Len(delivered) : delivered[k] = sent[k]
    BY DEF IInv, Types, Ordered, R!Reading
  <2>2. SubSeq(delivered, 1, Len(delivered)) = SubSeq(sent, 1, Len(delivered))
    BY <2>1
  <2> QED
    BY <2>1, <2>2 DEF R!IsPrefix
<1> QED
  BY <1>1, Invariance, PTL

\* What was told of the end, and the close frames queued, at each stage before the last.
EndReported ==
  /\ R!Reading => reports = << >> /\ closes = << >>
  /\ stage = "toobig" => reports = <<"error">> /\ closes = << >>
  /\ stage = "closed" => reports = <<"error">> /\ closes = <<1009>>

\* The last two reports of a message that is too big.
TellsRest ==
  \/ reports = <<"error">> /\ closes = << >> /\ UNCHANGED reports /\ closes' = <<1009>>
  \/ reports = <<"error">> /\ closes = <<1009>> /\ UNCHANGED closes /\ reports' = <<"error", "close">>

LEMMA AfterOne == ASSUME NEW x, NEW y PROVE <<x>> \o <<y>> = <<x, y>>
<1> DEFINE S == {x, y}
           a == <<x>>
           b == <<y>>
<1>1. a \in Seq(S) /\ b \in Seq(S) /\ Len(a) = 1 /\ Len(b) = 1 /\ a[1] = x /\ b[1] = y
  OBVIOUS
<1> HIDE DEF S, a, b
<1>2. /\ a \o b \in Seq(S) /\ Len(a \o b) = 1 + 1
      /\ \A i \in 1 .. 1 + 1 : (a \o b)[i] = IF i <= 1 THEN a[i] ELSE b[i - 1]
  BY <1>1, ConcatProperties
<1> DEFINE d == <<x, y>>
<1>3. d \in Seq(S) /\ Len(d) = 2 /\ d[1] = x /\ d[2] = y
  BY DEF S
<1> HIDE DEF d
<1>4. PICK c : c = a \o b
  OBVIOUS
<1>5. c \in Seq(S) /\ Len(c) = 2 /\ \A i \in 1 .. 2 : c[i] = d[i]
  BY <1>1, <1>2, <1>3, <1>4
<1>6. c = d
  BY <1>3, <1>5
<1> QED
  BY <1>4, <1>6 DEF a, b, d

\* No step of the connection starts after its end is reported, but those that report the rest.
LEMMA OverIsOver ==
  ASSUME EndReported, [Next]_vars
  PROVE  /\ EndReported'
         /\ reports # << >> => UNCHANGED <<delivered, pongs>> /\ (UNCHANGED <<closes, reports>> \/ TellsRest)
<1>1. CASE UNCHANGED frameVars
  BY <1>1 DEF frameVars, EndReported, R!Reading
<1>2. CASE R!Client
  <2>1. UNCHANGED <<stage, delivered, pongs, closes, reports>>
    BY <1>2 DEF R!Client, R!ClientSendsData, R!ClientSendsControl, R!readVars, R!outVars
  <2> QED
    BY <2>1 DEF EndReported, R!Reading
<1>3. CASE R!HeaderRead \/ R!LengthRead \/ R!ContentRead \/ R!ReadFails
  <2>1. reports = << >> /\ closes = << >>
    BY <1>3 DEF R!HeaderRead, R!LengthRead, R!ContentRead, R!ReadFails, EndReported, R!Reading
  <2>2. \/ stage' = "done"
        \/ stage' = "toobig" /\ reports' = Append(reports, "error") /\ closes' = closes
        \/ R!Reading' /\ reports' = reports /\ closes' = closes
    <3>1. ASSUME NEW f, NEW l, R!ReadContent(f, l)
          PROVE  \/ stage' = "toobig" /\ reports' = Append(reports, "error") /\ closes' = closes
                 \/ R!Reading' /\ reports' = reports /\ closes' = closes
      BY <3>1 DEF R!ReadContent, R!ReportTooBig, R!StartRead, R!Reading
    <3>2. CASE R!HeaderRead
      BY <3>1, <3>2 DEF R!HeaderRead, R!Unmasked, R!EndReading, R!Reading
    <3>3. CASE R!LengthRead
      BY <3>1, <3>3 DEF R!LengthRead
    <3>4. CASE R!ContentRead
      BY <3>4 DEF R!ContentRead, R!ControlRead, R!CloseRead, R!PingRead, R!PongRead, R!DataRead, R!ReadOn,
                  R!EndReading, R!Reading
    <3>5. CASE R!ReadFails
      BY <3>5 DEF R!ReadFails, R!EndReading
    <3> QED
      BY <1>3, <3>2, <3>3, <3>4, <3>5
  <2> QED
    BY <2>1, <2>2 DEF EndReported, R!Reading
<1>4. CASE R!EndTooBig
  <2>1. UNCHANGED <<delivered, pongs>>
    BY <1>4 DEF R!EndTooBig
  <2>2. CASE stage = "toobig" /\ closes' = Append(closes, 1009) /\ stage' = "closed" /\ UNCHANGED reports
    BY <2>1, <2>2 DEF EndReported, R!Reading, TellsRest
  <2>3. CASE stage = "closed" /\ R!EndReading(<<"close">>) /\ UNCHANGED closes
    <3>1. <<"error">> \o <<"close">> = <<"error", "close">>
      BY AfterOne
    <3>2. reports' = <<"error", "close">> /\ stage' = "done" /\ reports = <<"error">> /\ closes = <<1009>>
      <4>1. reports = <<"error">> /\ closes = <<1009>>
        BY <2>3 DEF EndReported
      <4>2. reports' = reports \o <<"close">> /\ stage' = "done"
        BY <2>3 DEF R!EndReading
      <4> QED
        BY ONLY <3>1, <4>1, <4>2, Zenon
    <3> QED
      BY <2>1, <2>3, <3>2 DEF EndReported, R!Reading, TellsRest
  <2> QED
    BY <1>4, <2>2, <2>3 DEF R!EndTooBig
<1> QED
  BY <1>1, <1>2, <1>3, <1>4
     DEF Next, vars, ClientHandshake, ServerHandshake, Stranger, HandshakeFails, WriteFails, Frames, Read,
         ReadFails, R!Read

\* Once an end of the connection is reported nothing of it reaches the game and no pong is
\* queued; what still comes is the close frame and then the second report of a message that
\* is too big, each once (server_ws.hpp:692-696): every other path of the handlers that
\* reports an end leaves nothing behind it.
THEOREM QuietOnceEnded == Spec => QuietAfterEnd
<1> DEFINE Quiet ==
      reports # << >> =>
        /\ UNCHANGED <<delivered, pongs>>
        /\ \/ UNCHANGED <<closes, reports>>
           \/ /\ reports = <<"error">> /\ UNCHANGED reports
              /\ closes = << >> /\ closes' = <<1009>>
           \/ /\ reports = <<"error">> /\ reports' = <<"error", "close">>
              /\ closes = <<1009>> /\ UNCHANGED closes
<1>1. Init => EndReported
  BY DEF Init, R!Init, EndReported
<1>2. EndReported /\ [Next]_vars => EndReported' /\ [Quiet]_(R!vars)
  BY OverIsOver DEF TellsRest
<1> QED
  BY <1>1, <1>2, PTL DEF Spec, QuietAfterEnd, R!QuietAfterEnd

--------------------------------------------------------------------------------
(* Sums.  The library adds by folds of sets: each takes a member by CHOOSE and *)
(* goes on with the others.  What a fold yields is that of any function that    *)
(* adds (SumIs), and there is one (SumExists); both are shown for the least     *)
(* part of the set for which they could fail.                                   *)

\* Induction over the parts of a finite set, the smaller ones first.
LEMMA LeastPart ==
  ASSUME NEW S, IsFiniteSet(S), NEW Bad \in SUBSET SUBSET S, Bad # {}
  PROVE  \E s \in Bad : \A t \in Bad : ~(t \subseteq s /\ t # s)
<1>1. IsWellFoundedOn(StrictSubsetOrdering(S), SUBSET S)
  BY FS_StrictSubsetOrderingWellFounded, FS_FiniteSubsetsOfFinite
<1>2. PICK s \in Bad : \A t \in Bad : <<t, s>> \notin StrictSubsetOrdering(S)
  BY <1>1, WFMin
<1> QED
  BY <1>2 DEF StrictSubsetOrdering

\* g sums what f has for the members of each part of S, in whatever order.
Adds(g, S, f) ==
  /\ g \in [SUBSET S -> Nat] /\ g[{}] = 0
  /\ \A s \in SUBSET S : \A x \in s : g[s] = f[x] + g[s \ {x}]

LEMMA SumExists ==
  ASSUME NEW S, IsFiniteSet(S), NEW f, \A x \in S : f[x] \in Nat
  PROVE  \E g : Adds(g, S, f)
<1> DEFINE Bad == {s \in SUBSET S : ~\E g : Adds(g, s, f)}
<1>1. ASSUME Bad # {} PROVE FALSE
  <2>1. PICK s \in Bad : \A t \in Bad : ~(t \subseteq s /\ t # s)
    <3>1. Bad \in SUBSET SUBSET S
      OBVIOUS
    <3> HIDE DEF Bad
    <3> QED
      BY <1>1, <3>1, LeastPart
  <2>2. s # {}
    <3>1. Adds([t \in SUBSET {} |-> 0], {}, f)
      BY DEF Adds
    <3> QED
      BY <3>1
  <2>3. PICK y \in s : TRUE
    BY <2>2
  <2> DEFINE r == s \ {y}
  <2>4. PICK h : Adds(h, r, f)
    <3>1. r \in SUBSET S /\ r \subseteq s /\ r # s
      BY <2>3
    <3> QED
      BY <2>1, <3>1
  <2>5. f[y] \in Nat
    BY <2>3
  <2> DEFINE g == [t \in SUBSET s |-> IF y \in t THEN f[y] + h[t \ {y}] ELSE h[t]]
  <2>6. \A t \in SUBSET s : (t \ {y} \in SUBSET r) /\ (y \notin t => t \in SUBSET r)
    OBVIOUS
  <2>7. /\ h \in [SUBSET r -> Nat] /\ h[{}] = 0
        /\ \A t \in SUBSET r : \A x \in t : h[t] = f[x] + h[t \ {x}]
    BY <2>4 DEF Adds
  <2>8. \A x \in s : f[x] \in Nat
    OBVIOUS
  <2> HIDE DEF r
  <2>9. g \in [SUBSET s -> Nat]
    BY <2>5, <2>6, <2>7
  <2>10. ASSUME NEW t \in SUBSET s, NEW x \in t PROVE g[t] = f[x] + g[t \ {x}]
    <3>1. /\ g[t] = IF y \in t THEN f[y] + h[t \ {y}] ELSE h[t]
          /\ g[t \ {x}] = IF y \in t \ {x} THEN f[y] + h[(t \ {x}) \ {y}] ELSE h[t \ {x}]
      OBVIOUS
    <3> HIDE DEF g
    <3>2. CASE x = y
      BY <3>1, <3>2
    <3>3. CASE x # y /\ y \in t
      <4>1. (t \ {x}) \ {y} = (t \ {y}) \ {x} /\ x \in t \ {y} /\ y \in t \ {x}
        BY <3>3
      <4>2. h[t \ {y}] = f[x] + h[(t \ {y}) \ {x}]
        BY <2>6, <2>7, <4>1
      <4>3. h[(t \ {y}) \ {x}] \in Nat
        <5>1. (t \ {y}) \ {x} \in SUBSET r
          BY <2>6
        <5> QED
          BY <2>7, <5>1
      <4>4. f[x] \in Nat /\ g[t] = f[y] + h[t \ {y}] /\ g[t \ {x}] = f[y] + h[(t \ {y}) \ {x}]
        BY <2>8, <3>1, <3>3, <4>1
      <4> QED
        BY <2>5, <4>2, <4>3, <4>4
    <3>4. CASE y \notin t
      BY <2>6, <2>7, <3>1, <3>4
    <3> QED
      BY <3>2, <3>3, <3>4
  <2>11. g[{}] = 0
    BY <2>7
  <2>12. Adds(g, s, f)
    <3> HIDE DEF g
    <3> QED
      BY <2>9, <2>10, <2>11 DEF Adds
  <2> QED
    BY <2>1, <2>12
<1> QED
  BY <1>1

\* The fold of the library that adds what f has for the members of S, one after the other.
SumStep(h, S, f) == [s \in SUBSET S |-> IF s = {} THEN 0
                       ELSE f[CHOOSE x \in s : TRUE] + h[s \ {CHOOSE x \in s : TRUE}]]
SumOf(S, f) == (CHOOSE iter : iter = SumStep(iter, S, f))[S]

\* It yields that sum, whichever member it takes next.
LEMMA SumIs ==
  ASSUME NEW S, IsFiniteSet(S), NEW f, NEW g, Adds(g, S, f)
  PROVE  SumOf(S, f) = g[S]
<1> DEFINE Step(h) == SumStep(h, S, f)
           it == CHOOSE iter : iter = Step(iter)
<1>1. g = Step(g)
  <2>1. g \in [SUBSET S -> Nat] /\ g[{}] = 0
    BY DEF Adds
  <2> USE DEF SumStep
  <2>2. ASSUME NEW s \in SUBSET S PROVE g[s] = Step(g)[s]
    <3>1. CASE s = {}
      BY <2>1, <3>1
    <3>2. CASE s # {}
      <4>1. (CHOOSE x \in s : TRUE) \in s
        BY <3>2
      <4> QED
        BY <3>2, <4>1 DEF Adds
    <3> QED
      BY <3>1, <3>2
  <2>3. Step(g) = [s \in SUBSET S |-> Step(g)[s]]
    OBVIOUS
  <2> HIDE DEF Step
  <2> QED
    BY <2>1, <2>2, <2>3
<1>2. it = Step(it)
  <2>1. it = CHOOSE iter : iter = Step(iter)
    OBVIOUS
  <2> HIDE DEF Step
  <2> QED
    BY <1>1, <2>1
<1> HIDE DEF it
<1> DEFINE Bad == {s \in SUBSET S : it[s] # g[s]}
<1>3. ASSUME Bad # {} PROVE FALSE
  <2>1. PICK s \in Bad : \A t \in Bad : ~(t \subseteq s /\ t # s)
    <3>1. Bad \in SUBSET SUBSET S
      OBVIOUS
    <3> HIDE DEF Bad
    <3> QED
      BY <1>3, <3>1, LeastPart
  <2>2. it[s] = Step(it)[s] /\ g[s] = Step(g)[s]
    <3> HIDE DEF Step
    <3> QED
      BY <1>1, <1>2
  <2> USE DEF SumStep
  <2>3. s # {}
    BY <2>2
  <2>4. PICK y \in s : y = CHOOSE x \in s : TRUE
    BY <2>3
  <2>5. it[s \ {y}] = g[s \ {y}]
    <3>1. s \ {y} \in SUBSET S /\ s \ {y} \subseteq s /\ s \ {y} # s
      BY <2>4
    <3> QED
      BY <2>1, <3>1
  <2>6. it[s] = f[y] + it[s \ {y}] /\ g[s] = f[y] + g[s \ {y}]
    BY <2>2, <2>3, <2>4
  <2> QED
    BY <2>1, <2>5, <2>6
<1> QED
  BY <1>3 DEF SumOf, it

LEMMA UpTo == \A n \in Nat : IsFiniteSet(1 .. n)
  BY FS_Interval

\* The size of a message is the sum of the lengths of its fragments.
LEMMA SizeIs ==
  ASSUME NEW n \in Nat, NEW body, DOMAIN body = 1 .. n, NEW g, NEW f,
         \A i \in 1 .. n : f[i] = body[i][2], Adds(g, 1 .. n, f)
  PROVE  R!SizeOf(body) = g[1 .. n]
<1> DEFINE S    == 1 .. n
           B(h) == [s \in SUBSET S |-> IF s = {} THEN 0
                   ELSE body[CHOOSE x \in s : TRUE][2] + h[s \ {CHOOSE x \in s : TRUE}]]
<1>1. R!SizeOf(body) = (CHOOSE iter : iter = B(iter))[S]
  BY DEF R!SizeOf, R!FoldSeq, R!FoldFunction, R!FoldFunctionOnSet, R!MapThenFoldSet
<1>2. ASSUME NEW h PROVE SumStep(h, S, f) = B(h)
  <2>1. ASSUME NEW s \in SUBSET S, s # {} PROVE f[CHOOSE x \in s : TRUE] = body[CHOOSE x \in s : TRUE][2]
    <3>1. (CHOOSE x \in s : TRUE) \in 1 .. n
      BY <2>1
    <3> QED
      BY <3>1
  <2> HIDE DEF S
  <2> QED
    BY <2>1 DEF SumStep
<1>3. SumOf(S, f) = (CHOOSE iter : iter = B(iter))[S]
  <2> HIDE DEF B
  <2> QED
    BY <1>2 DEF SumOf
<1>4. SumOf(S, f) = g[S]
  BY UpTo, SumIs
<1> QED
  BY <1>1, <1>3, <1>4

\* One more payload adds its length.
LEMMA SizeGrows ==
  ASSUME NEW T, NEW body \in Seq(T), NEW x \in T, \A p \in T : p[2] \in Nat
  PROVE  /\ R!SizeOf(body) \in Nat
         /\ R!SizeOf(Append(body, x)) = R!SizeOf(body) + x[2]
<1> DEFINE n == Len(body)
           b == Append(body, x)
           S == 1 .. n + 1
           f == [i \in S |-> b[i][2]]
<1>1. /\ n \in Nat /\ DOMAIN body = 1 .. n /\ DOMAIN b = S /\ b[n + 1] = x
      /\ \A i \in 1 .. n : b[i] = body[i] /\ body[i] \in T
  OBVIOUS
<1>2. \A i \in S : f[i] \in Nat
  <2> HIDE DEF b
  <2> QED
    BY <1>1
<1>3. IsFiniteSet(S)
  <2>1. n + 1 \in Nat
    BY <1>1
  <2> QED
    BY <2>1, UpTo
<1>4. PICK g : Adds(g, S, f)
  <2> HIDE DEF f, S
  <2> QED
    BY <1>2, <1>3, SumExists
<1>5. R!SizeOf(b) = g[S]
  <2>1. n + 1 \in Nat /\ \A i \in S : f[i] = b[i][2]
    BY <1>1
  <2> HIDE DEF b, f
  <2> QED
    BY <1>1, <1>4, <2>1, SizeIs
<1> DEFINE Q == 1 .. n
           h == [s \in SUBSET Q |-> g[s]]
<1>6. Q \subseteq S /\ n + 1 \in S /\ S \ {n + 1} = Q /\ f[n + 1] = x[2] /\ \A i \in Q : f[i] = body[i][2]
  <2>1. Q \subseteq S /\ n + 1 \in S /\ S \ {n + 1} = Q
    BY <1>1
  <2> HIDE DEF b
  <2> QED
    BY <1>1, <2>1
<1> HIDE DEF S, Q, f
<1>7. g \in [SUBSET S -> Nat] /\ g[{}] = 0 /\ \A s \in SUBSET S : \A y \in s : g[s] = f[y] + g[s \ {y}]
  BY <1>4 DEF Adds
<1>8. Adds(h, Q, f)
  <2>1. \A s \in SUBSET Q : s \in SUBSET S /\ \A y \in s : s \ {y} \in SUBSET Q
    BY <1>6
  <2> QED
    BY <1>7, <2>1 DEF Adds
<1>9. R!SizeOf(body) = g[Q]
  <2>1. R!SizeOf(body) = h[1 .. n]
    <3> HIDE DEF h
    <3> QED
      BY <1>1, <1>6, <1>8, SizeIs DEF Q
  <2> QED
    BY <2>1 DEF Q
<1>10. g[S] = x[2] + g[Q] /\ g[Q] \in Nat
  BY <1>6, <1>7
<1> QED
  BY <1>5, <1>9, <1>10

LEMMA SizeOfNone == R!SizeOf(<< >>) = 0
<1> DEFINE f == << >>
<1>1. Adds([t \in SUBSET {} |-> 0], {}, f)
  BY DEF Adds
<1>2. 1 .. 0 = {} /\ DOMAIN << >> = 1 .. 0
  OBVIOUS
<1> HIDE DEF f
<1> QED
  BY <1>1, <1>2, SizeIs

LEMMA SumOfTwo ==
  ASSUME NEW f, f[1] \in Nat, f[2] \in Nat
  PROVE  SumOf(1 .. 2, f) = f[1] + f[2]
<1>1. 1 .. 2 = {1, 2} /\ {1, 2} \ {1} = {2} /\ {2} \ {2} = {} /\ IsFiniteSet(1 .. 2)
  <2>1. 2 \in Nat
    OBVIOUS
  <2>2. IsFiniteSet(1 .. 2)
    BY <2>1, UpTo
  <2> QED
    BY <2>2
<1>2. PICK g : Adds(g, 1 .. 2, f)
  <2>1. \A x \in 1 .. 2 : f[x] \in Nat
    BY <1>1
  <2> QED
    BY <1>1, <2>1, SumExists
<1>3. SumOf(1 .. 2, f) = g[1 .. 2]
  BY <1>1, <1>2, SumIs
<1>4. g[{1, 2}] = f[1] + g[{2}] /\ g[{2}] = f[2] + g[{}] /\ g[{}] = 0
  BY <1>1, <1>2 DEF Adds
<1> QED
  BY <1>1, <1>3, <1>4

LEMMA SumOfEight ==
  ASSUME NEW f, \A c \in 1 .. 8 : f[c] \in Nat
  PROVE  SumOf(1 .. 8, f) = f[1] + f[2] + f[3] + f[4] + f[5] + f[6] + f[7] + f[8]
<1> DEFINE S == 1 .. 8
<1>0. IsFiniteSet(S)
  <2>1. 8 \in Nat
    OBVIOUS
  <2> QED
    BY <2>1, UpTo
<1>1. PICK g : Adds(g, S, f)
  <2>1. \A c \in S : f[c] \in Nat
    OBVIOUS
  <2> HIDE DEF S
  <2> QED
    BY <1>0, <2>1, SumExists
<1>2. SumOf(S, f) = g[S]
  <2> HIDE DEF S
  <2> QED
    BY <1>0, <1>1, SumIs
<1> DEFINE Rest(c) == c .. 8
<1>3. ASSUME NEW c \in 1 .. 8 PROVE g[Rest(c)] = f[c] + g[Rest(c + 1)]
  <2>1. c \in Rest(c) /\ Rest(c) \in SUBSET (1 .. 8) /\ Rest(c) \ {c} = Rest(c + 1)
    OBVIOUS
  <2> HIDE DEF Rest
  <2> QED
    BY <1>1, <2>1 DEF Adds
<1>4. g[Rest(9)] = 0
  <2>1. Rest(9) = {}
    OBVIOUS
  <2> QED
    BY <1>1, <2>1 DEF Adds
<1> HIDE DEF Rest
<1>5. /\ f[1] \in Nat /\ f[2] \in Nat /\ f[3] \in Nat /\ f[4] \in Nat
      /\ f[5] \in Nat /\ f[6] \in Nat /\ f[7] \in Nat /\ f[8] \in Nat
  OBVIOUS
<1>6. g[Rest(8)] = f[8] /\ g[Rest(7)] = f[7] + f[8] /\ g[Rest(6)] = f[6] + f[7] + f[8]
  BY <1>3, <1>4, <1>5
<1>7. g[Rest(5)] = f[5] + f[6] + f[7] + f[8] /\ g[Rest(4)] = f[4] + f[5] + f[6] + f[7] + f[8]
  BY <1>3, <1>5, <1>6
<1>8. /\ g[Rest(3)] = f[3] + f[4] + f[5] + f[6] + f[7] + f[8]
      /\ g[Rest(2)] = f[2] + f[3] + f[4] + f[5] + f[6] + f[7] + f[8]
  BY <1>3, <1>5, <1>7
<1>9. g[Rest(1)] = f[1] + f[2] + f[3] + f[4] + f[5] + f[6] + f[7] + f[8]
  BY <1>3, <1>5, <1>8
<1> QED
  BY <1>2, <1>9 DEF Rest

\* The value of the length bytes is such a sum: what the c-th of n bytes adds to it.
Shifted(bytes, n, c) == bytes[c] * R!Place[n - c]

LEMMA LengthIs ==
  ASSUME NEW n \in Nat, NEW bytes, DOMAIN bytes = 1 .. n, Len(bytes) = n, NEW f,
         \A c \in 1 .. n : f[c] = Shifted(bytes, n, c)
  PROVE  R!LengthOf(bytes) = SumOf(1 .. n, f)
<1> DEFINE S    == 1 .. n
           v(c) == Shifted(bytes, n, c)
           B(h) == [s \in SUBSET S |-> IF s = {} THEN 0
                      ELSE v(CHOOSE x \in s : TRUE) + h[s \ {CHOOSE x \in s : TRUE}]]
<1>1. R!LengthOf(bytes) = (CHOOSE iter : iter = B(iter))[S]
  BY DEF R!LengthOf, R!MapThenSumSet, R!MapThenFoldSet, Shifted
<1>2. ASSUME NEW h PROVE SumStep(h, S, f) = B(h)
  <2>1. ASSUME NEW s \in SUBSET S, s # {} PROVE f[CHOOSE x \in s : TRUE] = v(CHOOSE x \in s : TRUE)
    <3>1. (CHOOSE x \in s : TRUE) \in 1 .. n
      BY <2>1
    <3> QED
      BY <3>1
  <2> HIDE DEF S, v
  <2> QED
    BY <2>1 DEF SumStep
<1>3. SumOf(S, f) = (CHOOSE iter : iter = B(iter))[S]
  <2> HIDE DEF B, v
  <2> QED
    BY <1>2, Zenon DEF SumOf
<1> QED
  BY <1>1, <1>3

--------------------------------------------------------------------------------
(* Length bytes.  Each is what the ones before it leave over of the length, so *)
(* that their shifted values add up to it (Digit), whatever a byte's values.   *)

LEMMA PlaceIs ==
  /\ R!Place[0] = 1 /\ \A k \in 1 .. 8 : R!Place[k] = Radix * R!Place[k - 1]
  /\ \A k \in 0 .. 8 : R!Place[k] \in Nat \ {0}
<1>1. Radix \in Nat \ {0, 1}
  BY IncomingAssumption
<1> DEFINE p1 == Radix * 1
           p2 == Radix * p1
           p3 == Radix * p2
           p4 == Radix * p3
           p5 == Radix * p4
           p6 == Radix * p5
           p7 == Radix * p6
           p8 == Radix * p7
           w  == [k \in 0 .. 8 |-> CASE k = 0 -> 1 [] k = 1 -> p1 [] k = 2 -> p2 [] k = 3 -> p3 [] k = 4 -> p4
                                     [] k = 5 -> p5 [] k = 6 -> p6 [] k = 7 -> p7 [] k = 8 -> p8]
           B(h) == [k \in 0 .. 8 |-> IF k = 0 THEN 1 ELSE Radix * h[k - 1]]
<1>2. /\ p2 = Radix * p1 /\ p3 = Radix * p2 /\ p4 = Radix * p3 /\ p5 = Radix * p4
      /\ p6 = Radix * p5 /\ p7 = Radix * p6 /\ p8 = Radix * p7 /\ p1 = Radix * 1
  OBVIOUS
<1> HIDE DEF p1, p2, p3, p4, p5, p6, p7, p8
<1>3. /\ w[0] = 1 /\ w[1] = p1 /\ w[2] = p2 /\ w[3] = p3 /\ w[4] = p4 /\ w[5] = p5
      /\ w[6] = p6 /\ w[7] = p7 /\ w[8] = p8 /\ w = [k \in 0 .. 8 |-> w[k]]
  OBVIOUS
<1> HIDE DEF w
<1>4. ASSUME NEW k \in 1 .. 8 PROVE w[k] = Radix * w[k - 1]
  <2>1. k = 1 \/ k = 2 \/ k = 3 \/ k = 4 \/ k = 5 \/ k = 6 \/ k = 7 \/ k = 8
    OBVIOUS
  <2> QED
    BY <1>2, <1>3, <2>1
<1>5. w = B(w)
  <2>1. \A k \in 0 .. 8 : w[k] = IF k = 0 THEN 1 ELSE Radix * w[k - 1]
    <3>1. \A k \in 0 .. 8 : k = 0 \/ k \in 1 .. 8
      OBVIOUS
    <3> QED
      BY <1>3, <1>4, <3>1
  <2> QED
    BY <1>3, <2>1
<1>6. R!Place = B(R!Place)
  <2>1. R!Place = CHOOSE h : h = B(h)
    BY DEF R!Place
  <2> HIDE DEF B
  <2> QED
    BY <1>5, <2>1
<1>7. R!Place[0] = 1 /\ \A k \in 1 .. 8 : R!Place[k] = Radix * R!Place[k - 1]
  <2>1. \A k \in 0 .. 8 : R!Place[k] = IF k = 0 THEN 1 ELSE Radix * R!Place[k - 1]
    <3>1. PICK h : h = R!Place
      OBVIOUS
    <3>2. h = B(h)
      BY <1>6, <3>1
    <3>3. \A k \in 0 .. 8 : h[k] = IF k = 0 THEN 1 ELSE Radix * h[k - 1]
      BY <3>2
    <3> QED
      BY <3>1, <3>3
  <2> QED
    BY <2>1
<1>8. /\ R!Place[0] \in Nat \ {0} /\ R!Place[1] \in Nat \ {0} /\ R!Place[2] \in Nat \ {0}
      /\ R!Place[3] \in Nat \ {0} /\ R!Place[4] \in Nat \ {0} /\ R!Place[5] \in Nat \ {0}
      /\ R!Place[6] \in Nat \ {0} /\ R!Place[7] \in Nat \ {0} /\ R!Place[8] \in Nat \ {0}
  <2>1. \A n \in Nat \ {0} : Radix * n \in Nat \ {0}
    BY <1>1, SMT
  <2>2. R!Place[0] \in Nat \ {0} /\ \A k \in 1 .. 8 : R!Place[k - 1] \in Nat \ {0} => R!Place[k] \in Nat \ {0}
    BY <1>7, <2>1
  <2>3. R!Place[1] \in Nat \ {0} /\ R!Place[2] \in Nat \ {0} /\ R!Place[3] \in Nat \ {0}
    BY <2>2
  <2>4. R!Place[4] \in Nat \ {0} /\ R!Place[5] \in Nat \ {0} /\ R!Place[6] \in Nat \ {0}
    BY <2>2, <2>3
  <2> QED
    BY <2>2, <2>3, <2>4
<1> QED
  <2>1. \A k \in 0 .. 8 : k = 0 \/ k = 1 \/ k = 2 \/ k = 3 \/ k = 4 \/ k = 5 \/ k = 6 \/ k = 7 \/ k = 8
    OBVIOUS
  <2> QED
    BY <1>7, <1>8, <2>1

LEMMA DivisionIs ==
  ASSUME NEW a \in Nat, NEW b \in Nat \ {0}
  PROVE  a \div b \in Nat /\ a % b \in 0 .. b - 1 /\ a = b * (a \div b) + (a % b)
  BY SMT

LEMMA OneQuotient ==
ASSUME NEW b \in Nat \ {0}, NEW p \in Nat, NEW q \in Nat, NEW r \in Nat, NEW s \in Nat,
   r < b, s < b, b * p + r = b * q + s
  PROVE p = q
<1>1. CASE p + 1 <= q
  <2>1. b * (p + 1) <= b * q /\ b * (p+1) = b * p + b
    BY <1>1, SMT
  <2>2. b * p \in Nat /\ b * q \in Nat
    BY SMT
  <2> QED BY <2>1, <2>2
<1>2. CASE q + 1 <= p
  <2>1. b * (q + 1) <= b * p /\ b * (q+1) = b * q + b
    BY <1>2, SMT
  <2>2. b * p \in Nat /\ b * q \in Nat
    BY SMT
  <2> QED BY <2>1, <2>2
<1> QED BY <1>1, <1>2

\* The digit at place d and what is left to the places above.
LEMMA Digit ==
  ASSUME NEW l \in Nat, NEW d \in Nat \ {0}, NEW r \in Nat \ {0}
  PROVE  ((l \div d) % r) * d + (l \div (r * d)) * (r * d) = (l \div d) * d
<1>1. PICK q \in Nat, m \in 0 .. d - 1 : q = l \div d /\ l = d * q + m
  BY DivisionIs
<1>2. PICK p \in Nat, s \in 0 .. r - 1 : p = q \div r /\ s = q % r /\ q = r * p + s
  BY DivisionIs
<1>3. r * d \in Nat \ {0}
  BY SMT
<1>4. PICK u \in Nat, t \in 0 .. r * d - 1 : u = l \div (r * d) /\ l = (r * d) * u + t
  BY <1>3, DivisionIs
<1>5. l = (r * d) * p + (d * s + m)
  <2>1. d * q = d * (r * p) + d * s
    BY <1>2, SMT
  <2>2. d * (r * p) = (r * d) * p
    BY SMT
  <2>3. d * s \in Nat /\ (r * d) * p \in Nat
    BY SMT
  <2> QED BY <1>1, <2>1, <2>2, <2>3
<1>6. d * s + m \in Nat /\ d * s + m < r * d
  <2>1. d * s <= d * (r - 1) /\ d * (r - 1) = r * d - d
    BY SMT
  <2>2. d * s \in Nat
    BY SMT
  <2> QED BY <1>3, <2>1, <2>2
<1>7. u = p
  BY <1>3, <1>4, <1>5, <1>6, OneQuotient
<1>8. s * d + p * (r * d) = q * d
  <2>1. q * d = (r * p) * d + s * d
    BY <1>2, SMT
  <2>2. (r * p) * d = p * (r * d)
    BY SMT
  <2>3. s * d \in Nat /\ p * (r * d) \in Nat
    BY SMT
  <2> QED BY <2>1, <2>2, <2>3
<1> QED BY <1>1, <1>2, <1>4, <1>7, <1>8

\* The length bytes of a length have its value.
LEMMA BytesAre ==
  ASSUME NEW l \in Nat, NEW n \in {2, 8}
  PROVE  LET b == R!BytesOf(l, n)
         IN /\ b \in Seq(R!Byte) /\ DOMAIN b = 1 .. n /\ Len(b) = n
            /\ \A c \in 1 .. n : /\ Shifted(b, n, c) \in Nat
                                 /\ Shifted(b, n, c) + (l \div R!Place[n - c + 1]) * R!Place[n - c + 1]
                                      = (l \div R!Place[n - c]) * R!Place[n - c]
<1> DEFINE b == R!BytesOf(l, n)
<1>1. Radix \in Nat \ {0}
  BY IncomingAssumption
<1>2. ASSUME NEW c \in 1 .. n
      PROVE  /\ R!Place[n - c] \in Nat \ {0} /\ R!Place[n - c + 1] = Radix * R!Place[n - c]
             /\ (l \div R!Place[n - c]) % Radix \in R!Byte
  <2>1. n - c \in 0 .. 8 /\ n - c + 1 \in 1 .. 8 /\ (n - c + 1) - 1 = n - c
    OBVIOUS
  <2>2. R!Place[n - c] \in Nat \ {0} /\ R!Place[n - c + 1] = Radix * R!Place[n - c]
    BY <2>1, PlaceIs
  <2>3. PICK d \in Nat \ {0} : d = R!Place[n - c]
    BY <2>2
  <2>4. (l \div d) % Radix \in 0 .. Radix - 1
    BY <1>1, DivisionIs
  <2> QED
    BY <2>2, <2>3, <2>4 DEF R!Byte
<1>3. b = [c \in 1 .. n |-> (l \div R!Place[n - c]) % Radix]
  BY DEF R!BytesOf
<1>4. b \in Seq(R!Byte) /\ DOMAIN b = 1 .. n /\ Len(b) = n
  <2>1. b \in [1 .. n -> R!Byte]
    BY <1>2, <1>3
  <2>2. n \in Nat
    OBVIOUS
  <2> HIDE DEF b
  <2> QED
    BY <2>1, <2>2
<1>5. ASSUME NEW c \in 1 .. n
      PROVE  /\ Shifted(b, n, c) \in Nat
             /\ Shifted(b, n, c) + (l \div R!Place[n - c + 1]) * R!Place[n - c + 1]
                  = (l \div R!Place[n - c]) * R!Place[n - c]
  <2>1. PICK d \in Nat \ {0} : d = R!Place[n - c] /\ R!Place[n - c + 1] = Radix * d
    BY <1>2
  <2>2. PICK x \in R!Byte : x = (l \div d) % Radix /\ b[c] = x
    BY <1>2, <1>3, <2>1
  <2>3. x * d + (l \div (Radix * d)) * (Radix * d) = (l \div d) * d
    BY <1>1, <2>2, Digit
  <2>4. Shifted(b, n, c) = x * d
    BY <2>1, <2>2 DEF Shifted
  <2>5. x * d \in Nat
    BY <1>1, <2>2, SMT DEF R!Byte
  <2> QED
    BY <2>1, <2>3, <2>4, <2>5
<1> HIDE DEF b
<1> QED
  BY <1>4, <1>5 DEF b

LEMMA BytesSayLength ==
  ASSUME NEW l \in Nat, NEW n \in {2, 8}, l < R!Place[n]
  PROVE  R!LengthOf(R!BytesOf(l, n)) = l /\ R!BytesOf(l, n) \in Seq(R!Byte)
<1>1. PICK b : b = R!BytesOf(l, n)
  OBVIOUS
<1>2. PICK f : f = [c \in 1 .. n |-> Shifted(b, n, c)]
  OBVIOUS
<1>3. PICK T : T = [k \in 0 .. 8 |-> (l \div R!Place[k]) * R!Place[k]]
  OBVIOUS
<1>4. b \in Seq(R!Byte) /\ DOMAIN b = 1 .. n /\ Len(b) = n
  BY <1>1, BytesAre
<1>5. ASSUME NEW c \in 1 .. n PROVE f[c] \in Nat /\ f[c] + T[n - c + 1] = T[n - c]
  <2>1. /\ Shifted(b, n, c) \in Nat
        /\ Shifted(b, n, c) + (l \div R!Place[n - c + 1]) * R!Place[n - c + 1]
             = (l \div R!Place[n - c]) * R!Place[n - c]
    BY <1>1, BytesAre
  <2>2. n - c \in 0 .. 8 /\ n - c + 1 \in 0 .. 8
    OBVIOUS
  <2>3. f[c] = Shifted(b, n, c)
    BY <1>2
  <2>4. T[n - c + 1] = (l \div R!Place[n - c + 1]) * R!Place[n - c + 1]
    BY <1>3, <2>2
  <2>5. T[n - c] = (l \div R!Place[n - c]) * R!Place[n - c]
    BY <1>3, <2>2
  <2> QED
    BY <2>1, <2>3, <2>4, <2>5
<1>6. \A k \in 0 .. 8 : T[k] \in Nat
  <2>1. ASSUME NEW k \in 0 .. 8 PROVE T[k] \in Nat
    <3>1. PICK d \in Nat \ {0} : d = R!Place[k]
      BY PlaceIs
    <3>2. PICK q \in Nat : q = l \div d
      BY DivisionIs
    <3>3. q * d \in Nat
      BY SMT
    <3> QED
      BY <1>3, <3>1, <3>2, <3>3
  <2> QED
    BY <2>1
<1>7. T[0] = l
  <2>1. l \div 1 = l /\ l * 1 = l
    BY SMT
  <2> QED
    BY <1>3, <2>1, PlaceIs
<1>8. T[n] = 0
  <2>1. PICK d \in Nat \ {0} : d = R!Place[n] /\ l < d
    BY PlaceIs
  <2>2. l \div d = 0
    <3>1. PICK q \in Nat, m \in 0 .. d - 1 : q = l \div d /\ l = d * q + m
      BY DivisionIs
    <3>2. d * q = d * 0 + 0 \/ q >= 1
      BY <3>1, SMT
    <3>3. q >= 1 => d * q >= d
      BY SMT
    <3>4. d * q \in Nat
      BY SMT
    <3> QED
      BY <2>1, <3>1, <3>2, <3>3, <3>4
  <2>3. 0 * d = 0
    BY SMT
  <2>4. n \in 0 .. 8
    OBVIOUS
  <2> QED
    BY <1>3, <2>1, <2>2, <2>3, <2>4
<1>9. R!LengthOf(b) = SumOf(1 .. n, f)
  <2>1. n \in Nat /\ \A c \in 1 .. n : f[c] = Shifted(b, n, c)
    BY <1>2
  <2> QED
    BY <1>4, <2>1, LengthIs
<1>10. SumOf(1 .. n, f) = l
  <2>1. CASE n = 2
    <3>1. f[1] \in Nat /\ f[1] + T[2] = T[1] /\ f[2] \in Nat /\ f[2] + T[1] = T[0]
      BY <1>5, <2>1
    <3>2. SumOf(1 .. 2, f) = f[1] + f[2]
      BY <3>1, SumOfTwo
    <3>3. T[2] = 0 /\ T[1] \in Nat
      BY <1>6, <1>8, <2>1
    <3> QED
      BY <1>7, <2>1, <3>1, <3>2, <3>3
  <2>2. CASE n = 8
    <3>1. \A c \in 1 .. 8 : f[c] \in Nat /\ f[c] + T[8 - c + 1] = T[8 - c]
      BY <1>5, <2>2
    <3>2. SumOf(1 .. 8, f) = f[1] + f[2] + f[3] + f[4] + f[5] + f[6] + f[7] + f[8]
      BY <3>1, SumOfEight
    <3>3. /\ f[1] + T[8] = T[7] /\ f[2] + T[7] = T[6] /\ f[3] + T[6] = T[5] /\ f[4] + T[5] = T[4]
          /\ f[5] + T[4] = T[3] /\ f[6] + T[3] = T[2] /\ f[7] + T[2] = T[1] /\ f[8] + T[1] = T[0]
      BY <3>1
    <3>4. /\ f[1] \in Nat /\ f[2] \in Nat /\ f[3] \in Nat /\ f[4] \in Nat
          /\ f[5] \in Nat /\ f[6] \in Nat /\ f[7] \in Nat /\ f[8] \in Nat
      BY <3>1
    <3>5. /\ T[1] \in Nat /\ T[2] \in Nat /\ T[3] \in Nat /\ T[4] \in Nat
          /\ T[5] \in Nat /\ T[6] \in Nat /\ T[7] \in Nat /\ T[8] = 0
      BY <1>6, <1>8, <2>2
    <3>6. f[1] + f[2] + f[3] + f[4] + f[5] + f[6] + f[7] + f[8] = l
      BY <1>7, <3>3, <3>4, <3>5
    <3> QED
      BY <2>2, <3>2, <3>6
  <2> QED
    BY <2>1, <2>2
<1> QED
  BY <1>1, <1>4, <1>9, <1>10

--------------------------------------------------------------------------------
(* The lengths on the wire. *)

\* What the reader makes of a length is the length the client meant.
LEMMA Decoded ==
  ASSUME NEW l \in Lengths
  PROVE  /\ R!Encode(l).short \in 0 .. 127 /\ R!Encode(l).bytes \in Seq(R!Byte)
         /\ R!Encode(l).short < 126 => R!Encode(l).short = l
         /\ R!Encode(l).short >= 126 => R!LengthOf(R!Encode(l).bytes) = l
<1>1. l \in Nat /\ l < R!Place[8]
  <2>1. l \in Nat /\ 2 * l < R!Place[8] /\ R!Place[8] \in Nat
    BY IncomingAssumption, PlaceIs
  <2> QED
    BY <2>1
<1>2. CASE l < 126
  <2>1. R!Encode(l) = [short |-> l, bytes |-> << >>]
    BY <1>1, <1>2 DEF R!Encode
  <2> QED
    BY <1>1, <1>2, <2>1, SMT
<1>3. CASE l >= 126 /\ l < R!Place[2]
  <2>1. R!Encode(l) = [short |-> 126, bytes |-> R!BytesOf(l, 2)]
    BY <1>1, <1>3, PlaceIs, SMT DEF R!Encode
  <2>2. R!LengthOf(R!BytesOf(l, 2)) = l /\ R!BytesOf(l, 2) \in Seq(R!Byte)
    BY <1>1, <1>3, BytesSayLength
  <2>3. R!Encode(l).short = 126 /\ R!Encode(l).bytes = R!BytesOf(l, 2)
    BY <2>1
  <2> QED
    BY <2>2, <2>3, SMT
<1>4. CASE l >= 126 /\ l >= R!Place[2]
  <2>1. R!Encode(l) = [short |-> 127, bytes |-> R!BytesOf(l, 8)]
    BY <1>1, <1>4, PlaceIs, SMT DEF R!Encode
  <2>2. R!LengthOf(R!BytesOf(l, 8)) = l /\ R!BytesOf(l, 8) \in Seq(R!Byte)
    BY <1>1, BytesSayLength
  <2>3. R!Encode(l).short = 127 /\ R!Encode(l).bytes = R!BytesOf(l, 8)
    BY <2>1
  <2> QED
    BY <2>2, <2>3, SMT
<1> QED
  <2>1. l < 126 \/ (l >= 126 /\ l < R!Place[2]) \/ (l >= 126 /\ l >= R!Place[2])
    BY <1>1, PlaceIs, SMT
  <2> QED
    BY <1>2, <1>3, <1>4, <2>1

\* A frame as it is sent is one of R!Frames.
LEMMA SentIsFrame == Sent \subseteq R!Frames
<1> SUFFICES ASSUME NEW f \in Sent PROVE f \in R!Frames
  OBVIOUS
<1>1. f.short \in 0 .. 127 /\ f.bytes \in Seq(R!Byte)
  <2>1. PICK l1 \in Lengths, l2 \in Lengths : f.short = R!Encode(l1).short /\ f.bytes = R!Encode(l2).bytes
    BY DEF Sent
  <2> QED
    BY <2>1, Decoded
<1>2. /\ f = [fin |-> f.fin, op |-> f.op, masked |-> f.masked, short |-> f.short, bytes |-> f.bytes,
              payload |-> f.payload]
      /\ f.fin \in BOOLEAN /\ f.op \in R!Opcodes /\ f.masked \in BOOLEAN /\ f.payload \in R!Payloads
  BY DEF Sent, Payloads, R!Payloads
<1> QED
  BY <1>1, <1>2 DEF R!Frames

--------------------------------------------------------------------------------
(* The second part of the invariant: what is on the wire says how long its      *)
(* payload is, what is being read has the length it was sent with, and what is   *)
(* collected has the size of its fragments, if the sums of sizes do not wrap.    *)

\* The limit leaves room in a size_t for one more length.
Room == 2 * max_message_size <= R!Place[8]

Total == IF fragmented = None THEN 0 ELSE fragmented.length

\* The length field of f says how long its payload is.
Written(f) == f.short = R!Encode(f.payload[2]).short /\ f.bytes = R!Encode(f.payload[2]).bytes

WireInv == \A i \in 1 .. Len(wire) : Written(wire[i])

FrameInv ==
  /\ IF AmidFrame THEN frame \in [f : Sent, length : Lengths \cup {0}] /\ Written(frame.f)
                  ELSE frame = None
  /\ stage = "length" => frame.f.short >= 126
  /\ stage = "content" => /\ frame.length = frame.f.payload[2]
                          /\ R!Plus(frame.length, Total) <= max_message_size

SizesInv ==
  /\ fragmented # None => fragmented \in [length : 0 .. max_message_size, body : Seq(Payloads)]
  /\ Room /\ fragmented # None => fragmented.length = R!SizeOf(fragmented.body)
  /\ Room => SizeRespected

OutInv == pongs \in Seq(Payloads) /\ closes \in Seq({0, 1002, 1009})

SizeInv == WireInv /\ FrameInv /\ SizesInv /\ OutInv

LEMMA PlusIs ==
  ASSUME NEW a \in Nat, NEW b \in Nat
  PROVE  R!Plus(a, b) \in Nat /\ R!Plus(a, b) = R!Plus(b, a) /\ (a + b < R!Place[8] => R!Plus(a, b) = a + b)
<1>1. PICK w \in Nat \ {0} : w = R!Place[8]
  BY PlaceIs
<1>2. (a + b) % w \in Nat /\ (a + b < w => (a + b) % w = a + b)
  BY SMT
<1>3. a + b = b + a
  OBVIOUS
<1> QED
  BY <1>1, <1>2, <1>3 DEF R!Plus

\* A sum that is compared with the limit is that of the sizes.
LEMMA SumFits ==
  ASSUME NEW l \in Lengths, NEW t \in 0 .. max_message_size, Room
  PROVE  R!Plus(l, t) = l + t
<1>1. /\ l \in Nat /\ 2 * l < R!Place[8] /\ R!Place[8] \in Nat
      /\ max_message_size \in Nat /\ 2 * max_message_size <= R!Place[8]
  BY IncomingAssumption, PlaceIs DEF Room
<1>2. l + t < R!Place[8]
  BY <1>1
<1> QED
  BY <1>1, <1>2, PlusIs

\* A frame that is sent says how long its payload is.
LEMMA PutKeeps ==
  ASSUME Types, SizeInv, NEW fin, NEW op, NEW l \in Lengths, NEW masked, R!Put(fin, op, l, masked),
         UNCHANGED <<R!readVars, R!outVars>>
  PROVE  SizeInv'
<1> DEFINE new == [fin |-> fin, op |-> op, masked |-> masked, short |-> R!Encode(l).short,
                   bytes |-> R!Encode(l).bytes, payload |-> <<frames + 1, l>>]
<1>1. wire' = Append(wire, new)
  BY DEF R!Put
<1>2. Written(new)
  BY DEF Written
<1>3. WireInv'
  <2> HIDE DEF new
  <2>1. Len(wire) \in Nat /\ Len(wire') = Len(wire) + 1 /\ wire'[Len(wire) + 1] = new
        /\ \A i \in 1 .. Len(wire) : wire'[i] = wire[i]
    BY <1>1 DEF Types
  <2> QED
    BY <1>2, <2>1 DEF SizeInv, WireInv
<1> QED
  BY <1>3 DEF SizeInv, FrameInv, SizesInv, OutInv, AmidFrame, Total, SizeRespected, R!SizeRespected,
              R!readVars, R!outVars

LEMMA ClientKeepsSizes == ASSUME Types, SizeInv, R!Client PROVE SizeInv'
<1>1. ASSUME NEW fin \in BOOLEAN, NEW l \in Lengths, NEW m \in BOOLEAN, R!ClientSendsData(fin, l, m)
      PROVE  SizeInv'
  <2>1. UNCHANGED <<R!readVars, R!outVars>> /\ R!Put(fin, IF part = << >> THEN "data" ELSE "continue", l, m)
    BY <1>1 DEF R!ClientSendsData
  <2> QED
    BY <2>1, PutKeeps
<1>2. ASSUME NEW op \in {"close", "ping", "pong"}, R!ClientSendsControl(op) PROVE SizeInv'
  <2>1. UNCHANGED <<R!readVars, R!outVars>> /\ R!Put(TRUE, op, R!Min(Lengths), TRUE)
    BY <1>2 DEF R!ClientSendsControl
  <2> QED
    BY <2>1, ShortestIsLength, PutKeeps
<1> QED
  BY <1>1, <1>2 DEF R!Client

\* The end of the chain of reads leaves what was delivered.
LEMMA EndKeepsSizes ==
  ASSUME SizeInv, WireInv', stage' \in {"toobig", "closed", "done"}, frame' = None, closes' \in Seq({0, 1002, 1009}),
         UNCHANGED <<fragmented, delivered, pongs>>
  PROVE  SizeInv'
  BY DEF SizeInv, FrameInv, SizesInv, OutInv, AmidFrame, SizeRespected, R!SizeRespected

LEMMA StatusAppended ==
  ASSUME SizeInv, NEW c \in {0, 1002, 1009}
  PROVE  Append(closes, c) \in Seq({0, 1002, 1009})
<1> DEFINE C == {0, 1002, 1009}
<1>1. closes \in Seq(C) /\ c \in C
  BY DEF SizeInv, OutInv
<1> HIDE DEF C
<1>2. Append(closes, c) \in Seq(C)
  BY <1>1
<1> QED
  BY <1>2 DEF C

\* read_message_content goes on only with the length that was meant, if it is not too big.
LEMMA ReadContentKeepsSizes ==
  ASSUME SizeInv, WireInv', NEW f \in Sent, Written(f), NEW length, length = f.payload[2],
         R!ReadContent(f, length), UNCHANGED <<fragmented, delivered, pongs>>
  PROVE  SizeInv'
<1>1. CASE R!ReportTooBig /\ UNCHANGED closes
  <2>1. closes' \in Seq({0, 1002, 1009})
    BY <1>1 DEF SizeInv, OutInv
  <2> QED
    BY <1>1, <2>1, EndKeepsSizes DEF R!ReportTooBig
<1>2. CASE ~R!TooBig(length) /\ R!StartRead(f, length) /\ UNCHANGED closes
  <2>1. stage' = "content" /\ frame' = [f |-> f, length |-> length] /\ closes' = closes
    BY <1>2 DEF R!StartRead
  <2>2. length \in Lengths /\ length \in Nat
    BY IncomingAssumption DEF Sent, Payloads
  <2>3. R!Plus(length, Total) <= max_message_size /\ Total' = Total
    <3>1. Total \in Nat /\ Total' = Total /\ max_message_size \in Nat
      BY IncomingAssumption DEF Total, SizeInv, SizesInv
    <3>2. R!Plus(length, Total) \in Nat /\ ~(R!Plus(length, Total) > max_message_size)
      BY <1>2, <2>2, <3>1, PlusIs DEF R!TooBig, Total
    <3> QED
      BY <3>1, <3>2
  <2>4. frame' \in [f : Sent, length : Lengths \cup {0}] /\ frame'.f = f /\ frame'.length = length
    BY <2>1, <2>2
  <2>5. AmidFrame'
    BY <2>1 DEF AmidFrame
  <2>6. FrameInv'
    BY <2>1, <2>3, <2>4, <2>5 DEF FrameInv, Written
  <2> QED
    BY <2>1, <2>6 DEF SizeInv, SizesInv, OutInv, SizeRespected, R!SizeRespected
<1> QED
  BY <1>1, <1>2 DEF R!ReadContent

LEMMA HeaderReadKeepsSizes == ASSUME Types, SizeInv, R!HeaderRead PROVE SizeInv'
<1> DEFINE f == Head(wire)
<1>1. /\ wire # << >> /\ wire' = Tail(wire) /\ UNCHANGED <<fragmented, delivered, pongs>>
  BY DEF R!HeaderRead
<1>2. f \in Sent /\ Written(f) /\ WireInv'
  <2>1. /\ Len(wire) \in Nat \ {0} /\ f = wire[1] /\ f \in Sent /\ Len(wire') = Len(wire) - 1
        /\ \A i \in 1 .. Len(wire) - 1 : wire'[i] = wire[i + 1]
    BY <1>1 DEF Types
  <2>2. \A i \in 1 .. Len(wire) - 1 : i + 1 \in 1 .. Len(wire)
    BY <2>1
  <2> HIDE DEF f
  <2> QED
    BY <2>1, <2>2 DEF SizeInv, WireInv
<1>3. f.payload[2] \in Lengths /\ f.short = R!Encode(f.payload[2]).short /\ f.short \in 0 .. 127
  BY <1>2, Decoded DEF Sent, Payloads, Written
<1> HIDE DEF f
<1>4. CASE R!Unmasked
  <2>1. closes' \in Seq({0, 1002, 1009})
    BY <1>4, StatusAppended DEF R!Unmasked
  <2> QED
    BY <1>1, <1>2, <1>4, <2>1, EndKeepsSizes DEF R!Unmasked, R!EndReading
<1>5. CASE f.short < 126 /\ R!ReadContent(f, f.short)
  <2>1. f.short = f.payload[2]
    BY <1>3, <1>5, Decoded
  <2> QED
    BY <1>1, <1>2, <1>5, <2>1, ReadContentKeepsSizes
<1>6. CASE f.short >= 126 /\ stage' = "length" /\ frame' = [f |-> f, length |-> 0] /\ UNCHANGED closes
  <2>1. frame' \in [f : Sent, length : Lengths \cup {0}] /\ frame'.f = f
    BY <1>2, <1>6
  <2>2. AmidFrame'
    BY <1>6 DEF AmidFrame
  <2>3. FrameInv'
    BY <1>2, <1>6, <2>1, <2>2 DEF FrameInv, Written
  <2> QED
    BY <1>1, <1>2, <1>6, <2>3 DEF SizeInv, SizesInv, OutInv, SizeRespected, R!SizeRespected
<1> QED
  BY <1>4, <1>5, <1>6 DEF R!HeaderRead, f

LEMMA LengthReadKeepsSizes == ASSUME SizeInv, R!LengthRead PROVE SizeInv'
<1> DEFINE f == frame.f
<1>1. /\ stage = "length" /\ R!ReadContent(f, R!LengthOf(f.bytes))
      /\ UNCHANGED <<wire, fragmented, delivered, pongs>>
  BY DEF R!LengthRead
<1>2. f \in Sent /\ Written(f) /\ f.short >= 126
  BY <1>1 DEF SizeInv, FrameInv, AmidFrame
<1>3. R!LengthOf(f.bytes) = f.payload[2]
  <2>1. f.payload[2] \in Lengths
    BY <1>2 DEF Sent, Payloads
  <2> QED
    BY <1>2, <2>1, Decoded DEF Written
<1>4. WireInv'
  BY <1>1 DEF SizeInv, WireInv, Written
<1> HIDE DEF f
<1> QED
  BY <1>1, <1>2, <1>3, <1>4, ReadContentKeepsSizes


\* The message of a fragment has the size that is kept with it, and it is not too big.
LEMMA CollectsSizes ==
  ASSUME SizeInv, stage = "content"
  PROVE  /\ R!Collect(frame.f, frame.length) \in [length : 0 .. max_message_size, body : Seq(Payloads)]
         /\ Room => R!Collect(frame.f, frame.length).length = R!SizeOf(R!Collect(frame.f, frame.length).body)
<1> DEFINE f == frame.f
           l == frame.length
           x == f.payload
<1>1. /\ f \in Sent /\ l = x[2] /\ R!Plus(l, Total) <= max_message_size /\ x \in Payloads
      /\ l \in Lengths /\ l \in Nat /\ \A p \in Payloads : p[2] \in Nat
  <2>1. f \in Sent /\ l = x[2] /\ R!Plus(l, Total) <= max_message_size
    BY DEF SizeInv, FrameInv, AmidFrame
  <2>2. Lengths \subseteq Nat
    BY IncomingAssumption
  <2> QED
    BY <2>1, <2>2 DEF Sent, Payloads
<1>2. max_message_size \in Nat /\ R!Place[8] \in Nat /\ 2 * l < R!Place[8]
  BY <1>1, IncomingAssumption, PlaceIs
<1> HIDE DEF f, l, x
<1>3. CASE fragmented = None
  <2>1. R!Collect(f, l) = [length |-> l, body |-> <<x>>]
    BY <1>3 DEF R!Collect, x
  <2>2. << >> \in Seq(Payloads) /\ Append(<< >>, x) = <<x>>
    BY <1>1
  <2>3. R!SizeOf(<<x>>) = 0 + x[2]
    BY <1>1, <2>2, SizeGrows, SizeOfNone
  <2>4. l \in 0 .. max_message_size
    <3>1. l + 0 < R!Place[8]
      BY <1>1, <1>2
    <3>2. R!Plus(l, 0) = l + 0 /\ Total = 0
      BY <1>1, <1>3, <3>1, PlusIs DEF Total
    <3> QED
      BY <1>1, <1>2, <3>2
  <2>5. <<x>> \in Seq(Payloads)
    BY <1>1
  <2>6. R!Collect(f, l).length = l /\ R!Collect(f, l).body = <<x>>
    BY <2>1
  <2>7. R!Collect(f, l) \in [length : 0 .. max_message_size, body : Seq(Payloads)]
    BY <2>1, <2>4, <2>5
  <2> QED
    BY <1>1, <2>3, <2>6, <2>7 DEF f, l
<1>4. CASE fragmented # None
  <2> DEFINE body == Append(fragmented.body, x)
             sum  == R!Plus(fragmented.length, l)
  <2>1. R!Collect(f, l) = [length |-> sum, body |-> body]
    BY <1>4 DEF R!Collect, x
  <2>2. /\ fragmented.body \in Seq(Payloads) /\ fragmented.length \in Nat
        /\ fragmented.length \in 0 .. max_message_size /\ Total = fragmented.length
        /\ Room => fragmented.length = R!SizeOf(fragmented.body)
    BY <1>2, <1>4 DEF SizeInv, SizesInv, Total
  <2>4. sum \in 0 .. max_message_size /\ (Room => sum = fragmented.length + l)
    <3>1. R!Plus(l, Total) = sum /\ sum \in Nat
      BY <1>1, <2>2, PlusIs
    <3>2. Room => R!Plus(l, Total) = l + Total
      BY <1>1, <2>2, SumFits
    <3> QED
      BY <1>1, <1>2, <2>2, <3>1, <3>2
  <2>5. body \in Seq(Payloads)
    BY <1>1, <2>2
  <2>6. Room => R!SizeOf(body) = sum
    <3>1. Room => R!SizeOf(body) = fragmented.length + x[2]
      BY <1>1, <2>2, SizeGrows
    <3> QED
      BY <1>1, <2>4, <3>1
  <2> HIDE DEF body, sum
  <2>7. R!Collect(f, l).length = sum /\ R!Collect(f, l).body = body
    BY <2>1
  <2>8. R!Collect(f, l) \in [length : 0 .. max_message_size, body : Seq(Payloads)]
    BY <2>1, <2>4, <2>5
  <2> QED
    BY <2>6, <2>7, <2>8 DEF f, l
<1> QED
  BY <1>3, <1>4

\* So has a message in one frame.
LEMMA WholeSize ==
  ASSUME SizeInv, stage = "content", Room
  PROVE  R!SizeOf(<<frame.f.payload>>) <= max_message_size
<1> DEFINE x == frame.f.payload
<1>1. /\ frame.f \in Sent /\ frame.length = x[2] /\ R!Plus(frame.length, Total) <= max_message_size
  BY DEF SizeInv, FrameInv, AmidFrame
<1>2. x \in Payloads /\ x[2] \in Lengths /\ \A p \in Payloads : p[2] \in Nat
  <2>1. Lengths \subseteq Nat
    BY IncomingAssumption
  <2> QED
    BY <1>1, <2>1 DEF Sent, Payloads
<1> HIDE DEF x
<1>3. << >> \in Seq(Payloads) /\ Append(<< >>, x) = <<x>>
  BY <1>2
<1>4. R!SizeOf(<<x>>) = 0 + x[2]
  BY <1>2, <1>3, SizeGrows, SizeOfNone
<1>5. Total \in 0 .. max_message_size /\ max_message_size \in Nat /\ x[2] \in Nat
  BY <1>2, IncomingAssumption DEF SizeInv, SizesInv, Total
<1>6. R!Plus(x[2], Total) = x[2] + Total
  BY <1>2, <1>5, SumFits
<1> QED
  BY <1>1, <1>4, <1>5, <1>6 DEF x

LEMMA ContentReadKeepsSizes == ASSUME Types, SizeInv, R!ContentRead PROVE SizeInv'
<1> DEFINE f == frame.f
           l == frame.length
<1>1. stage = "content" /\ wire' = wire /\ f \in Sent
  BY DEF R!ContentRead, SizeInv, FrameInv, AmidFrame
<1>2. WireInv'
  BY <1>1 DEF SizeInv, WireInv, Written
<1>3. CASE R!IsControl(f) /\ R!ControlRead(f)
  <2>1. UNCHANGED <<fragmented, delivered>>
    BY <1>3 DEF R!ControlRead, R!KeptByControl, R!CloseRead, R!PingRead, R!PongRead
  <2>2. SizesInv'
    BY <2>1 DEF SizeInv, SizesInv, SizeRespected, R!SizeRespected
  <2>3. CASE R!CloseRead(f)
    <3>1. closes' \in Seq({0, 1002, 1009}) /\ pongs' = pongs /\ R!EndReading(<<"close">>)
      BY <2>3, StatusAppended DEF R!CloseRead
    <3> QED
      BY <1>2, <2>1, <3>1, EndKeepsSizes DEF R!EndReading
  <2>4. CASE R!PingRead(f) \/ R!PongRead(f)
    <3>1. f.payload \in Payloads /\ pongs \in Seq(Payloads)
      BY <1>1 DEF Sent, SizeInv, OutInv
    <3>2. pongs' = Append(pongs, f.payload) \/ pongs' = pongs
      BY <2>4 DEF R!PingRead, R!PongRead
    <3>3. pongs' \in Seq(Payloads)
      <4> HIDE DEF f
      <4> QED
        BY <3>1, <3>2
    <3>4. closes' = closes /\ stage' = "header" /\ frame' = None
      BY <2>4 DEF R!PingRead, R!PongRead, R!ReadOn
    <3> QED
      BY <1>2, <2>2, <3>3, <3>4 DEF SizeInv, FrameInv, OutInv, AmidFrame
  <2> QED
    BY <1>3, <2>3, <2>4 DEF R!ControlRead
<1>4. CASE ~R!IsControl(f) /\ R!DataRead(f, l)
  <2>1. /\ stage' = "header" /\ frame' = None /\ UNCHANGED <<pongs, closes>>
    BY <1>4 DEF R!DataRead, R!ReadOn
  <2>2. FrameInv' /\ OutInv'
    BY <2>1 DEF FrameInv, OutInv, AmidFrame, SizeInv
  <2>3. /\ R!Collect(f, l) \in [length : 0 .. max_message_size, body : Seq(Payloads)]
        /\ Room => R!Collect(f, l).length = R!SizeOf(R!Collect(f, l).body)
    BY <1>1, CollectsSizes
  <2>4. CASE f.fin
    <3> DEFINE msg == IF R!IsFragment(f) THEN R!Collect(f, l).body ELSE <<f.payload>>
    <3>1. delivered' = Append(delivered, msg) /\ fragmented' = None
      BY <1>4, <2>4 DEF R!DataRead
    <3>2. Room => R!SizeOf(msg) <= max_message_size
      <4>1. CASE R!IsFragment(f)
        <5>1. R!Collect(f, l).length <= max_message_size
          <6>1. max_message_size \in Nat
            BY IncomingAssumption
          <6> QED
            BY <2>3, <6>1
        <5> QED
          BY <2>3, <4>1, <5>1
      <4>2. CASE ~R!IsFragment(f)
        BY <1>1, <4>2, WholeSize
      <4> QED
        BY <4>1, <4>2
    <3> HIDE DEF msg
    <3>3. /\ DOMAIN delivered = 1 .. Len(delivered) /\ DOMAIN delivered' = 1 .. Len(delivered) + 1
          /\ delivered'[Len(delivered) + 1] = msg /\ Len(delivered) \in Nat
          /\ \A k \in 1 .. Len(delivered) : delivered'[k] = delivered[k]
      <4> DEFINE Bodies == Seq(Payloads)
      <4>1. delivered \in Seq(Bodies)
        BY DEF Types
      <4> HIDE DEF Bodies
      <4> QED
        BY <3>1, <4>1
    <3>4. Room => SizeRespected'
      <4>1. ASSUME Room, NEW k \in DOMAIN delivered' PROVE R!SizeOf(delivered'[k]) <= max_message_size
        <5>1. k = Len(delivered) + 1 \/ k \in DOMAIN delivered
          BY <3>3
        <5> QED
          BY <3>2, <3>3, <4>1, <5>1 DEF SizeInv, SizesInv, SizeRespected, R!SizeRespected
      <4> QED
        BY <4>1 DEF SizeRespected, R!SizeRespected
    <3> QED
      BY <1>2, <2>2, <3>1, <3>4 DEF SizeInv, SizesInv
  <2>5. CASE ~f.fin
    <3>1. fragmented' = R!Collect(f, l) /\ delivered' = delivered
      BY <1>4, <2>5 DEF R!DataRead
    <3> HIDE DEF f, l
    <3>2. SizesInv'
      BY <2>3, <3>1 DEF SizeInv, SizesInv, SizeRespected, R!SizeRespected
    <3> QED
      BY <1>2, <2>2, <3>2 DEF SizeInv
  <2> QED
    BY <2>4, <2>5
<1> QED
  BY <1>3, <1>4 DEF R!ContentRead

LEMMA EndTooBigKeepsSizes == ASSUME SizeInv, R!EndTooBig PROVE SizeInv'
<1>1. UNCHANGED <<wire, fragmented, delivered, pongs>>
  BY DEF R!EndTooBig
<1>2. WireInv'
  BY <1>1 DEF SizeInv, WireInv, Written
<1>3. CASE stage = "toobig" /\ closes' = Append(closes, 1009) /\ stage' = "closed" /\ UNCHANGED frame
  <2>1. frame' = None
    BY <1>3 DEF SizeInv, FrameInv, AmidFrame
  <2>2. closes' \in Seq({0, 1002, 1009})
    BY <1>3, StatusAppended
  <2> QED
    BY <1>1, <1>2, <1>3, <2>1, <2>2, EndKeepsSizes
<1>4. CASE R!EndReading(<<"close">>) /\ UNCHANGED closes
  <2>1. stage' = "done" /\ frame' = None /\ closes' \in Seq({0, 1002, 1009})
    BY <1>4 DEF R!EndReading, SizeInv, OutInv
  <2> QED
    BY <1>1, <1>2, <2>1, EndKeepsSizes
<1> QED
  BY <1>3, <1>4 DEF R!EndTooBig

LEMMA InitSizes == Init => SizeInv
<1> SUFFICES ASSUME Init PROVE SizeInv
  OBVIOUS
<1>1. /\ wire = << >> /\ stage = "header" /\ frame = None /\ fragmented = None
      /\ delivered = << >> /\ pongs = << >> /\ closes = << >>
  BY DEF Init, R!Init
<1> QED
  BY <1>1 DEF SizeInv, WireInv, FrameInv, SizesInv, OutInv, AmidFrame, SizeRespected, R!SizeRespected

LEMMA StepKeepsSizes == Types /\ SizeInv /\ [Next]_vars => SizeInv'
<1> SUFFICES ASSUME Types, SizeInv, [Next]_vars PROVE SizeInv'
  OBVIOUS
<1>1. CASE UNCHANGED frameVars
  BY <1>1 DEF frameVars, SizeInv, WireInv, FrameInv, SizesInv, OutInv, AmidFrame, Total, Written,
              SizeRespected, R!SizeRespected
<1>2. CASE R!ReadFails
  <2>1. R!EndReading(<<"error">>) /\ UNCHANGED <<wire, fragmented, delivered, pongs, closes>>
    BY <1>2 DEF R!ReadFails
  <2>2. WireInv' /\ closes' \in Seq({0, 1002, 1009})
    BY <2>1 DEF SizeInv, WireInv, OutInv, Written
  <2> QED
    BY <2>1, <2>2, EndKeepsSizes DEF R!EndReading
<1>3. CASE R!Read
  BY <1>3, HeaderReadKeepsSizes, LengthReadKeepsSizes, ContentReadKeepsSizes, EndTooBigKeepsSizes DEF R!Read
<1>4. CASE R!Client
  BY <1>4, ClientKeepsSizes
<1> QED
  BY <1>1, <1>2, <1>3, <1>4
     DEF Next, vars, ClientHandshake, ServerHandshake, Stranger, HandshakeFails, WriteFails, Frames, Read, ReadFails

\* The length bytes under way are those of their payloads; what is collected counts within
\* the limit, and has the size of its fragments if the limit leaves room.
THEOREM SizeInvariance == ASSUME NoneIsNoRecord PROVE Spec => []SizeInv
<1>1. Init => SizeInv
  BY InitSizes
<1>2. IInv => Types
  BY DEF IInv
<1>3. Types /\ SizeInv /\ [Next]_vars => SizeInv'
  BY StepKeepsSizes
<1> QED
  BY <1>1, <1>2, <1>3, Invariance, PTL DEF Spec

\* max_message_size bounds every message on_message gets, all its fragments together, for every
\* length the protocol allows, though read_message_content compares a sum of size_t with it
\* (server_ws.hpp:691), if the limit is at most half of what a size_t holds.
THEOREM SizeIsRespected == ASSUME NoneIsNoRecord, Room PROVE Spec => []SizeRespected
<1>1. SizeInv => SizeRespected
  BY DEF SizeInv, SizesInv
<1> QED
  BY <1>1, SizeInvariance, PTL

\* The messages on_message got are the first ones that were sent, and every variable of the
\* reader has its type: the value of the 2 or 8 length bytes is a length that was sent.
THEOREM MessagesAreInOrder == ASSUME NoneIsNoRecord PROVE Spec => []MessagesInOrder
<1>1. IInv /\ SizeInv => R!TypeOK
  <2> SUFFICES ASSUME IInv, SizeInv PROVE R!TypeOK
    OBVIOUS
  <2>1. Payloads = R!Payloads
    BY DEF Payloads, R!Payloads
  <2>2. /\ frames \in 0 .. MaxFrames /\ part \in Seq(R!Payloads) /\ sent \in Seq(Seq(R!Payloads))
        /\ delivered \in Seq(Seq(R!Payloads)) /\ reports \in Seq({"close", "error"})
        /\ stage \in {"header", "length", "content", "toobig", "closed", "done"}
    BY <2>1 DEF IInv, Types
  <2>3. wire \in Seq(R!Frames)
    BY SentIsFrame DEF IInv, Types
  <2>4. /\ frame \in {None} \cup [f : R!Frames, length : Lengths \cup {0}]
        /\ stage \in {"length", "content"} <=> frame # None
    <3>1. CASE AmidFrame
      <4>1. frame \in [f : R!Frames, length : Lengths \cup {0}] /\ frame # None
        BY <3>1, SentIsFrame DEF SizeInv, FrameInv, NoneIsNoRecord
      <4> QED
        BY <3>1, <4>1 DEF AmidFrame
    <3>2. CASE ~AmidFrame
      BY <3>2 DEF SizeInv, FrameInv, AmidFrame
    <3> QED
      BY <3>1, <3>2
  <2>5. /\ fragmented \in {None} \cup [length : 0 .. max_message_size, body : Seq(R!Payloads)]
        /\ pongs \in Seq(R!Payloads) /\ closes \in Seq({0, 1002, 1009})
    BY <2>1 DEF SizeInv, SizesInv, OutInv
  <2> QED
    BY <2>2, <2>3, <2>4, <2>5 DEF R!TypeOK
<1> QED
  BY <1>1, Invariance, SizeInvariance, InOrder, PTL DEF MessagesInOrder, R!MessagesInOrder

--------------------------------------------------------------------------------
(* The texts of the handshake. *)

IsText(s) == \E T : s \in Seq(T)

LEMMA TextIs == ASSUME NEW s, IsText(s) PROVE Len(s) \in Nat /\ DOMAIN s = 1 .. Len(s)
  BY DEF IsText

LEMMA Joined ==
  ASSUME NEW s, NEW t, IsText(s), IsText(t)
  PROVE  /\ IsText(s \o t) /\ Len(s \o t) = Len(s) + Len(t)
         /\ \A i \in 1 .. Len(s) : (s \o t)[i] = s[i]
         /\ \A i \in 1 .. Len(t) : (s \o t)[Len(s) + i] = t[i]
<1>1. PICK S, T : s \in Seq(S) /\ t \in Seq(T)
  BY DEF IsText
<1>2. s \in Seq(S \cup T) /\ t \in Seq(S \cup T)
  BY <1>1
<1>3. s \o t \in Seq(S \cup T) /\ Len(s \o t) = Len(s) + Len(t)
  BY <1>2
<1>4. IsText(s \o t)
  BY <1>3 DEF IsText
<1>5. /\ \A i \in 1 .. Len(s) : (s \o t)[i] = s[i]
      /\ \A i \in 1 .. Len(t) : (s \o t)[Len(s) + i] = t[i]
  BY <1>2
<1> QED
  BY <1>3, <1>4, <1>5

\* The least of a set that has a least member.
LEMMA MinIs ==
  ASSUME NEW S \in SUBSET Nat, NEW n \in S, \A m \in S : n <= m
  PROVE  H!Min(S) = n
<1>1. \A x \in S : (\A y \in S : x <= y) => x = n
  <2> SUFFICES ASSUME NEW x \in S, \A y \in S : x <= y PROVE x = n
    OBVIOUS
  <2>1. x <= n /\ n <= x /\ x \in Nat /\ n \in Nat
    OBVIOUS
  <2> QED
    BY <2>1
<1> QED
  BY <1>1 DEF H!Min

LEMMA Found ==
  ASSUME NEW line, NEW t, NEW from \in Nat \ {0}, Len(line) \in Nat, NEW k \in from .. Len(line), line[k] = t,
         \A i \in from .. k - 1 : line[i] # t
  PROVE  H!FindFrom(line, t, from) = k
<1> DEFINE I == {i \in from .. Len(line) : line[i] = t}
<1>1. I \in SUBSET Nat /\ k \in I
  OBVIOUS
<1>2. \A m \in I : k <= m
  OBVIOUS
<1>3. H!Min(I) = k
  <2> HIDE DEF I
  <2> QED
    BY <1>1, <1>2, MinIs
<1>4. H!FindFrom(line, t, from) = IF I # {} THEN H!Min(I) ELSE 0
  BY DEF H!FindFrom, H!SelectInSubSeq
<1> QED
  BY <1>1, <1>3, <1>4

LEMMA FoundAtAll ==
  ASSUME NEW line, NEW t, Len(line) \in Nat, NEW k \in 1 .. Len(line), line[k] = t
  PROVE  H!Find(line, t) # 0 /\ H!Find(line, t) \in 1 .. Len(line)
<1> DEFINE I == {i \in 1 .. Len(line) : line[i] = t}
<1>1. I \in SUBSET Nat /\ I # {}
  OBVIOUS
<1>2. PICK n \in I : \A m \in I : n <= m
  <2> HIDE DEF I
  <2> QED
    BY <1>1, Least
<1>3. H!Min(I) = n
  <2> HIDE DEF I
  <2> QED
    BY <1>1, <1>2, MinIs
<1>4. H!Find(line, t) = IF I # {} THEN H!Min(I) ELSE 0
  BY DEF H!Find, H!FindFrom, H!SelectInSubSeq
<1> QED
  BY <1>1, <1>2, <1>3, <1>4

LEMMA NotFound ==
  ASSUME NEW line, NEW t, \A i \in 1 .. Len(line) : line[i] # t
  PROVE  H!Find(line, t) = 0
<1> DEFINE I == {i \in 1 .. Len(line) : line[i] = t}
<1>1. I = {}
  OBVIOUS
<1>2. H!Find(line, t) = IF I # {} THEN H!Min(I) ELSE 0
  BY DEF H!Find, H!FindFrom, H!SelectInSubSeq
<1> QED
  BY <1>1, <1>2

\* The header is what stands before the first line without a colon.
LEMMA EndOfHeader ==
  ASSUME NEW lines, IsText(lines), NEW n \in 1 .. Len(lines) + 1,
         \A i \in 1 .. n - 1 : H!Find(lines[i], ":") # 0,
         n <= Len(lines) => H!Find(lines[n], ":") = 0
  PROVE  H!HeaderEnd(lines) = n
<1> DEFINE S == {i \in DOMAIN lines : H!Find(lines[i], ":") = 0} \cup {Len(lines) + 1}
<1>1. Len(lines) \in Nat /\ DOMAIN lines = 1 .. Len(lines)
  BY TextIs
<1>2. S \in SUBSET Nat /\ n \in S
  BY <1>1
<1>3. \A m \in S : n <= m
  BY <1>1
<1> HIDE DEF S
<1>4. H!Min(S) = n
  BY <1>2, <1>3, MinIs
<1> QED
  BY <1>4 DEF S, H!HeaderEnd

\* One line of a header: its name and value are found again.
LEMMA LineIs ==
  ASSUME NEW name, NEW value, IsText(name), IsText(value)
  PROVE  LET f == H!Field(name, value) IN
         /\ IsText(f) /\ Len(f) = Len(name) + Len(value) + 3
         /\ \A i \in 1 .. Len(name) : f[i] = name[i]
         /\ f[Len(name) + 1] = ":" /\ f[Len(name) + 2] = "SP"
         /\ \A i \in 1 .. Len(value) : f[Len(name) + 2 + i] = value[i]
         /\ f[Len(f)] = "CR"
<1> DEFINE a == name \o <<":", "SP">>  b == a \o value  f == b \o <<"CR">>
<1>1. IsText(<<":", "SP">>) /\ Len(<<":", "SP">>) = 2 /\ <<":", "SP">>[1] = ":" /\ <<":", "SP">>[2] = "SP"
  <2>1. <<":", "SP">> \in Seq({":", "SP"})
    OBVIOUS
  <2> QED
    BY <2>1 DEF IsText
<1>2. IsText(<<"CR">>) /\ Len(<<"CR">>) = 1 /\ <<"CR">>[1] = "CR"
  <2>1. <<"CR">> \in Seq({"CR"})
    OBVIOUS
  <2> QED
    BY <2>1 DEF IsText
<1>3. Len(name) \in Nat /\ Len(value) \in Nat
  BY TextIs
<1>4. /\ IsText(a) /\ Len(a) = Len(name) + 2 /\ a[Len(name) + 1] = ":" /\ a[Len(name) + 2] = "SP"
      /\ \A i \in 1 .. Len(name) : a[i] = name[i]
  BY <1>1, <1>3, Joined
<1> HIDE DEF a
<1>5. /\ IsText(b) /\ Len(b) = Len(name) + 2 + Len(value) /\ b[Len(name) + 1] = ":" /\ b[Len(name) + 2] = "SP"
      /\ \A i \in 1 .. Len(name) : b[i] = name[i]
      /\ \A i \in 1 .. Len(value) : b[Len(name) + 2 + i] = value[i]
  <2>1. /\ IsText(b) /\ Len(b) = Len(a) + Len(value)
        /\ \A i \in 1 .. Len(a) : b[i] = a[i]
        /\ \A i \in 1 .. Len(value) : b[Len(a) + i] = value[i]
    BY <1>4, Joined
  <2> QED
    BY <1>3, <1>4, <2>1
<1> HIDE DEF b
<1>6. /\ IsText(f) /\ Len(f) = Len(b) + 1
      /\ \A i \in 1 .. Len(b) : f[i] = b[i]
      /\ f[Len(b) + 1] = "CR"
  BY <1>2, <1>5, Joined
<1>7. f = H!Field(name, value)
  BY DEF H!Field, a, b
<1> HIDE DEF f
<1>8. /\ IsText(f) /\ Len(f) = Len(name) + Len(value) + 3
      /\ \A i \in 1 .. Len(name) : f[i] = name[i]
      /\ f[Len(name) + 1] = ":" /\ f[Len(name) + 2] = "SP"
      /\ \A i \in 1 .. Len(value) : f[Len(name) + 2 + i] = value[i]
      /\ f[Len(f)] = "CR"
  BY <1>3, <1>5, <1>6
<1> QED
  BY <1>7, <1>8

LEMMA LineHasColon ==
  ASSUME NEW name, NEW value, IsText(name), IsText(value)
  PROVE  H!Find(H!Field(name, value), ":") # 0
<1> DEFINE f == H!Field(name, value)
<1>1. Len(f) \in Nat /\ Len(name) \in Nat /\ Len(value) \in Nat /\ Len(f) = Len(name) + Len(value) + 3
      /\ f[Len(name) + 1] = ":"
  BY LineIs, TextIs
<1> HIDE DEF f
<1>2. Len(name) + 1 \in 1 .. Len(f)
  BY <1>1
<1>3. H!Find(f, ":") # 0
  BY <1>1, <1>2, FoundAtAll
<1> QED
  BY <1>3 DEF f

LEMMA Word == ASSUME NEW n PROVE IsText(<<n>>) /\ Len(<<n>>) = 1 /\ <<n>>[1] = n
<1>1. <<n>> \in Seq({n})
  OBVIOUS
<1> QED
  BY <1>1 DEF IsText

\* The lines of the texts with a name of one word: first what is read as the name,
\* then as the value.
LEMMA NameIs ==
  ASSUME NEW name, NEW value, IsText(name), IsText(value), Len(name) = 1, name[1] # ":"
  PROVE  LET f == H!Field(name, value) IN
         /\ Len(value) \in Nat /\ IsText(f) /\ Len(f) = Len(value) + 4 /\ f[3] = "SP"
         /\ (\A i \in 1 .. Len(value) : f[3 + i] = value[i]) /\ f[Len(f)] = "CR"
         /\ H!Find(f, ":") = 2 /\ SubSeq(f, 1, 1) = name /\ H!FieldOf(f)[1] = name
<1> DEFINE f == H!Field(name, value)
<1>1. /\ IsText(f) /\ Len(f) = Len(name) + Len(value) + 3
      /\ \A i \in 1 .. Len(name) : f[i] = name[i]
      /\ f[Len(name) + 1] = ":" /\ f[Len(name) + 2] = "SP"
      /\ \A i \in 1 .. Len(value) : f[Len(name) + 2 + i] = value[i]
      /\ f[Len(f)] = "CR"
  BY LineIs
<1>2. Len(value) \in Nat /\ IsText(f) /\ Len(f) = Len(value) + 4 /\ f[1] = name[1] /\ f[2] = ":" /\ f[3] = "SP"
      /\ (\A i \in 1 .. Len(value) : f[3 + i] = value[i]) /\ f[Len(f)] = "CR"
  <2> HIDE DEF f
  <2>1. Len(value) \in Nat
    BY TextIs
  <2>2. 1 \in 1 .. Len(name) /\ Len(name) + 1 = 2 /\ Len(name) + 2 = 3
    OBVIOUS
  <2> QED
    BY <1>1, <2>1, <2>2
<1> HIDE DEF f
<1>3. H!Find(f, ":") = 2
  <2>1. 2 \in 1 .. Len(f) /\ \A i \in 1 .. 2 - 1 : f[i] # ":"
    BY <1>2
  <2> QED
    BY <1>2, <2>1, Found DEF H!Find
<1>4. PICK T : f \in Seq(T)
  BY <1>2 DEF IsText
<1>5. SubSeq(f, 1, 1) = name
  <2>1. PICK U : name \in Seq(U)
    BY DEF IsText
  <2>2. SubSeq(f, 1, 1) \in Seq(T) /\ Len(SubSeq(f, 1, 1)) = 1 /\ SubSeq(f, 1, 1)[1] = name[1]
    BY <1>2, <1>4
  <2>3. name \in Seq(T \cup U) /\ SubSeq(f, 1, 1) \in Seq(T \cup U)
    BY <2>1, <2>2
  <2>4. \A i \in 1 .. 1 : SubSeq(f, 1, 1)[i] = name[i]
    BY <2>2
  <2> QED
    BY <2>2, <2>3, <2>4, SeqEqual
<1>6. H!FieldOf(f)[1] = SubSeq(f, 1, 2 - 1)
  BY <1>3 DEF H!FieldOf
<1> QED
  BY <1>2, <1>3, <1>5, <1>6 DEF f

LEMMA FieldIs ==
  ASSUME NEW name, NEW value, IsText(name), IsText(value), Len(name) = 1, name[1] # ":",
         Len(value) > 0, value[1] # "SP"
  PROVE  H!FieldOf(H!Field(name, value)) = <<name, value>>
<1> DEFINE f == H!Field(name, value)
<1>2. /\ Len(value) \in Nat /\ IsText(f) /\ Len(f) = Len(value) + 4 /\ f[3] = "SP"
      /\ (\A i \in 1 .. Len(value) : f[3 + i] = value[i]) /\ f[Len(f)] = "CR"
  BY NameIs
<1>3. H!Find(f, ":") = 2 /\ SubSeq(f, 1, 1) = name
  BY NameIs
<1> HIDE DEF f
<1>4. H!ValueStart(f) = 4
  <2> DEFINE S == {i \in H!Find(f, ":") + 1 .. Len(f) : f[i] # "SP" \/ i = Len(f)}
  <2>1. S \in SUBSET Nat /\ 4 \in S
    BY <1>2, <1>3
  <2>2. \A m \in S : 4 <= m
    BY <1>2, <1>3
  <2>3. H!ValueStart(f) = H!Min(S)
    BY DEF H!ValueStart
  <2> HIDE DEF S
  <2> QED
    BY <2>1, <2>2, <2>3, MinIs
<1> DEFINE v == SubSeq(f, 4, Len(f))
<1>5. PICK T : f \in Seq(T)
  BY <1>2 DEF IsText
<1>6. v \in Seq(T) /\ Len(v) = Len(value) + 1 /\ \A i \in 1 .. Len(v) : v[i] = f[3 + i]
  BY <1>2, <1>5
<1>7. H!WithoutCR(v) = SubSeq(v, 1, Len(value))
  <2> HIDE DEF v
  <2>1. v # << >> /\ v[Len(v)] = "CR" /\ Len(v) - 1 = Len(value)
    BY <1>2, <1>6
  <2> QED
    BY <2>1 DEF H!WithoutCR, H!Last, H!Front
<1>8. SubSeq(v, 1, Len(value)) = value
  <2> HIDE DEF v
  <2>1. PICK U : value \in Seq(U)
    BY DEF IsText
  <2>2. SubSeq(v, 1, Len(value)) \in Seq(T) /\ Len(SubSeq(v, 1, Len(value))) = Len(value)
        /\ \A i \in 1 .. Len(value) : SubSeq(v, 1, Len(value))[i] = value[i]
    BY <1>2, <1>6
  <2>3. SubSeq(v, 1, Len(value)) \in Seq(T \cup U) /\ value \in Seq(T \cup U)
    BY <2>1, <2>2
  <2> QED
    BY <2>2, <2>3, SeqEqual
<1> HIDE DEF v
<1>9. H!FieldOf(f) = <<SubSeq(f, 1, 2 - 1), H!WithoutCR(v)>>
  BY <1>3, <1>4 DEF H!FieldOf, v
<1>10. H!FieldOf(f) = <<name, value>>
  BY <1>3, <1>7, <1>8, <1>9
<1> QED
  BY <1>10 DEF f

--------------------------------------------------------------------------------
(* The request of the program's own client. *)

KeyName == <<"Sec-WebSocket-Key">>
AcceptName == <<"Sec-WebSocket-Accept">>

\* The owner's own fields are texts, and none of them is a second key.
OwnFields(h) == IsText(h) /\ \A k \in 1 .. Len(h) : IsText(h[k][1]) /\ IsText(h[k][2])
OwnHeader(h) ==
  /\ OwnFields(h)
  /\ \A k \in 1 .. Len(h) : H!Lower(H!FieldOf(H!Field(h[k][1], h[k][2]))[1]) # H!Lower(KeyName)

\* The names the program writes differ, also in lower case.
NamesDiffer ==
  \A m, n \in {"Host", "Upgrade", "Connection", "Sec-WebSocket-Key", "Sec-WebSocket-Version", "Sec-WebSocket-Accept"} :
    m # n => H!Lower(<<m>>) # H!Lower(<<n>>)

\* What is read of lines that have colons up to the n-th.
LEMMA ReadUpTo ==
  ASSUME NEW lines, IsText(lines), NEW n \in 1 .. Len(lines),
         \A i \in 1 .. n - 1 : H!Find(lines[i], ":") # 0, H!Find(lines[n], ":") = 0
  PROVE  /\ H!Header(lines) = {H!FieldOf(lines[i]) : i \in {j \in 1 .. n - 1 : H!Find(lines[j], ":") < Len(lines[j])}}
         /\ H!AfterHeader(lines) = SubSeq(lines, n + 1, Len(lines))
<1>1. Len(lines) \in Nat
  BY TextIs
<1>2. H!HeaderEnd(lines) = n
  BY <1>1, EndOfHeader
<1> QED
  BY <1>2 DEF H!Header, H!AfterHeader

LEMMA NoColon == H!Find(<<"CR">>, ":") = 0
<1>1. IsText(<<"CR">>) /\ Len(<<"CR">>) = 1 /\ <<"CR">>[1] = "CR"
  BY Word
<1>2. \A i \in 1 .. Len(<<"CR">>) : <<"CR">>[i] # ":"
  BY <1>1
<1> QED
  BY <1>2, NotFound

\* The lines of the request, and those behind the first.
LEMMA RequestLines ==
  ASSUME NEW t, IsText(t.host), OwnFields(t.header)
  PROVE  LET L == Tail(H!RequestOf(t))
             m == Len(t.header)
         IN  /\ H!RequestOf(t)[1] = <<"GET", "SP">> \o t.path \o <<"SP", "HTTP", "/", "1.1", "CR">>
             /\ H!RequestOf(t) # << >> /\ Head(H!RequestOf(t)) = H!RequestOf(t)[1] /\ IsText(L) /\ Len(L) = m + 6 /\ m \in Nat
             /\ IsText(H!HostField(t)) /\ L[1] = H!Field(<<"Host">>, H!HostField(t))
             /\ L[2] = H!Field(<<"Upgrade">>, <<"websocket">>)
             /\ L[3] = H!Field(<<"Connection">>, <<"Upgrade">>)
             /\ L[4] = H!Field(KeyName, H!Nonce)
             /\ L[5] = H!Field(<<"Sec-WebSocket-Version">>, <<"13">>)
             /\ \A k \in 1 .. m : L[5 + k] = H!Field(t.header[k][1], t.header[k][2])
             /\ L[m + 6] = <<"CR">>
<1> DEFINE v == H!HostField(t)
           get == <<"GET", "SP">> \o t.path \o <<"SP", "HTTP", "/", "1.1", "CR">>
           f1 == H!Field(<<"Host">>, v)
           f2 == H!Field(<<"Upgrade">>, <<"websocket">>)
           f3 == H!Field(<<"Connection">>, <<"Upgrade">>)
           f4 == H!Field(KeyName, H!Nonce)
           f5 == H!Field(<<"Sec-WebSocket-Version">>, <<"13">>)
           m == Len(t.header)
           own == [k \in DOMAIN t.header |-> H!Field(t.header[k][1], t.header[k][2])]
           cr == <<"CR">>
           text == H!RequestOf(t)
<1>1. IsText(v)
  <2>1. CASE t.port = default_port
    <3>1. IsText(<< >>)
      BY DEF IsText
    <3> QED
      BY <2>1, <3>1, Joined DEF H!HostField
  <2>2. CASE t.port # default_port
    <3>1. ASSUME NEW d PROVE IsText(<<":", d>>)
      <4>1. <<":", d>> \in Seq({":", d})
        OBVIOUS
      <4> QED
        BY <4>1 DEF IsText
    <3> QED
      BY <2>2, <3>1, Joined DEF H!HostField
  <2> QED
    BY <2>1, <2>2
<1>2. text = <<get, f1, f2, f3, f4, f5>> \o own \o <<cr>>
  BY DEF H!RequestOf, KeyName
<1>3. m \in Nat /\ DOMAIN t.header = 1 .. m
  BY TextIs DEF OwnFields
<1>4. IsText(own) /\ Len(own) = m /\ \A k \in 1 .. m : own[k] = H!Field(t.header[k][1], t.header[k][2])
  <2> DEFINE at(k) == H!Field(t.header[k][1], t.header[k][2])
  <2>1. own = [k \in 1 .. m |-> at(k)]
    BY <1>3
  <2> HIDE DEF at, own
  <2>2. own \in Seq({at(k) : k \in 1 .. m}) /\ Len(own) = m /\ \A k \in 1 .. m : own[k] = at(k)
    BY <1>3, <2>1
  <2> QED
    BY <2>2 DEF at, IsText
<1> HIDE DEF get, v, f1, f2, f3, f4, f5, own, cr, text, m
<1>5. PICK first : first = <<get, f1, f2, f3, f4, f5>>
  OBVIOUS
<1>6. /\ IsText(first) /\ Len(first) = 6 /\ first[1] = get
      /\ first[2] = f1 /\ first[3] = f2 /\ first[4] = f3 /\ first[5] = f4 /\ first[6] = f5
  <2>1. first \in Seq({get, f1, f2, f3, f4, f5})
    BY <1>5
  <2> QED
    BY <1>5, <2>1 DEF IsText
<1>7. PICK end : end = <<cr>> /\ IsText(end) /\ Len(end) = 1 /\ end[1] = cr
  BY Word
<1>8. text = first \o own \o end
  BY <1>2, <1>5, <1>7
<1>9. /\ IsText(text) /\ Len(text) = m + 7 /\ text[1] = get
      /\ text[2] = f1 /\ text[3] = f2 /\ text[4] = f3 /\ text[5] = f4 /\ text[6] = f5
      /\ \A k \in 1 .. m : text[6 + k] = own[k]
      /\ text[m + 7] = cr
  <2> DEFINE b == first \o own
  <2>1. /\ IsText(b) /\ Len(b) = m + 6 /\ b[1] = get
        /\ b[2] = f1 /\ b[3] = f2 /\ b[4] = f3 /\ b[5] = f4 /\ b[6] = f5
        /\ \A k \in 1 .. m : b[6 + k] = own[k]
    <3> HIDE DEF b
    <3>0. IsText(first) /\ IsText(own) /\ b = first \o own
      BY <1>4, <1>6 DEF b
    <3>1. /\ IsText(b) /\ Len(b) = Len(first) + Len(own)
          /\ \A i \in 1 .. Len(first) : b[i] = first[i]
          /\ \A i \in 1 .. Len(own) : b[Len(first) + i] = own[i]
      BY <3>0, Joined
    <3> QED
      BY <1>3, <1>4, <1>6, <3>1
  <2>2. text = b \o end
    BY <1>8
  <2> HIDE DEF b
  <2>3. /\ IsText(text) /\ Len(text) = Len(b) + 1
        /\ \A i \in 1 .. Len(b) : text[i] = b[i]
        /\ text[Len(b) + 1] = cr
    BY <1>7, <2>1, <2>2, Joined
  <2> QED
    BY <1>3, <2>1, <2>3
<1>10. PICK T : text \in Seq(T)
  BY <1>9 DEF IsText
<1>11. /\ text # << >> /\ Head(text) = text[1] /\ Tail(text) \in Seq(T) /\ Len(Tail(text)) = m + 6
       /\ \A i \in 1 .. m + 6 : Tail(text)[i] = text[i + 1]
  BY <1>3, <1>9, <1>10
<1>12. IsText(Tail(text))
  BY <1>11 DEF IsText
<1>13. /\ Tail(text)[1] = f1 /\ Tail(text)[2] = f2 /\ Tail(text)[3] = f3 /\ Tail(text)[4] = f4 /\ Tail(text)[5] = f5
       /\ Tail(text)[m + 6] = cr
  BY <1>3, <1>9, <1>11
<1>14. \A k \in 1 .. m : Tail(text)[5 + k] = own[k]
  <2> SUFFICES ASSUME NEW k \in 1 .. m PROVE Tail(text)[5 + k] = own[k]
    OBVIOUS
  <2>1. 5 + k \in 1 .. m + 6 /\ 5 + k + 1 = 6 + k
    BY <1>3
  <2> QED
    BY <1>9, <1>11, <2>1
<1>15. /\ text # << >> /\ Head(text) = text[1] /\ IsText(Tail(text)) /\ Len(Tail(text)) = m + 6 /\ m \in Nat
       /\ IsText(v) /\ Tail(text)[1] = H!Field(<<"Host">>, v)
       /\ \A k \in 1 .. m : Tail(text)[5 + k] = H!Field(t.header[k][1], t.header[k][2])
  BY <1>1, <1>3, <1>4, <1>11, <1>12, <1>13, <1>14 DEF f1
<1> QED
  BY <1>9, <1>13, <1>15 DEF text, get, v, m, cr, f2, f3, f4, f5

\* The server finds one key in it, the client's, and nothing behind it.
LEMMA RequestIs ==
  ASSUME NamesDiffer, NEW t, IsText(t.host), OwnHeader(t.header)
  PROVE  /\ H!RequestOf(t) # << >>
         /\ \A r \in H!Request(H!RequestOf(t)) : r.rest = << >> /\ H!Values(r.header, KeyName) = {H!Nonce}
<1> DEFINE text == H!RequestOf(t)
           L == Tail(text)
           m == Len(t.header)
           at(k) == H!Field(t.header[k][1], t.header[k][2])
<1>1. PICK v : /\ text # << >> /\ IsText(L) /\ Len(L) = m + 6 /\ m \in Nat
               /\ IsText(v) /\ L[1] = H!Field(<<"Host">>, v)
               /\ L[2] = H!Field(<<"Upgrade">>, <<"websocket">>)
               /\ L[3] = H!Field(<<"Connection">>, <<"Upgrade">>)
               /\ L[4] = H!Field(KeyName, H!Nonce)
               /\ L[5] = H!Field(<<"Sec-WebSocket-Version">>, <<"13">>)
               /\ \A k \in 1 .. m : L[5 + k] = at(k)
               /\ L[m + 6] = <<"CR">>
  BY RequestLines DEF OwnHeader
<1>2. /\ IsText(<<"websocket">>) /\ IsText(<<"Upgrade">>) /\ IsText(<<"13">>)
      /\ IsText(H!Nonce) /\ Len(H!Nonce) = 1 /\ H!Nonce[1] = "nonce"
      /\ IsText(KeyName) /\ Len(KeyName) = 1 /\ KeyName[1] = "Sec-WebSocket-Key"
  BY Word DEF H!Nonce, KeyName
<1> HIDE DEF text, L, m, at
<1>3. \A i \in 1 .. m + 5 : i \in 1 .. 5 \/ \E k \in 1 .. m : i = 5 + k
  <2> SUFFICES ASSUME NEW i \in 1 .. m + 5, i \notin 1 .. 5 PROVE \E k \in 1 .. m : i = 5 + k
    OBVIOUS
  <2>1. i - 5 \in 1 .. m /\ i = 5 + (i - 5)
    BY <1>1
  <2> QED
    BY <2>1
\* What each line is read as.
<1>4. \A i \in {1, 2, 3, 5} : H!Find(L[i], ":") # 0 /\ H!Lower(H!FieldOf(L[i])[1]) # H!Lower(KeyName)
  <2>1. ASSUME NEW n \in {"Host", "Upgrade", "Connection", "Sec-WebSocket-Version"}, NEW w, IsText(w)
        PROVE  /\ H!Find(H!Field(<<n>>, w), ":") # 0
               /\ H!Lower(H!FieldOf(H!Field(<<n>>, w))[1]) # H!Lower(KeyName)
    <3>1. IsText(<<n>>) /\ Len(<<n>>) = 1 /\ <<n>>[1] # ":"
      BY Word
    <3>2. H!Find(H!Field(<<n>>, w), ":") # 0 /\ H!FieldOf(H!Field(<<n>>, w))[1] = <<n>>
      BY <2>1, <3>1, NameIs
    <3>3. H!Lower(<<n>>) # H!Lower(<<"Sec-WebSocket-Key">>)
      BY DEF NamesDiffer
    <3> QED
      BY <3>2, <3>3 DEF KeyName
  <2>2. H!Find(L[1], ":") # 0 /\ H!Lower(H!FieldOf(L[1])[1]) # H!Lower(KeyName)
    BY <1>1, <2>1
  <2>3. H!Find(L[2], ":") # 0 /\ H!Lower(H!FieldOf(L[2])[1]) # H!Lower(KeyName)
    BY <1>1, <1>2, <2>1
  <2>4. H!Find(L[3], ":") # 0 /\ H!Lower(H!FieldOf(L[3])[1]) # H!Lower(KeyName)
    BY <1>1, <1>2, <2>1
  <2>5. H!Find(L[5], ":") # 0 /\ H!Lower(H!FieldOf(L[5])[1]) # H!Lower(KeyName)
    BY <1>1, <1>2, <2>1
  <2> QED
    BY <2>2, <2>3, <2>4, <2>5
<1>5. /\ H!Find(L[4], ":") = 2 /\ Len(L[4]) = 5 /\ H!FieldOf(L[4]) = <<KeyName, H!Nonce>>
  <2>1. H!FieldOf(H!Field(KeyName, H!Nonce)) = <<KeyName, H!Nonce>>
    BY <1>2, FieldIs
  <2>2. H!Find(H!Field(KeyName, H!Nonce), ":") = 2 /\ Len(H!Field(KeyName, H!Nonce)) = Len(H!Nonce) + 4
    <3>1. KeyName[1] # ":"
      BY <1>2
    <3>2. ASSUME NEW n, NEW v2, IsText(n), IsText(v2), Len(n) = 1, n[1] # ":"
          PROVE  H!Find(H!Field(n, v2), ":") = 2 /\ Len(H!Field(n, v2)) = Len(v2) + 4
      BY <3>2, NameIs
    <3> QED
      BY <1>2, <3>1, <3>2
  <2> QED
    BY <1>1, <1>2, <2>1, <2>2
<1>6. \A k \in 1 .. m : H!Find(L[5 + k], ":") # 0 /\ H!Lower(H!FieldOf(L[5 + k])[1]) # H!Lower(KeyName)
  <2> SUFFICES ASSUME NEW k \in 1 .. m
               PROVE  H!Find(L[5 + k], ":") # 0 /\ H!Lower(H!FieldOf(L[5 + k])[1]) # H!Lower(KeyName)
    OBVIOUS
  <2>1. /\ IsText(t.header[k][1]) /\ IsText(t.header[k][2])
        /\ H!Lower(H!FieldOf(at(k))[1]) # H!Lower(KeyName)
    BY DEF OwnHeader, OwnFields, m, at
  <2>2. H!Find(at(k), ":") # 0
    BY <2>1, LineHasColon DEF at
  <2> QED
    BY <1>1, <2>1, <2>2
<1>7. \A i \in 1 .. m + 5 : /\ H!Find(L[i], ":") # 0
                            /\ i # 4 => H!Lower(H!FieldOf(L[i])[1]) # H!Lower(KeyName)
  <2> SUFFICES ASSUME NEW i \in 1 .. m + 5
               PROVE  H!Find(L[i], ":") # 0 /\ (i # 4 => H!Lower(H!FieldOf(L[i])[1]) # H!Lower(KeyName))
    OBVIOUS
  <2>1. i \in {1, 2, 3, 5} \/ i = 4 \/ \E k \in 1 .. m : i = 5 + k
    BY <1>3
  <2> QED
    BY <1>4, <1>5, <1>6, <2>1
<1>8. /\ H!Header(L) = {H!FieldOf(L[i]) : i \in {j \in 1 .. m + 5 : H!Find(L[j], ":") < Len(L[j])}}
      /\ H!AfterHeader(L) = << >>
  <2>1. m + 6 \in 1 .. Len(L) /\ m + 6 - 1 = m + 5 /\ H!Find(L[m + 6], ":") = 0
    BY <1>1, NoColon
  <2>2. /\ H!Header(L) = {H!FieldOf(L[i]) : i \in {j \in 1 .. m + 5 : H!Find(L[j], ":") < Len(L[j])}}
        /\ H!AfterHeader(L) = SubSeq(L, m + 6 + 1, Len(L))
    <3>1. PICK n : n = m + 6
      OBVIOUS
    <3>2. /\ n \in 1 .. Len(L) /\ n - 1 = m + 5 /\ H!Find(L[n], ":") = 0 /\ IsText(L)
          /\ \A i \in 1 .. n - 1 : H!Find(L[i], ":") # 0
      BY <1>1, <1>7, <2>1, <3>1
    <3>3. /\ H!Header(L) = {H!FieldOf(L[i]) : i \in {j \in 1 .. n - 1 : H!Find(L[j], ":") < Len(L[j])}}
          /\ H!AfterHeader(L) = SubSeq(L, n + 1, Len(L))
      BY <3>2, ReadUpTo
    <3> QED
      BY <3>1, <3>2, <3>3
  <2>3. SubSeq(L, m + 6 + 1, Len(L)) = << >>
    <3>1. PICK T : L \in Seq(T)
      BY <1>1 DEF IsText
    <3> QED
      BY <1>1, <3>1
  <2> QED
    BY <2>2, <2>3
<1>9. H!Values(H!Header(L), KeyName) = {H!Nonce}
  <2> DEFINE I == {j \in 1 .. m + 5 : H!Find(L[j], ":") < Len(L[j])}
  <2>1. 4 \in I
    <3>1. m \in Nat /\ H!Find(L[4], ":") < Len(L[4])
      BY <1>1, <1>5
    <3> QED
      BY <3>1
  <2>2. H!Lower(<<KeyName, H!Nonce>>[1]) = H!Lower(KeyName)
    OBVIOUS
  <2>3. {g \in H!Header(L) : H!Lower(g[1]) = H!Lower(KeyName)} = {<<KeyName, H!Nonce>>}
    <3>1. \A i \in I : H!Lower(H!FieldOf(L[i])[1]) = H!Lower(KeyName) <=> i = 4
      BY <1>5, <1>7, <2>2
    <3> HIDE DEF I
    <3> QED
      BY <1>5, <1>8, <2>1, <3>1 DEF I
  <2>4. H!Values(H!Header(L), KeyName) = {f[2] : f \in {<<KeyName, H!Nonce>>}}
    BY <2>3, Zenon DEF H!Values
  <2>5. <<KeyName, H!Nonce>>[2] = H!Nonce
    OBVIOUS
  <2> QED
    BY <2>4, <2>5
<1>10. \A r \in H!Request(text) : r.header = H!Header(L) /\ r.rest = H!AfterHeader(L)
  BY DEF H!Request, L
<1> QED
  BY <1>1, <1>8, <1>9, <1>10 DEF text

--------------------------------------------------------------------------------
(* The answers. *)

LEMMA PartOf ==
  ASSUME NEW T, NEW s \in Seq(T), NEW m \in 1 .. Len(s), NEW n \in m .. Len(s)
  PROVE  /\ SubSeq(s, m, n) \in Seq(T) /\ Len(SubSeq(s, m, n)) = n - m + 1
         /\ \A i \in 1 .. n - m + 1 : SubSeq(s, m, n)[i] = s[m + i - 1]
  OBVIOUS

LEMMA FunctionIsSeq ==
  ASSUME NEW S, NEW n \in Nat, NEW f \in [1 .. n -> S]
  PROVE  f \in Seq(S) /\ Len(f) = n
  OBVIOUS

\* A line that says 101 behind the version is read so.
LEMMA StatusIs ==
  LET s == H!StatusLine("101", "Web_Socket_Protocol_Handshake")
      code == H!WithoutCR(SubSeq(s, 5, Len(s)))
  IN H!Find(s, "SP") = 4 /\ Len(s) = 8 /\ H!IsPrefix(<<"101", "SP">>, code)
<1> DEFINE s == H!StatusLine("101", "Web_Socket_Protocol_Handshake")
           T == {"HTTP", "/", "1.1", "SP", "101", "Web_Socket_Protocol_Handshake", "CR"}
           u == SubSeq(s, 5, 8)
           code == SubSeq(u, 1, 3)
<1>1. /\ s \in Seq(T) /\ Len(s) = 8 /\ s[1] # "SP" /\ s[2] # "SP" /\ s[3] # "SP" /\ s[4] = "SP"
      /\ s[5] = "101" /\ s[6] = "SP" /\ s[8] = "CR"
  BY DEF H!StatusLine
<1> HIDE DEF s, T
<1>2. H!Find(s, "SP") = 4
  <2>1. 4 \in 1 .. Len(s) /\ \A i \in 1 .. 4 - 1 : s[i] # "SP"
    BY <1>1
  <2> QED
    BY <1>1, <2>1, Found DEF H!Find
<1>3. u \in Seq(T) /\ Len(u) = 4 /\ u[1] = "101" /\ u[2] = "SP" /\ u[4] = "CR" /\ u # << >>
  <2>1. s \in Seq(T) /\ 5 \in 1 .. Len(s) /\ 8 \in 5 .. Len(s) /\ 8 - 5 + 1 = 4
    BY <1>1
  <2>2. u \in Seq(T) /\ Len(u) = 4 /\ \A i \in 1 .. 4 : u[i] = s[5 + i - 1]
    BY <2>1, PartOf
  <2> HIDE DEF u
  <2>3. u[1] = s[5] /\ u[2] = s[6] /\ u[4] = s[8]
    BY <2>2
  <2> QED
    BY <1>1, <2>2, <2>3
<1> HIDE DEF u
<1>4. code \in Seq(T) /\ Len(code) = 3 /\ code[1] = "101" /\ code[2] = "SP"
  BY <1>3
<1>5. H!WithoutCR(u) = code
  BY <1>3 DEF H!WithoutCR, H!Last, H!Front
<1> HIDE DEF code
<1>6. H!IsPrefix(<<"101", "SP">>, code)
  <2> DEFINE p == <<"101", "SP">>
  <2>1. p \in Seq({"101", "SP"}) /\ Len(p) = 2 /\ p[1] = "101" /\ p[2] = "SP"
    OBVIOUS
  <2> HIDE DEF p
  <2>2. SubSeq(p, 1, 2) \in Seq({"101", "SP"} \cup T) /\ SubSeq(code, 1, 2) \in Seq({"101", "SP"} \cup T)
        /\ Len(SubSeq(p, 1, 2)) = 2 /\ Len(SubSeq(code, 1, 2)) = 2
        /\ \A i \in 1 .. 2 : SubSeq(p, 1, 2)[i] = SubSeq(code, 1, 2)[i]
    BY <1>4, <2>1
  <2>3. SubSeq(p, 1, 2) = SubSeq(code, 1, 2)
    BY <2>2, SeqEqual
  <2> QED
    BY <1>4, <2>1, <2>3 DEF H!IsPrefix, p
<1> QED
  BY <1>1, <1>2, <1>5, <1>6 DEF s, u

\* The three fields of the answer, in an order of their own.
Orders(a, b, c) == H!SetToSeqs({a, b, c})

LEMMA ThreeInAnyOrder ==
  ASSUME NEW a, NEW b, NEW c, a # b, a # c, b # c, NEW f, f \in Orders(a, b, c)
  PROVE  /\ IsText(f) /\ Len(f) = 3
         /\ \A i \in 1 .. 3 : f[i] \in {a, b, c}
         /\ \E i \in 1 .. 3 : f[i] = c
<1>1. H!Cardinality({a, b, c}) = 3
  <2>1. IsFiniteSet({}) /\ Cardinality({}) = 0
    BY FS_EmptySet
  <2>2. IsFiniteSet({a}) /\ Cardinality({a}) = 1
    BY FS_Singleton
  <2>3. IsFiniteSet({a} \cup {b}) /\ Cardinality({a} \cup {b}) = 2
    BY <2>2, FS_AddElement
  <2>4. Cardinality(({a} \cup {b}) \cup {c}) = 3
    BY <2>3, FS_AddElement
  <2>5. ({a} \cup {b}) \cup {c} = {a, b, c}
    OBVIOUS
  <2>6. \A S : H!Cardinality(S) = Cardinality(S)
    BY DEF H!Cardinality, Cardinality
  <2> QED
    BY <2>4, <2>5, <2>6
<1>2. f \in [1 .. 3 -> {a, b, c}] /\ \A i, j \in 1 .. 3 : i # j => f[i] # f[j]
  <2>1. f \in {g \in [1 .. H!Cardinality({a, b, c}) -> {a, b, c}] :
                  \A i, j \in 1 .. H!Cardinality({a, b, c}) : i # j => g[i] # g[j]}
    BY Zenon DEF Orders, H!SetToSeqs
  <2> QED
    BY <1>1, <2>1
<1>3. IsText(f) /\ Len(f) = 3
  <2>1. f \in [1 .. 3 -> {a, b, c}] /\ 3 \in Nat
    BY <1>2
  <2>2. f \in Seq({a, b, c}) /\ Len(f) = 3
    BY <2>1, FunctionIsSeq
  <2> QED
    BY <2>2 DEF IsText
<1>4. \E i \in 1 .. 3 : f[i] = c
  <2>1. f[1] \in {a, b, c} /\ f[2] \in {a, b, c} /\ f[3] \in {a, b, c}
        /\ f[1] # f[2] /\ f[1] # f[3] /\ f[2] # f[3]
    BY <1>2
  <2> QED
    BY <2>1
<1> QED
  BY <1>2, <1>3, <1>4

\* Lines between a first and a last one.
LEMMA Around ==
  ASSUME NEW x, NEW f, NEW y, IsText(x), IsText(f), IsText(y)
  PROVE  LET lines == x \o f \o y IN
         /\ IsText(lines) /\ Len(lines) = Len(x) + Len(f) + Len(y)
         /\ \A i \in 1 .. Len(x) : lines[i] = x[i]
         /\ \A i \in 1 .. Len(f) : lines[Len(x) + i] = f[i]
         /\ \A i \in 1 .. Len(y) : lines[Len(x) + Len(f) + i] = y[i]
<1> DEFINE z == x \o f
           lines == z \o y
<1>1. Len(x) \in Nat /\ Len(f) \in Nat /\ Len(y) \in Nat
  BY TextIs
<1>2. /\ IsText(z) /\ Len(z) = Len(x) + Len(f)
      /\ \A i \in 1 .. Len(x) : z[i] = x[i]
      /\ \A i \in 1 .. Len(f) : z[Len(x) + i] = f[i]
  BY Joined
<1> HIDE DEF z
<1>3. IsText(z)
  BY <1>2
<1>4. /\ IsText(lines) /\ Len(lines) = Len(z) + Len(y)
      /\ \A i \in 1 .. Len(z) : lines[i] = z[i]
      /\ \A i \in 1 .. Len(y) : lines[Len(z) + i] = y[i]
  BY <1>3, Joined
<1> HIDE DEF lines
<1>5. /\ IsText(lines) /\ Len(lines) = Len(x) + Len(f) + Len(y)
      /\ \A i \in 1 .. Len(x) : lines[i] = x[i]
      /\ \A i \in 1 .. Len(f) : lines[Len(x) + i] = f[i]
      /\ \A i \in 1 .. Len(y) : lines[Len(x) + Len(f) + i] = y[i]
  BY <1>1, <1>2, <1>4
<1> QED
  BY <1>5 DEF z, lines

LEMMA Behind ==
  ASSUME NEW s, IsText(s), Len(s) > 0
  PROVE  /\ s # << >> /\ Head(s) = s[1] /\ IsText(Tail(s)) /\ Len(Tail(s)) = Len(s) - 1
         /\ \A i \in 1 .. Len(s) - 1 : Tail(s)[i] = s[i + 1]
<1>1. PICK T : s \in Seq(T)
  BY DEF IsText
<1>2. /\ s # << >> /\ Head(s) = s[1] /\ Tail(s) \in Seq(T) /\ Len(Tail(s)) = Len(s) - 1
      /\ \A i \in 1 .. Len(s) - 1 : Tail(s)[i] = s[i + 1]
  BY <1>1
<1> QED
  BY <1>2 DEF IsText

\* What the program's own server answers to the client's key is read as an acceptance.
LEMMA AcceptanceIs ==
  ASSUME NamesDiffer, NEW lines \in H!Accepting(H!Nonce)
  PROVE  /\ lines # << >> /\ H!Response(lines) # {}
         /\ \A r \in H!Response(lines) : r.rest = << >> /\ H!IsAccepted(r)
<1> DEFINE st == H!StatusLine("101", "Web_Socket_Protocol_Handshake")
           key == H!Accept(H!Nonce)
           a == H!Field(<<"Upgrade">>, <<"websocket">>)
           b == H!Field(<<"Connection">>, <<"Upgrade">>)
           c == H!Field(AcceptName, key)
           cr == <<"CR">>
           L == Tail(lines)
<1>1. PICK fields : fields \in H!SetToSeqs({a, b, c}) /\ lines = <<st>> \o fields \o <<cr>>
  BY DEF H!Accepting, AcceptName
<1>2. IsText(key) /\ Len(key) = 2 /\ key[1] = "accept"
  <2>1. PICK x, y : x = <<"accept">> /\ y = <<"nonce">>
    OBVIOUS
  <2>2. key = x \o y
    BY <2>1 DEF H!Accept, H!Nonce
  <2>3. IsText(x) /\ Len(x) = 1 /\ x[1] = "accept" /\ IsText(y) /\ Len(y) = 1
    BY <2>1, Word
  <2>4. IsText(x \o y) /\ Len(x \o y) = Len(x) + Len(y) /\ \A i \in 1 .. Len(x) : (x \o y)[i] = x[i]
    BY <2>3, Joined
  <2> QED
    BY <2>2, <2>3, <2>4
<1>3. ASSUME NEW n \in {"Upgrade", "Connection", "Sec-WebSocket-Accept"}, NEW w, IsText(w)
      PROVE  /\ H!Find(H!Field(<<n>>, w), ":") = 2 /\ Len(H!Field(<<n>>, w)) = Len(w) + 4 /\ Len(w) \in Nat
             /\ H!FieldOf(H!Field(<<n>>, w))[1] = <<n>>
  <2>1. IsText(<<n>>) /\ Len(<<n>>) = 1 /\ <<n>>[1] # ":"
    BY Word
  <2>2. ASSUME NEW m, IsText(m), Len(m) = 1, m[1] # ":"
        PROVE  /\ H!Find(H!Field(m, w), ":") = 2 /\ Len(H!Field(m, w)) = Len(w) + 4 /\ Len(w) \in Nat
               /\ H!FieldOf(H!Field(m, w))[1] = m
    BY <1>3, <2>2, NameIs
  <2> QED
    BY <2>1, <2>2
<1>4. ASSUME NEW n \in {"Upgrade", "Connection"}
      PROVE  H!Lower(<<n>>) # H!Lower(AcceptName)
  BY DEF NamesDiffer, AcceptName
<1>5. IsText(<<"websocket">>) /\ IsText(<<"Upgrade">>)
  BY Word
<1>6. /\ H!Find(a, ":") = 2 /\ H!Lower(H!FieldOf(a)[1]) # H!Lower(AcceptName) /\ H!FieldOf(a)[1] = <<"Upgrade">>
      /\ H!Find(b, ":") = 2 /\ H!Lower(H!FieldOf(b)[1]) # H!Lower(AcceptName) /\ H!FieldOf(b)[1] = <<"Connection">>
  BY <1>3, <1>4, <1>5
<1>7. /\ H!Find(c, ":") = 2 /\ Len(c) = 6 /\ H!FieldOf(c)[1] = AcceptName
      /\ H!FieldOf(c) = <<AcceptName, key>>
  <2>1. H!Find(c, ":") = 2 /\ Len(c) = Len(key) + 4 /\ H!FieldOf(c)[1] = AcceptName
    <3> HIDE DEF key
    <3> QED
      BY <1>2, <1>3 DEF AcceptName
  <2>2. IsText(AcceptName) /\ Len(AcceptName) = 1 /\ AcceptName[1] # ":"
    BY Word DEF AcceptName
  <2>3. H!FieldOf(c) = <<AcceptName, key>>
    <3> HIDE DEF key
    <3>1. Len(key) > 0 /\ key[1] # "SP"
      BY <1>2
    <3> QED
      BY <1>2, <2>2, <3>1, FieldIs
  <2> HIDE DEF key, c
  <2> QED
    BY <1>2, <2>1, <2>3
<1> HIDE DEF a, b, c, key, cr, st, L
<1>8. a # b /\ a # c /\ b # c
  <2>1. <<"Upgrade">> # <<"Connection">>
    OBVIOUS
  <2> QED
    BY <1>6, <1>7, <2>1
<1>9. /\ IsText(fields) /\ Len(fields) = 3
      /\ \A i \in 1 .. 3 : fields[i] \in {a, b, c}
      /\ \E i \in 1 .. 3 : fields[i] = c
  <2>1. fields \in Orders(a, b, c)
    BY <1>1, Zenon DEF Orders
  <2> QED
    BY <1>8, <2>1, ThreeInAnyOrder
<1>10. PICK x, y : x = <<st>> /\ y = <<cr>>
  OBVIOUS
<1>11. /\ lines # << >> /\ Head(lines) = st /\ IsText(L) /\ Len(L) = 4 /\ L[4] = cr
       /\ \A i \in 1 .. 3 : L[i] = fields[i]
  <2>1. IsText(x) /\ Len(x) = 1 /\ x[1] = st /\ IsText(y) /\ Len(y) = 1 /\ y[1] = cr
    BY <1>10, Word
  <2>2. IsText(x) /\ IsText(y) /\ IsText(fields)
    BY <1>9, <2>1
  <2>3. LET l == x \o fields \o y IN
        /\ IsText(l) /\ Len(l) = Len(x) + Len(fields) + Len(y)
        /\ \A i \in 1 .. Len(x) : l[i] = x[i]
        /\ \A i \in 1 .. Len(fields) : l[Len(x) + i] = fields[i]
        /\ \A i \in 1 .. Len(y) : l[Len(x) + Len(fields) + i] = y[i]
    BY <2>2, Around
  <2>4. lines = x \o fields \o y
    BY <1>1, <1>10
  <2>5. /\ IsText(lines) /\ Len(lines) = Len(x) + Len(fields) + Len(y)
        /\ \A i \in 1 .. Len(x) : lines[i] = x[i]
        /\ \A i \in 1 .. Len(fields) : lines[Len(x) + i] = fields[i]
        /\ \A i \in 1 .. Len(y) : lines[Len(x) + Len(fields) + i] = y[i]
    BY <2>3, <2>4, Zenon
  <2>6. IsText(lines) /\ Len(lines) = 5 /\ lines[1] = st /\ lines[5] = cr /\ \A i \in 1 .. 3 : lines[1 + i] = fields[i]
    BY <1>9, <2>1, <2>5
  <2>7. IsText(lines) /\ Len(lines) > 0
    BY <2>6
  <2>8. /\ lines # << >> /\ Head(lines) = lines[1] /\ IsText(L) /\ Len(L) = Len(lines) - 1
        /\ \A i \in 1 .. Len(lines) - 1 : L[i] = lines[i + 1]
    BY <2>7, Behind DEF L
  <2>9. L[4] = lines[5] /\ \A i \in 1 .. 3 : L[i] = lines[1 + i]
    BY <2>6, <2>8
  <2> QED
    BY <2>6, <2>8, <2>9
<1>12. \A i \in 1 .. 3 : /\ H!Find(L[i], ":") = 2
                         /\ H!Lower(H!FieldOf(L[i])[1]) = H!Lower(AcceptName) => L[i] = c
  BY <1>6, <1>7, <1>9, <1>11
<1>13. /\ H!Header(L) = {H!FieldOf(L[i]) : i \in {j \in 1 .. 3 : H!Find(L[j], ":") < Len(L[j])}}
       /\ H!AfterHeader(L) = << >>
  <2>1. PICK n : n = 4
    OBVIOUS
  <2>2. /\ n \in 1 .. Len(L) /\ n - 1 = 3 /\ n + 1 = 5 /\ H!Find(L[n], ":") = 0
        /\ \A i \in 1 .. n - 1 : H!Find(L[i], ":") # 0
    BY <1>11, <1>12, <2>1, NoColon DEF cr
  <2>3. /\ H!Header(L) = {H!FieldOf(L[i]) : i \in {j \in 1 .. n - 1 : H!Find(L[j], ":") < Len(L[j])}}
        /\ H!AfterHeader(L) = SubSeq(L, n + 1, Len(L))
    BY <1>11, <2>2, ReadUpTo
  <2>4. SubSeq(L, 5, 4) = << >>
    BY SubSeqEmpty
  <2> QED
    BY <1>11, <2>2, <2>3, <2>4
<1>14. H!Values(H!Header(L), AcceptName) = {key}
  <2> DEFINE I == {j \in 1 .. 3 : H!Find(L[j], ":") < Len(L[j])}
  <2>1. PICK k \in 1 .. 3 : L[k] = c
    BY <1>9, <1>11
  <2>2. k \in I
    <3>0. H!Find(c, ":") = 2 /\ Len(c) = 6
      BY <1>7
    <3>1. H!Find(L[k], ":") < Len(L[k])
      BY <2>1, <3>0
    <3> QED
      BY <3>1
  <2>3. \A i \in I : H!Lower(H!FieldOf(L[i])[1]) = H!Lower(AcceptName) => H!FieldOf(L[i]) = <<AcceptName, key>>
    BY <1>7, <1>12
  <2>4. H!Lower(<<AcceptName, key>>[1]) = H!Lower(AcceptName)
    OBVIOUS
  <2>5. {g \in H!Header(L) : H!Lower(g[1]) = H!Lower(AcceptName)} = {<<AcceptName, key>>}
    <3>1. H!FieldOf(L[k]) = <<AcceptName, key>>
      BY <1>7, <2>1
    <3>2. H!Header(L) = {H!FieldOf(L[i]) : i \in I}
      BY <1>13
    <3> HIDE DEF I
    <3> QED
      BY <2>2, <2>3, <2>4, <3>1, <3>2
  <2>6. H!Values(H!Header(L), AcceptName) = {f[2] : f \in {<<AcceptName, key>>}}
    BY <2>5, Zenon DEF H!Values
  <2>7. <<AcceptName, key>>[2] = key
    OBVIOUS
  <2> QED
    BY <2>6, <2>7
<1>15. H!Response(lines) = {[status_code |-> H!WithoutCR(SubSeq(st, 5, Len(st))),
                             header |-> H!Header(L), rest |-> H!AfterHeader(L)]}
  <2>1. H!Find(st, "SP") = 4 /\ Len(st) = 8
    BY StatusIs DEF st
  <2>2. 4 \notin {0, 8} /\ 4 + 1 = 5
    OBVIOUS
  <2> QED
    BY <1>11, <2>1, <2>2 DEF H!Response, L
<1>16. H!IsPrefix(<<"101", "SP">>, H!WithoutCR(SubSeq(st, 5, Len(st))))
  BY StatusIs DEF st
<1>17. \A r \in H!Response(lines) : r.rest = << >> /\ H!IsAccepted(r)
  <2> SUFFICES ASSUME NEW r \in H!Response(lines) PROVE r.rest = << >> /\ H!IsAccepted(r)
    OBVIOUS
  <2>1. /\ r.status_code = H!WithoutCR(SubSeq(st, 5, Len(st)))
        /\ r.header = H!Header(L) /\ r.rest = H!AfterHeader(L)
    BY <1>15
  <2> QED
    BY <1>13, <1>14, <1>16, <2>1 DEF H!IsAccepted, AcceptName, key
<1> QED
  BY <1>11, <1>15, <1>17

\* An answer of another make: its header ends with its last line, and it accepts if it
\* is read so by itself.
AnswerAlone(a) ==
  /\ IsText(a.lines) /\ IsText(a.behind) /\ Len(a.lines) >= 2
  /\ \A i \in 2 .. Len(a.lines) : H!Find(a.lines[i], ":") = 0 <=> i = Len(a.lines)
  /\ a.accepts <=> \E r \in H!Response(a.lines) : H!IsAccepted(r)

\* The client makes of the lines what the history variable says of them.
ReadAs(lines, a) ==
  /\ lines # << >>
  /\ \A r \in H!Response(lines) : r.rest = a.behind /\ (H!IsAccepted(r) <=> a.accepts)
  /\ H!Response(lines) = {} => ~a.accepts

\* What stands behind a header changes nothing of how it is read.
LEMMA ReadAlone ==
  ASSUME NEW l, NEW behind, IsText(l), IsText(behind), Len(l) >= 2,
         \A i \in 2 .. Len(l) : H!Find(l[i], ":") = 0 <=> i = Len(l)
  PROVE  /\ l \o behind # << >> /\ Head(l \o behind) = Head(l)
         /\ H!Header(Tail(l \o behind)) = H!Header(Tail(l))
         /\ H!AfterHeader(Tail(l \o behind)) = behind
<1> DEFINE whole == l \o behind
           L == Tail(whole)
           M == Tail(l)
           m == Len(l) - 1
<1>1. Len(l) \in Nat /\ Len(behind) \in Nat /\ m \in Nat /\ m > 0 /\ Len(l) = m + 1 /\ Len(l) > 0
  BY TextIs
<1> HIDE DEF m
<1>2. /\ IsText(whole) /\ Len(whole) = Len(l) + Len(behind)
      /\ \A i \in 1 .. Len(l) : whole[i] = l[i]
      /\ \A i \in 1 .. Len(behind) : whole[Len(l) + i] = behind[i]
  BY Joined
<1> HIDE DEF whole
<1>3. IsText(whole) /\ Len(whole) > 0 /\ Len(whole) - 1 = m + Len(behind)
  <2>1. IsText(whole) /\ Len(whole) = Len(l) + Len(behind)
    BY <1>2
  <2> QED
    BY <1>1, <2>1
<1>4. /\ whole # << >> /\ Head(whole) = whole[1] /\ IsText(L) /\ Len(L) = m + Len(behind)
      /\ \A i \in 1 .. m + Len(behind) : L[i] = whole[i + 1]
  <2>1. /\ whole # << >> /\ Head(whole) = whole[1] /\ IsText(L) /\ Len(L) = Len(whole) - 1
        /\ \A i \in 1 .. Len(whole) - 1 : L[i] = whole[i + 1]
    <3>1. IsText(whole) /\ Len(whole) > 0
      BY <1>3
    <3> QED
      BY <3>1, Behind
  <2> QED
    BY <1>3, <2>1
<1>5. /\ Head(l) = l[1] /\ IsText(M) /\ Len(M) = m
      /\ \A i \in 1 .. m : M[i] = l[i + 1]
  <2>1. Len(l) > 0
    BY <1>1
  <2>2. /\ Head(l) = l[1] /\ IsText(M) /\ Len(M) = Len(l) - 1
        /\ \A i \in 1 .. Len(l) - 1 : M[i] = l[i + 1]
    BY <2>1, Behind
  <2> QED
    BY <2>2 DEF m
<1> HIDE DEF L, M
<1>6. Head(whole) = Head(l)
  <2>1. 1 \in 1 .. Len(l)
    BY <1>1
  <2> QED
    BY <1>2, <1>4, <1>5, <2>1
<1>7. /\ \A i \in 1 .. m : L[i] = M[i] /\ (H!Find(M[i], ":") = 0 <=> i = m)
      /\ \A i \in 1 .. Len(behind) : L[m + i] = behind[i]
  <2>1. ASSUME NEW i \in 1 .. m PROVE L[i] = M[i] /\ (H!Find(M[i], ":") = 0 <=> i = m)
    <3>1. i + 1 \in 2 .. Len(l) /\ i + 1 \in 1 .. Len(l) /\ i \in 1 .. m + Len(behind) /\ (i + 1 = Len(l) <=> i = m)
      BY <1>1
    <3>2. L[i] = whole[i + 1] /\ M[i] = l[i + 1] /\ whole[i + 1] = l[i + 1]
      BY <1>2, <1>4, <1>5, <3>1
    <3>3. H!Find(l[i + 1], ":") = 0 <=> i + 1 = Len(l)
      BY <3>1
    <3> QED
      BY <3>1, <3>2, <3>3
  <2>2. ASSUME NEW i \in 1 .. Len(behind) PROVE L[m + i] = behind[i]
    <3>1. m + i \in 1 .. m + Len(behind) /\ m + i + 1 = Len(l) + i
      BY <1>1
    <3> QED
      BY <1>2, <1>4, <3>1
  <2> QED
    BY <2>1, <2>2
<1>8. /\ H!Header(L) = {H!FieldOf(L[i]) : i \in {j \in 1 .. m - 1 : H!Find(L[j], ":") < Len(L[j])}}
      /\ H!AfterHeader(L) = SubSeq(L, m + 1, Len(L))
  <2>1. /\ IsText(L) /\ m \in 1 .. Len(L) /\ H!Find(L[m], ":") = 0
        /\ \A i \in 1 .. m - 1 : H!Find(L[i], ":") # 0
    BY <1>1, <1>4, <1>7
  <2> QED
    BY <2>1, ReadUpTo
<1>9. H!Header(M) = {H!FieldOf(M[i]) : i \in {j \in 1 .. m - 1 : H!Find(M[j], ":") < Len(M[j])}}
  <2>1. /\ IsText(M) /\ m \in 1 .. Len(M) /\ H!Find(M[m], ":") = 0
        /\ \A i \in 1 .. m - 1 : H!Find(M[i], ":") # 0
    BY <1>1, <1>5, <1>7
  <2> QED
    BY <2>1, ReadUpTo
<1>10. H!Header(L) = H!Header(M)
  <2>1. \A i \in 1 .. m - 1 : L[i] = M[i]
    BY <1>1, <1>7
  <2> DEFINE I == {j \in 1 .. m - 1 : H!Find(L[j], ":") < Len(L[j])}
             J == {j \in 1 .. m - 1 : H!Find(M[j], ":") < Len(M[j])}
  <2>2. I = J /\ \A i \in I : L[i] = M[i]
    BY <2>1
  <2> HIDE DEF I, J
  <2>3. {H!FieldOf(L[i]) : i \in I} = {H!FieldOf(M[i]) : i \in J}
    BY <2>2
  <2> QED
    BY <1>8, <1>9, <2>3 DEF I, J
<1>11. SubSeq(L, m + 1, Len(L)) = behind
  <2>1. PICK S, T : L \in Seq(S) /\ behind \in Seq(T)
    BY <1>4 DEF IsText
  <2>2. L \in Seq(S \cup T) /\ behind \in Seq(S \cup T)
    BY <2>1
  <2>3. /\ SubSeq(L, m + 1, Len(L)) \in Seq(S \cup T) /\ Len(SubSeq(L, m + 1, Len(L))) = Len(behind)
        /\ \A i \in 1 .. Len(behind) : SubSeq(L, m + 1, Len(L))[i] = L[m + i]
    <3>1. PICK k, n : k = m + 1 /\ n = Len(L)
      OBVIOUS
    <3>2. /\ k \in Int /\ n \in Int /\ n - k + 1 = Len(behind) /\ (k <= n \/ Len(behind) = 0)
          /\ (k <= n => Len(behind) = n - k + 1) /\ (~(k <= n) => Len(behind) = 0)
          /\ \A i \in 1 .. Len(behind) : k + i - 1 = m + i
      BY <1>1, <1>4, <3>1
    <3>3. \A i \in k .. n : L[i] \in S \cup T
      BY <1>1, <1>4, <2>2, <3>1
    <3>4. /\ SubSeq(L, k, n) \in Seq(S \cup T)
          /\ Len(SubSeq(L, k, n)) = IF k <= n THEN n - k + 1 ELSE 0
          /\ \A i \in 1 .. n - k + 1 : SubSeq(L, k, n)[i] = L[k + i - 1]
      BY <3>2, <3>3, SubSeqProperties
    <3>5. Len(SubSeq(L, k, n)) = Len(behind) /\ \A i \in 1 .. Len(behind) : SubSeq(L, k, n)[i] = L[m + i]
      BY <3>2, <3>4
    <3> QED
      BY <3>1, <3>4, <3>5
  <2>4. \A i \in 1 .. Len(behind) : SubSeq(L, m + 1, Len(L))[i] = behind[i]
    BY <1>7, <2>3
  <2> QED
    BY <2>2, <2>3, <2>4, SeqEqual
<1> QED
  BY <1>4, <1>6, <1>8, <1>10, <1>11 DEF whole, L, M

LEMMA StrangersAnswerIs ==
  ASSUME NEW a, AnswerAlone(a)
  PROVE  ReadAs(a.lines \o a.behind, a)
<1> DEFINE whole == a.lines \o a.behind
<1>1. /\ whole # << >> /\ Head(whole) = Head(a.lines)
      /\ H!Header(Tail(whole)) = H!Header(Tail(a.lines))
      /\ H!AfterHeader(Tail(whole)) = a.behind
  <2>1. /\ IsText(a.lines) /\ IsText(a.behind) /\ Len(a.lines) >= 2
        /\ \A i \in 2 .. Len(a.lines) : H!Find(a.lines[i], ":") = 0 <=> i = Len(a.lines)
    BY DEF AnswerAlone
  <2> QED
    BY <2>1, ReadAlone
<1>2. a.accepts <=> \E r \in H!Response(a.lines) : H!IsAccepted(r)
  BY DEF AnswerAlone
<1> HIDE DEF whole
<1> DEFINE none == H!Find(Head(whole), "SP") \in {0, Len(Head(whole))}
           status == H!WithoutCR(SubSeq(Head(whole), H!Find(Head(whole), "SP") + 1, Len(Head(whole))))
<1>3. H!Response(whole) = IF none THEN {} ELSE {[status_code |-> status, header |-> H!Header(Tail(a.lines)),
                                                 rest |-> a.behind]}
  BY <1>1 DEF H!Response
<1>4. H!Response(a.lines) = IF none THEN {} ELSE {[status_code |-> status, header |-> H!Header(Tail(a.lines)),
                                                   rest |-> H!AfterHeader(Tail(a.lines))]}
  BY <1>1 DEF H!Response
<1> HIDE DEF none, status
<1>5. CASE none
  BY <1>1, <1>2, <1>3, <1>4, <1>5 DEF ReadAs, whole
<1>6. CASE ~none
  <2> DEFINE r == [status_code |-> status, header |-> H!Header(Tail(a.lines)), rest |-> a.behind]
             q == [status_code |-> status, header |-> H!Header(Tail(a.lines)),
                   rest |-> H!AfterHeader(Tail(a.lines))]
  <2>1. H!Response(whole) = {r} /\ H!Response(a.lines) = {q}
    BY <1>3, <1>4, <1>6
  <2>2. r.status_code = q.status_code /\ r.header = q.header /\ r.rest = a.behind
    OBVIOUS
  <2> HIDE DEF r, q
  <2>3. H!IsAccepted(r) <=> H!IsAccepted(q)
    BY <2>2 DEF H!IsAccepted
  <2>4. a.accepts <=> H!IsAccepted(q)
    BY <1>2, <2>1
  <2> QED
    BY <1>1, <2>1, <2>2, <2>3, <2>4 DEF ReadAs, whole
<1> QED
  BY <1>5, <1>6

--------------------------------------------------------------------------------
(* The client opens on an acceptance. *)

\* What the texts from outside have to be: the program's names differ in lower case too,
\* a URL's host is a text, no owner adds a second key, a client of another make sends
\* nothing behind its header, and another server's answer says by itself what it says.
TextsAreHttp ==
  /\ NamesDiffer
  /\ \A a \in Asked : IsText(H!Target(a).host) /\ OwnHeader(a.header)
  /\ \A r \in Requests : H!AfterHeader(Tail(r)) = << >>
  /\ \A a \in Answers(H!Nonce) : AnswerAlone(a)

\* What has been written and not read: an answer, of which the history variable says what
\* the client will make of it, and a request, behind which nothing follows.
AnswerTold == \/ inClient = << >> /\ ~answer.accepts
              \/ ReadAs(inClient, answer)

RequestTold == \/ inServer = << >>
               \/ cl = "stranger" /\ inServer \in Requests /\ sv = "reading"
               \/ \E a \in Asked : inServer = H!RequestOf(H!Target(a))

UpgradeInv ==
  /\ cl \in {"connected", "writing", "waiting"} =>
       asked \in Asked /\ target = H!Target(asked) /\ AnswerTold
  /\ cl = "connected" => inServer = << >> /\ sv \in {"reading", "stranger", "failed"}
  /\ sv \in {"reading", "stranger"} =>
       inClient = << >> /\ ~answer.accepts /\ cl \notin {"open", "refused"} /\ RequestTold
  /\ sv \in {"writing", "open"} => inServer = << >>
  /\ cl = "open" => answer.accepts /\ inClient = answer.behind
  /\ cl = "refused" => ~answer.accepts

LEMMA InitUpgrades == Init => UpgradeInv
<1> SUFFICES ASSUME Init PROVE UpgradeInv
  OBVIOUS
<1>1. inClient = << >> /\ ~answer.accepts
  BY DEF Init, H!Init
<1>2. CASE cl = "connected" /\ asked \in Asked /\ target = H!Target(asked) /\ inServer = << >> /\ sv \in {"reading", "stranger"}
  BY <1>1, <1>2 DEF UpgradeInv, AnswerTold, RequestTold
<1>3. CASE cl = "stranger" /\ inServer \in Requests /\ sv = "reading"
  BY <1>1, <1>3 DEF UpgradeInv, AnswerTold, RequestTold
<1> QED
  BY <1>2, <1>3 DEF Init, H!Init

\* Which request the server reads, and that nothing is left of it.
LEMMA RequestRead ==
  ASSUME TextsAreHttp, UpgradeInv, sv = "reading", inServer # << >>, NEW r \in H!Request(inServer)
  PROVE  r.rest = << >> /\ (cl # "stranger" => H!Values(r.header, KeyName) = {H!Nonce})
<1>1. CASE cl = "stranger" /\ inServer \in Requests
  BY <1>1 DEF TextsAreHttp, H!Request
<1>2. ASSUME NEW a \in Asked, inServer = H!RequestOf(H!Target(a))
      PROVE  r.rest = << >> /\ H!Values(r.header, KeyName) = {H!Nonce}
  <2>1. IsText(H!Target(a).host) /\ OwnHeader(a.header) /\ NamesDiffer
    BY DEF TextsAreHttp
  <2>2. H!Target(a).header = a.header
    BY DEF H!Target
  <2>3. OwnHeader(H!Target(a).header)
    BY <2>1, <2>2
  <2> QED
    BY <1>2, <2>1, <2>3, RequestIs
<1> QED
  BY <1>1, <1>2 DEF UpgradeInv, RequestTold

LEMMA ServerReadsUpgrades == ASSUME TextsAreHttp, UpgradeInv, H!ServerReads PROVE UpgradeInv'
<1>1. /\ sv = "reading" /\ inServer # << >>
      /\ UNCHANGED <<target, asked, cl>>
      /\ inClient = << >> /\ ~answer.accepts /\ cl \notin {"open", "refused"} /\ cl # "connected"
  BY DEF H!ServerReads, H!clientVars, UpgradeInv
<1>2. ASSUME NEW r \in H!Request(inServer), inServer' = r.rest, H!Write(r.header)
      PROVE  UpgradeInv'
  <2>1. r.rest = << >> /\ (cl # "stranger" => H!Values(r.header, KeyName) = {H!Nonce})
    BY <1>1, RequestRead
  <2>2. sv' = "writing" /\ inServer' = << >>
    BY <1>2, <2>1 DEF H!Write
  <2>3. CASE cl = "stranger"
    BY <1>1, <2>2, <2>3 DEF UpgradeInv
  <2>4. CASE cl # "stranger"
    <3>1. H!Values(r.header, <<"Sec-WebSocket-Key">>) = {H!Nonce}
      BY <2>1, <2>4 DEF KeyName
    <3>2. answer' = [accepts |-> TRUE, behind |-> << >>] /\ inClient' \in H!Accepting(H!Nonce)
      BY <1>2, <3>1 DEF H!Write
    <3>3. /\ inClient' # << >> /\ H!Response(inClient') # {}
          /\ \A q \in H!Response(inClient') : q.rest = << >> /\ H!IsAccepted(q)
      BY <3>2, AcceptanceIs DEF TextsAreHttp
    <3>4. ReadAs(inClient', answer')
      BY <3>2, <3>3 DEF ReadAs
    <3> QED
      BY <1>1, <2>2, <3>4 DEF UpgradeInv, AnswerTold
  <2> QED
    BY <2>3, <2>4
<1>3. CASE sv' = "refused" /\ UNCHANGED <<inClient, answer>>
  BY <1>1, <1>3 DEF UpgradeInv, AnswerTold
<1> QED
  BY <1>2, <1>3 DEF H!ServerReads

LEMMA ClientReadsUpgrades == ASSUME UpgradeInv, H!ClientReads PROVE UpgradeInv'
<1>1. /\ cl = "waiting" /\ inClient # << >> /\ UNCHANGED <<sv, understood, inServer, answer>>
      /\ ReadAs(inClient, answer) /\ sv \notin {"reading", "stranger"}
      /\ (sv \in {"writing", "open"} => inServer = << >>)
  BY DEF H!ClientReads, H!serverVars, UpgradeInv, AnswerTold
<1>2. ASSUME NEW r \in H!Response(inClient), inClient' = r.rest, cl' = IF H!IsAccepted(r) THEN "open" ELSE "refused"
      PROVE  UpgradeInv'
  <2>1. r.rest = answer.behind /\ (H!IsAccepted(r) <=> answer.accepts)
    BY <1>1 DEF ReadAs
  <2>2. CASE H!IsAccepted(r)
    BY <1>1, <1>2, <2>1, <2>2 DEF UpgradeInv
  <2>3. CASE ~H!IsAccepted(r)
    BY <1>1, <1>2, <2>1, <2>3 DEF UpgradeInv
  <2> QED
    BY <2>2, <2>3
<1>3. CASE H!Response(inClient) = {} /\ cl' = "refused" /\ UNCHANGED inClient
  <2>1. ~answer.accepts
    BY <1>1, <1>3 DEF ReadAs
  <2> QED
    BY <1>1, <1>3, <2>1 DEF UpgradeInv
<1> QED
  BY <1>2, <1>3 DEF H!ClientReads

LEMMA StrangerUpgrades == ASSUME TextsAreHttp, UpgradeInv, H!StrangerAnswers PROVE UpgradeInv'
<1>1. /\ sv = "stranger" /\ inServer # << >> /\ sv' = "answered" /\ inServer' = << >>
      /\ UNCHANGED <<target, asked, cl>> /\ cl \notin {"open", "refused", "connected"}
  BY DEF H!StrangerAnswers, H!clientVars, UpgradeInv
<1>2. PICK a \in Answers(H!Nonce) : /\ inClient' = a.lines \o a.behind
                                    /\ answer' = [accepts |-> a.accepts, behind |-> a.behind]
  BY DEF H!StrangerAnswers
<1>3. ReadAs(a.lines \o a.behind, a)
  BY StrangersAnswerIs DEF TextsAreHttp
<1>4. ReadAs(inClient', answer')
  BY <1>2, <1>3 DEF ReadAs
<1> QED
  BY <1>1, <1>4 DEF UpgradeInv, AnswerTold

LEMMA StepUpgrades == TextsAreHttp /\ UpgradeInv /\ [Next]_vars => UpgradeInv'
<1> SUFFICES ASSUME TextsAreHttp, UpgradeInv, [Next]_vars PROVE UpgradeInv'
  OBVIOUS
<1>1. CASE UNCHANGED handshakeVars
  BY <1>1 DEF UpgradeInv, AnswerTold, RequestTold, handshakeVars
<1>2. CASE H!Client
  <2>1. CASE H!Upgrade
    <3>1. /\ cl = "connected" /\ cl' = "writing" /\ inServer' = H!RequestOf(target)
          /\ UNCHANGED <<target, asked, inClient, sv, answer>>
      BY <2>1 DEF H!Upgrade, H!serverVars
    <3>2. asked \in Asked /\ target = H!Target(asked) /\ AnswerTold /\ sv \in {"reading", "stranger", "failed"}
      BY <3>1 DEF UpgradeInv
    <3> QED
      BY <3>1, <3>2 DEF UpgradeInv, AnswerTold, RequestTold
  <2>2. CASE H!ClientWritten
    BY <2>2 DEF H!ClientWritten, H!serverVars, UpgradeInv, AnswerTold, RequestTold
  <2>3. CASE H!ClientReads
    BY <2>3, ClientReadsUpgrades
  <2>4. CASE H!ClientHearsEnd
    <3>1. /\ cl = "waiting" /\ inClient = << >> /\ sv = "refused" /\ cl' = "refused"
          /\ UNCHANGED <<inClient, sv, inServer, answer>>
      BY <2>4 DEF H!ClientHearsEnd, H!serverVars
    <3>2. ~answer.accepts
      BY <3>1 DEF UpgradeInv, AnswerTold, ReadAs
    <3> QED
      BY <3>1, <3>2 DEF UpgradeInv
  <2> QED
    BY <1>2, <2>1, <2>2, <2>3, <2>4 DEF H!Client
<1>3. CASE H!ServerReads
  BY <1>3, ServerReadsUpgrades
<1>4. CASE H!ServerWritten
  <2>1. /\ sv = "writing" /\ sv' \in {"open", "refused"} /\ inServer = << >>
        /\ UNCHANGED <<target, asked, cl, inClient, inServer, answer>>
    BY <1>4 DEF H!ServerWritten, H!clientVars, UpgradeInv
  <2> QED
    BY <2>1 DEF UpgradeInv, AnswerTold
<1>5. CASE H!StrangerAnswers
  BY <1>5, StrangerUpgrades
<1>6. CASE H!ClientFails
  BY <1>6 DEF H!ClientFails, H!serverVars, UpgradeInv, RequestTold
<1>7. CASE H!ServerReadFails \/ H!ServerWriteFails
  <2>1. sv' = "failed" /\ UNCHANGED <<target, asked, cl, inClient, inServer, answer>>
    BY <1>7 DEF H!ServerReadFails, H!ServerWriteFails, H!clientVars
  <2> QED
    BY <1>7, <2>1 DEF H!ServerReadFails, H!ServerWriteFails, UpgradeInv, AnswerTold
<1> QED
  BY <1>1, <1>2, <1>3, <1>4, <1>5, <1>6, <1>7
     DEF Next, ClientHandshake, ServerHandshake, Stranger, HandshakeFails, WriteFails, Frames, Read, ReadFails,
         H!Server, H!Fails, vars

\* OpensOnAcceptance (client_ws.hpp:458, 464): whichever server answers, the client opens
\* on an answer that accepts its request and on each of those, and neither end has
\* anything left of the texts before the first frame.
THEOREM OpensOnlyOnAcceptance == ASSUME TextsAreHttp PROVE Spec => []OpensOnAcceptance
<1>1. UpgradeInv => OpensOnAcceptance
  BY DEF UpgradeInv, OpensOnAcceptance, H!OpensOnAcceptance
<1>2. TextsAreHttp /\ UpgradeInv /\ [Next]_vars => UpgradeInv'
  BY StepUpgrades
<1> QED
  BY <1>1, <1>2, InitUpgrades, PTL DEF Spec

--------------------------------------------------------------------------------
(* Texts and their parts. *)

LEMMA UpTheLine ==
  ASSUME NEW n \in Nat, NEW S, 0 \in S, \A i \in 1 .. n : i - 1 \in S => i \in S
  PROVE  0 .. n \subseteq S
<1> DEFINE Bad == {i \in 0 .. n : i \notin S}
<1>1. ASSUME Bad # {} PROVE FALSE
  <2>1. Bad \in SUBSET Nat
    OBVIOUS
  <2>2. PICK k \in Bad : \A j \in Bad : k <= j
    <3> HIDE DEF Bad
    <3> QED
      BY <1>1, <2>1, Least
  <2>3. k \in 1 .. n /\ k - 1 \in 0 .. n
    OBVIOUS
  <2>4. k - 1 \notin Bad
    BY <2>2, <2>3
  <2> QED
    BY <2>3, <2>4
<1> QED
  BY <1>1

\* A recursion over 0 .. n that stays in V: what each step does is in Op.
Runs(g, n, start, Op) == g[0] = start /\ \A i \in 1 .. n : g[i] = Op[i][g[i - 1]]

LEMMA RunExists ==
  ASSUME NEW n \in Nat, NEW V, NEW start \in V, NEW Op, \A i \in 1 .. n, v \in V : Op[i][v] \in V
  PROVE  \E g \in [0 .. n -> V] : Runs(g, n, start, Op)
<1> DEFINE S == {k \in 0 .. n : \E g \in [0 .. k -> V] : Runs(g, k, start, Op)}
<1>1. 0 \in S
  <2> DEFINE g == [i \in 0 .. 0 |-> start]
  <2>1. g \in [0 .. 0 -> V] /\ Runs(g, 0, start, Op)
    BY DEF Runs
  <2> QED
    BY <2>1
<1>2. ASSUME NEW k \in 1 .. n, k - 1 \in S PROVE k \in S
  <2>1. PICK g \in [0 .. k - 1 -> V] : Runs(g, k - 1, start, Op)
    BY <1>2
  <2> DEFINE h == [i \in 0 .. k |-> IF i = k THEN Op[k][g[k - 1]] ELSE g[i]]
  <2>2. h \in [0 .. k -> V]
    <3>1. g[k - 1] \in V /\ Op[k][g[k - 1]] \in V
      BY <2>1
    <3> QED
      BY <3>1
  <2>3. Runs(h, k, start, Op)
    <3>1. h[0] = start
      BY <2>1 DEF Runs
    <3>2. ASSUME NEW i \in 1 .. k PROVE h[i] = Op[i][h[i - 1]]
      <4>1. h[i - 1] = g[i - 1]
        OBVIOUS
      <4>2. CASE i = k
        BY <4>1, <4>2
      <4>3. CASE i # k
        <5>1. i \in 1 .. k - 1 /\ h[i] = g[i]
          BY <4>3
        <5> QED
          BY <2>1, <4>1, <5>1 DEF Runs
      <4> QED
        BY <4>2, <4>3
    <3> HIDE DEF h
    <3> QED
      BY <3>1, <3>2 DEF Runs
  <2> QED
    BY <2>2, <2>3
<1>3. n \in S
  <2> HIDE DEF S
  <2>1. 0 .. n \subseteq S
    BY <1>1, <1>2, UpTheLine
  <2> QED
    BY <2>1
<1> QED
  BY <1>3

LEMMA SameText ==
  ASSUME NEW s, NEW t, IsText(s), IsText(t), Len(s) = Len(t), \A i \in 1 .. Len(s) : s[i] = t[i]
  PROVE  s = t
<1>1. PICK S, T : s \in Seq(S) /\ t \in Seq(T)
  BY DEF IsText
<1>2. s \in Seq(S \cup T) /\ t \in Seq(S \cup T)
  BY <1>1
<1> QED
  BY <1>2, SeqEqual

\* A part of a text, which may be empty.
LEMMA CutOut ==
  ASSUME NEW s, IsText(s), NEW m \in 1 .. Len(s) + 1, NEW n \in m - 1 .. Len(s)
  PROVE  /\ IsText(SubSeq(s, m, n)) /\ Len(SubSeq(s, m, n)) = n - m + 1
         /\ \A i \in 1 .. n - m + 1 : SubSeq(s, m, n)[i] = s[m + i - 1]
<1>1. PICK T : s \in Seq(T)
  BY DEF IsText
<1>2. Len(s) \in Nat
  BY TextIs
<1>3. CASE n = m - 1
  <2>1. SubSeq(s, m, n) = << >>
    BY <1>1, <1>2, <1>3
  <2>2. IsText(<< >>) /\ n - m + 1 = 0 /\ Len(<< >>) = 0
    BY <1>3 DEF IsText
  <2> QED
    BY <2>1, <2>2
<1>4. CASE n # m - 1
  <2>1. m \in 1 .. Len(s) /\ n \in m .. Len(s)
    BY <1>2, <1>4
  <2>2. /\ SubSeq(s, m, n) \in Seq(T) /\ Len(SubSeq(s, m, n)) = n - m + 1
        /\ \A i \in 1 .. n - m + 1 : SubSeq(s, m, n)[i] = s[m + i - 1]
    BY <1>1, <2>1, PartOf
  <2> QED
    BY <2>2 DEF IsText
<1> QED
  BY <1>3, <1>4

\* What a text reads, from its m-th place on, is another text.
Reads(s, m, t) == m + Len(t) - 1 <= Len(s) /\ \A i \in 1 .. Len(t) : s[m + i - 1] = t[i]

LEMMA CutIs ==
  ASSUME NEW s, NEW t, IsText(s), IsText(t), NEW m \in Nat \ {0}, Reads(s, m, t),
         NEW n, n = m + Len(t) - 1
  PROVE  SubSeq(s, m, n) = t
<1>1. Len(t) \in Nat /\ Len(s) \in Nat /\ m \in 1 .. Len(s) + 1 /\ n \in m - 1 .. Len(s) /\ n - m + 1 = Len(t)
  BY TextIs DEF Reads
<1>2. /\ IsText(SubSeq(s, m, n)) /\ Len(SubSeq(s, m, n)) = Len(t)
      /\ \A i \in 1 .. Len(t) : SubSeq(s, m, n)[i] = s[m + i - 1]
  BY <1>1, CutOut
<1> QED
  BY <1>2, SameText DEF Reads

LEMMA ReadsJoined ==
  ASSUME NEW s, NEW t, IsText(s), IsText(t)
  PROVE  Reads(s \o t, 1, s) /\ Reads(s \o t, Len(s) + 1, t)
<1>1. /\ Len(s) \in Nat /\ Len(t) \in Nat /\ Len(s \o t) = Len(s) + Len(t)
      /\ \A i \in 1 .. Len(s) : (s \o t)[i] = s[i]
      /\ \A i \in 1 .. Len(t) : (s \o t)[Len(s) + i] = t[i]
  BY TextIs, Joined
<1> DEFINE u == s \o t
<1> HIDE DEF u
<1>2. Reads(u, 1, s) /\ Reads(u, Len(s) + 1, t)
  BY <1>1 DEF Reads, u
<1> QED
  BY <1>2 DEF u

\* What stands in the first part of a text stands there.
LEMMA ReadsFirst ==
  ASSUME NEW s, NEW t, IsText(s), IsText(t), NEW u, IsText(u), NEW m \in Nat \ {0}, Reads(s, m, u)
  PROVE  Reads(s \o t, m, u)
<1>1. /\ Len(s) \in Nat /\ Len(t) \in Nat /\ Len(u) \in Nat /\ Len(s \o t) = Len(s) + Len(t)
      /\ \A i \in 1 .. Len(s) : (s \o t)[i] = s[i]
  BY TextIs, Joined
<1> DEFINE w == s \o t
<1> HIDE DEF w
<1>2. Reads(w, m, u)
  BY <1>1 DEF Reads, w
<1> QED
  BY <1>2 DEF w

LEMMA OneSort ==
  ASSUME NEW seqs, IsText(seqs), \A k \in 1 .. Len(seqs) : IsText(seqs[k])
  PROVE  \E T : seqs \in Seq(Seq(T))
<1> DEFINE n == Len(seqs)
           T == UNION {{seqs[k][i] : i \in 1 .. Len(seqs[k])} : k \in 1 .. n}
<1>1. n \in Nat /\ DOMAIN seqs = 1 .. n
  BY TextIs
<1>2. ASSUME NEW k \in 1 .. n PROVE seqs[k] \in Seq(T)
  <2>1. PICK U : seqs[k] \in Seq(U)
    BY DEF IsText
  <2>2. \A i \in 1 .. Len(seqs[k]) : seqs[k][i] \in T
    OBVIOUS
  <2>3. Len(seqs[k]) \in Nat /\ seqs[k] = [i \in 1 .. Len(seqs[k]) |-> seqs[k][i]]
    BY <2>1
  <2> HIDE DEF T
  <2>4. seqs[k] \in [1 .. Len(seqs[k]) -> T]
    BY <2>2, <2>3
  <2> QED
    BY <2>3, <2>4, FunctionIsSeq
<1>3. seqs \in Seq(Seq(T))
  <2> HIDE DEF T
  <2>1. PICK U : seqs \in Seq(U)
    BY DEF IsText
  <2>2. seqs = [k \in 1 .. n |-> seqs[k]]
    BY <2>1
  <2> DEFINE V == Seq(T)
  <2>3. \A k \in 1 .. n : seqs[k] \in V
    BY <1>2
  <2> HIDE DEF V
  <2>4. seqs \in [1 .. n -> V]
    BY <2>2, <2>3
  <2>5. seqs \in Seq(V)
    BY <1>1, <2>4, FunctionIsSeq
  <2> QED
    BY <2>5 DEF V
<1> QED
  BY <1>3

\* Where the parts of a flattened text begin: behind at[k - 1].
Flat(s, seqs, at) ==
  /\ IsText(s) /\ at \in [0 .. Len(seqs) -> Nat] /\ at[0] = 0 /\ at[Len(seqs)] = Len(s)
  /\ \A k \in 1 .. Len(seqs) : at[k] = at[k - 1] + Len(seqs[k]) /\ Reads(s, at[k - 1] + 1, seqs[k])

LEMMA FlatIs ==
  ASSUME NEW seqs, IsText(seqs), \A k \in 1 .. Len(seqs) : IsText(seqs[k])
  PROVE  \E at : Flat(H!FlattenSeq(seqs), seqs, at)
<1>0. PICK n : n = Len(seqs) /\ n \in Nat
  BY TextIs
<1>1. PICK T : seqs \in Seq(Seq(T))
  BY OneSort
<1>2. PICK V : V = Seq(T)
  OBVIOUS
<1> DEFINE Op == [i \in 1 .. n |-> [v \in V |-> v \o seqs[i]]]
<1>3. \A i \in 1 .. n : seqs[i] \in V
  BY <1>0, <1>1, <1>2
<1>4. \A i \in 1 .. n, v \in V : Op[i][v] = v \o seqs[i] /\ Op[i][v] \in V
  BY <1>2, <1>3
<1>5. << >> \in V /\ \A v \in V : IsText(v) /\ << >> \o v = v /\ Len(v) \in Nat
  BY <1>2 DEF IsText
<1> HIDE DEF Op
<1>6. PICK g \in [0 .. n -> V] : Runs(g, n, << >>, Op)
  BY <1>0, <1>4, <1>5, RunExists
<1>7. g[0] = << >> /\ \A i \in 1 .. n : i - 1 \in 0 .. n /\ i \in 0 .. n /\ g[i] = g[i - 1] \o seqs[i]
  <2>1. \A i \in 1 .. n : i - 1 \in 0 .. n /\ i \in 0 .. n
    BY <1>0
  <2> QED
    BY <1>4, <1>6, <2>1 DEF Runs
<1>A. \A i \in 1 .. n : i = 1 => g[i] = seqs[i]
  <2> SUFFICES ASSUME 1 \in 1 .. n PROVE g[1] = seqs[1]
    BY Zenon
  <2>1. g[1] = g[1 - 1] \o seqs[1]
    BY <1>7, Zenon
  <2>2. g[1] = << >> \o seqs[1]
    <3>1. 1 - 1 = 0
      OBVIOUS
    <3> QED
      BY <1>7, <2>1, <3>1, Zenon
  <2> QED
    BY <1>3, <1>5, <2>2
<1>8. H!FlattenSeq(seqs) = g[n]
  <2>1. CASE n = 0
    <3>1. seqs = << >>
      <4>1. seqs \in Seq(V) /\ Len(seqs) = 0
        BY <1>0, <1>1, <1>2, <2>1
      <4> QED
        BY <4>1, EmptySeq
    <3> QED
      BY <1>0, <1>7, <2>1, <3>1 DEF H!FlattenSeq
  <2>2. CASE n # 0
    <3> DEFINE Step(f, i) == IF i = 1 THEN seqs[i] ELSE f[i - 1] \o seqs[i]
               it == CHOOSE f : f = [i \in 1 .. n |-> Step(f, i)]
               h == [i \in 1 .. n |-> g[i]]
    <3>1. h = [i \in 1 .. n |-> Step(h, i)]
      <4>1. ASSUME NEW i \in 1 .. n PROVE g[i] = Step(h, i)
        <5>1. CASE i = 1
          BY <1>A, <5>1
        <5>2. CASE i # 1
          <6>1. i - 1 \in 1 .. n
            BY <1>0, <5>2
          <6> QED
            BY <1>7, <5>2, <6>1
        <5> QED
          BY <5>1, <5>2
      <4> QED
        BY <4>1
    <3>2. it = [i \in 1 .. n |-> Step(it, i)]
      <4> HIDE DEF Step, h
      <4> QED
        BY <3>1
    <3>3. H!FlattenSeq(seqs) = it[n]
      BY <1>0, <2>2 DEF H!FlattenSeq
    <3> HIDE DEF it
    <3> DEFINE S == {i \in 0 .. n : i # 0 => it[i] = g[i]}
    <3>4. ASSUME NEW i \in 1 .. n, i - 1 \in S PROVE i \in S
      <4>1. it[i] = Step(it, i)
        BY <3>2
      <4>2. CASE i = 1
        BY <1>0, <1>A, <4>1, <4>2
      <4>3. CASE i # 1
        <5>1. it[i - 1] = g[i - 1]
          BY <1>0, <3>4, <4>3
        <5> QED
          BY <1>7, <4>1, <4>3, <5>1
      <4> QED
        BY <4>2, <4>3
    <3>5. 0 \in S
      BY <1>0
    <3> HIDE DEF S
    <3>6. n \in S
      BY <1>0, <3>4, <3>5, UpTheLine
    <3> QED
      BY <2>2, <3>3, <3>6 DEF S
  <2> QED
    BY <2>1, <2>2
<1> DEFINE at == [k \in 0 .. n |-> Len(g[k])]
<1>9. at \in [0 .. n -> Nat] /\ at[0] = 0 /\ at[n] = Len(g[n]) /\ \A k \in 0 .. n : at[k] = Len(g[k]) /\ IsText(g[k])
  BY <1>0, <1>5, <1>6, <1>7
<1>10. \A k \in 1 .. n : IsText(seqs[k])
  BY <1>0
<1> HIDE DEF at
<1>11. ASSUME NEW k \in 1 .. n PROVE at[k] = at[k - 1] + Len(seqs[k]) /\ Reads(g[n], at[k - 1] + 1, seqs[k])
  <2> DEFINE m == at[k - 1] + 1
             S == {j \in 0 .. n : j >= k => Reads(g[j], m, seqs[k])}
  <2>1. at[k] = at[k - 1] + Len(seqs[k]) /\ Reads(g[k], m, seqs[k]) /\ m \in Nat \ {0}
    <3>1. IsText(g[k - 1]) /\ IsText(seqs[k]) /\ g[k] = g[k - 1] \o seqs[k] /\ at[k - 1] = Len(g[k - 1]) /\ at[k] = Len(g[k])
          /\ at[k - 1] \in Nat
      BY <1>7, <1>9, <1>10
    <3> QED
      BY <3>1, Joined, ReadsJoined
  <2>2. 0 \in S
    BY <1>0
  <2>3. ASSUME NEW j \in 1 .. n, j - 1 \in S PROVE j \in S
    <3>1. CASE j > k
      <4>1. Reads(g[j - 1], m, seqs[k])
        BY <1>0, <2>3, <3>1
      <4>2. IsText(g[j - 1]) /\ IsText(seqs[j]) /\ IsText(seqs[k]) /\ g[j] = g[j - 1] \o seqs[j] /\ j \in 0 .. n
        BY <1>7, <1>9, <1>10
      <4> HIDE DEF m
      <4>3. Reads(g[j], m, seqs[k])
        BY <2>1, <4>1, <4>2, ReadsFirst
      <4> QED
        BY <4>2, <4>3
    <3>2. CASE j = k
      BY <1>0, <2>1, <3>2
    <3>3. CASE j < k
      BY <1>0, <3>3
    <3> QED
      BY <1>0, <3>1, <3>2, <3>3
  <2> HIDE DEF S, m
  <2>4. 0 .. n \subseteq S
    BY <1>0, <2>2, <2>3, UpTheLine
  <2>5. n \in S
    BY <1>0, <2>4
  <2> QED
    BY <1>0, <2>1, <2>5 DEF S, m
<1>12. Flat(g[n], seqs, at)
  BY <1>0, <1>9, <1>11 DEF Flat
<1> QED
  BY <1>8, <1>12


--------------------------------------------------------------------------------
(* Percent coding. *)

\* No token of a text is one of these.
Without(s, marks) == IsText(s) /\ \A i \in 1 .. Len(s) : s[i] \notin marks

\* Percent::encode (utility.hpp:72): "%", "+", "&" and the blank are among what gets a
\* code, a code is two characters of another kind, and no two have the same.
CodesAreHex ==
  /\ {"%", "+", "&", "SP"} \subseteq DOMAIN Codes
  /\ \A c \in DOMAIN Codes : Without(Codes[c], {"&", "SP"})
  /\ \A c, d \in DOMAIN Codes : Codes[c] = Codes[d] => c = d

\* What stands for one character of a value.
Block(c) == IF c \in DOMAIN Codes THEN <<"%">> \o Codes[c] ELSE <<c>>

LEMMA BlockIs ==
  ASSUME CodesAreHex, NEW c
  PROVE  /\ Without(Block(c), {"&", "SP"})
         /\ c \in DOMAIN Codes => Len(Block(c)) = 3 /\ Block(c)[1] = "%" /\ Reads(Block(c), 2, Codes[c])
         /\ c \notin DOMAIN Codes => Len(Block(c)) = 1 /\ Block(c)[1] = c /\ c # "%" /\ c # "+"
<1>1. CASE c \in DOMAIN Codes
  <2> DEFINE p == <<"%">>  code == Codes[c]  b == p \o code
  <2>1. IsText(p) /\ Len(p) = 1 /\ p[1] = "%"
    BY Word
  <2>2. IsText(code) /\ Len(code) = 2 /\ \A i \in 1 .. Len(code) : code[i] \notin {"&", "SP"}
    BY <1>1, IncomingAssumption DEF CodesAreHex, Without
  <2> HIDE DEF p, code
  <2>3. IsText(b) /\ Len(b) = Len(p) + Len(code) /\ (\A i \in 1 .. Len(p) : b[i] = p[i])
        /\ \A i \in 1 .. Len(code) : b[Len(p) + i] = code[i]
    <3>1. IsText(p) /\ IsText(code)
      BY <2>1, <2>2
    <3> QED
      BY <3>1, Joined
  <2> HIDE DEF b
  <2>4. b[1] = "%" /\ Len(b) = 3 /\ \A i \in 1 .. 2 : b[1 + i] = code[i]
    BY <2>1, <2>2, <2>3
  <2>5. \A i \in 1 .. 3 : b[i] \notin {"&", "SP"}
    <3>1. b[2] = code[1] /\ b[3] = code[2]
      BY <2>4
    <3>2. code[1] \notin {"&", "SP"} /\ code[2] \notin {"&", "SP"}
      BY <2>2
    <3> QED
      BY <2>4, <3>1, <3>2
  <2>6. Reads(b, 2, code)
    <3>1. \A i \in 1 .. 2 : b[2 + i - 1] = code[i]
      <4> SUFFICES ASSUME NEW i \in 1 .. 2 PROVE b[2 + i - 1] = code[i]
        OBVIOUS
      <4>1. 2 + i - 1 = 1 + i
        OBVIOUS
      <4> QED
        BY <2>4, <4>1
    <3> QED
      BY <2>2, <2>4, <3>1 DEF Reads
  <2>7. b = Block(c)
    BY <1>1 DEF Block, b, p, code
  <2> QED
    BY <1>1, <2>3, <2>4, <2>5, <2>6, <2>7 DEF Without, code
<1>2. CASE c \notin DOMAIN Codes
  <2>1. IsText(<<c>>) /\ Len(<<c>>) = 1 /\ <<c>>[1] = c
    BY Word
  <2>2. c \notin {"%", "+", "&", "SP"}
    BY <1>2 DEF CodesAreHex
  <2>3. Block(c) = <<c>>
    BY <1>2 DEF Block
  <2>4. Without(<<c>>, {"&", "SP"})
    <3>1. \A i \in 1 .. 1 : <<c>>[i] \notin {"&", "SP"}
      <4>1. \A i \in 1 .. 1 : i = 1
        OBVIOUS
      <4> QED
        BY <2>1, <2>2, <4>1
    <3> QED
      BY <2>1, <3>1 DEF Without
  <2> QED
    BY <1>2, <2>1, <2>2, <2>3, <2>4
<1> QED
  BY <1>1, <1>2

Blocks(v) == [k \in 1 .. Len(v) |-> Block(v[k])]

LEMMA EncodeIs ==
  ASSUME CodesAreHex, NEW v, IsText(v)
  PROVE  /\ IsText(Blocks(v)) /\ Len(Blocks(v)) = Len(v) /\ \A k \in 1 .. Len(v) : Blocks(v)[k] = Block(v[k])
         /\ \E at : Flat(H!Encode(v), Blocks(v), at)
<1>1. Len(v) \in Nat /\ DOMAIN v = 1 .. Len(v)
  BY TextIs
<1>2. IsText(Blocks(v)) /\ Len(Blocks(v)) = Len(v) /\ \A k \in 1 .. Len(v) : Blocks(v)[k] = Block(v[k])
  <2> DEFINE n == Len(v)  W == {Block(v[k]) : k \in 1 .. n}  b == [k \in 1 .. n |-> Block(v[k])]
  <2>1. b \in [1 .. n -> W] /\ n \in Nat
    BY <1>1
  <2>2. b \in Seq(W) /\ Len(b) = n
    <3> HIDE DEF b, W, n
    <3> QED
      BY <2>1, FunctionIsSeq
  <2>3. b = Blocks(v)
    BY DEF Blocks
  <2>4. IsText(b)
    BY <2>2 DEF IsText
  <2> HIDE DEF b
  <2> QED
    BY <2>2, <2>3, <2>4 DEF Blocks
<1>3. H!Encode(v) = H!FlattenSeq(Blocks(v))
  <2>1. Blocks(v) = [i \in DOMAIN v |-> IF v[i] \in DOMAIN Codes THEN <<"%">> \o Codes[v[i]] ELSE <<v[i]>>]
    BY <1>1 DEF Blocks, Block
  <2> QED
    BY <2>1, Zenon DEF H!Encode
<1>4. \A k \in 1 .. Len(v) : IsText(Blocks(v)[k])
  BY <1>2, BlockIs DEF Without
<1>5. \E at : Flat(H!FlattenSeq(Blocks(v)), Blocks(v), at)
  <2>1. \A k \in 1 .. Len(Blocks(v)) : IsText(Blocks(v)[k])
    BY <1>2, <1>4
  <2> QED
    BY <1>2, <2>1, FlatIs
<1> QED
  BY <1>2, <1>3, <1>5

\* What a flattened text has at a place, one of its parts has.
LEMMA FlatHas ==
  ASSUME NEW s, NEW seqs, IsText(seqs), \A k \in 1 .. Len(seqs) : IsText(seqs[k]), NEW at, Flat(s, seqs, at),
         NEW i \in 1 .. Len(s)
  PROVE  \E k \in 1 .. Len(seqs) : \E j \in 1 .. Len(seqs[k]) : i = at[k - 1] + j /\ s[i] = seqs[k][j]
<1>0. PICK n \in Nat : n = Len(seqs)
  BY TextIs
<1>1. /\ at \in [0 .. n -> Nat] /\ at[0] = 0 /\ at[n] = Len(s)
      /\ \A k \in 1 .. n : at[k] = at[k - 1] + Len(seqs[k]) /\ Reads(s, at[k - 1] + 1, seqs[k]) /\ Len(seqs[k]) \in Nat
  BY <1>0, TextIs DEF Flat
<1> DEFINE S == {k \in 0 .. n : i > at[k]}
<1>2. 0 \in S
  BY <1>0, <1>1
<1>3. n \notin S
  BY <1>0, <1>1
<1>4. ASSUME \A k \in 1 .. n : k - 1 \in S => k \in S PROVE FALSE
  <2> HIDE DEF S
  <2>1. 0 .. n \subseteq S
    BY <1>2, <1>4, UpTheLine
  <2> QED
    BY <1>0, <1>3, <2>1
<1>5. PICK k \in 1 .. n : k - 1 \in S /\ k \notin S
  BY <1>4
<1>6. i > at[k - 1] /\ i <= at[k] /\ at[k - 1] \in Nat /\ at[k] \in Nat
  <2>1. k - 1 \in 0 .. n /\ k \in 0 .. n
    OBVIOUS
  <2> QED
    BY <1>1, <1>5, <2>1
<1> DEFINE j == i - at[k - 1]
<1>7. j \in 1 .. Len(seqs[k]) /\ i = at[k - 1] + j /\ i = at[k - 1] + 1 + j - 1
  <2>1. PICK a, l, b : a = at[k - 1] /\ l = Len(seqs[k]) /\ b = at[k]
    OBVIOUS
  <2>2. a \in Nat /\ l \in Nat /\ i \in Nat /\ b = a + l /\ i > a /\ i <= b
    BY <1>1, <1>6, <2>1
  <2>3. i - a \in 1 .. l /\ i = a + (i - a) /\ i = a + 1 + (i - a) - 1
    BY ONLY <2>2
  <2> QED
    BY <2>1, <2>3, Zenon
<1>8. s[i] = seqs[k][j]
  BY <1>1, <1>7 DEF Reads
<1> QED
  BY <1>0, <1>7, <1>8

\* An encoded value has no "&" and no blank.
LEMMA EncodedWithout ==
  ASSUME CodesAreHex, NEW v, IsText(v) PROVE Without(H!Encode(v), {"&", "SP"})
<1>1. PICK at : Flat(H!Encode(v), Blocks(v), at)
  BY EncodeIs
<1>2. /\ IsText(Blocks(v)) /\ Len(Blocks(v)) = Len(v)
      /\ \A k \in 1 .. Len(v) : Without(Blocks(v)[k], {"&", "SP"})
  BY EncodeIs, BlockIs
<1>3. ASSUME NEW i \in 1 .. Len(H!Encode(v)) PROVE H!Encode(v)[i] \notin {"&", "SP"}
  <2>1. PICK k \in 1 .. Len(Blocks(v)) : \E j \in 1 .. Len(Blocks(v)[k]) : H!Encode(v)[i] = Blocks(v)[k][j]
    <3>1. \A k \in 1 .. Len(Blocks(v)) : IsText(Blocks(v)[k])
      BY <1>2 DEF Without
    <3> DEFINE s == H!Encode(v)  b == Blocks(v)
    <3> HIDE DEF s, b
    <3>2. IsText(b) /\ (\A k \in 1 .. Len(b) : IsText(b[k])) /\ Flat(s, b, at) /\ i \in 1 .. Len(s)
      BY <1>1, <1>2, <3>1 DEF s, b
    <3>3. \E k \in 1 .. Len(b) : \E j \in 1 .. Len(b[k]) : s[i] = b[k][j]
      BY <3>2, FlatHas
    <3> QED
      BY <3>3 DEF s, b
  <2> QED
    BY <1>2, <2>1 DEF Without
<1> QED
  BY <1>1, <1>3 DEF Without, Flat

\* What Percent::decode makes of the characters from the i-th on, given what it makes of
\* those behind.
DecodedFrom(value, f, i) ==
  IF i > Len(value) THEN << >>
  ELSE IF H!CodeAt(value, i) THEN <<H!Decoded(SubSeq(value, i + 1, i + 2))>> \o f[i + 3]
  ELSE <<IF value[i] = "+" THEN "SP" ELSE value[i]>> \o f[i + 1]

LEMMA DecodeIs ==
  ASSUME NEW value, Len(value) \in Nat
  PROVE  \E f : f = [i \in 1 .. Len(value) + 1 |-> DecodedFrom(value, f, i)] /\ H!Decode(value) = f[1]
<1> DEFINE n == Len(value)
           Step(f, i) == DecodedFrom(value, f, i)
           S == {k \in 0 .. n + 1 : \E f : f = [i \in n + 2 - k .. n + 1 |-> Step(f, i)]}
           it == CHOOSE f : f = [i \in 1 .. n + 1 |-> Step(f, i)]
<1>1. 0 \in S
  <2>1. n + 2 - 0 .. n + 1 = {}
    OBVIOUS
  <2> DEFINE z == [i \in {} |-> << >>]
  <2>2. z = [i \in n + 2 - 0 .. n + 1 |-> Step(z, i)]
    BY <2>1
  <2>3. 0 \in 0 .. n + 1
    OBVIOUS
  <2> HIDE DEF z, Step
  <2> QED
    BY <2>2, <2>3, Zenon
<1>2. ASSUME NEW k \in 1 .. n + 1, k - 1 \in S PROVE k \in S
  <2> DEFINE m == n + 2 - k
  <2>1. m \in 1 .. n + 1 /\ n + 2 - (k - 1) = m + 1
    OBVIOUS
  <2>2. PICK g : g = [i \in m + 1 .. n + 1 |-> Step(g, i)]
    BY <1>2, <2>1
  <2> DEFINE h == [i \in m .. n + 1 |-> IF i = m THEN Step(g, i) ELSE g[i]]
  <2>3. ASSUME NEW i \in m .. n + 1 PROVE Step(h, i) = Step(g, i)
    <3>1. CASE i > n
      BY <3>1 DEF DecodedFrom
    <3>2. CASE ~(i > n) /\ H!CodeAt(value, i)
      <4>1. i + 3 \in m .. n + 1 /\ i + 3 # m
        BY <2>1, <3>2 DEF H!CodeAt
      <4>2. h[i + 3] = g[i + 3]
        BY <4>1
      <4> HIDE DEF h
      <4> QED
        BY <3>2, <4>2 DEF DecodedFrom
    <3>3. CASE ~(i > n) /\ ~H!CodeAt(value, i)
      <4>1. i + 1 \in m .. n + 1 /\ i + 1 # m
        BY <2>1, <3>3
      <4>2. h[i + 1] = g[i + 1]
        BY <4>1
      <4> HIDE DEF h
      <4> QED
        BY <3>3, <4>2 DEF DecodedFrom
    <3> QED
      BY <3>1, <3>2, <3>3
  <2>4. ASSUME NEW i \in m .. n + 1 PROVE h[i] = Step(h, i)
    <3> HIDE DEF Step
    <3>1. CASE i = m
      BY <2>3, <3>1
    <3>2. CASE i # m
      <4>1. i \in m + 1 .. n + 1
        BY <2>1, <3>2
      <4>2. g[i] = Step(g, i)
        BY <2>2, <4>1
      <4> QED
        BY <2>3, <3>2, <4>2
    <3> QED
      BY <3>1, <3>2
  <2>5. h = [i \in m .. n + 1 |-> Step(h, i)]
    <3> HIDE DEF Step
    <3>1. h = [i \in m .. n + 1 |-> h[i]]
      OBVIOUS
    <3> HIDE DEF h
    <3> QED
      BY <2>4, <3>1
  <2> HIDE DEF h, Step
  <2> QED
    BY <2>5
<1>3. n + 1 \in S
  <2> HIDE DEF S
  <2>1. n + 1 \in Nat /\ n + 1 \in 0 .. n + 1
    OBVIOUS
  <2>2. 0 .. n + 1 \subseteq S
    <3> DEFINE N == n + 1
    <3>1. N \in Nat /\ \A k \in 1 .. N : k - 1 \in S => k \in S
      BY <1>2, <2>1
    <3> HIDE DEF N
    <3>2. 0 .. N \subseteq S
      BY <1>1, <3>1, UpTheLine
    <3> QED
      BY <3>2 DEF N
  <2> QED
    BY <2>1, <2>2
<1>4. it = [i \in 1 .. n + 1 |-> Step(it, i)]
  <2>1. n + 2 - (n + 1) = 1
    OBVIOUS
  <2>2. \E f : f = [i \in 1 .. n + 1 |-> Step(f, i)]
    <3> HIDE DEF Step
    <3> QED
      BY <1>3, <2>1
  <2> HIDE DEF Step
  <2> QED
    BY <2>2
<1>5. H!Decode(value) = it[1]
  BY DEF H!Decode, DecodedFrom
<1> HIDE DEF it
<1> QED
  BY <1>4, <1>5

LEMMA ReadsPart ==
  ASSUME NEW s, NEW t, NEW u, IsText(s), IsText(t), IsText(u), NEW m \in Nat \ {0}, NEW l \in Nat \ {0},
         Reads(s, m, t), Reads(t, l, u), NEW k, k = m + l - 1
  PROVE  Reads(s, k, u)
<1>1. Len(s) \in Nat /\ Len(t) \in Nat /\ Len(u) \in Nat
  BY TextIs
<1>2. ASSUME NEW i \in 1 .. Len(u) PROVE s[k + i - 1] = u[i]
  <2>1. l + i - 1 \in 1 .. Len(t) /\ m + (l + i - 1) - 1 = k + i - 1
    BY <1>1 DEF Reads
  <2>2. t[l + i - 1] = u[i]
    BY DEF Reads
  <2>3. s[m + (l + i - 1) - 1] = t[l + i - 1]
    BY <2>1, Zenon DEF Reads
  <2> QED
    BY <2>1, <2>2, <2>3
<1>3. k + Len(u) - 1 <= Len(s)
  BY <1>1 DEF Reads
<1> QED
  BY <1>2, <1>3 DEF Reads

\* A text from its k-th place on begins with what is there.
LEMMA OneBefore ==
  ASSUME NEW v, IsText(v), NEW k \in 1 .. Len(v)
  PROVE  <<v[k]>> \o SubSeq(v, k + 1, Len(v)) = SubSeq(v, k, Len(v))
<1> DEFINE n == Len(v)  a == <<v[k]>>  b == SubSeq(v, k + 1, n)  c == SubSeq(v, k, n)  d == a \o b
<1>1. n \in Nat /\ k \in Nat
  BY TextIs
<1>2. IsText(a) /\ Len(a) = 1 /\ a[1] = v[k]
  BY Word
<1>3. IsText(b) /\ Len(b) = n - k /\ \A i \in 1 .. n - k : b[i] = v[k + i]
  <2>1. /\ IsText(b) /\ Len(b) = n - (k + 1) + 1
        /\ \A i \in 1 .. n - (k + 1) + 1 : b[i] = v[(k + 1) + i - 1]
    <3>1. k + 1 \in 1 .. n + 1 /\ n \in (k + 1) - 1 .. n
      BY <1>1
    <3> QED
      BY <3>1, CutOut
  <2>2. n - (k + 1) + 1 = n - k /\ \A i \in 1 .. n - k : (k + 1) + i - 1 = k + i
    BY <1>1
  <2> HIDE DEF b, n
  <2> QED
    BY <2>1, <2>2
<1>4. IsText(c) /\ Len(c) = n - k + 1 /\ \A i \in 1 .. n - k + 1 : c[i] = v[k + i - 1]
  <2>1. k \in 1 .. n + 1 /\ n \in k - 1 .. n
    BY <1>1
  <2> QED
    BY <2>1, CutOut
<1> HIDE DEF a, b, c
<1>5. IsText(d) /\ Len(d) = Len(a) + Len(b) /\ (\A i \in 1 .. Len(a) : d[i] = a[i])
      /\ \A i \in 1 .. Len(b) : d[Len(a) + i] = b[i]
  <2>1. IsText(a) /\ IsText(b)
    BY <1>2, <1>3
  <2> QED
    BY <2>1, Joined
<1> HIDE DEF d, n
<1>6. ASSUME NEW i \in 1 .. Len(d) PROVE d[i] = c[i]
  <2>1. Len(d) = n - k + 1
    BY <1>1, <1>2, <1>3, <1>5
  <2>2. CASE i = 1
    <3>1. d[1] = v[k] /\ k + 1 - 1 = k /\ 1 \in 1 .. n - k + 1
      BY <1>1, <1>2, <1>5, <2>1, <2>2
    <3>2. c[1] = v[k + 1 - 1]
      BY <1>4, <3>1
    <3> QED
      BY <2>2, <3>1, <3>2
  <2>3. CASE i # 1
    <3>1. i - 1 \in 1 .. n - k /\ i \in 1 .. n - k + 1 /\ 1 + (i - 1) = i /\ k + (i - 1) = k + i - 1
      BY <1>1, <2>1, <2>3
    <3>2. d[1 + (i - 1)] = b[i - 1]
      BY <1>2, <1>3, <1>5, <3>1
    <3>3. b[i - 1] = v[k + (i - 1)] /\ c[i] = v[k + i - 1]
      BY <1>3, <1>4, <3>1
    <3> QED
      BY <3>1, <3>2, <3>3
  <2> QED
    BY <2>2, <2>3
<1>7. Len(d) = Len(c)
  BY <1>1, <1>2, <1>3, <1>4, <1>5
<1>8. d = c
  BY <1>4, <1>5, <1>6, <1>7, SameText
<1> QED
  BY <1>8 DEF a, b, c, d, n

\* Percent::decode gives back every value that Percent::encode was given
\* (utility.hpp:72, 89), whatever characters it has.
THEOREM DecodeUndoesEncode ==
  ASSUME CodesAreHex, NEW v, IsText(v)
  PROVE  H!Decode(H!Encode(v)) = v
<1> DEFINE e == H!Encode(v)
<1>1. PICK at : Flat(e, Blocks(v), at)
  BY EncodeIs
<1>2. PICK n \in Nat : n = Len(v)
  BY TextIs
<1>3. Len(Blocks(v)) = n /\ \A k \in 1 .. n : Blocks(v)[k] = Block(v[k])
  BY <1>2, EncodeIs
<1> HIDE DEF e
<1>4. PICK L \in Nat : L = Len(e) /\ IsText(e)
  BY <1>1, TextIs DEF Flat
<1>5. /\ at \in [0 .. n -> Nat] /\ at[0] = 0 /\ at[n] = L
      /\ \A k \in 1 .. n : at[k] = at[k - 1] + Len(Block(v[k])) /\ Reads(e, at[k - 1] + 1, Block(v[k]))
  BY <1>1, <1>3, <1>4 DEF Flat
<1>6. PICK f : f = [i \in 1 .. L + 1 |-> DecodedFrom(e, f, i)] /\ H!Decode(e) = f[1]
  BY <1>4, DecodeIs
<1>7. ASSUME NEW k \in 1 .. n, f[at[k] + 1] = SubSeq(v, k + 1, n)
      PROVE  f[at[k - 1] + 1] = SubSeq(v, k, n)
  <2> DEFINE i == at[k - 1] + 1  c == v[k]  b == Block(c)
  <2>1. b = Block(c) /\ IsText(b) /\ Len(b) \in Nat /\ Reads(e, i, b) /\ at[k] = at[k - 1] + Len(b) /\ at[k - 1] \in Nat
    BY <1>5, BlockIs, TextIs DEF Without
  <2>2. i \in Nat \ {0} /\ i + Len(b) = at[k] + 1 /\ i + Len(b) - 1 <= L
    BY <1>4, <2>1 DEF Reads
  <2> HIDE DEF i, c
  <2>3. f[i] = <<c>> \o f[at[k] + 1]
    <3>1. CASE c \in DOMAIN Codes
      <4>1. Len(b) = 3 /\ b[1] = "%" /\ Reads(b, 2, Codes[c]) /\ Len(Codes[c]) = 2 /\ IsText(Codes[c])
        BY <3>1, BlockIs, IncomingAssumption DEF CodesAreHex, Without
      <4> HIDE DEF b
      <4>2. e[i] = "%"
        <5>1. e[i + 1 - 1] = b[1] /\ i + 1 - 1 = i
          BY <2>1, <2>2, <4>1 DEF Reads
        <5> QED
          BY <4>1, <5>1
      <4>3. i + 2 <= L /\ i \in 1 .. L + 1 /\ i + 3 = at[k] + 1 /\ ~(i > L)
        BY <2>2, <4>1
      <4>4. SubSeq(e, i + 1, i + 2) = Codes[c]
        <5>1. i + 1 \in Nat \ {0} /\ i + 1 = i + 2 - 1 /\ i + 2 = (i + 1) + Len(Codes[c]) - 1 /\ 2 \in Nat \ {0}
          BY <2>2, <4>1
        <5>2. Reads(e, i + 1, Codes[c])
          BY <1>4, <2>1, <2>2, <4>1, <5>1, ReadsPart
        <5>3. PICK t, m : t = Codes[c] /\ m = i + 1
          OBVIOUS
        <5>4. IsText(e) /\ IsText(t) /\ m \in Nat \ {0} /\ Reads(e, m, t)
          BY <1>4, <4>1, <5>1, <5>2, <5>3
        <5>5. i + 2 = m + Len(t) - 1
          BY <5>1, <5>3
        <5>6. SubSeq(e, m, i + 2) = t
          BY <5>4, <5>5, CutIs
        <5> QED
          BY <5>3, <5>6
      <4>5. H!Decoded(Codes[c]) = c
        BY <3>1 DEF H!Decoded, CodesAreHex
      <4>6. H!CodeAt(e, i)
        BY <1>4, <4>2, <4>3 DEF H!CodeAt
      <4>7. f[i] = DecodedFrom(e, f, i)
        BY <1>6, <4>3
      <4> QED
        BY <1>4, <4>3, <4>4, <4>5, <4>6, <4>7 DEF DecodedFrom
    <3>2. CASE c \notin DOMAIN Codes
      <4>1. Len(b) = 1 /\ b[1] = c /\ c # "%" /\ c # "+"
        BY <3>2, BlockIs
      <4> HIDE DEF b
      <4>2. e[i] = c
        <5>1. e[i + 1 - 1] = b[1] /\ i + 1 - 1 = i
          BY <2>1, <2>2, <4>1 DEF Reads
        <5> QED
          BY <4>1, <5>1
      <4>3. i \in 1 .. L + 1 /\ i + 1 = at[k] + 1 /\ ~(i > L)
        BY <2>2, <4>1
      <4>4. ~H!CodeAt(e, i)
        BY <4>1, <4>2 DEF H!CodeAt
      <4>5. f[i] = DecodedFrom(e, f, i)
        BY <1>6, <4>3
      <4> QED
        BY <1>4, <4>1, <4>2, <4>3, <4>4, <4>5 DEF DecodedFrom
    <3> QED
      BY <3>1, <3>2
  <2>4. <<c>> \o SubSeq(v, k + 1, n) = SubSeq(v, k, n)
    BY <1>2, OneBefore DEF c
  <2> QED
    BY <1>7, <2>3, <2>4 DEF i
<1> DEFINE S == {j \in 0 .. n : f[at[n - j] + 1] = SubSeq(v, n - j + 1, n)}
<1>8. 0 \in S
  <2>1. f[L + 1] = << >>
    <3>1. L + 1 \in 1 .. L + 1 /\ L + 1 > L
      OBVIOUS
    <3>2. f[L + 1] = DecodedFrom(e, f, L + 1)
      BY <1>6, <3>1
    <3> QED
      BY <1>4, <3>1, <3>2 DEF DecodedFrom
  <2>2. SubSeq(v, n + 1, n) = << >>
    <3>1. PICK T : v \in Seq(T)
      BY DEF IsText
    <3> QED
      BY <3>1
  <2>3. n - 0 = n /\ 0 \in 0 .. n
    OBVIOUS
  <2>4. f[at[n - 0] + 1] = SubSeq(v, n - 0 + 1, n)
    BY <1>5, <2>1, <2>2, <2>3, Zenon
  <2> QED
    BY <2>3, <2>4
<1>9. ASSUME NEW j \in 1 .. n, j - 1 \in S PROVE j \in S
  <2> DEFINE k == n - j + 1
  <2>1. k \in 1 .. n /\ n - (j - 1) = k /\ k - 1 = n - j /\ j \in 0 .. n
    OBVIOUS
  <2>2. f[at[k] + 1] = SubSeq(v, k + 1, n)
    BY <1>9, <2>1
  <2>3. f[at[k - 1] + 1] = SubSeq(v, k, n)
    <3> HIDE DEF k
    <3> QED
      BY <1>7, <2>1, <2>2
  <2> QED
    BY <2>1, <2>3
<1>10. f[1] = SubSeq(v, 1, n)
  <2>1. 0 .. n \subseteq S
    <3> HIDE DEF S
    <3> QED
      BY <1>8, <1>9, UpTheLine
  <2>2. n \in 0 .. n /\ n - n = 0
    OBVIOUS
  <2>3. n \in S
    BY <2>1, <2>2
  <2> QED
    BY <1>5, <2>2, <2>3
<1>11. SubSeq(v, 1, n) = v
  <2>1. PICK T : v \in Seq(T)
    BY DEF IsText
  <2> QED
    BY <1>2, <2>1, SubSeqFull
<1> QED
  BY <1>6, <1>10, <1>11 DEF e


--------------------------------------------------------------------------------
(* The query of a URL. *)

LEMMA Regroup ==
  ASSUME NEW a, NEW b, NEW c, IsText(a), IsText(b), IsText(c)
  PROVE  (a \o b) \o c = a \o (b \o c)
<1>1. PICK A, B, C : a \in Seq(A) /\ b \in Seq(B) /\ c \in Seq(C)
  BY DEF IsText
<1>2. PICK T : T = A \cup B \cup C
  OBVIOUS
<1>3. a \in Seq(T) /\ b \in Seq(T) /\ c \in Seq(T)
  BY <1>1, <1>2
<1> QED
  BY <1>3, ConcatAssociative

LEMMA Nothing == IsText(<< >>) /\ Len(<< >>) = 0
  BY DEF IsText

\* Of two texts without a token, neither has the text of both.
LEMMA WithoutBoth ==
  ASSUME NEW s, NEW t, NEW marks, Without(s, marks), Without(t, marks)
  PROVE  Without(s \o t, marks)
<1> DEFINE u == s \o t
<1>1. Len(s) \in Nat /\ Len(t) \in Nat /\ IsText(s) /\ IsText(t)
  BY TextIs DEF Without
<1>2. /\ IsText(u) /\ Len(u) = Len(s) + Len(t)
      /\ \A i \in 1 .. Len(s) : u[i] = s[i]
      /\ \A i \in 1 .. Len(t) : u[Len(s) + i] = t[i]
  BY <1>1, Joined
<1> HIDE DEF u
<1>3. ASSUME NEW i \in 1 .. Len(u) PROVE u[i] \notin marks
  <2>1. CASE i <= Len(s)
    BY <1>1, <1>2, <2>1 DEF Without
  <2>2. CASE ~(i <= Len(s))
    <3>1. i - Len(s) \in 1 .. Len(t) /\ Len(s) + (i - Len(s)) = i
      BY <1>1, <1>2, <2>2
    <3>2. u[Len(s) + (i - Len(s))] = t[i - Len(s)]
      BY <1>2, <3>1
    <3> QED
      BY <3>1, <3>2 DEF Without
  <2> QED
    BY <2>1, <2>2
<1>4. Without(u, marks)
  BY <1>2, <1>3 DEF Without
<1> QED
  BY <1>4 DEF u

LEMMA WithoutLess ==
  ASSUME NEW s, NEW marks, Without(s, marks), NEW less, less \subseteq marks PROVE Without(s, less)
  BY DEF Without

LEMMA OtherWord ==
  ASSUME NEW w, NEW marks, w \notin marks PROVE Without(<<w>>, marks)
<1>1. IsText(<<w>>) /\ Len(<<w>>) = 1 /\ <<w>>[1] = w
  BY Word
<1>2. \A i \in 1 .. 1 : i = 1
  OBVIOUS
<1> QED
  BY <1>1, <1>2 DEF Without

\* What an owner puts into a query: names without the marks of a query, and any values.
IsQuery(fields) ==
  /\ IsText(fields)
  /\ \A k \in 1 .. Len(fields) :
       /\ Without(fields[k][1], {"&", "=", "SP"}) /\ fields[k][1] # << >> /\ IsText(fields[k][2])
       /\ fields[k] = <<fields[k][1], fields[k][2]>>

\* A field as the query has it, and what is made of it.
Pair(f) == f[1] \o <<"=">> \o H!Encode(f[2])

Named(p) == IF H!Find(p, "=") = 0 THEN <<p, << >>>>
            ELSE <<SubSeq(p, 1, H!Find(p, "=") - 1), H!Decode(SubSeq(p, H!Find(p, "=") + 1, Len(p)))>>

LEMMA PairIs ==
  ASSUME CodesAreHex, NEW name, Without(name, {"&", "=", "SP"}), NEW value, IsText(value)
  PROVE  LET p == name \o <<"=">> \o H!Encode(value) IN
         Without(p, {"&", "SP"}) /\ Len(p) \in Nat \ {0} /\ Named(p) = <<name, value>>
<1> DEFINE e == H!Encode(value)  eq == <<"=">>  p == name \o <<"=">> \o H!Encode(value)
<1>1. Without(e, {"&", "SP"}) /\ H!Decode(e) = value
  BY EncodedWithout, DecodeUndoesEncode
<1>2. IsText(name) /\ IsText(e) /\ IsText(eq) /\ Len(eq) = 1 /\ eq[1] = "="
  BY <1>1, Word DEF Without
<1>3. Without(p, {"&", "SP"})
  <2>1. Without(name, {"&", "SP"})
    BY WithoutLess
  <2>2. Without(eq, {"&", "SP"})
    BY OtherWord
  <2> HIDE DEF e, eq
  <2>3. Without(name \o eq \o e, {"&", "SP"})
    BY <1>1, <2>1, <2>2, WithoutBoth
  <2> QED
    BY <2>3 DEF p, e, eq
<1> HIDE DEF e, eq
<1>4. p = name \o eq \o e
  BY DEF p, e, eq
<1>5. PICK ln, le \in Nat : ln = Len(name) /\ le = Len(e) /\ ln \in Nat
  BY <1>2, TextIs
<1>6. /\ IsText(p) /\ Len(p) = ln + 1 + le
      /\ \A i \in 1 .. ln : p[i] = name[i]
      /\ p[ln + 1] = "="
      /\ \A i \in 1 .. le : p[ln + 1 + i] = e[i]
  <2>1. IsText(name) /\ IsText(eq) /\ IsText(e)
    BY <1>2
  <2>2. /\ IsText(name \o eq \o e) /\ Len(name \o eq \o e) = Len(name) + Len(eq) + Len(e)
        /\ \A i \in 1 .. Len(name) : (name \o eq \o e)[i] = name[i]
        /\ \A i \in 1 .. Len(eq) : (name \o eq \o e)[Len(name) + i] = eq[i]
        /\ \A i \in 1 .. Len(e) : (name \o eq \o e)[Len(name) + Len(eq) + i] = e[i]
    BY <2>1, Around
  <2> HIDE DEF p
  <2>3. /\ IsText(p) /\ Len(p) = Len(name) + Len(eq) + Len(e)
        /\ \A i \in 1 .. Len(name) : p[i] = name[i]
        /\ \A i \in 1 .. Len(eq) : p[Len(name) + i] = eq[i]
        /\ \A i \in 1 .. Len(e) : p[Len(name) + Len(eq) + i] = e[i]
    BY <1>4, <2>2
  <2> QED
    BY <1>2, <1>5, <2>3
<1> HIDE DEF p
<1>7. H!Find(p, "=") = ln + 1
  <2>1. \A i \in 1 .. ln + 1 - 1 : p[i] # "="
    BY <1>5, <1>6 DEF Without
  <2>2. ln + 1 \in 1 .. Len(p)
    BY <1>5, <1>6
  <2>3. PICK k : k = ln + 1
    OBVIOUS
  <2>4. Len(p) \in Nat /\ k \in 1 .. Len(p) /\ p[k] = "=" /\ \A i \in 1 .. k - 1 : p[i] # "="
    BY <1>5, <1>6, <2>1, <2>2, <2>3
  <2>5. H!FindFrom(p, "=", 1) = k
    BY <2>4, Found
  <2> QED
    BY <2>3, <2>5 DEF H!Find
<1>8. SubSeq(p, 1, ln) = name
  <2>1. Reads(p, 1, name)
    BY <1>5, <1>6 DEF Reads
  <2>2. IsText(p) /\ IsText(name)
    BY <1>2, <1>6
  <2>3. ln = 1 + Len(name) - 1 /\ 1 \in Nat \ {0}
    BY <1>5
  <2> QED
    BY <2>1, <2>2, <2>3, CutIs
<1>9. SubSeq(p, ln + 2, Len(p)) = e
  <2>1. PICK m : m = ln + 2
    OBVIOUS
  <2>2. m \in Nat \ {0} /\ Len(p) = m + Len(e) - 1
    BY <1>5, <1>6, <2>1
  <2>3. ASSUME NEW i \in 1 .. Len(e) PROVE p[m + i - 1] = e[i]
    <3>1. m + i - 1 = ln + 1 + i
      BY <1>5, <2>1
    <3> QED
      BY <1>5, <1>6, <3>1
  <2>4. Reads(p, m, e)
    BY <1>5, <1>6, <2>2, <2>3 DEF Reads
  <2>5. IsText(p) /\ IsText(e)
    BY <1>2, <1>6
  <2>6. PICK l : l = Len(p)
    OBVIOUS
  <2>7. l = m + Len(e) - 1
    BY <2>2, <2>6
  <2>8. SubSeq(p, m, l) = e
    BY <2>2, <2>4, <2>5, <2>7, CutIs
  <2> QED
    BY <2>1, <2>6, <2>8
<1>10. Named(p) = <<name, value>>
  <2>1. PICK k : k = H!Find(p, "=")
    OBVIOUS
  <2>2. k # 0 /\ k - 1 = ln /\ k + 1 = ln + 2
    BY <1>5, <1>7, <2>1
  <2>3. Named(p) = <<SubSeq(p, 1, k - 1), H!Decode(SubSeq(p, k + 1, Len(p)))>>
    BY <2>1, <2>2, Zenon DEF Named
  <2> QED
    BY <1>1, <1>8, <1>9, <2>2, <2>3
<1>11. Len(p) \in Nat \ {0}
  BY <1>5, <1>6
<1> QED
  BY <1>3, <1>10, <1>11 DEF p

LEMMA Rising ==
  ASSUME NEW n \in Nat, NEW at \in [0 .. n -> Nat], \A k \in 1 .. n : at[k - 1] < at[k]
  PROVE  \A j, k \in 0 .. n : j < k => at[j] < at[k]
<1> SUFFICES ASSUME NEW j \in 0 .. n PROVE \A k \in 0 .. n : j < k => at[j] < at[k]
  OBVIOUS
<1> DEFINE S == {k \in 0 .. n : j < k => at[j] < at[k]}
<1>1. 0 \in S
  OBVIOUS
<1>2. ASSUME NEW k \in 1 .. n, k - 1 \in S PROVE k \in S
  <2>1. k - 1 \in 0 .. n /\ k \in 0 .. n /\ at[k - 1] < at[k] /\ at[k - 1] \in Nat /\ at[k] \in Nat /\ at[j] \in Nat
    OBVIOUS
  <2>2. CASE j < k - 1
    BY <1>2, <2>1, <2>2
  <2>3. CASE ~(j < k - 1)
    <3>1. j < k => j = k - 1
      BY <2>3
    <3> QED
      BY <2>1, <3>1
  <2> QED
    BY <2>2, <2>3
<1>3. 0 .. n \subseteq S
  <2> HIDE DEF S
  <2> QED
    BY <1>1, <1>2, UpTheLine
<1> QED
  BY <1>3

\* A field with what separates it from the one before.
Amp(k) == IF k = 1 THEN << >> ELSE <<"&">>
Parts(fields) == [k \in 1 .. Len(fields) |-> Amp(k) \o Pair(fields[k])]

LEMMA AmpIs ==
  ASSUME NEW k PROVE /\ IsText(Amp(k)) /\ Len(Amp(k)) = (IF k = 1 THEN 0 ELSE 1) /\ (k # 1 => Amp(k)[1] = "&")
                     /\ Without(Amp(k), {"SP"})
<1>1. CASE k = 1
  BY <1>1, Nothing DEF Amp, Without
<1>2. CASE k # 1
  <2>1. PICK w : w = <<"&">>
    OBVIOUS
  <2>2. Without(w, {"SP"}) /\ IsText(w) /\ Len(w) = 1 /\ w[1] = "&"
    BY <2>1, Word, OtherWord
  <2> QED
    BY <1>2, <2>1, <2>2 DEF Amp
<1> QED
  BY <1>1, <1>2

LEMMA RegroupThree ==
  ASSUME NEW x, NEW y, NEW z, NEW u, IsText(x), IsText(y), IsText(z), IsText(u)
  PROVE  x \o (y \o z \o u) = x \o y \o z \o u
<1>1. PICK v : v = y \o z
  OBVIOUS
<1>2. IsText(v)
  BY <1>1, Joined
<1>3. (x \o v) \o u = x \o (v \o u)
  BY <1>2, Regroup
<1>4. (x \o y) \o z = x \o (y \o z)
  BY Regroup
<1> QED
  BY <1>1, <1>3, <1>4, Zenon

LEMMA QueryParts ==
  ASSUME CodesAreHex, NEW fields, IsQuery(fields)
  PROVE  /\ Len(fields) \in Nat /\ IsText(Parts(fields)) /\ Len(Parts(fields)) = Len(fields)
         /\ \A k \in 1 .. Len(fields) :
              /\ Parts(fields)[k] = Amp(k) \o Pair(fields[k]) /\ Without(Parts(fields)[k], {"SP"})
              /\ Without(Pair(fields[k]), {"&", "SP"}) /\ Len(Pair(fields[k])) \in Nat \ {0}
              /\ Named(Pair(fields[k])) = fields[k]
         /\ \E at : Flat(H!CreateQuery(fields), Parts(fields), at)
<1>1. PICK n \in Nat : n = Len(fields) /\ DOMAIN fields = 1 .. n
  BY TextIs DEF IsQuery
<1>2. IsText(Parts(fields)) /\ Len(Parts(fields)) = n /\ \A k \in 1 .. n : Parts(fields)[k] = Amp(k) \o Pair(fields[k])
  <2> DEFINE b == [k \in 1 .. n |-> Amp(k) \o Pair(fields[k])]  W == {Amp(k) \o Pair(fields[k]) : k \in 1 .. n}
  <2>1. b \in [1 .. n -> W]
    OBVIOUS
  <2>2. b \in Seq(W) /\ Len(b) = n
    <3> HIDE DEF b, W
    <3> QED
      BY <2>1, FunctionIsSeq
  <2>3. b = Parts(fields)
    BY <1>1 DEF Parts
  <2>4. IsText(b) /\ \A k \in 1 .. n : b[k] = Amp(k) \o Pair(fields[k])
    BY <2>2 DEF IsText
  <2> HIDE DEF b
  <2> QED
    BY <2>2, <2>3, <2>4
<1>3. ASSUME NEW k \in 1 .. n
      PROVE  /\ Without(Pair(fields[k]), {"&", "SP"}) /\ Len(Pair(fields[k])) \in Nat \ {0}
             /\ Named(Pair(fields[k])) = fields[k]
             /\ Without(Parts(fields)[k], {"SP"})
             /\ Parts(fields)[k] = Amp(k) \o fields[k][1] \o <<"=">> \o H!Encode(fields[k][2])
  <2>1. PICK name, value : name = fields[k][1] /\ value = fields[k][2] /\ fields[k] = <<name, value>>
                           /\ Without(name, {"&", "=", "SP"}) /\ IsText(value)
    BY <1>1 DEF IsQuery
  <2> DEFINE e == H!Encode(value)  eq == <<"=">>  p == name \o <<"=">> \o H!Encode(value)
  <2>2. p = Pair(fields[k])
    BY <2>1 DEF Pair
  <2>3. Without(p, {"&", "SP"}) /\ Len(p) \in Nat \ {0} /\ Named(p) = <<name, value>>
    BY <2>1, PairIs
  <2>4. p = name \o eq \o e
    OBVIOUS
  <2>5. IsText(name) /\ IsText(eq) /\ IsText(e) /\ IsText(Amp(k)) /\ IsText(name \o eq)
    <3>1. IsText(name) /\ IsText(eq) /\ IsText(e) /\ IsText(Amp(k))
      BY <2>1, Word, EncodedWithout, AmpIs DEF Without
    <3> QED
      BY <3>1, Joined
  <2> HIDE DEF p, e, eq
  <2>6. Amp(k) \o p = Amp(k) \o name \o eq \o e
    <3>1. PICK q, x, y, z : q = Amp(k) /\ x = name /\ y = eq /\ z = e
      OBVIOUS
    <3>2. IsText(q) /\ IsText(x) /\ IsText(y) /\ IsText(z)
      BY <2>5, <3>1
    <3>3. q \o (x \o y \o z) = q \o x \o y \o z
      BY ONLY <3>2, RegroupThree, SMTT(30)
    <3> QED
      BY <2>4, <3>1, <3>3, Zenon
  <2>7. Without(Amp(k) \o p, {"SP"})
    <3>1. Without(p, {"SP"}) /\ Without(Amp(k), {"SP"})
      BY <2>3, AmpIs, WithoutLess
    <3> QED
      BY <3>1, WithoutBoth
  <2>8. Parts(fields)[k] = Amp(k) \o p
    BY <1>2, <2>2
  <2>9. Amp(k) \o name \o eq \o e = Amp(k) \o fields[k][1] \o <<"=">> \o H!Encode(fields[k][2])
    BY <2>1 DEF eq, e
  <2> QED
    BY <2>1, <2>2, <2>3, <2>6, <2>7, <2>8, <2>9
<1>4. H!CreateQuery(fields) = H!FlattenSeq(Parts(fields))
  <2> DEFINE c == [k \in DOMAIN fields |-> (IF k = 1 THEN << >> ELSE <<"&">>)
                                            \o fields[k][1] \o <<"=">> \o H!Encode(fields[k][2])]
  <2>1. c = [k \in 1 .. n |-> Amp(k) \o fields[k][1] \o <<"=">> \o H!Encode(fields[k][2])]
    BY <1>1 DEF Amp
  <2>2. Parts(fields) = [k \in 1 .. n |-> Parts(fields)[k]]
    BY <1>1 DEF Parts
  <2>3. H!CreateQuery(fields) = H!FlattenSeq(c)
    BY DEF H!CreateQuery
  <2>4. c = Parts(fields)
    BY <1>3, <2>1, <2>2
  <2> QED
    BY <2>3, <2>4, Zenon
<1>5. \E at : Flat(H!FlattenSeq(Parts(fields)), Parts(fields), at)
  <2>1. \A k \in 1 .. Len(Parts(fields)) : IsText(Parts(fields)[k])
    BY <1>2, <1>3 DEF Without
  <2> QED
    BY <1>2, <2>1, FlatIs
<1> QED
  BY <1>1, <1>2, <1>3, <1>4, <1>5

\* The pieces p of a query, and where the "&" behind each stands.
Cut(q, n, p, e) ==
  /\ e[0] = 0 /\ e[n] = Len(q) + 1
  /\ \A k \in 1 .. n : IsText(p[k]) /\ e[k] = e[k - 1] + 1 + Len(p[k]) /\ Reads(q, e[k - 1] + 1, p[k])
  /\ \A i \in 1 .. Len(q) : q[i] = "&" <=> \E k \in 1 .. n - 1 : i = e[k]

\* A query that is made of pieces with an "&" between them is cut into these.
LEMMA PiecesAre ==
  ASSUME NEW q, IsText(q), NEW n \in Nat \ {0}, NEW p, NEW e \in [0 .. n -> Nat], Cut(q, n, p, e)
  PROVE  H!Pieces(q) = {p[k] : k \in 1 .. n}
<1> DEFINE ends == {i \in DOMAIN q : q[i] = "&"} \cup {0, Len(q) + 1}
           PieceAt(a) == SubSeq(q, a + 1, H!Min({b \in ends : b > a}) - 1)
<1>1. PICK l \in Nat : l = Len(q) /\ DOMAIN q = 1 .. l
  BY TextIs
<1>2. \A k \in 1 .. n : k - 1 \in 0 .. n /\ k \in 0 .. n /\ Len(p[k]) \in Nat /\ e[k - 1] \in Nat /\ e[k] \in Nat
                       /\ e[k] = e[k - 1] + 1 + Len(p[k])
  <2> SUFFICES ASSUME NEW k \in 1 .. n
               PROVE  /\ k - 1 \in 0 .. n /\ k \in 0 .. n /\ Len(p[k]) \in Nat /\ e[k - 1] \in Nat /\ e[k] \in Nat
                      /\ e[k] = e[k - 1] + 1 + Len(p[k])
    OBVIOUS
  <2>1. k - 1 \in 0 .. n /\ k \in 0 .. n
    OBVIOUS
  <2>2. IsText(p[k]) /\ e[k] = e[k - 1] + 1 + Len(p[k])
    BY DEF Cut
  <2>3. Len(p[k]) \in Nat
    BY <2>2, TextIs
  <2> QED
    BY <2>1, <2>2, <2>3
<1>3. \A k \in 1 .. n : e[k - 1] < e[k]
  <2> SUFFICES ASSUME NEW k \in 1 .. n PROVE e[k - 1] < e[k]
    OBVIOUS
  <2>1. PICK a, b, c : a = e[k - 1] /\ b = e[k] /\ c = Len(p[k])
    OBVIOUS
  <2>2. a \in Nat /\ c \in Nat /\ b = a + 1 + c
    BY <1>2, <2>1
  <2>3. a < b
    BY <2>2
  <2> QED
    BY <2>1, <2>3
<1>0. e[0] = 0 /\ e[n] = l + 1 /\ \A i \in 1 .. l : q[i] = "&" <=> \E k \in 1 .. n - 1 : i = e[k]
  BY <1>1 DEF Cut
<1>4. \A j, k \in 0 .. n : j < k => e[j] < e[k]
  BY <1>3, Rising
<1>5. ends = {e[k] : k \in 0 .. n}
  <2>1. \A i \in ends : \E k \in 0 .. n : i = e[k]
    <3>1. 0 \in 0 .. n /\ n \in 0 .. n /\ \A k \in 1 .. n - 1 : k \in 0 .. n
      OBVIOUS
    <3> QED
      BY <1>0, <1>1, <3>1
  <2>2. \A k \in 0 .. n : e[k] \in ends
    <3> SUFFICES ASSUME NEW k \in 0 .. n PROVE e[k] \in ends
      OBVIOUS
    <3>1. CASE k = 0 \/ k = n
      BY <1>0, <1>1, <3>1
    <3>2. CASE k # 0 /\ k # n
      <4>1. k \in 1 .. n - 1 /\ 0 \in 0 .. n /\ n \in 0 .. n /\ 0 < k /\ k < n
        BY <3>2
      <4>2. e[0] < e[k] /\ e[k] < e[n] /\ e[k] \in Nat
        BY <1>4, <4>1
      <4>3. e[k] \in 1 .. l
        BY <1>0, <1>1, <4>2
      <4> QED
        BY <1>0, <1>1, <4>1, <4>3
    <3> QED
      BY <3>1, <3>2
  <2> HIDE DEF ends
  <2> QED
    BY <2>1, <2>2
<1>6. ASSUME NEW k \in 1 .. n PROVE PieceAt(e[k - 1]) = p[k]
  <2> DEFINE S == {b \in ends : b > e[k - 1]}
  <2>1. S \in SUBSET Nat /\ e[k] \in S /\ \A m \in S : e[k] <= m
    <3> HIDE DEF ends
    <3>1. S \in SUBSET Nat /\ e[k] \in S
      BY <1>2, <1>3, <1>5
    <3>2. ASSUME NEW j \in 0 .. n, e[j] > e[k - 1] PROVE e[k] <= e[j]
      <4>1. ~(j < k - 1) /\ j # k - 1
        BY <1>2, <1>4, <3>2
      <4>2. j = k \/ k < j
        BY <4>1
      <4> QED
        BY <1>2, <1>4, <4>2
    <3> QED
      BY <1>5, <3>1, <3>2
  <2>2. H!Min(S) = e[k]
    <3> HIDE DEF S
    <3> QED
      BY <2>1, MinIs
  <2>3. PICK m, t, z : m = e[k - 1] + 1 /\ t = p[k] /\ z = e[k] - 1
    OBVIOUS
  <2>7. PICK a, b, c : a = e[k - 1] /\ b = e[k] /\ c = Len(p[k])
    OBVIOUS
  <2>8. a \in Nat /\ c \in Nat /\ b = a + 1 + c /\ m = a + 1 /\ z = b - 1
    BY <1>2, <2>3, <2>7
  <2>9. m \in Nat \ {0} /\ z = m + c - 1
    BY <2>8
  <2>4. m \in Nat \ {0} /\ IsText(t) /\ Reads(q, m, t) /\ z = m + Len(t) - 1
    <3>1. IsText(p[k]) /\ Reads(q, e[k - 1] + 1, p[k])
      BY DEF Cut
    <3> QED
      BY <2>3, <2>7, <2>9, <3>1, Zenon
  <2>5. SubSeq(q, m, z) = t
    BY <2>4, CutIs
  <2>6. PieceAt(e[k - 1]) = SubSeq(q, m, z)
    BY <2>2, <2>3
  <2> QED
    BY <2>3, <2>5, <2>6
<1>7. \A k \in 0 .. n : e[k] # l + 1 <=> k # n
  <2>1. \A k \in 0 .. n : k # n => k < n
    OBVIOUS
  <2>2. \A k \in 0 .. n : k # n => e[k] < l + 1
    BY <1>0, <1>4, <2>1
  <2> QED
    BY <1>0, <2>2
<1>8. H!Pieces(q) = {PieceAt(a) : a \in ends \ {Len(q) + 1}}
  BY DEF H!Pieces
<1>9. ends \ {l + 1} = {e[k - 1] : k \in 1 .. n}
  <2> HIDE DEF ends
  <2>1. \A k \in 0 .. n : k # n => k + 1 \in 1 .. n /\ (k + 1) - 1 = k
    OBVIOUS
  <2>2. \A k \in 1 .. n : k - 1 \in 0 .. n /\ k - 1 # n
    OBVIOUS
  <2>3. \A x \in ends \ {l + 1} : \E k \in 1 .. n : x = e[k - 1]
    <3> SUFFICES ASSUME NEW x \in ends \ {l + 1} PROVE \E k \in 1 .. n : x = e[k - 1]
      OBVIOUS
    <3>1. PICK k \in 0 .. n : x = e[k] /\ k # n
      BY <1>5, <1>7
    <3>2. k + 1 \in 1 .. n /\ (k + 1) - 1 = k
      BY <2>1, <3>1
    <3> QED
      BY <3>1, <3>2
  <2>4. \A k \in 1 .. n : e[k - 1] \in ends \ {l + 1}
    BY <1>5, <1>7, <2>2
  <2> QED
    BY <2>3, <2>4
<1> HIDE DEF ends, PieceAt
<1>10. {PieceAt(a) : a \in {e[k - 1] : k \in 1 .. n}} = {PieceAt(e[k - 1]) : k \in 1 .. n}
  OBVIOUS
<1>11. {PieceAt(e[k - 1]) : k \in 1 .. n} = {p[k] : k \in 1 .. n}
  BY <1>6
<1> QED
  BY <1>1, <1>8, <1>9, <1>10, <1>11, Zenon

Both(z, x, y) == z = x \o y

\* The k-th part of a query, as the text has it.
LEMMA PartRead ==
  ASSUME NEW q, NEW a \in Nat, NEW x, NEW y, NEW z, IsText(q), IsText(x), IsText(y), Both(z, x, y), Reads(q, a + 1, z)
  PROVE  /\ Len(x) \in Nat /\ Len(y) \in Nat /\ Len(z) = Len(x) + Len(y) /\ IsText(z)
         /\ Reads(q, a + Len(x) + 1, y)
         /\ \A j \in 1 .. Len(x) : z[j] = x[j] /\ q[a + j] = x[j]
         /\ \A j \in 1 .. Len(z) : j \in 1 .. Len(x) \/ \E i \in 1 .. Len(y) : z[j] = y[i]
<1>1. /\ Len(x) \in Nat /\ Len(y) \in Nat /\ IsText(z) /\ Len(z) = Len(x) + Len(y)
      /\ \A i \in 1 .. Len(x) : z[i] = x[i]
      /\ \A i \in 1 .. Len(y) : z[Len(x) + i] = y[i]
  BY TextIs, Joined DEF Both
<1>2. Reads(q, a + Len(x) + 1, y)
  <2>1. PICK m, l : m = a + 1 /\ l = Len(x) + 1
    OBVIOUS
  <2>2. m \in Nat \ {0} /\ l \in Nat \ {0} /\ a + Len(x) + 1 = m + l - 1
    BY <1>1, <2>1
  <2>3. Reads(z, l, y) /\ Reads(q, m, z)
    BY <2>1, ReadsJoined DEF Both
  <2>4. PICK k : k = m + l - 1
    OBVIOUS
  <2>5. Reads(q, k, y)
    BY <1>1, <2>2, <2>3, <2>4, ReadsPart
  <2> QED
    BY <2>2, <2>4, <2>5
<1>3. ASSUME NEW j \in 1 .. Len(x) PROVE q[a + j] = x[j]
  <2>1. j \in 1 .. Len(z) /\ (a + 1) + j - 1 = a + j
    BY <1>1
  <2>2. q[(a + 1) + j - 1] = z[j]
    BY <2>1, Zenon DEF Reads
  <2> QED
    BY <1>1, <2>1, <2>2
<1>4. ASSUME NEW j \in 1 .. Len(z), j \notin 1 .. Len(x) PROVE \E i \in 1 .. Len(y) : z[j] = y[i]
  <2>1. j - Len(x) \in 1 .. Len(y) /\ Len(x) + (j - Len(x)) = j
    BY <1>1, <1>4
  <2> QED
    BY <1>1, <2>1
<1> QED
  BY <1>1, <1>2, <1>3, <1>4

\* The fields of an owner's query are those that QueryString::parse gives back, whatever
\* their values are (utility.hpp:115, 128).
THEOREM QueryRead ==
  ASSUME CodesAreHex, NEW fields, IsQuery(fields)
  PROVE  /\ Without(H!CreateQuery(fields), {"SP"})
         /\ H!ParseQuery(H!CreateQuery(fields)) = H!ToSet(fields)
<1>1. PICK q, n, P : q = H!CreateQuery(fields) /\ n = Len(fields) /\ P = Parts(fields)
  OBVIOUS
<1> DEFINE p == [k \in 1 .. n |-> Pair(fields[k])]
<1>2. /\ n \in Nat /\ IsText(P) /\ Len(P) = n
      /\ \A k \in 1 .. n :
           /\ P[k] = Amp(k) \o p[k] /\ Without(P[k], {"SP"})
           /\ Without(p[k], {"&", "SP"}) /\ Len(p[k]) \in Nat \ {0} /\ Named(p[k]) = fields[k]
  BY <1>1, QueryParts
<1>3. PICK at : Flat(q, P, at)
  BY <1>1, QueryParts
<1>4. /\ IsText(q) /\ at \in [0 .. n -> Nat] /\ at[0] = 0 /\ at[n] = Len(q)
      /\ \A k \in 1 .. n : at[k] = at[k - 1] + Len(P[k]) /\ Reads(q, at[k - 1] + 1, P[k])
  BY <1>2, <1>3 DEF Flat
<1>5. \A i \in 1 .. Len(q) : \E k \in 1 .. n : \E j \in 1 .. Len(P[k]) : i = at[k - 1] + j /\ q[i] = P[k][j]
  <2>1. \A k \in 1 .. Len(P) : IsText(P[k])
    BY <1>2 DEF Without
  <2>2. ASSUME NEW i \in 1 .. Len(q) PROVE \E k \in 1 .. Len(P) : \E j \in 1 .. Len(P[k]) : i = at[k - 1] + j /\ q[i] = P[k][j]
    <3>1. IsText(P) /\ Flat(q, P, at)
      BY <1>2, <1>3
    <3> QED
      BY ONLY <2>1, <2>2, <3>1, FlatHas, SMTT(30)
  <2> QED
    BY <1>2, <2>2
<1>6. Without(q, {"SP"})
  <2>1. ASSUME NEW i \in 1 .. Len(q) PROVE q[i] \notin {"SP"}
    <3>1. PICK k \in 1 .. n : \E j \in 1 .. Len(P[k]) : q[i] = P[k][j]
      BY <1>5
    <3>2. Without(P[k], {"SP"})
      BY <1>2
    <3> QED
      BY <3>1, <3>2 DEF Without
  <2>2. IsText(q)
    BY <1>4
  <2> QED
    BY <2>1, <2>2 DEF Without
<1>7. fields \in [1 .. n -> {fields[k] : k \in 1 .. n}]
  <2>1. PICK T : fields \in Seq(T)
    BY DEF IsQuery, IsText
  <2> QED
    BY <1>1, <2>1
<1>8. \A k \in 1 .. n : fields[k][1] # << >>
  BY <1>1 DEF IsQuery
<1> HIDE DEF p
<1>9. CASE n = 0
  <2>1. DOMAIN q = {} /\ Len(q) = 0
    BY <1>4, <1>9, TextIs
  <2>2. H!Find(q, "=") = 0
    BY <2>1, NotFound
  <2>3. q = << >>
    <3>1. PICK T : q \in Seq(T)
      BY <1>4 DEF IsText
    <3> QED
      BY <2>1, <3>1, EmptySeq
  <2>4. H!Pieces(q) \subseteq {<< >>}
    <3> DEFINE S == {b \in {0, 1} : b > 0}
    <3>1. H!Min(S) = 1
      <4>1. S \in SUBSET Nat /\ 1 \in S /\ \A m \in S : 1 <= m
        OBVIOUS
      <4> HIDE DEF S
      <4> QED
        BY <4>1, MinIs
    <3> DEFINE ends == {i \in DOMAIN q : q[i] = "&"} \cup {0, Len(q) + 1}
    <3>2. ends = {0, 1}
      BY <2>1
    <3>3. H!Pieces(q) = {SubSeq(q, a + 1, H!Min({b \in ends : b > a}) - 1) : a \in ends \ {Len(q) + 1}}
      BY DEF H!Pieces
    <3>4. {0, 1} \ {Len(q) + 1} = {0}
      BY <2>1
    <3> HIDE DEF ends
    <3>5. ASSUME NEW x \in H!Pieces(q) PROVE x = SubSeq(q, 0 + 1, H!Min(S) - 1)
      <4>1. PICK a \in ends \ {Len(q) + 1} : x = SubSeq(q, a + 1, H!Min({b \in ends : b > a}) - 1)
        BY <3>3
      <4>2. a = 0 /\ {b \in ends : b > a} = S
        BY <3>2, <3>4, <4>1
      <4> QED
        BY <4>1, <4>2, Zenon
    <3>7. SubSeq(q, 0 + 1, 1 - 1) = << >>
      <4>1. PICK T : q \in Seq(T)
        BY <1>4 DEF IsText
      <4> QED
        BY <4>1
    <3> HIDE DEF S
    <3> QED
      BY <3>1, <3>5, <3>7
  <2>5. Named(<< >>)[1] = << >>
    BY <2>2, <2>3 DEF Named
  <2>6. {x \in H!Pieces(q) : Named(x)[1] # << >>} = {}
    BY <2>4, <2>5
  <2>7. H!ParseQuery(q) = {Named(x) : x \in {y \in H!Pieces(q) : Named(y)[1] # << >>}}
    BY DEF H!ParseQuery, Named
  <2>8. H!ToSet(fields) = {}
    <3>1. DOMAIN fields = {}
      BY <1>7, <1>9
    <3> QED
      BY <3>1 DEF H!ToSet
  <2>9. H!ParseQuery(q) = {}
    BY <2>6, <2>7
  <2> QED
    BY <1>1, <1>6, <2>8, <2>9
<1>10. CASE n # 0
  <2> DEFINE e == [k \in 0 .. n |-> IF k = 0 THEN 0 ELSE at[k] + 1]
  <2>1. e \in [0 .. n -> Nat] /\ e[0] = 0 /\ e[n] = Len(q) + 1
        /\ \A k \in 1 .. n : e[k] = at[k] + 1 /\ e[k - 1] = at[k - 1] + (IF k = 1 THEN 0 ELSE 1)
    BY <1>2, <1>4, <1>10
  <2> HIDE DEF e
  <2>2. ASSUME NEW k \in 1 .. n
        PROVE  /\ IsText(p[k]) /\ e[k] = e[k - 1] + 1 + Len(p[k]) /\ Reads(q, e[k - 1] + 1, p[k])
               /\ k # 1 => q[e[k - 1]] = "&"
               /\ \A j \in 1 .. Len(P[k]) : P[k][j] = "&" => k # 1 /\ j = 1
    <3>1. PICK a, b, x, y, z : a = at[k - 1] /\ b = at[k] /\ x = Amp(k) /\ y = p[k] /\ z = P[k]
      OBVIOUS
    <3>2. IsText(q) /\ a \in Nat /\ z = x \o y /\ Reads(q, a + 1, z) /\ b = a + Len(z)
      <4>1. at[k - 1] \in Nat
        <5>1. k - 1 \in 0 .. n
          BY <1>2
        <5> QED
          BY <1>4, <5>1, Zenon
      <4> QED
        BY <1>2, <1>4, <3>1, <4>1, Zenon
    <3>3. IsText(y) /\ \A i \in 1 .. Len(y) : y[i] # "&"
      BY <1>2, <3>1 DEF Without
    <3>A. IsText(x) /\ Len(x) = (IF k = 1 THEN 0 ELSE 1) /\ (k # 1 => x[1] = "&")
      BY <3>1, AmpIs
    <3>B. IsText(q) /\ IsText(x) /\ IsText(y) /\ a \in Nat /\ Both(z, x, y) /\ Reads(q, a + 1, z)
      BY <3>2, <3>3, <3>A DEF Both
    <3>4. /\ Len(x) \in Nat /\ Len(y) \in Nat /\ Len(z) = Len(x) + Len(y)
          /\ Reads(q, a + Len(x) + 1, y)
          /\ \A j \in 1 .. Len(x) : z[j] = x[j] /\ q[a + j] = x[j]
          /\ \A j \in 1 .. Len(z) : j \in 1 .. Len(x) \/ \E i \in 1 .. Len(y) : z[j] = y[i]
      BY <3>B, PartRead
    <3>5. PICK c, d : c = e[k - 1] /\ d = e[k]
      OBVIOUS
    <3>6. c = a + Len(x) /\ d = b + 1
      BY <2>1, <3>1, <3>A, <3>5
    <3>7. d = c + 1 + Len(y)
      <4>1. PICK lx, ly, lz : lx = Len(x) /\ ly = Len(y) /\ lz = Len(z)
        OBVIOUS
      <4>2. lx \in Nat /\ ly \in Nat /\ lz = lx + ly /\ c = a + lx /\ d = b + 1 /\ b = a + lz /\ a \in Nat
        BY <3>2, <3>4, <3>6, <4>1
      <4> QED
        BY <4>1, <4>2
    <3>8. k # 1 => q[c] = "&"
      BY <3>A, <3>4, <3>6
    <3>9. ASSUME NEW j \in 1 .. Len(z), z[j] = "&" PROVE k # 1 /\ j = 1
      <4>1. j \in 1 .. Len(x)
        BY <3>3, <3>4, <3>9
      <4> QED
        BY <3>A, <4>1
    <3>10. Reads(q, c + 1, y)
      BY <3>4, <3>6
    <3> QED
      BY <3>1, <3>3, <3>5, <3>7, <3>8, <3>9, <3>10
  <2>3. ASSUME NEW i \in 1 .. Len(q) PROVE q[i] = "&" <=> \E k \in 1 .. n - 1 : i = e[k]
    <3>1. ASSUME q[i] = "&" PROVE \E k \in 1 .. n - 1 : i = e[k]
      <4>1. PICK k \in 1 .. n : \E j \in 1 .. Len(P[k]) : i = at[k - 1] + j /\ q[i] = P[k][j]
        BY <1>5
      <4>2. PICK j \in 1 .. Len(P[k]) : i = at[k - 1] + j /\ q[i] = P[k][j]
        BY <4>1
      <4>3. k # 1 /\ j = 1
        BY <2>2, <3>1, <4>2
      <4>4. k - 1 \in 1 .. n - 1 /\ i = e[k - 1]
        <5>1. n \in Nat /\ e[k - 1] = at[k - 1] + 1
          BY <1>2, <2>1, <4>3
        <5> QED
          BY <4>2, <4>3, <5>1
      <4> QED
        BY <4>4
    <3>2. ASSUME NEW k \in 1 .. n - 1, i = e[k] PROVE q[i] = "&"
      <4>1. k + 1 \in 1 .. n /\ k + 1 # 1 /\ (k + 1) - 1 = k
        BY <1>2
      <4>2. q[e[(k + 1) - 1]] = "&"
        BY <2>2, <4>1, Zenon
      <4> QED
        BY <3>2, <4>1, <4>2
    <3> QED
      BY <3>1, <3>2
  <2>4. Cut(q, n, p, e)
    BY <2>1, <2>2, <2>3 DEF Cut
  <2>5. H!Pieces(q) = {p[k] : k \in 1 .. n}
    <3>1. IsText(q) /\ n \in Nat \ {0} /\ e \in [0 .. n -> Nat]
      BY <1>2, <1>4, <1>10, <2>1
    <3> QED
      BY <2>4, <3>1, PiecesAre
  <2>6. H!ParseQuery(q) = {Named(x) : x \in {y \in H!Pieces(q) : Named(y)[1] # << >>}}
    BY DEF H!ParseQuery, Named
  <2>7. \A k \in 1 .. n : Named(p[k]) = fields[k] /\ Named(p[k])[1] # << >>
    BY <1>2, <1>8
  <2>8. {y \in H!Pieces(q) : Named(y)[1] # << >>} = {p[k] : k \in 1 .. n}
    BY <2>5, <2>7
  <2>9. H!ParseQuery(q) = {fields[k] : k \in 1 .. n}
    <3>1. H!ParseQuery(q) = {Named(x) : x \in {p[k] : k \in 1 .. n}}
      BY <2>6, <2>8, Zenon
    <3>2. {Named(x) : x \in {p[k] : k \in 1 .. n}} = {Named(p[k]) : k \in 1 .. n}
      OBVIOUS
    <3> QED
      BY <2>7, <3>1, <3>2
  <2>10. H!ToSet(fields) = {fields[k] : k \in 1 .. n}
    <3>1. DOMAIN fields = 1 .. n
      BY <1>7
    <3> QED
      BY <3>1 DEF H!ToSet
  <2> QED
    BY <1>1, <1>6, <2>9, <2>10
<1> QED
  BY <1>9, <1>10


--------------------------------------------------------------------------------
(* The request's first line. *)

\* The first place of a token between two places, 0 for none.
Within(line, t, from, to) ==
  LET I == {i \in from .. to : line[i] = t} IN IF I # {} THEN H!Min(I) ELSE 0

LEMMA WithinIs ==
  ASSUME NEW line, NEW t, NEW from \in Nat, NEW to \in Nat
  PROVE  /\ \A k \in from .. to : line[k] = t /\ (\A i \in from .. k - 1 : line[i] # t) => Within(line, t, from, to) = k
         /\ (\A i \in from .. to : line[i] # t) => Within(line, t, from, to) = 0
<1>1. ASSUME NEW k \in from .. to, line[k] = t, \A i \in from .. k - 1 : line[i] # t PROVE Within(line, t, from, to) = k
  <2> DEFINE I == {i \in from .. to : line[i] = t}
  <2>1. I \in SUBSET Nat /\ k \in I /\ \A m \in I : k <= m
    BY <1>1
  <2>2. H!Min(I) = k
    <3> HIDE DEF I
    <3> QED
      BY <2>1, MinIs
  <2>3. Within(line, t, from, to) = IF I # {} THEN H!Min(I) ELSE 0
    BY DEF Within
  <2> QED
    BY <2>1, <2>2, <2>3
<1>2. ASSUME \A i \in from .. to : line[i] # t PROVE Within(line, t, from, to) = 0
  <2> DEFINE I == {i \in from .. to : line[i] = t}
  <2>1. I = {}
    BY <1>2
  <2>2. Within(line, t, from, to) = IF I # {} THEN H!Min(I) ELSE 0
    BY DEF Within
  <2> QED
    BY <2>1, <2>2
<1> QED
  BY <1>1, <1>2

\* What a request's first line says of path and query.
Line(p) == <<"GET", "SP">> \o p \o <<"SP", "HTTP", "/", "1.1", "CR">>

LEMMA LineHas ==
  ASSUME NEW p, Without(p, {"SP"}), NEW l, l = Len(p)
  PROVE  /\ IsText(Line(p)) /\ l \in Nat /\ Len(Line(p)) = l + 7 /\ Reads(Line(p), 3, p)
         /\ Line(p)[1] = "GET" /\ Line(p)[2] = "SP" /\ \A i \in 3 .. l + 2 : Line(p)[i] # "SP"
         /\ Line(p)[l + 3] = "SP" /\ Line(p)[l + 4] = "HTTP" /\ Line(p)[l + 5] = "/"
         /\ Line(p)[l + 6] = "1.1" /\ Line(p)[l + 7] = "CR"
<1>1. PICK g, v, line : g = <<"GET", "SP">> /\ v = <<"SP", "HTTP", "/", "1.1", "CR">> /\ line = g \o p \o v
  OBVIOUS
<1>2. line = Line(p)
  BY <1>1 DEF Line
<1>3. IsText(g) /\ Len(g) = 2 /\ g[1] = "GET" /\ g[2] = "SP"
  <2>1. g \in Seq({"GET", "SP"})
    BY <1>1
  <2>2. IsText(g)
    BY <2>1 DEF IsText
  <2> QED
    BY <1>1, <2>2
<1>4. IsText(v) /\ Len(v) = 5 /\ v[1] = "SP" /\ v[2] = "HTTP" /\ v[3] = "/" /\ v[4] = "1.1" /\ v[5] = "CR"
  <2>1. v \in Seq({"SP", "HTTP", "/", "1.1", "CR"})
    BY <1>1
  <2>2. IsText(v)
    BY <2>1 DEF IsText
  <2> QED
    BY <1>1, <2>2
<1>5. IsText(p) /\ l \in Nat /\ \A i \in 1 .. l : p[i] # "SP"
  BY TextIs DEF Without
<1>6. /\ IsText(line) /\ Len(line) = Len(g) + Len(p) + Len(v)
      /\ \A i \in 1 .. Len(g) : line[i] = g[i]
      /\ \A i \in 1 .. Len(p) : line[Len(g) + i] = p[i]
      /\ \A i \in 1 .. Len(v) : line[Len(g) + Len(p) + i] = v[i]
  <2>1. IsText(g) /\ IsText(p) /\ IsText(v)
    BY <1>3, <1>4, <1>5
  <2>2. LET lines == g \o p \o v IN
          /\ IsText(lines) /\ Len(lines) = Len(g) + Len(p) + Len(v)
          /\ \A i \in 1 .. Len(g) : lines[i] = g[i]
          /\ \A i \in 1 .. Len(p) : lines[Len(g) + i] = p[i]
          /\ \A i \in 1 .. Len(v) : lines[Len(g) + Len(p) + i] = v[i]
    BY <2>1, Around
  <2> QED
    BY <1>1, <2>2, Zenon
<1>7. Len(line) = l + 7 /\ \A i \in 1 .. l : line[2 + i] = p[i]
  BY <1>3, <1>4, <1>5, <1>6
<1>8. line[1] = "GET" /\ line[2] = "SP"
  BY <1>3, <1>6
<1>9. \A i \in 1 .. 5 : line[l + 2 + i] = v[i]
  BY <1>3, <1>4, <1>5, <1>6
<1>10. line[l + 3] = "SP" /\ line[l + 4] = "HTTP" /\ line[l + 5] = "/" /\ line[l + 6] = "1.1" /\ line[l + 7] = "CR"
  <2>1. l + 2 + 1 = l + 3 /\ l + 2 + 2 = l + 4 /\ l + 2 + 3 = l + 5 /\ l + 2 + 4 = l + 6 /\ l + 2 + 5 = l + 7
    BY <1>5
  <2>2. line[l + 2 + 1] = "SP" /\ line[l + 2 + 2] = "HTTP" /\ line[l + 2 + 3] = "/" /\ line[l + 2 + 4] = "1.1"
        /\ line[l + 2 + 5] = "CR"
    BY <1>4, <1>9
  <2> QED
    BY <2>1, <2>2
<1>11. ASSUME NEW i \in 3 .. l + 2 PROVE line[i] # "SP"
  <2>1. i - 2 \in 1 .. l /\ 2 + (i - 2) = i
    BY <1>5
  <2> QED
    BY <1>5, <1>7, <2>1
<1>12. Reads(line, 3, p)
  <2>1. \A i \in 1 .. l : 3 + i - 1 = 2 + i
    BY <1>5
  <2> QED
    BY <1>5, <1>7, <2>1 DEF Reads
<1> QED
  BY <1>2, <1>5, <1>6, <1>7, <1>8, <1>10, <1>11, <1>12

\* A target that is a path x with a query y behind it, or without one.
IsTarget(p, x, y) ==
  /\ Without(x, {"SP", "?"}) /\ Without(y, {"SP"})
  /\ (p = x /\ y = << >>) \/ p = x \o <<"?">> \o y

\* The mark, the path and the query are found again in the target.
LEMMA TargetHas ==
  ASSUME NEW p, NEW x, NEW y, IsTarget(p, x, y)
  PROVE  /\ Without(p, {"SP"}) /\ Len(x) \in Nat /\ Reads(p, 1, x) /\ \A i \in 1 .. Len(x) : p[i] # "?"
         /\ \/ y = << >> /\ Len(p) = Len(x)
            \/ Len(p) = Len(x) + Len(y) + 1 /\ p[Len(x) + 1] = "?" /\ Reads(p, Len(x) + 2, y)
<1>1. IsText(x) /\ IsText(y) /\ Without(x, {"SP"}) /\ Without(y, {"SP"}) /\ \A i \in 1 .. Len(x) : x[i] # "?"
  <2>1. Without(x, {"SP", "?"}) /\ Without(y, {"SP"})
    BY DEF IsTarget
  <2>2. Without(x, {"SP"})
    BY <2>1, WithoutLess
  <2> QED
    BY <2>1, <2>2 DEF Without
<1>2. CASE p = x /\ y = << >>
  <2>1. Reads(x, 1, x)
    <3>1. Len(x) \in Nat /\ \A i \in 1 .. Len(x) : 1 + i - 1 = i
      BY <1>1, TextIs
    <3> QED
      BY <3>1 DEF Reads
  <2>2. Len(x) \in Nat
    BY <1>1, TextIs
  <2> QED
    BY <1>1, <1>2, <2>1, <2>2
<1>3. CASE p = x \o <<"?">> \o y
  <2>1. PICK m, z : m = <<"?">> /\ z = x \o m
    OBVIOUS
  <2>2. IsText(m) /\ Len(m) = 1 /\ m[1] = "?" /\ Without(m, {"SP"})
    BY <2>1, Word, OtherWord
  <2>3. Len(x) \in Nat /\ Len(y) \in Nat /\ IsText(z) /\ Len(z) = Len(x) + Len(m)
        /\ (\A i \in 1 .. Len(x) : z[i] = x[i]) /\ \A i \in 1 .. Len(m) : z[Len(x) + i] = m[i]
    <3>1. IsText(x) /\ IsText(m)
      BY <1>1, <2>2
    <3>2. IsText(x \o m) /\ Len(x \o m) = Len(x) + Len(m)
          /\ (\A i \in 1 .. Len(x) : (x \o m)[i] = x[i]) /\ \A i \in 1 .. Len(m) : (x \o m)[Len(x) + i] = m[i]
      BY <3>1, Joined
    <3>3. Len(x) \in Nat /\ Len(y) \in Nat
      BY <1>1, TextIs
    <3> QED
      BY <2>1, <3>2, <3>3
  <2>4. p = z \o y
    BY <1>3, <2>1
  <2>5. /\ Len(p) = Len(z) + Len(y) /\ Reads(p, Len(z) + 1, y) /\ Reads(p, 1, z)
        /\ \A i \in 1 .. Len(z) : p[i] = z[i]
    <3>1. IsText(z) /\ IsText(y)
      BY <1>1, <2>3
    <3>2. Len(z \o y) = Len(z) + Len(y) /\ Reads(z \o y, Len(z) + 1, y) /\ Reads(z \o y, 1, z)
          /\ \A i \in 1 .. Len(z) : (z \o y)[i] = z[i]
      BY <3>1, Joined, ReadsJoined
    <3> QED
      BY <2>4, <3>2
  <2>6. Len(z) = Len(x) + 1 /\ z[Len(x) + 1] = "?"
    <3>1. 1 \in 1 .. Len(m)
      BY <2>2
    <3> QED
      BY <2>2, <2>3, <3>1
  <2>7. \A i \in 1 .. Len(x) : p[i] = x[i]
    BY <2>3, <2>5, <2>6
  <2>8. Len(p) = Len(x) + Len(y) + 1 /\ p[Len(x) + 1] = "?"
    BY <2>3, <2>5, <2>6
  <2>9. Reads(p, 1, x)
    <3>1. Len(x) \in Nat /\ \A i \in 1 .. Len(x) : 1 + i - 1 = i
      BY <2>3
    <3> QED
      BY <2>3, <2>7, <2>8, <3>1 DEF Reads
  <2>10. Without(p, {"SP"})
    <3>1. Without(x \o m, {"SP"})
      BY <1>1, <2>2, WithoutBoth
    <3>2. Without(z, {"SP"})
      BY <2>1, <3>1
    <3>3. Without(z \o y, {"SP"})
      BY <1>1, <3>2, WithoutBoth
    <3> QED
      BY <2>4, <3>3
  <2>11. Reads(p, Len(x) + 2, y)
    <3>1. Len(z) + 1 = Len(x) + 2
      BY <2>3, <2>6
    <3> QED
      BY <2>5, <3>1
  <2> QED
    BY <1>1, <2>3, <2>7, <2>8, <2>9, <2>10, <2>11
<1> QED
  BY <1>2, <1>3 DEF IsTarget

LEMMA LineRead ==
  ASSUME NEW p, NEW x, NEW y, IsTarget(p, x, y)
  PROVE  H!RequestLine(Line(p)) = {[method |-> <<"GET">>, path |-> x, query_string |-> y, version |-> <<"1.1">>]}
<1>1. PICK line, l, n, s : line = Line(p) /\ l = Len(p) /\ n = Len(x) /\ s = l + 3
  OBVIOUS
<1>2. /\ Without(p, {"SP"}) /\ n \in Nat /\ Reads(p, 1, x) /\ \A i \in 1 .. n : p[i] # "?"
      /\ \/ y = << >> /\ l = n
         \/ l = n + Len(y) + 1 /\ p[n + 1] = "?" /\ Reads(p, n + 2, y)
  BY <1>1, TargetHas
<1>3. /\ IsText(line) /\ l \in Nat /\ Len(line) = l + 7 /\ Reads(line, 3, p)
      /\ line[1] = "GET" /\ line[2] = "SP" /\ (\A i \in 3 .. l + 2 : line[i] # "SP")
      /\ line[l + 3] = "SP" /\ line[l + 4] = "HTTP" /\ line[l + 5] = "/"
      /\ line[l + 6] = "1.1" /\ line[l + 7] = "CR"
  <2>1. Without(p, {"SP"}) /\ l = Len(p)
    BY <1>1, <1>2
  <2>2. /\ IsText(Line(p)) /\ l \in Nat /\ Len(Line(p)) = l + 7 /\ Reads(Line(p), 3, p)
        /\ Line(p)[1] = "GET" /\ Line(p)[2] = "SP" /\ (\A i \in 3 .. l + 2 : Line(p)[i] # "SP")
        /\ Line(p)[l + 3] = "SP" /\ Line(p)[l + 4] = "HTTP" /\ Line(p)[l + 5] = "/"
        /\ Line(p)[l + 6] = "1.1" /\ Line(p)[l + 7] = "CR"
    BY <2>1, LineHas
  <2> QED
    BY <1>1, <2>2, Zenon
<1>A. IsText(x) /\ IsText(y) /\ IsText(p) /\ IsText(line)
  BY <1>2, <1>3 DEF IsTarget, Without
<1>4. H!Find(line, "SP") = 2
  <2>1. \A i \in 1 .. 2 - 1 : line[i] # "SP"
    BY <1>3
  <2>2. Len(line) \in Nat /\ 2 \in 1 .. Len(line)
    BY <1>3
  <2> QED
    BY <1>3, <2>1, <2>2, Found DEF H!Find
<1>5. H!FindFrom(line, "SP", 3) = s
  <2>1. /\ Len(line) \in Nat /\ s \in 3 .. Len(line) /\ line[s] = "SP"
        /\ \A i \in 3 .. s - 1 : line[i] # "SP"
    BY <1>1, <1>3
  <2> QED
    BY <2>1, Found
<1>6. H!FindFrom(line, "/", s + 1) = s + 2
  <2>1. PICK u, w : u = s + 1 /\ w = s + 2
    OBVIOUS
  <2>2. /\ Len(line) \in Nat /\ u \in Nat \ {0} /\ w \in u .. Len(line) /\ line[w] = "/"
        /\ \A i \in u .. w - 1 : line[i] # "/"
    <3>1. line[s + 1] = "HTTP" /\ line[s + 2] = "/"
      <4>1. s + 1 = l + 4 /\ s + 2 = l + 5
        BY <1>1, <1>3
      <4> QED
        BY <1>3, <4>1
    <3>2. \A i \in u .. w - 1 : i = u
      BY <1>1, <1>3, <2>1
    <3> QED
      BY <1>1, <1>3, <2>1, <3>1, <3>2
  <2>3. H!FindFrom(line, "/", u) = w
    BY <2>2, Found
  <2> QED
    BY <2>1, <2>3
<1>7. SubSeq(line, s + 1, s + 2 - 1) = <<"HTTP">> /\ SubSeq(line, 1, 2 - 1) = <<"GET">>
      /\ SubSeq(line, s + 2 + 1, Len(line) - 1) = <<"1.1">>
  <2>1. ASSUME NEW k \in 1 .. Len(line), NEW w, line[k] = w PROVE SubSeq(line, k, k) = <<w>>
    <3>1. PICK t : t = <<w>>
      OBVIOUS
    <3>2. IsText(t) /\ Len(t) = 1 /\ t[1] = w
      BY <3>1, Word
    <3>3. k \in Nat \ {0} /\ k + 1 - 1 = k /\ k <= Len(line) /\ Len(line) \in Nat
      BY <1>3
    <3>4. Reads(line, k, t)
      <4>1. \A i \in 1 .. 1 : i = 1
        OBVIOUS
      <4> QED
        BY <2>1, <3>2, <3>3, <4>1 DEF Reads
    <3>5. k = k + Len(t) - 1
      BY <3>2, <3>3
    <3>6. SubSeq(line, k, k) = t
      <4>1. PICK h, z : h = k /\ z = k
        OBVIOUS
      <4>2. IsText(line) /\ IsText(t) /\ h \in Nat \ {0} /\ z = h + Len(t) - 1 /\ Reads(line, h, t)
        BY <1>A, <3>2, <3>3, <3>4, <3>5, <4>1
      <4>3. SubSeq(line, h, z) = t
        BY <4>2, CutIs
      <4> QED
        BY <4>1, <4>3
    <3> QED
      BY <3>1, <3>6
  <2>2. /\ s + 1 \in 1 .. Len(line) /\ line[s + 1] = "HTTP" /\ s + 2 - 1 = s + 1
        /\ s + 3 \in 1 .. Len(line) /\ line[s + 3] = "1.1" /\ s + 2 + 1 = s + 3 /\ Len(line) - 1 = s + 3
        /\ 1 \in 1 .. Len(line) /\ 2 - 1 = 1
    <3>1. s + 1 = l + 4 /\ s + 3 = l + 6 /\ Len(line) = s + 4 /\ s \in Nat
      BY <1>1, <1>3
    <3> QED
      BY <1>3, <3>1
  <2> QED
    BY <1>3, <2>1, <2>2
<1>8. Reads(line, 3, x) /\ SubSeq(line, 3, n + 2) = x
  <2>1. Reads(line, 3, x)
    BY <1>2, <1>3, <1>A, ReadsPart
  <2>2. n + 2 = 3 + Len(x) - 1
    BY <1>1, <1>2
  <2>3. PICK z : z = n + 2
    OBVIOUS
  <2>4. z = 3 + Len(x) - 1
    BY <2>2, <2>3
  <2>5. SubSeq(line, 3, z) = x
    BY <1>3, <1>A, <2>1, <2>4, CutIs
  <2> QED
    BY <2>1, <2>3, <2>5
<1>9. \A i \in 3 .. n + 2 : line[i] # "?"
  <2> SUFFICES ASSUME NEW i \in 3 .. n + 2 PROVE line[i] # "?"
    OBVIOUS
  <2>1. i - 2 \in 1 .. n /\ 3 + (i - 2) - 1 = i
    BY <1>2
  <2>2. line[3 + (i - 2) - 1] = x[i - 2] /\ p[1 + (i - 2) - 1] = x[i - 2] /\ 1 + (i - 2) - 1 = i - 2
    BY <1>1, <1>2, <1>8, <2>1 DEF Reads
  <2> QED
    BY <1>2, <2>1, <2>2
<1> DEFINE query == Within(line, "?", 3, s - 1)
<1>10. H!RequestLine(line) =
         {[method |-> <<"GET">>, path |-> SubSeq(line, 3, (IF query = 0 THEN s ELSE query) - 1),
           query_string |-> IF query = 0 THEN << >> ELSE SubSeq(line, query + 1, s - 1), version |-> <<"1.1">>]}
  <2>1. PICK method, end, slash, q : /\ method = H!Find(line, "SP") /\ end = H!FindFrom(line, "SP", method + 1)
                                     /\ slash = H!FindFrom(line, "/", end + 1) /\ q = Within(line, "?", method + 1, end - 1)
    OBVIOUS
  <2>2. H!RequestLine(line) =
          IF method = 0 \/ end = 0 \/ slash = 0 \/ SubSeq(line, end + 1, slash - 1) # <<"HTTP">> THEN {}
          ELSE {[method |-> SubSeq(line, 1, method - 1), path |-> SubSeq(line, method + 1, (IF q = 0 THEN end ELSE q) - 1),
                 query_string |-> IF q = 0 THEN << >> ELSE SubSeq(line, q + 1, end - 1),
                 version |-> SubSeq(line, slash + 1, Len(line) - 1)]}
    BY <2>1, Zenon DEF H!RequestLine, H!SelectInSubSeq, Within
  <2>3. method = 2 /\ end = s /\ slash = s + 2
    <3>1. method = 2
      BY <1>4, <2>1
    <3>2. method + 1 = 3
      BY <3>1
    <3>3. end = s
      BY <1>5, <2>1, <3>2
    <3> QED
      BY <1>6, <2>1, <3>1, <3>3
  <2>4. q = query /\ method + 1 = 3
    <3>1. method + 1 = 3
      BY <2>3
    <3> QED
      BY <2>1, <2>3, <3>1
  <2>5. method # 0 /\ end # 0 /\ slash # 0
    BY <1>1, <1>3, <2>3
  <2> HIDE DEF query
  <2>6. SubSeq(line, end + 1, slash - 1) = <<"HTTP">> /\ SubSeq(line, 1, method - 1) = <<"GET">>
        /\ SubSeq(line, slash + 1, Len(line) - 1) = <<"1.1">>
    <3>1. method - 1 = 2 - 1 /\ slash + 1 = s + 2 + 1 /\ slash - 1 = s + 2 - 1 /\ end + 1 = s + 1
      <4>1. s \in Nat
        BY <1>1, <1>3
      <4> QED
        BY <2>3, <4>1
    <3>2. SubSeq(line, 1, method - 1) = SubSeq(line, 1, 2 - 1)
      BY <3>1, Zenon
    <3>3. SubSeq(line, end + 1, slash - 1) = SubSeq(line, s + 1, s + 2 - 1)
      BY <3>1, Zenon
    <3>4. SubSeq(line, slash + 1, Len(line) - 1) = SubSeq(line, s + 2 + 1, Len(line) - 1)
      BY <3>1, Zenon
    <3> QED
      BY <1>7, <3>2, <3>3, <3>4, Zenon
  <2> QED
    BY <2>2, <2>3, <2>4, <2>5, <2>6, Zenon
<1>11. CASE y = << >> /\ l = n
  <2>1. query = 0
    <3>1. s - 1 = n + 2 /\ s - 1 \in Nat
      BY <1>1, <1>2, <1>11
    <3>2. \A i \in 3 .. s - 1 : line[i] # "?"
      BY <1>9, <3>1
    <3> QED
      BY <3>1, <3>2, WithinIs
  <2>2. s - 1 = n + 2
    BY <1>1, <1>2, <1>11
  <2> HIDE DEF query
  <2> QED
    BY <1>1, <1>8, <1>10, <1>11, <2>1, <2>2, Zenon
<1>12. CASE l = n + Len(y) + 1 /\ p[n + 1] = "?" /\ Reads(p, n + 2, y)
  <2>0. PICK b, ly : b = n + 3 /\ ly = Len(y) /\ ly \in Nat
    BY <1>A, TextIs
  <2>1. s = n + ly + 4 /\ b \in 3 .. s - 1 /\ s - 1 \in Nat
    BY <1>1, <1>2, <1>12, <2>0
  <2>2. line[b] = "?"
    <3>1. n + 1 \in 1 .. Len(p) /\ 3 + (n + 1) - 1 = b
      BY <1>1, <1>2, <1>12, <2>0
    <3>2. line[3 + (n + 1) - 1] = p[n + 1]
      BY <1>3, <3>1, Zenon DEF Reads
    <3> QED
      BY <1>12, <3>1, <3>2
  <2>3. query = b
    <3>1. \A i \in 3 .. b - 1 : line[i] # "?"
      BY <1>2, <1>9, <2>0
    <3> QED
      BY <2>1, <2>2, <3>1, WithinIs
  <2>4. SubSeq(line, b + 1, s - 1) = y
    <3>1. PICK m, k, z : m = n + 2 /\ k = b + 1 /\ z = s - 1
      OBVIOUS
    <3>2. m \in Nat \ {0} /\ k = 3 + m - 1 /\ k \in Nat \ {0} /\ z = k + Len(y) - 1
      BY <1>2, <2>0, <2>1, <3>1
    <3>3. Reads(p, m, y)
      BY <1>12, <3>1
    <3>4. Reads(line, k, y)
      BY <1>3, <1>A, <3>2, <3>3, ReadsPart
    <3>5. SubSeq(line, k, z) = y
      BY <1>A, <3>2, <3>4, CutIs
    <3> QED
      BY <3>1, <3>5
  <2>5. query # 0 /\ b - 1 = n + 2
    BY <1>2, <2>0, <2>3
  <2> HIDE DEF query
  <2> QED
    BY <1>1, <1>8, <1>10, <2>3, <2>4, <2>5, Zenon
<1> QED
  BY <1>2, <1>11, <1>12


--------------------------------------------------------------------------------
(* The host and the port of a URL. *)

\* What parse_host_port has found so far.
State(h, p, parse, c) == [host |-> h, port |-> p, parse_port |-> parse, square_count |-> c]

\* The states of its loop over a text.
Walks(g, w) == g[0] = State(<< >>, << >>, FALSE, 0) /\ \A i \in 1 .. Len(w) : g[i] = H!Parsed(g[i - 1], w[i])

LEMMA ParsedStays ==
  ASSUME NEW T, NEW r \in [host : Seq(T), port : Seq(T), parse_port : BOOLEAN, square_count : Int], NEW x \in T
  PROVE  H!Parsed(r, x) \in [host : Seq(T), port : Seq(T), parse_port : BOOLEAN, square_count : Int]
<1>1. Append(r.host, x) \in Seq(T) /\ Append(r.port, x) \in Seq(T)
  OBVIOUS
<1>2. CASE x = "["
  BY <1>2 DEF H!Parsed
<1>3. CASE x = "]"
  BY <1>3 DEF H!Parsed
<1>4. CASE x = ":" /\ r.square_count = 0
  BY <1>4 DEF H!Parsed
<1>5. CASE x # "[" /\ x # "]" /\ ~(x = ":" /\ r.square_count = 0)
  <2>1. H!Parsed(r, x) = IF r.parse_port THEN [r EXCEPT !.port = Append(r.port, x)] ELSE [r EXCEPT !.host = Append(r.host, x)]
    BY <1>5 DEF H!Parsed
  <2> QED
    BY <1>1, <2>1
<1> QED
  BY <1>2, <1>3, <1>4, <1>5

LEMMA HostAndPortIs ==
  ASSUME NEW w, IsText(w)
  PROVE  \E g : Walks(g, w) /\ H!HostAndPort(w) = g[Len(w)]
<1>1. PICK T : w \in Seq(T)
  BY DEF IsText
<1>2. PICK n \in Nat : n = Len(w) /\ \A i \in 1 .. n : w[i] \in T
  BY <1>1
<1>3. PICK V : V = [host : Seq(T), port : Seq(T), parse_port : BOOLEAN, square_count : Int]
  OBVIOUS
<1> DEFINE start == State(<< >>, << >>, FALSE, 0)
           Op == [i \in 1 .. n |-> [v \in V |-> H!Parsed(v, w[i])]]
<1>4. start \in V
  BY <1>3 DEF State
<1>5. \A i \in 1 .. n, v \in V : Op[i][v] = H!Parsed(v, w[i]) /\ Op[i][v] \in V
  BY <1>2, <1>3, ParsedStays
<1> HIDE DEF Op, start
<1>6. PICK g \in [0 .. n -> V] : Runs(g, n, start, Op)
  BY <1>4, <1>5, RunExists
<1>7. g[0] = start /\ \A i \in 1 .. n : i - 1 \in 0 .. n /\ g[i] = H!Parsed(g[i - 1], w[i])
  <2>1. \A i \in 1 .. n : i - 1 \in 0 .. n /\ i \in 0 .. n
    OBVIOUS
  <2> QED
    BY <1>5, <1>6, <2>1 DEF Runs
<1> DEFINE Step(f, i) == IF i = 0 THEN start ELSE H!Parsed(f[i - 1], w[i])
           it == CHOOSE f : f = [i \in 0 .. n |-> Step(f, i)]
<1>8. g = [i \in 0 .. n |-> Step(g, i)]
  <2>1. \A i \in 0 .. n : g[i] = Step(g, i)
    BY <1>7
  <2> HIDE DEF Step
  <2> QED
    BY <2>1
<1>9. it = [i \in 0 .. n |-> Step(it, i)]
  <2> HIDE DEF Step
  <2> QED
    BY <1>8
<1>10. H!HostAndPort(w) = it[n]
  BY <1>2 DEF H!HostAndPort, State, start
<1> HIDE DEF it
<1>11. Walks(it, w)
  <2>1. it[0] = start
    BY <1>9
  <2>2. \A i \in 1 .. n : it[i] = H!Parsed(it[i - 1], w[i])
    <3> SUFFICES ASSUME NEW i \in 1 .. n PROVE it[i] = H!Parsed(it[i - 1], w[i])
      OBVIOUS
    <3>1. i \in 0 .. n /\ i # 0
      OBVIOUS
    <3>2. it[i] = Step(it, i)
      <4> HIDE DEF Step
      <4> QED
        BY <1>9, <3>1
    <3> QED
      BY <3>1, <3>2
  <2> QED
    BY <1>2, <2>1, <2>2 DEF Walks, start
<1> QED
  BY <1>2, <1>10, <1>11

LEMMA Brackets ==
  ASSUME NEW h, NEW p, NEW f, NEW c \in Int
  PROVE  /\ H!Parsed(State(h, p, f, c), "[") = State(h, p, f, c + 1)
         /\ H!Parsed(State(h, p, f, c), "]") = State(h, p, f, c - 1)
<1>1. PICK d, e : d = c + 1 /\ e = c - 1
  OBVIOUS
<1>2. "]" # "["
  OBVIOUS
<1>3. H!Parsed(State(h, p, f, c), "[") = [State(h, p, f, c) EXCEPT !.square_count = d]
  BY <1>1 DEF H!Parsed, State
<1>4. H!Parsed(State(h, p, f, c), "]") = [State(h, p, f, c) EXCEPT !.square_count = e]
  BY <1>1, <1>2 DEF H!Parsed, State
<1>5. \A n : [State(h, p, f, c) EXCEPT !.square_count = n] = State(h, p, f, n)
  BY DEF State
<1> QED
  BY <1>1, <1>3, <1>4, <1>5, Zenon

\* A host that is read to its end, outside of brackets or in them.
Plain(host, c) == \A i \in 1 .. Len(host) : host[i] \notin {"[", "]"} /\ (c = 0 => host[i] # ":")

\* The host has been read to h.
InHost(g, m, h, c) == g[m] = State(h, << >>, FALSE, c)

\* One more character of the host.
LEMMA HostGrows ==
  ASSUME NEW host, IsText(host), NEW k \in 1 .. Len(host), NEW c \in Int,
         host[k] \notin {"[", "]"}, c = 0 => host[k] # ":"
  PROVE  H!Parsed(State(SubSeq(host, 1, k - 1), << >>, FALSE, c), host[k]) = State(SubSeq(host, 1, k), << >>, FALSE, c)
<1>1. PICK h, x, h2 : h = SubSeq(host, 1, k - 1) /\ x = host[k] /\ h2 = SubSeq(host, 1, k)
  OBVIOUS
<1>2. Append(h, x) = h2
  <2>1. PICK T : host \in Seq(T)
    BY DEF IsText
  <2>2. Len(host) \in Nat /\ x \in T
    BY <1>1, <2>1
  <2>3. h \in Seq(T) /\ Len(h) = k - 1 /\ \A i \in 1 .. k - 1 : h[i] = host[i]
    BY <1>1, <2>1, <2>2
  <2>4. h2 \in Seq(T) /\ Len(h2) = k /\ \A i \in 1 .. k : h2[i] = host[i]
    BY <1>1, <2>1, <2>2
  <2>5. /\ Append(h, x) \in Seq(T) /\ Len(Append(h, x)) = k /\ Append(h, x)[k] = x
        /\ \A i \in 1 .. k - 1 : Append(h, x)[i] = h[i]
    BY <2>2, <2>3
  <2>6. ASSUME NEW i \in 1 .. k PROVE Append(h, x)[i] = h2[i]
    <3>1. i = k \/ i \in 1 .. k - 1
      OBVIOUS
    <3> QED
      BY <1>1, <2>3, <2>4, <2>5, <3>1
  <2> QED
    BY <2>4, <2>5, <2>6, SeqEqual
<1>3. x # "[" /\ x # "]" /\ ~(x = ":" /\ c = 0)
  BY <1>1
<1>4. H!Parsed(State(h, << >>, FALSE, c), x) = State(Append(h, x), << >>, FALSE, c)
  BY <1>3 DEF H!Parsed, State
<1> QED
  BY <1>1, <1>2, <1>4

LEMMA WalkOverHost ==
  ASSUME NEW w, NEW g, Walks(g, w), NEW m \in Nat, NEW host, IsText(host), Reads(w, m + 1, host), NEW c \in Int,
         InHost(g, m, << >>, c), Plain(host, c)
  PROVE  InHost(g, m + Len(host), host, c)
<1>1. PICK n \in Nat : n = Len(host)
  BY TextIs
<1> DEFINE S == {i \in 0 .. n : g[m + i] = State(SubSeq(host, 1, i), << >>, FALSE, c)}
<1>2. 0 \in S
  <2>1. SubSeq(host, 1, 0) = << >>
    <3>1. PICK T : host \in Seq(T)
      BY DEF IsText
    <3> QED
      BY <3>1
  <2>2. m + 0 = m /\ 0 \in 0 .. n
    OBVIOUS
  <2> QED
    BY <2>1, <2>2 DEF InHost
<1>3. ASSUME NEW i \in 1 .. n, i - 1 \in S PROVE i \in S
  <2>1. PICK k : k = m + i
    OBVIOUS
  <2>2. k \in 1 .. Len(w) /\ k - 1 = m + (i - 1) /\ (m + 1) + i - 1 = k
    <3>1. Len(w) >= m + n
      BY <1>1 DEF Reads
    <3> QED
      BY <2>1, <3>1 DEF Reads
  <2>3. w[k] = host[i]
    <3>1. w[(m + 1) + i - 1] = host[i]
      BY <1>1 DEF Reads
    <3> QED
      BY <2>2, <3>1
  <2>4. g[k - 1] = State(SubSeq(host, 1, i - 1), << >>, FALSE, c)
    BY <1>3, <2>2
  <2>5. g[k] = H!Parsed(g[k - 1], w[k])
    BY <2>2 DEF Walks
  <2>6. H!Parsed(State(SubSeq(host, 1, i - 1), << >>, FALSE, c), host[i]) = State(SubSeq(host, 1, i), << >>, FALSE, c)
    <3>1. host[i] \notin {"[", "]"} /\ (c = 0 => host[i] # ":")
      BY <1>1 DEF Plain
    <3> QED
      BY <1>1, <3>1, HostGrows
  <2>7. g[k] = State(SubSeq(host, 1, i), << >>, FALSE, c)
    BY <2>3, <2>4, <2>5, <2>6, Zenon
  <2>8. g[m + i] = State(SubSeq(host, 1, i), << >>, FALSE, c)
    BY <2>1, <2>7, Zenon
  <2>9. i \in 0 .. n
    OBVIOUS
  <2> QED
    BY <2>8, <2>9, Zenon
<1>4. n \in S
  <2> HIDE DEF S
  <2>1. 0 .. n \subseteq S
    BY <1>2, <1>3, UpTheLine
  <2> QED
    BY <2>1
<1>5. SubSeq(host, 1, n) = host
  <2>1. PICK T : host \in Seq(T)
    BY DEF IsText
  <2> QED
    BY <1>1, <2>1, SubSeqFull
<1> QED
  BY <1>1, <1>4, <1>5 DEF InHost

\* The numbers of ports are 16 bits wide, no two writings of one are in use, and none has
\* a mark of a URL in it.
PortsAreNumbers ==
  /\ \A d \in DOMAIN PortNumber : PortNumber[d] < 2^16 /\ d \notin {"/", "[", "]", ":"}
  /\ \A d, e \in DOMAIN PortNumber : PortNumber[d] = PortNumber[e] => d = e

\* What an owner asks for: a host, a port perhaps, a path that begins with a slash and a
\* query behind it, none with the marks of a URL inside.
IsUrl(a) ==
  /\ Without(a.host, {"/", "[", "]"} \cup IF a.ipv6 THEN {} ELSE {":"}) /\ a.host # << >> /\ a.host[1] # "SP"
  /\ a.port = None \/ a.port \in DOMAIN PortNumber
  /\ Without(a.path, {"SP", "?"}) /\ (a.path # << >> => a.path[1] = "/") /\ (a.path = << >> => a.fields = << >>)
  /\ IsQuery(a.fields)

HostPart(a) == IF a.ipv6 THEN <<"[">> \o a.host \o <<"]">> ELSE a.host
PortPart(a) == IF a.port = None THEN << >> ELSE <<":", a.port>>

LEMMA PortPartIs ==
  ASSUME PortsAreNumbers, NEW a, IsUrl(a)
  PROVE  /\ Without(PortPart(a), {"/"})
         /\ a.port = None => Len(PortPart(a)) = 0
         /\ a.port # None => Len(PortPart(a)) = 2 /\ PortPart(a)[1] = ":" /\ PortPart(a)[2] = a.port
                             /\ a.port \notin {"/", "[", "]", ":"}
<1>1. CASE a.port = None
  BY <1>1, Nothing DEF PortPart, Without
<1>2. CASE a.port # None
  <2>1. PICK d, w : d = a.port /\ w = <<":", d>>
    OBVIOUS
  <2>2. d \notin {"/", "[", "]", ":"}
    BY <1>2, <2>1 DEF IsUrl, PortsAreNumbers
  <2>3. IsText(w) /\ Len(w) = 2 /\ w[1] = ":" /\ w[2] = d
    <3>1. w \in Seq({":", d})
      BY <2>1
    <3>2. IsText(w)
      BY <3>1 DEF IsText
    <3> QED
      BY <2>1, <3>2
  <2>4. Without(w, {"/"})
    <3>1. \A i \in 1 .. 2 : i = 1 \/ i = 2
      OBVIOUS
    <3> QED
      BY <2>2, <2>3, <3>1 DEF Without
  <2> QED
    BY <1>2, <2>1, <2>2, <2>3, <2>4 DEF PortPart
<1> QED
  BY <1>1, <1>2

LEMMA HostPartIs ==
  ASSUME NEW a, IsUrl(a), NEW h, h = a.host
  PROVE  /\ Without(HostPart(a), {"/"})
         /\ ~a.ipv6 => HostPart(a) = h /\ \A i \in 1 .. Len(h) : h[i] \notin {"[", "]", ":"}
         /\ a.ipv6 => /\ Len(HostPart(a)) = Len(h) + 2 /\ HostPart(a)[1] = "[" /\ Reads(HostPart(a), 2, h)
                      /\ HostPart(a)[Len(h) + 2] = "]" /\ \A i \in 1 .. Len(h) : h[i] \notin {"[", "]"}
<1>1. IsText(h) /\ Len(h) \in Nat /\ Without(h, {"/"}) /\ (\A i \in 1 .. Len(h) : h[i] \notin {"[", "]"})
      /\ (~a.ipv6 => \A i \in 1 .. Len(h) : h[i] # ":")
  <2>1. PICK marks : marks = {"/", "[", "]"} \cup IF a.ipv6 THEN {} ELSE {":"}
    OBVIOUS
  <2>2. Without(h, marks)
    BY <2>1 DEF IsUrl
  <2>3. "/" \in marks /\ "[" \in marks /\ "]" \in marks /\ (~a.ipv6 => ":" \in marks)
    BY <2>1
  <2>4. Without(h, {"/"})
    BY <2>2, <2>3, WithoutLess
  <2>5. IsText(h) /\ Len(h) \in Nat
    BY <2>4, TextIs DEF Without
  <2> QED
    BY <2>2, <2>3, <2>4, <2>5 DEF Without
<1>2. CASE ~a.ipv6
  <2>1. HostPart(a) = h
    BY <1>2 DEF HostPart
  <2> QED
    BY <1>1, <1>2, <2>1
<1>3. CASE a.ipv6
  <2>1. PICK x, y, z, w : x = <<"[">> /\ y = <<"]">> /\ z = x \o h /\ w = z \o y
    OBVIOUS
  <2>2. w = HostPart(a)
    BY <1>3, <2>1 DEF HostPart
  <2>3. IsText(x) /\ IsText(y) /\ Without(x, {"/"}) /\ Without(y, {"/"})
    BY <2>1, Word, OtherWord
  <2>4. Len(x) = 1 /\ Len(y) = 1 /\ x[1] = "[" /\ y[1] = "]"
    BY <2>1, Word
  <2>5. IsText(z) /\ Len(z) = Len(x) + Len(h) /\ (\A i \in 1 .. Len(x) : z[i] = x[i]) /\ Reads(z, Len(x) + 1, h)
        /\ Without(z, {"/"})
    <3>1. LET s == x \o h IN IsText(s) /\ Len(s) = Len(x) + Len(h) /\ (\A i \in 1 .. Len(x) : s[i] = x[i])
                             /\ Reads(s, Len(x) + 1, h) /\ Without(s, {"/"})
      BY <1>1, <2>3, Joined, ReadsJoined, WithoutBoth
    <3> QED
      BY <2>1, <3>1, Zenon
  <2>6. /\ Len(w) = Len(z) + Len(y) /\ (\A i \in 1 .. Len(z) : w[i] = z[i]) /\ Reads(w, Len(z) + 1, y)
        /\ Reads(w, 1, z) /\ Without(w, {"/"})
    <3>0. IsText(z) /\ Without(z, {"/"})
      BY <2>5
    <3>1. LET s == z \o y IN Len(s) = Len(z) + Len(y) /\ (\A i \in 1 .. Len(z) : s[i] = z[i]) /\ Reads(s, Len(z) + 1, y)
                             /\ Reads(s, 1, z) /\ Without(s, {"/"})
      BY <3>0, <2>3, Joined, ReadsJoined, WithoutBoth
    <3> QED
      BY <2>1, <3>1, Zenon
  <2>7. Len(z) = Len(h) + 1 /\ Len(w) = Len(h) + 2 /\ w[1] = "["
    BY <1>1, <2>4, <2>5, <2>6
  <2>8. Reads(w, 2, h)
    <3>1. IsText(w) /\ 1 \in Nat \ {0} /\ 2 \in Nat \ {0} /\ 2 = 1 + 2 - 1
      BY <2>6 DEF Without
    <3>2. Reads(z, 2, h)
      BY <2>4, <2>5
    <3>3. IsText(z)
      BY <2>5
    <3> QED
      BY <1>1, <2>6, <3>1, <3>2, <3>3, ReadsPart
  <2>9. w[Len(h) + 2] = "]"
    <3>1. w[(Len(z) + 1) + 1 - 1] = y[1] /\ (Len(z) + 1) + 1 - 1 = Len(h) + 2
      BY <1>1, <2>4, <2>6, <2>7 DEF Reads
    <3> QED
      BY <2>4, <3>1
  <2> QED
    BY <1>1, <1>3, <2>2, <2>6, <2>7, <2>8, <2>9
<1> QED
  BY <1>2, <1>3

\* parse_host_port gives back host and port (client_ws.hpp:370).
LEMMA HostPortRead ==
  ASSUME PortsAreNumbers, NEW a, IsUrl(a)
  PROVE  LET r == H!HostAndPort(HostPart(a) \o PortPart(a)) IN
         r.host = a.host /\ r.port = (IF a.port = None THEN << >> ELSE <<a.port>>)
<1>1. PICK x, y, w, h, lx : x = HostPart(a) /\ y = PortPart(a) /\ w = x \o y /\ h = a.host /\ lx = Len(x)
  OBVIOUS
<1>2. IsText(x) /\ IsText(y) /\ Len(x) \in Nat
  BY <1>1, HostPartIs, PortPartIs, TextIs DEF Without
<1>3. /\ IsText(w) /\ Len(w) = Len(x) + Len(y) /\ Reads(w, 1, x)
      /\ (\A i \in 1 .. Len(x) : w[i] = x[i]) /\ \A i \in 1 .. Len(y) : w[Len(x) + i] = y[i]
  <2>1. LET s == x \o y IN /\ IsText(s) /\ Len(s) = Len(x) + Len(y) /\ Reads(s, 1, x)
                           /\ (\A i \in 1 .. Len(x) : s[i] = x[i]) /\ \A i \in 1 .. Len(y) : s[Len(x) + i] = y[i]
    BY <1>2, Joined, ReadsJoined
  <2> QED
    BY <1>1, <2>1, Zenon
<1>4. PICK g : Walks(g, w) /\ H!HostAndPort(w) = g[Len(w)]
  BY <1>3, HostAndPortIs
<1>5. IsText(h) /\ Len(h) \in Nat
  <2>1. IsText(h)
    BY <1>1 DEF IsUrl, Without
  <2> QED
    BY <2>1, TextIs
<1>6. g[lx] = State(h, << >>, FALSE, 0)
  <2>1. CASE ~a.ipv6
    <3>1. x = h /\ \A i \in 1 .. Len(h) : h[i] \notin {"[", "]"} /\ (0 = 0 => h[i] # ":")
      BY <1>1, <2>1, HostPartIs
    <3>2. g[0] = State(<< >>, << >>, FALSE, 0) /\ Reads(w, 0 + 1, h)
      BY <1>3, <1>4, <3>1 DEF Walks
    <3>3. PICK m, c : m = 0 /\ c = 0
      OBVIOUS
    <3>4. /\ Walks(g, w) /\ m \in Nat /\ IsText(h) /\ Reads(w, m + 1, h) /\ c \in Int
          /\ InHost(g, m, << >>, c) /\ Plain(h, c)
      <4>1. Plain(h, c)
        BY <3>1, <3>3 DEF Plain
      <4>2. InHost(g, m, << >>, c) /\ Reads(w, m + 1, h)
        BY <3>2, <3>3, Zenon DEF InHost
      <4>3. m \in Nat /\ c \in Int
        BY <3>3
      <4> QED
        BY <1>4, <1>5, <4>1, <4>2, <4>3
    <3>5. InHost(g, m + Len(h), h, c)
      BY <3>4, WalkOverHost
    <3>6. m + Len(h) = lx
      BY <1>1, <1>5, <3>1, <3>3
    <3> QED
      BY <3>3, <3>5, <3>6, Zenon DEF InHost
  <2>2. CASE a.ipv6
    <3>1. /\ Len(x) = Len(h) + 2 /\ x[1] = "[" /\ Reads(x, 2, h) /\ x[Len(h) + 2] = "]"
          /\ \A i \in 1 .. Len(h) : h[i] \notin {"[", "]"} /\ (1 = 0 => h[i] # ":")
      BY <1>1, <2>2, HostPartIs
    <3>2. 1 \in 1 .. Len(w) /\ w[1] = "[" /\ Len(h) + 2 \in 1 .. Len(w) /\ w[Len(h) + 2] = "]"
      <4>1. Len(y) \in Nat
        BY <1>2, TextIs
      <4> QED
        BY <1>2, <1>3, <1>5, <3>1, <4>1
    <3>3. g[1] = State(<< >>, << >>, FALSE, 1)
      <4>1. g[1] = H!Parsed(g[1 - 1], w[1]) /\ 1 - 1 = 0
        BY <1>4, <3>2 DEF Walks
      <4>2. g[1] = H!Parsed(State(<< >>, << >>, FALSE, 0), "[")
        BY <1>4, <3>2, <4>1 DEF Walks
      <4>3. PICK c : c = 0 /\ c \in Int /\ c + 1 = 1
        OBVIOUS
      <4> QED
        BY <4>2, <4>3, Brackets
    <3>4. Reads(w, 1 + 1, h)
      <4>1. 1 \in Nat \ {0} /\ 2 \in Nat \ {0} /\ 2 = 1 + 2 - 1 /\ IsText(x) /\ IsText(w)
        BY <1>2, <1>3
      <4>2. Reads(w, 2, h)
        BY <1>3, <1>5, <3>1, <4>1, ReadsPart
      <4> QED
        BY <4>2
    <3>5. g[1 + Len(h)] = State(h, << >>, FALSE, 1)
      <4>1. PICK m, c : m = 1 /\ c = 1
        OBVIOUS
      <4>2. /\ Walks(g, w) /\ m \in Nat /\ IsText(h) /\ Reads(w, m + 1, h) /\ c \in Int
            /\ InHost(g, m, << >>, c) /\ Plain(h, c)
        <5>1. Plain(h, c)
          BY <3>1, <4>1 DEF Plain
        <5>2. InHost(g, m, << >>, c) /\ Reads(w, m + 1, h)
          BY <3>3, <3>4, <4>1, Zenon DEF InHost
        <5>3. m \in Nat /\ c \in Int
          BY <4>1
        <5> QED
          BY <1>4, <1>5, <5>1, <5>2, <5>3
      <4>3. InHost(g, m + Len(h), h, c)
        BY <4>2, WalkOverHost
      <4> QED
        BY <4>1, <4>3, Zenon DEF InHost
    <3>6. g[Len(h) + 2] = H!Parsed(g[1 + Len(h)], "]")
      <4>1. g[Len(h) + 2] = H!Parsed(g[(Len(h) + 2) - 1], w[Len(h) + 2])
        BY <1>4, <3>2 DEF Walks
      <4>2. (Len(h) + 2) - 1 = 1 + Len(h)
        BY <1>5
      <4> QED
        BY <3>2, <4>1, <4>2
    <3>7. H!Parsed(State(h, << >>, FALSE, 1), "]") = State(h, << >>, FALSE, 0)
      <4>1. PICK c : c = 1 /\ c \in Int /\ c - 1 = 0
        OBVIOUS
      <4> QED
        BY <4>1, Brackets
    <3> QED
      BY <1>1, <3>1, <3>5, <3>6, <3>7
  <2> QED
    BY <2>1, <2>2
<1>7. CASE a.port = None
  <2>1. Len(w) = lx
    BY <1>1, <1>2, <1>3, <1>7, PortPartIs
  <2>2. H!HostAndPort(w) = State(h, << >>, FALSE, 0)
    BY <1>4, <1>6, <2>1
  <2> QED
    BY <1>1, <1>7, <2>2 DEF State
<1>8. CASE a.port # None
  <2>1. PICK d : d = a.port
    OBVIOUS
  <2>2. Len(y) = 2 /\ y[1] = ":" /\ y[2] = d /\ d # "[" /\ d # "]" /\ d # ":"
    BY <1>1, <1>8, <2>1, PortPartIs
  <2>3. /\ Len(w) = lx + 2 /\ lx \in Nat /\ w[lx + 1] = ":" /\ w[lx + 2] = d
        /\ lx + 1 \in 1 .. Len(w) /\ lx + 2 \in 1 .. Len(w) /\ (lx + 1) - 1 = lx /\ (lx + 2) - 1 = lx + 1
    BY <1>1, <1>2, <1>3, <2>2
  <2>4. g[lx + 1] = State(h, << >>, TRUE, 0)
    <3>1. g[lx + 1] = H!Parsed(g[(lx + 1) - 1], w[lx + 1])
      BY <1>4, <2>3 DEF Walks
    <3>2. g[lx + 1] = H!Parsed(State(h, << >>, FALSE, 0), ":")
      BY <1>6, <2>3, <3>1
    <3> QED
      BY <3>2 DEF H!Parsed, State
  <2>5. g[lx + 2] = State(h, <<d>>, TRUE, 0)
    <3>1. g[lx + 2] = H!Parsed(g[(lx + 2) - 1], w[lx + 2])
      BY <1>4, <2>3 DEF Walks
    <3>2. g[lx + 2] = H!Parsed(State(h, << >>, TRUE, 0), d)
      BY <2>3, <2>4, <3>1
    <3>3. Append(<< >>, d) = <<d>>
      OBVIOUS
    <3>4. H!Parsed(State(h, << >>, TRUE, 0), d) = State(h, Append(<< >>, d), TRUE, 0)
      BY <2>2 DEF H!Parsed, State
    <3> QED
      BY <3>2, <3>3, <3>4
  <2>6. H!HostAndPort(w) = State(h, <<d>>, TRUE, 0)
    BY <1>4, <2>3, <2>5
  <2> QED
    BY <1>1, <1>8, <2>1, <2>6 DEF State
<1> QED
  BY <1>7, <1>8


--------------------------------------------------------------------------------
(* The path of a URL, and what the constructor makes of it. *)

\* The first slash of a URL divides it.
LEMMA SlashIs ==
  ASSUME NEW hp, Without(hp, {"/"}), NEW rest, IsText(rest), Len(rest) > 0 => rest[1] = "/",
         NEW url, Both(url, hp, rest)
  PROVE  /\ SubSeq(url, 1, H!HostEnd(url) - 1) = hp
         /\ Len(rest) = 0 => H!PathOf(url) = <<"/">>
         /\ Len(rest) > 0 => H!PathOf(url) = rest
<1>1. PICK n, l : n = Len(hp) /\ l = Len(rest)
  OBVIOUS
<1>2. IsText(hp) /\ n \in Nat /\ l \in Nat /\ \A i \in 1 .. n : hp[i] # "/"
  BY <1>1, TextIs DEF Without
<1>3. /\ IsText(url) /\ Len(url) = Len(hp) + Len(rest) /\ Reads(url, 1, hp) /\ Reads(url, Len(hp) + 1, rest)
      /\ (\A i \in 1 .. Len(hp) : url[i] = hp[i]) /\ \A i \in 1 .. Len(rest) : url[Len(hp) + i] = rest[i]
  <2>1. LET s == hp \o rest IN
        /\ IsText(s) /\ Len(s) = Len(hp) + Len(rest) /\ Reads(s, 1, hp) /\ Reads(s, Len(hp) + 1, rest)
        /\ (\A i \in 1 .. Len(hp) : s[i] = hp[i]) /\ \A i \in 1 .. Len(rest) : s[Len(hp) + i] = rest[i]
    BY <1>2, Joined, ReadsJoined
  <2> QED
    BY <2>1, Zenon DEF Both
<1>4. Len(url) = n + l /\ \A i \in 1 .. n : url[i] # "/"
  BY <1>1, <1>2, <1>3
<1>5. CASE l = 0
  <2>1. H!Find(url, "/") = 0
    <3>1. \A i \in 1 .. Len(url) : url[i] # "/"
      BY <1>2, <1>4, <1>5
    <3> QED
      BY <3>1, NotFound
  <2>2. H!HostEnd(url) - 1 = n
    BY <1>2, <1>4, <1>5, <2>1 DEF H!HostEnd
  <2>3. H!PathOf(url) = <<"/">>
    BY <2>1 DEF H!PathOf
  <2>4. SubSeq(url, 1, n) = hp
    <3>1. n = 1 + Len(hp) - 1 /\ 1 \in Nat \ {0}
      BY <1>1, <1>2
    <3> QED
      BY <1>2, <1>3, <3>1, CutIs
  <2> QED
    BY <1>1, <1>5, <2>2, <2>3, <2>4
<1>6. CASE l > 0
  <2>1. PICK k : k = n + 1
    OBVIOUS
  <2>2. H!Find(url, "/") = k
    <3>1. url[k] = "/"
      <4>1. 1 \in 1 .. Len(rest) /\ rest[1] = "/"
        BY <1>1, <1>2, <1>6
      <4> QED
        BY <1>1, <1>3, <2>1, <4>1
    <3>2. Len(url) \in Nat /\ k \in 1 .. Len(url) /\ \A i \in 1 .. k - 1 : url[i] # "/"
      BY <1>2, <1>4, <1>6, <2>1
    <3> QED
      BY <3>1, <3>2, Found DEF H!Find
  <2>3. H!HostEnd(url) - 1 = n /\ k # 0
    BY <1>2, <2>1, <2>2 DEF H!HostEnd
  <2>4. SubSeq(url, 1, n) = hp
    <3>1. n = 1 + Len(hp) - 1 /\ 1 \in Nat \ {0}
      BY <1>1, <1>2
    <3> QED
      BY <1>2, <1>3, <3>1, CutIs
  <2>5. SubSeq(url, k, Len(url)) = rest
    <3>1. PICK z : z = Len(url)
      OBVIOUS
    <3>2. z = k + Len(rest) - 1 /\ k \in Nat \ {0} /\ Reads(url, k, rest) /\ IsText(url)
      BY <1>1, <1>2, <1>3, <1>4, <2>1, <3>1
    <3>3. SubSeq(url, k, z) = rest
      BY <3>2, CutIs
    <3> QED
      BY <3>1, <3>3
  <2>6. H!PathOf(url) = rest
    BY <2>2, <2>3, <2>5, Zenon DEF H!PathOf
  <2> QED
    BY <1>1, <1>6, <2>3, <2>4, <2>6
<1> QED
  BY <1>2, <1>5, <1>6

LEMMA EmptyQuery ==
  ASSUME CodesAreHex, NEW fields, IsQuery(fields), fields = << >>
  PROVE  H!ParseQuery(<< >>) = H!ToSet(fields)
<1>1. PICK q, P : q = H!CreateQuery(fields) /\ P = Parts(fields)
  OBVIOUS
<1>2. PICK at : Flat(q, P, at) /\ Len(P) = 0
  BY <1>1, QueryParts
<1>3. Len(q) = 0 /\ IsText(q)
  BY <1>2 DEF Flat
<1>4. q = << >>
  <2>1. PICK T : q \in Seq(T)
    BY <1>3 DEF IsText
  <2> QED
    BY <1>3, <2>1, EmptySeq
<1> QED
  BY <1>1, <1>4, QueryRead

QueryPart(a) == IF a.fields = << >> THEN << >> ELSE <<"?">> \o H!CreateQuery(a.fields)

LEMMA UrlIs ==
  ASSUME CodesAreHex, PortsAreNumbers, NEW a, IsUrl(a)
  PROVE  Both(H!UrlText(a), HostPart(a) \o PortPart(a), a.path \o QueryPart(a))
         /\ IsText(a.path) /\ IsText(QueryPart(a))
<1>1. PICK x, y, z, u : x = HostPart(a) /\ y = PortPart(a) /\ z = a.path /\ u = QueryPart(a)
  OBVIOUS
<1>2. IsText(x) /\ IsText(y)
  BY <1>1, HostPartIs, PortPartIs DEF Without
<1>3. IsText(z)
  BY <1>1 DEF IsUrl, Without
<1>4. IsText(u)
  <2>1. PICK m, q : m = <<"?">> /\ q = H!CreateQuery(a.fields)
    OBVIOUS
  <2>2. IsText(q)
    BY <2>1, QueryRead DEF IsUrl, Without
  <2>3. IsText(m)
    BY <2>1, Word
  <2>4. IsText(m \o q)
    BY <2>2, <2>3, Joined
  <2>5. IsText(<< >>)
    BY Nothing
  <2> QED
    BY <1>1, <2>1, <2>4, <2>5 DEF QueryPart
<1>5. PICK w : w = x \o y
  OBVIOUS
<1>6. IsText(w)
  BY <1>2, <1>5, Joined
<1>7. (w \o z) \o u = w \o (z \o u)
  BY <1>3, <1>4, <1>6, Regroup
<1>8. H!UrlText(a) = (w \o z) \o u
  BY <1>1, <1>5, Zenon DEF H!UrlText, HostPart, PortPart, QueryPart
<1> QED
  BY <1>1, <1>3, <1>4, <1>5, <1>7, <1>8, Zenon DEF Both

\* The path with its query is divided at the mark.
LEMMA PathIs ==
  ASSUME CodesAreHex, NEW a, IsUrl(a), NEW rest, rest = a.path \o QueryPart(a), NEW path,
         Len(rest) = 0 => path = <<"/">>, Len(rest) > 0 => path = rest
  PROVE  /\ Len(rest) > 0 => rest[1] = "/"
         /\ \E x, y : /\ IsTarget(path, x, y) /\ x = (IF a.path = << >> THEN <<"/">> ELSE a.path)
                      /\ H!ParseQuery(y) = H!ToSet(a.fields)
<1>1. PICK p, q, fields : p = a.path /\ q = H!CreateQuery(a.fields) /\ fields = a.fields
  OBVIOUS
<1>2. Without(p, {"SP", "?"}) /\ (p # << >> => p[1] = "/") /\ (p = << >> => fields = << >>)
  BY <1>1 DEF IsUrl
<1>3. Without(q, {"SP"}) /\ H!ParseQuery(q) = H!ToSet(fields) /\ (fields = << >> => H!ParseQuery(<< >>) = H!ToSet(fields))
  BY <1>1, QueryRead, EmptyQuery DEF IsUrl
<1>4. Without(<< >>, {"SP"}) /\ IsText(<< >>) /\ Len(<< >>) = 0
  BY Nothing DEF Without
<1>5. IsText(p) /\ Len(p) \in Nat /\ (Len(p) = 0 <=> p = << >>)
  <2>1. IsText(p)
    BY <1>2 DEF Without
  <2>2. PICK T : p \in Seq(T)
    BY <2>1 DEF IsText
  <2> QED
    BY <2>1, <2>2, EmptySeq
<1>6. CASE p = << >>
  <2>1. rest = << >> \o << >>
    BY <1>1, <1>2, <1>6 DEF QueryPart
  <2>2. << >> \o << >> = << >>
    OBVIOUS
  <2>3. Len(rest) = 0
    BY <1>4, <2>1, <2>2, Zenon
  <2>4. path = <<"/">> /\ ~(Len(rest) > 0)
    BY <2>3
  <2>5. Without(<<"/">>, {"SP", "?"})
    <3>1. "/" \notin {"SP", "?"}
      OBVIOUS
    <3> QED
      BY <3>1, OtherWord
  <2>6. IsTarget(path, <<"/">>, << >>)
    BY <1>4, <2>4, <2>5, Zenon DEF IsTarget
  <2>7. H!ParseQuery(<< >>) = H!ToSet(a.fields)
    BY <1>1, <1>2, <1>3, <1>6
  <2> QED
    BY <1>1, <1>6, <2>4, <2>6, <2>7, Zenon
<1>7. CASE p # << >> /\ fields = << >>
  <2>1. rest = p \o << >>
    BY <1>1, <1>7 DEF QueryPart
  <2>2. p \o << >> = p
    <3>1. PICK T : p \in Seq(T)
      BY <1>5 DEF IsText
    <3> QED
      BY <3>1
  <2>3. rest = p /\ path = p /\ rest[1] = "/"
    <3>1. rest = p
      BY <2>1, <2>2
    <3>2. Len(rest) > 0
      BY <1>5, <1>7, <3>1
    <3> QED
      BY <1>2, <1>7, <3>1, <3>2
  <2>4. IsTarget(path, p, << >>)
    BY <1>2, <1>4, <2>3, Zenon DEF IsTarget
  <2>5. H!ParseQuery(<< >>) = H!ToSet(a.fields)
    BY <1>1, <1>3, <1>7
  <2> QED
    BY <1>1, <1>7, <2>3, <2>4, <2>5, Zenon
<1>8. CASE p # << >> /\ fields # << >>
  <2>1. PICK m, u : m = <<"?">> /\ u = m \o q
    OBVIOUS
  <2>2. IsText(m) /\ IsText(q) /\ IsText(u)
    <3>1. IsText(m) /\ IsText(q)
      BY <1>3, <2>1, Word DEF Without
    <3> QED
      BY <2>1, <3>1, Joined
  <2>3. rest = p \o u
    BY <1>1, <1>8, <2>1 DEF QueryPart
  <2>4. rest = p \o m \o q
    <3>1. (p \o m) \o q = p \o (m \o q)
      BY <1>5, <2>2, Regroup
    <3> QED
      BY <2>1, <2>3, <3>1, Zenon
  <2>5. Len(rest) > 0 /\ rest[1] = "/"
    <3>1. Len(p) \in Nat /\ Len(p) > 0 /\ 1 \in 1 .. Len(p) /\ p[1] = "/"
      BY <1>2, <1>5, <1>8
    <3>2. Len(u) \in Nat
      BY <2>2, TextIs
    <3>3. Len(p \o u) = Len(p) + Len(u) /\ \A i \in 1 .. Len(p) : (p \o u)[i] = p[i]
      BY <1>5, <2>2, Joined
    <3>4. Len(rest) = Len(p) + Len(u) /\ rest[1] = "/"
      BY <2>3, <3>1, <3>3
    <3> QED
      BY <3>1, <3>2, <3>4
  <2>6. path = p \o <<"?">> \o q
    BY <2>1, <2>4, <2>5
  <2>7. IsTarget(path, p, q)
    BY <1>2, <1>3, <2>6, Zenon DEF IsTarget
  <2> QED
    BY <1>1, <1>3, <1>8, <2>5, <2>7, Zenon
<1> QED
  BY <1>6, <1>7, <1>8

\* The port is a number of 16 bits.
LEMMA PortRead ==
  ASSUME PortsAreNumbers, NEW d, d \in DOMAIN PortNumber
  PROVE  H!PortOf(<<d>>) = PortNumber[d] /\ H!PortDigits(PortNumber[d]) = d
<1>1. PICK n, N : n = PortNumber[d] /\ N = 2^16
  OBVIOUS
<1>2. n \in Nat /\ n < N /\ N = 65536
  BY <1>1, IncomingAssumption DEF PortsAreNumbers
<1>3. n % N = n
  BY <1>2
<1>4. Len(<<d>>) = 1 /\ <<d>>[1] = d
  BY Word
<1>5. H!PortOf(<<d>>) = n % N
  BY <1>1, <1>4, Zenon DEF H!PortOf
<1>6. \A e \in DOMAIN PortNumber : PortNumber[e] = n <=> e = d
  BY <1>1 DEF PortsAreNumbers
<1>7. H!PortDigits(n) = d
  BY <1>6 DEF H!PortDigits
<1> QED
  BY <1>1, <1>3, <1>5, <1>7

PortField(a) == IF a.port = None \/ PortNumber[a.port] = default_port THEN << >> ELSE <<":", a.port>>

\* What the constructor makes of the URL, and the request of that (client_ws.hpp:358, 410).
LEMMA TargetIs ==
  ASSUME CodesAreHex, PortsAreNumbers, NEW a, IsUrl(a)
  PROVE  LET t == H!Target(a) IN
         /\ t.host = a.host /\ t.header = a.header
         /\ H!HostField(t) = a.host \o PortField(a)
         /\ \E x, y : /\ IsTarget(t.path, x, y) /\ x = (IF a.path = << >> THEN <<"/">> ELSE a.path)
                      /\ H!ParseQuery(y) = H!ToSet(a.fields)
<1>1. PICK url, hp, rest, u, v, s : /\ url = H!UrlText(a) /\ u = HostPart(a) /\ v = PortPart(a) /\ hp = u \o v
                                 /\ rest = a.path \o QueryPart(a) /\ s = SubSeq(url, 1, H!HostEnd(url) - 1)
  OBVIOUS
<1>2. Both(url, hp, rest) /\ IsText(rest)
  <2>1. PICK p, q : p = a.path /\ q = QueryPart(a)
    OBVIOUS
  <2>2. IsText(p) /\ IsText(q)
    BY <2>1, UrlIs
  <2>3. IsText(p \o q)
    BY <2>2, Joined
  <2>4. Both(url, hp, rest)
    BY <1>1, UrlIs, Zenon
  <2> QED
    BY <1>1, <2>1, <2>3, <2>4
<1>3. Without(hp, {"/"})
  <2>1. Without(u, {"/"}) /\ Without(v, {"/"})
    BY <1>1, HostPartIs, PortPartIs
  <2> QED
    BY <1>1, <2>1, WithoutBoth
<1>4. Len(rest) > 0 => rest[1] = "/"
  BY <1>1, PathIs
<1>5. s = hp /\ (Len(rest) = 0 => H!PathOf(url) = <<"/">>) /\ (Len(rest) > 0 => H!PathOf(url) = rest)
  BY <1>1, <1>2, <1>3, <1>4, SlashIs, Zenon
<1>6. PICK r, path, port : r = H!HostAndPort(s) /\ path = H!PathOf(url) /\ port = H!PortOf(r.port)
  OBVIOUS
<1>7. PICK t : t = [host |-> r.host, port |-> port, path |-> path, header |-> a.header]
  OBVIOUS
<1>8. H!Target(a) = t
  BY <1>1, <1>6, <1>7, Zenon DEF H!Target
<1>9. r.host = a.host /\ r.port = (IF a.port = None THEN << >> ELSE <<a.port>>)
  BY <1>1, <1>5, <1>6, HostPortRead
<1>10. t.host = a.host /\ t.header = a.header /\ t.path = path /\ t.port = port
  BY <1>7, <1>9
<1>11. \E x, y : /\ IsTarget(path, x, y) /\ x = (IF a.path = << >> THEN <<"/">> ELSE a.path)
                 /\ H!ParseQuery(y) = H!ToSet(a.fields)
  <2>1. (Len(rest) = 0 => path = <<"/">>) /\ (Len(rest) > 0 => path = rest)
    BY <1>5, <1>6
  <2> QED
    BY <1>1, <2>1, PathIs
<1>12. H!HostField(t) = a.host \o PortField(a)
  <2>1. CASE a.port = None
    <3>1. r.port = << >> /\ Len(<< >>) = 0
      BY <1>9, <2>1
    <3>2. port = default_port
      BY <1>6, <3>1 DEF H!PortOf
    <3> QED
      BY <1>10, <2>1, <3>2, Zenon DEF H!HostField, PortField
  <2>2. CASE a.port # None
    <3>1. PICK d : d = a.port
      OBVIOUS
    <3>2. d \in DOMAIN PortNumber /\ r.port = <<d>>
      BY <1>9, <2>2, <3>1 DEF IsUrl
    <3>3. port = PortNumber[d] /\ H!PortDigits(port) = d
      BY <1>6, <3>2, PortRead
    <3> QED
      BY <1>10, <2>2, <3>1, <3>3, Zenon DEF H!HostField, PortField
  <2> QED
    BY <2>1, <2>2
<1> QED
  BY <1>8, <1>10, <1>11, <1>12, Zenon


--------------------------------------------------------------------------------
(* The header of the request. *)

\* A field of any name without a colon and any value that does not begin with a blank is
\* found again in its line.
LEMMA FieldRead ==
  ASSUME NEW name, Without(name, {":"}), NEW value, IsText(value), Len(value) > 0 => value[1] # "SP"
  PROVE  LET f == H!Field(name, value) IN
         H!Find(f, ":") # 0 /\ H!Find(f, ":") < Len(f) /\ H!FieldOf(f) = <<name, value>>
<1>1. PICK f, n, l : f = H!Field(name, value) /\ n = Len(name) /\ l = Len(value)
  OBVIOUS
<1>2. IsText(name) /\ n \in Nat /\ l \in Nat /\ \A i \in 1 .. n : name[i] # ":"
  BY <1>1, TextIs DEF Without
<1>3. /\ IsText(f) /\ Len(f) = n + l + 3 /\ (\A i \in 1 .. n : f[i] = name[i])
      /\ f[n + 1] = ":" /\ f[n + 2] = "SP" /\ (\A i \in 1 .. l : f[n + 2 + i] = value[i]) /\ f[Len(f)] = "CR"
  BY <1>1, <1>2, LineIs
<1>4. PICK c, b, e, m : c = n + 1 /\ b = n + 3 /\ e = Len(f) /\ m = e - 1
  OBVIOUS
<1>5. c \in Nat /\ b \in Nat /\ e \in Nat /\ m \in Nat /\ c - 1 = n /\ c \in 1 .. e /\ b \in c + 1 .. e
      /\ c # 0 /\ c < e /\ b = c + 2 /\ e = b + l /\ m = b + l - 1 /\ f[e] = "CR" /\ f[c] = ":"
  BY <1>2, <1>3, <1>4
<1>6. H!Find(f, ":") = c
  <2>1. \A i \in 1 .. c - 1 : f[i] # ":"
    BY <1>2, <1>3, <1>5
  <2>2. Len(f) \in Nat /\ c \in 1 .. Len(f) /\ f[c] = ":"
    BY <1>3, <1>4, <1>5
  <2> QED
    BY <2>1, <2>2, Found DEF H!Find
<1>7. f[b] # "SP" \/ b = Len(f)
  <2>1. CASE l = 0
    BY <1>4, <1>5, <2>1
  <2>2. CASE l > 0
    <3>1. 1 \in 1 .. l /\ n + 2 + 1 = b
      BY <1>2, <1>4, <2>2
    <3> QED
      BY <1>1, <1>3, <2>2, <3>1
  <2> QED
    BY <1>2, <2>1, <2>2
<1>8. H!ValueStart(f) = b
  <2>1. PICK S : S = {i \in c + 1 .. e : f[i] # "SP" \/ i = e}
    OBVIOUS
  <2>2. S \in SUBSET Nat /\ b \in S
    BY <1>4, <1>5, <1>7, <2>1
  <2>3. \A i \in S : b <= i
    <3> SUFFICES ASSUME NEW i \in S PROVE b <= i
      OBVIOUS
    <3>1. i \in c + 1 .. e /\ (f[i] # "SP" \/ i = e)
      BY <2>1
    <3>2. i # c + 1
      <4>1. c + 1 = n + 2 /\ c + 1 # e
        BY <1>2, <1>4, <1>5
      <4> QED
        BY <1>3, <3>1, <4>1
    <3> QED
      BY <1>5, <3>1, <3>2
  <2>4. H!ValueStart(f) = H!Min(S)
    BY <1>4, <1>6, <2>1, Zenon DEF H!ValueStart
  <2> QED
    BY <2>2, <2>3, <2>4, MinIs
<1>9. SubSeq(f, 1, n) = name
  <2>1. Reads(f, 1, name)
    <3>1. \A i \in 1 .. n : 1 + i - 1 = i
      BY <1>2
    <3> QED
      BY <1>1, <1>2, <1>3, <3>1 DEF Reads
  <2>2. n = 1 + Len(name) - 1 /\ 1 \in Nat \ {0}
    BY <1>1, <1>2
  <2> QED
    BY <1>2, <1>3, <2>1, <2>2, CutIs
<1>10. PICK v, T : v = SubSeq(f, b, e) /\ f \in Seq(T)
  BY <1>3 DEF IsText
<1>11. v \in Seq(T) /\ Len(v) = l + 1 /\ (\A i \in 1 .. l : v[i] = value[i]) /\ v[l + 1] = "CR"
  <2>1. b \in 1 .. Len(f) /\ e \in b .. Len(f) /\ e - b + 1 = l + 1
    BY <1>2, <1>4, <1>5
  <2>2. v \in Seq(T) /\ Len(v) = e - b + 1 /\ \A i \in 1 .. e - b + 1 : v[i] = f[b + i - 1]
    BY <1>10, <2>1, PartOf
  <2>3. ASSUME NEW i \in 1 .. l PROVE v[i] = value[i]
    <3>1. i \in 1 .. e - b + 1 /\ b + i - 1 = n + 2 + i
      BY <1>2, <1>4, <2>1
    <3> QED
      BY <1>3, <2>2, <3>1
  <2>4. v[l + 1] = "CR"
    <3>1. l + 1 \in 1 .. e - b + 1 /\ b + (l + 1) - 1 = e
      BY <1>2, <1>5, <2>1
    <3> QED
      BY <1>5, <2>2, <3>1
  <2> QED
    BY <2>1, <2>2, <2>3, <2>4
<1>12. H!WithoutCR(v) = value
  <2>1. IsText(v) /\ Reads(v, 1, value)
    <3>1. \A i \in 1 .. l : 1 + i - 1 = i
      BY <1>2
    <3>2. IsText(v)
      BY <1>11 DEF IsText
    <3> QED
      BY <1>1, <1>2, <1>11, <3>1, <3>2 DEF Reads
  <2>2. l = 1 + Len(value) - 1 /\ 1 \in Nat \ {0}
    BY <1>1, <1>2
  <2>3. SubSeq(v, 1, l) = value
    BY <2>1, <2>2, CutIs
  <2>4. v # << >> /\ v[Len(v)] = "CR" /\ Len(v) - 1 = l
    BY <1>2, <1>11
  <2>5. H!WithoutCR(v) = SubSeq(v, 1, l)
    BY <2>4 DEF H!WithoutCR, H!Last, H!Front
  <2> QED
    BY <2>3, <2>5
<1>13. H!FieldOf(f) = <<SubSeq(f, 1, n), H!WithoutCR(v)>>
  <2>1. H!FieldOf(f) = <<SubSeq(f, 1, c - 1), H!WithoutCR(SubSeq(f, b, Len(f)))>>
    BY <1>6, <1>8, Zenon DEF H!FieldOf
  <2> QED
    BY <1>4, <1>5, <1>10, <2>1
<1>14. H!FieldOf(f) = <<name, value>>
  BY <1>9, <1>12, <1>13
<1> QED
  BY <1>1, <1>4, <1>5, <1>6, <1>14

IsField(f) == f = <<f[1], f[2]>>

\* An owner's header: names without a colon, none of them Host again in other letters, and
\* values that do not begin with a blank.
IsHeader(h) ==
  /\ OwnFields(h)
  /\ \A k \in 1 .. Len(h) :
       /\ Without(h[k][1], {":"}) /\ H!Lower(h[k][1]) # H!Lower(<<"Host">>)
       /\ Len(h[k][2]) > 0 => h[k][2][1] # "SP"
       /\ IsField(h[k])

\* The line is read as this name and value.
ReadsAs(line, name, value) ==
  H!Find(line, ":") # 0 /\ H!Find(line, ":") < Len(line) /\ H!FieldOf(line) = <<name, value>>

\* Every line of a header, what it is read as, and nothing else.
LEMMA AllFields ==
  ASSUME NEW lines, IsText(lines), NEW n \in Nat, n + 1 \in 1 .. Len(lines), H!Find(lines[n + 1], ":") = 0,
         NEW names, NEW values, \A i \in 1 .. n : ReadsAs(lines[i], names[i], values[i])
  PROVE  H!Header(lines) = {<<names[i], values[i]>> : i \in 1 .. n}
<1>1. PICK m : m = n + 1
  OBVIOUS
<1>2. m \in 1 .. Len(lines) /\ m - 1 = n /\ H!Find(lines[m], ":") = 0
  BY <1>1
<1>3. \A i \in 1 .. m - 1 : H!Find(lines[i], ":") # 0
  BY <1>2 DEF ReadsAs
<1>4. PICK I : I = {j \in 1 .. m - 1 : H!Find(lines[j], ":") < Len(lines[j])}
  OBVIOUS
<1>5. H!Header(lines) = {H!FieldOf(lines[i]) : i \in I}
  BY <1>2, <1>3, <1>4, ReadUpTo, Zenon
<1>6. I = 1 .. n
  <2>1. \A i \in 1 .. n : H!Find(lines[i], ":") < Len(lines[i])
    BY DEF ReadsAs
  <2> QED
    BY <1>2, <1>4, <2>1, Zenon
<1>7. \A i \in 1 .. n : H!FieldOf(lines[i]) = <<names[i], values[i]>>
  BY DEF ReadsAs
<1> QED
  BY <1>5, <1>6, <1>7, Zenon

\* What the server reads of the request's header.
LEMMA HeaderRead ==
  ASSUME NamesDiffer, H!Lower(<<"host">>) = H!Lower(<<"Host">>), NEW t, IsText(t.host), IsHeader(t.header),
         NEW v, v = H!HostField(t), Len(v) > 0 => v[1] # "SP"
  PROVE  LET header == H!Header(Tail(H!RequestOf(t))) IN
         H!ToSet(t.header) \subseteq header /\ H!Values(header, <<"host">>) = {v}
<1>1. PICK L, m, h : L = Tail(H!RequestOf(t)) /\ m = Len(t.header) /\ h = t.header
  OBVIOUS
<1>2. /\ IsText(L) /\ Len(L) = m + 6 /\ m \in Nat /\ IsText(v)
      /\ L[1] = H!Field(<<"Host">>, v)
      /\ L[2] = H!Field(<<"Upgrade">>, <<"websocket">>)
      /\ L[3] = H!Field(<<"Connection">>, <<"Upgrade">>)
      /\ L[4] = H!Field(KeyName, H!Nonce)
      /\ L[5] = H!Field(<<"Sec-WebSocket-Version">>, <<"13">>)
      /\ \A k \in 1 .. m : L[5 + k] = H!Field(h[k][1], h[k][2])
      /\ L[m + 6] = <<"CR">>
  BY <1>1, RequestLines DEF IsHeader
<1>3. ASSUME NEW name, name # ":", NEW value, IsText(value), Len(value) > 0 => value[1] # "SP"
      PROVE  ReadsAs(H!Field(<<name>>, value), <<name>>, value)
  <2>1. Without(<<name>>, {":"})
    BY <1>3, OtherWord
  <2> QED
    BY <1>3, <2>1, FieldRead DEF ReadsAs
<1>4. ASSUME NEW name \in {"Upgrade", "Connection", "Sec-WebSocket-Key", "Sec-WebSocket-Version"},
             NEW value \in {"websocket", "Upgrade", "nonce", "13"}
      PROVE  /\ ReadsAs(H!Field(<<name>>, <<value>>), <<name>>, <<value>>)
             /\ H!Lower(<<name>>) # H!Lower(<<"Host">>)
  <2>1. name # ":" /\ name # "Host" /\ value # "SP"
    OBVIOUS
  <2>2. H!Lower(<<name>>) # H!Lower(<<"Host">>)
    BY <2>1 DEF NamesDiffer
  <2>3. PICK w : w = <<value>>
    OBVIOUS
  <2>4. IsText(w) /\ w[1] # "SP"
    BY <2>1, <2>3, Word
  <2> QED
    BY <1>3, <2>1, <2>2, <2>3, <2>4
<1> DEFINE names == [i \in 1 .. m + 5 |-> CASE i = 1 -> <<"Host">> [] i = 2 -> <<"Upgrade">> [] i = 3 -> <<"Connection">>
                       [] i = 4 -> KeyName [] i = 5 -> <<"Sec-WebSocket-Version">> [] OTHER -> h[i - 5][1]]
           values == [i \in 1 .. m + 5 |-> CASE i = 1 -> v [] i = 2 -> <<"websocket">> [] i = 3 -> <<"Upgrade">>
                        [] i = 4 -> H!Nonce [] i = 5 -> <<"13">> [] OTHER -> h[i - 5][2]]
<1>5. /\ names[1] = <<"Host">> /\ names[2] = <<"Upgrade">> /\ names[3] = <<"Connection">> /\ names[4] = KeyName
      /\ names[5] = <<"Sec-WebSocket-Version">>
  BY <1>2
<1>6. /\ values[1] = v /\ values[2] = <<"websocket">> /\ values[3] = <<"Upgrade">> /\ values[4] = H!Nonce
      /\ values[5] = <<"13">>
  BY <1>2
<1>7. \A k \in 1 .. m : 5 + k \in 1 .. m + 5 /\ names[5 + k] = h[k][1] /\ values[5 + k] = h[k][2]
  <2> SUFFICES ASSUME NEW k \in 1 .. m
               PROVE  5 + k \in 1 .. m + 5 /\ names[5 + k] = h[k][1] /\ values[5 + k] = h[k][2]
    OBVIOUS
  <2>1. PICK i : i = 5 + k
    OBVIOUS
  <2>2. i \in 1 .. m + 5 /\ i - 5 = k /\ i # 1 /\ i # 2 /\ i # 3 /\ i # 4 /\ i # 5
    BY <1>2, <2>1
  <2>3. names[i] = h[i - 5][1]
    BY <2>2
  <2>4. values[i] = h[i - 5][2]
    BY <2>2
  <2> QED
    BY <2>1, <2>2, <2>3, <2>4
<1> HIDE DEF names, values
<1>8. \A i \in 1 .. m + 5 : i \in {1, 2, 3, 4, 5} \/ \E k \in 1 .. m : i = 5 + k
  <2> SUFFICES ASSUME NEW i \in 1 .. m + 5, i \notin {1, 2, 3, 4, 5} PROVE \E k \in 1 .. m : i = 5 + k
    OBVIOUS
  <2>1. i - 5 \in 1 .. m /\ i = 5 + (i - 5)
    BY <1>2
  <2> QED
    BY <2>1
<1>9. ReadsAs(L[1], names[1], values[1])
  <2>1. "Host" # ":"
    OBVIOUS
  <2>2. ReadsAs(H!Field(<<"Host">>, v), <<"Host">>, v)
    BY <1>2, <1>3, <2>1
  <2> QED
    BY <1>2, <1>5, <1>6, <2>2
<1>10. \A i \in {2, 3, 4, 5} : ReadsAs(L[i], names[i], values[i]) /\ H!Lower(names[i]) # H!Lower(<<"Host">>)
  <2>1. ReadsAs(L[2], names[2], values[2]) /\ H!Lower(names[2]) # H!Lower(<<"Host">>)
    BY <1>2, <1>4, <1>5, <1>6
  <2>2. ReadsAs(L[3], names[3], values[3]) /\ H!Lower(names[3]) # H!Lower(<<"Host">>)
    BY <1>2, <1>4, <1>5, <1>6
  <2>3. ReadsAs(L[4], names[4], values[4]) /\ H!Lower(names[4]) # H!Lower(<<"Host">>)
    BY <1>2, <1>4, <1>5, <1>6 DEF KeyName, H!Nonce
  <2>4. ReadsAs(L[5], names[5], values[5]) /\ H!Lower(names[5]) # H!Lower(<<"Host">>)
    BY <1>2, <1>4, <1>5, <1>6
  <2> QED
    BY <2>1, <2>2, <2>3, <2>4
<1>11. \A k \in 1 .. m : /\ ReadsAs(L[5 + k], names[5 + k], values[5 + k])
                         /\ H!Lower(names[5 + k]) # H!Lower(<<"Host">>)
  <2> SUFFICES ASSUME NEW k \in 1 .. m
               PROVE  /\ ReadsAs(L[5 + k], names[5 + k], values[5 + k])
                      /\ H!Lower(names[5 + k]) # H!Lower(<<"Host">>)
    OBVIOUS
  <2>1. PICK name, value : name = h[k][1] /\ value = h[k][2]
    OBVIOUS
  <2>2. /\ Without(name, {":"}) /\ H!Lower(name) # H!Lower(<<"Host">>)
        /\ IsText(value) /\ (Len(value) > 0 => value[1] # "SP")
    BY <1>1, <2>1 DEF IsHeader, OwnFields
  <2>3. ReadsAs(H!Field(name, value), name, value)
    BY <2>2, FieldRead DEF ReadsAs
  <2> QED
    BY <1>2, <1>7, <2>1, <2>2, <2>3
<1>12. PICK n : n = m + 5
  OBVIOUS
<1>13. \A i \in 1 .. n : ReadsAs(L[i], names[i], values[i]) /\ (i # 1 => H!Lower(names[i]) # H!Lower(<<"Host">>))
  <2> SUFFICES ASSUME NEW i \in 1 .. n
               PROVE  ReadsAs(L[i], names[i], values[i]) /\ (i # 1 => H!Lower(names[i]) # H!Lower(<<"Host">>))
    OBVIOUS
  <2>1. i = 1 \/ i \in {2, 3, 4, 5} \/ \E k \in 1 .. m : i = 5 + k
    BY <1>8, <1>12
  <2> QED
    BY <1>9, <1>10, <1>11, <2>1
<1>14. H!Header(L) = {<<names[i], values[i]>> : i \in 1 .. n}
  <2>1. n \in Nat /\ n + 1 \in 1 .. Len(L) /\ n + 1 = m + 6
    BY <1>2, <1>12
  <2>2. H!Find(L[n + 1], ":") = 0
    BY <1>2, <2>1, NoColon
  <2> QED
    <3>1. IsText(L) /\ n \in Nat /\ n + 1 \in 1 .. Len(L) /\ \A i \in 1 .. n : ReadsAs(L[i], names[i], values[i])
      BY <1>2, <1>13, <2>1
    <3> QED
      BY ONLY <2>2, <3>1, AllFields, SMTT(30)
<1>15. H!ToSet(h) \subseteq H!Header(L)
  <2>1. DOMAIN h = 1 .. m
    BY <1>1, TextIs DEF IsHeader, OwnFields
  <2>2. ASSUME NEW k \in 1 .. m PROVE h[k] \in H!Header(L)
    <3>1. h[k] = <<h[k][1], h[k][2]>>
      BY <1>1 DEF IsHeader, IsField
    <3>2. 5 + k \in 1 .. n /\ names[5 + k] = h[k][1] /\ values[5 + k] = h[k][2]
      BY <1>7, <1>12
    <3> QED
      BY <1>14, <3>1, <3>2, Zenon
  <2>3. H!ToSet(h) = {h[k] : k \in 1 .. m}
    BY <2>1, Zenon DEF H!ToSet
  <2> QED
    BY <2>2, <2>3, Zenon
<1>16. H!Values(H!Header(L), <<"host">>) = {v}
  <2>1. PICK G : G = {g \in H!Header(L) : H!Lower(g[1]) = H!Lower(<<"host">>)}
    OBVIOUS
  <2>2. \A x, y : <<x, y>>[1] = x /\ <<x, y>>[2] = y
    OBVIOUS
  <2>3. 1 \in 1 .. n
    BY <1>2, <1>12
  <2>4. G = {<<<<"Host">>, v>>}
    <3>1. <<<<"Host">>, v>> \in G
      <4>1. <<<<"Host">>, v>> \in H!Header(L)
        BY <1>5, <1>6, <1>14, <2>3, Zenon
      <4> QED
        BY <2>1, <2>2, <4>1, Zenon
    <3>2. ASSUME NEW g \in G PROVE g = <<<<"Host">>, v>>
      <4>1. g \in H!Header(L) /\ H!Lower(g[1]) = H!Lower(<<"Host">>)
        BY <2>1, Zenon
      <4>2. PICK i \in 1 .. n : g = <<names[i], values[i]>>
        BY <1>14, <4>1, Zenon
      <4>3. H!Lower(names[i]) = H!Lower(<<"Host">>)
        BY <2>2, <4>1, <4>2, Zenon
      <4>4. i = 1
        BY <1>13, <4>3
      <4> QED
        BY <1>5, <1>6, <4>2, <4>4, Zenon
    <3> QED
      BY <3>1, <3>2, Zenon
  <2>5. H!Values(H!Header(L), <<"host">>) = {f[2] : f \in G}
    BY <2>1, Zenon DEF H!Values
  <2>6. PICK p : p = <<<<"Host">>, v>>
    OBVIOUS
  <2>7. p[2] = v
    BY <2>2, <2>6, Zenon
  <2>8. G = {p}
    BY <2>4, <2>6, Zenon
  <2>9. {f[2] : f \in G} = {v}
    BY ONLY <2>7, <2>8
  <2> QED
    BY <2>5, <2>9, Zenon
<1> QED
  BY <1>1, <1>15, <1>16, Zenon


--------------------------------------------------------------------------------
(* What is asked is understood. *)

\* What owners ask for, and the characters and ports of it.
AskedIsHttp ==
  /\ CodesAreHex /\ PortsAreNumbers /\ NamesDiffer /\ H!Lower(<<"host">>) = H!Lower(<<"Host">>)
  /\ \A a \in Asked : IsUrl(a) /\ IsHeader(a.header)

\* The server's connection says what the owner asked for.
Says(u, a) ==
  /\ u.line.method = <<"GET">> /\ u.line.version = <<"1.1">>
  /\ u.line.path = (IF a.path = << >> THEN <<"/">> ELSE a.path)
  /\ H!ParseQuery(u.line.query_string) = H!ToSet(a.fields)
  /\ H!ToSet(a.header) \subseteq u.header
  /\ H!Values(u.header, <<"host">>) = {a.host \o PortField(a)}

LEMMA PortFieldIs == ASSUME NEW a PROVE IsText(PortField(a))
<1>1. \A d : IsText(<<":", d>>)
  <2> SUFFICES ASSUME NEW d PROVE IsText(<<":", d>>)
    OBVIOUS
  <2>1. <<":", d>> \in Seq({":", d})
    OBVIOUS
  <2> QED
    BY <2>1 DEF IsText
<1> QED
  BY <1>1, Nothing, Zenon DEF PortField

\* The request that is made of a URL says what the URL said.
LEMMA RequestSays ==
  ASSUME AskedIsHttp, NEW a \in Asked, NEW r \in H!Request(H!RequestOf(H!Target(a))), NEW u,
         u.line = r.line, u.header = r.header
  PROVE  Says(u, a)
<1>1. /\ CodesAreHex /\ PortsAreNumbers /\ NamesDiffer /\ H!Lower(<<"host">>) = H!Lower(<<"Host">>)
      /\ IsUrl(a) /\ IsHeader(a.header)
  BY DEF AskedIsHttp
<1>2. PICK t, v, path : t = H!Target(a) /\ v = H!HostField(t) /\ path = t.path
  OBVIOUS
<1>3. t.host = a.host /\ t.header = a.header /\ v = a.host \o PortField(a)
  BY <1>1, <1>2, TargetIs
<1>4. PICK x, y : /\ IsTarget(path, x, y) /\ x = (IF a.path = << >> THEN <<"/">> ELSE a.path)
                  /\ H!ParseQuery(y) = H!ToSet(a.fields)
  BY <1>1, <1>2, TargetIs
<1>5. IsText(t.host) /\ IsHeader(t.header) /\ OwnFields(t.header)
  <2>1. IsText(a.host)
    BY <1>1 DEF IsUrl, Without
  <2> QED
    BY <1>1, <1>3, <2>1 DEF IsHeader
<1>6. Len(v) > 0 => v[1] # "SP"
  <2>1. PICK h, f : h = a.host /\ f = PortField(a)
    OBVIOUS
  <2>2. IsText(h) /\ IsText(f) /\ h # << >> /\ h[1] # "SP"
    BY <1>1, <2>1, PortFieldIs DEF IsUrl, Without
  <2>3. Len(h) > 0 /\ Len(h) \in Nat
    <3>1. PICK T : h \in Seq(T)
      BY <2>2 DEF IsText
    <3> QED
      BY <2>2, <3>1, EmptySeq
  <2>4. \A i \in 1 .. Len(h) : (h \o f)[i] = h[i]
    BY <2>2, Joined
  <2>5. (h \o f)[1] = h[1]
    BY <2>3, <2>4
  <2> QED
    BY <1>3, <2>1, <2>2, <2>5, Zenon
<1>7. PICK text : text = H!RequestOf(t)
  OBVIOUS
<1>8. H!RequestOf(t)[1] = Line(path) /\ Head(H!RequestOf(t)) = H!RequestOf(t)[1]
  BY <1>2, <1>5, RequestLines DEF Line
<1>9. Head(text) = Line(path)
  BY <1>7, <1>8, Zenon
<1>10. r.line \in H!RequestLine(Line(path)) /\ r.header = H!Header(Tail(text))
  <2>1. r \in H!Request(text)
    BY <1>2, <1>7, Zenon
  <2>2. PICK q \in H!RequestLine(Head(text)) :
          r = [line |-> q, header |-> H!Header(Tail(text)), rest |-> H!AfterHeader(Tail(text))]
    BY <2>1, Zenon DEF H!Request
  <2>3. r.line = q /\ r.header = H!Header(Tail(text))
    BY <2>2
  <2> QED
    BY <1>9, <2>3, Zenon
<1>11. r.line = [method |-> <<"GET">>, path |-> x, query_string |-> y, version |-> <<"1.1">>]
  <2>1. H!RequestLine(Line(path)) = {[method |-> <<"GET">>, path |-> x, query_string |-> y, version |-> <<"1.1">>]}
    BY <1>4, LineRead
  <2>2. \A s, w : s = {w} /\ r.line \in s => r.line = w
    OBVIOUS
  <2> QED
    BY <1>10, <2>1, <2>2, Zenon
<1>12. /\ r.line.method = <<"GET">> /\ r.line.version = <<"1.1">> /\ r.line.path = x /\ r.line.query_string = y
  BY <1>11
<1>13. H!ToSet(t.header) \subseteq r.header /\ H!Values(r.header, <<"host">>) = {v}
  <2>1. LET header == H!Header(Tail(H!RequestOf(t))) IN
        H!ToSet(t.header) \subseteq header /\ H!Values(header, <<"host">>) = {v}
    BY <1>1, <1>2, <1>5, <1>6, HeaderRead
  <2> QED
    BY <1>7, <1>10, <2>1, Zenon
<1>14. u.line.method = <<"GET">> /\ u.line.version = <<"1.1">> /\ u.line.path = x /\ u.line.query_string = y
  BY <1>12, Zenon
<1> QED
  BY <1>3, <1>4, <1>13, <1>14, Zenon DEF Says

\* While its owner's wish is kept, a client has sent nothing or that request, and what the
\* server has understood is what it says.
AskedInv ==
  asked # None =>
    /\ cl \in {"connected", "writing", "waiting"} /\ asked \in Asked /\ target = H!Target(asked)
    /\ sv = "reading" => inServer = << >> \/ inServer = H!RequestOf(target)
    /\ understood # None => Says(understood, asked)

LEMMA InitAsks == Init => AskedInv
  BY DEF Init, H!Init, AskedInv

LEMMA StepAsks == AskedIsHttp /\ AskedInv /\ [Next]_vars => AskedInv'
<1> SUFFICES ASSUME AskedIsHttp, AskedInv, [Next]_vars PROVE AskedInv'
  OBVIOUS
<1>1. CASE UNCHANGED handshakeVars
  BY <1>1 DEF AskedInv, handshakeVars
<1>2. CASE H!Upgrade
  <2>1. /\ cl' = "writing" /\ inServer' = H!RequestOf(target) /\ UNCHANGED <<target, asked, understood>>
    BY <1>2 DEF H!Upgrade, H!serverVars
  <2> QED
    BY <2>1 DEF AskedInv
<1>3. CASE H!ClientWritten
  BY <1>3 DEF H!ClientWritten, H!serverVars, AskedInv
<1>4. CASE H!ClientReads \/ H!ClientHearsEnd \/ H!ClientFails
  <2>1. asked' = None
    BY <1>4 DEF H!ClientReads, H!ClientHearsEnd, H!ClientFails
  <2> QED
    BY <2>1 DEF AskedInv
<1>5. CASE H!ServerReads
  <2>1. sv = "reading" /\ inServer # << >> /\ UNCHANGED <<target, asked, cl>> /\ sv' # "reading"
    BY <1>5 DEF H!ServerReads, H!clientVars, H!Write
  <2>2. understood' = understood
        \/ \E r \in H!Request(inServer) : understood' = [line |-> r.line, header |-> r.header]
    BY <1>5 DEF H!ServerReads
  <2>3. ASSUME asked # None, NEW r \in H!Request(inServer), understood' = [line |-> r.line, header |-> r.header]
        PROVE  Says(understood', asked)
    <3>1. asked \in Asked /\ inServer = H!RequestOf(H!Target(asked))
      BY <2>1, <2>3 DEF AskedInv
    <3>2. PICK u : u = understood'
      OBVIOUS
    <3>3. u.line = r.line /\ u.header = r.header
      BY <2>3, <3>2
    <3>4. Says(u, asked)
      BY <3>1, <3>3, RequestSays
    <3> QED
      BY <3>2, <3>4
  <2> QED
    BY <2>1, <2>2, <2>3 DEF AskedInv
<1>6. CASE H!ServerWritten \/ H!ServerWriteFails
  <2>1. understood' = None /\ sv' # "reading" /\ UNCHANGED <<target, asked, cl>>
    BY <1>6 DEF H!ServerWritten, H!ServerWriteFails, H!clientVars
  <2> QED
    BY <2>1 DEF AskedInv
<1>7. CASE H!StrangerAnswers \/ H!ServerReadFails
  <2>1. sv' # "reading" /\ UNCHANGED <<target, asked, cl, understood>>
    BY <1>7 DEF H!StrangerAnswers, H!ServerReadFails, H!clientVars
  <2> QED
    BY <2>1 DEF AskedInv
<1> QED
  BY <1>1, <1>2, <1>3, <1>4, <1>5, <1>6, <1>7
     DEF Next, ClientHandshake, ServerHandshake, Stranger, HandshakeFails, WriteFails, Frames, Read, ReadFails,
         H!Client, H!Server, H!Fails, vars

\* AskedIsUnderstood (utility.hpp:247): whatever URL and header a client's owner gives, the
\* server's Connection has the method, the version, the path, the fields of the query, the
\* header and the host that were asked for.
THEOREM AskedIsAlwaysUnderstood == ASSUME AskedIsHttp PROVE Spec => []AskedIsUnderstood
<1>1. AskedInv => AskedIsUnderstood
  <2> SUFFICES ASSUME AskedInv, asked # None, understood # None
               PROVE  H!AskedIsUnderstood
    BY DEF AskedIsUnderstood, H!AskedIsUnderstood
  <2>1. Says(understood, asked)
    BY DEF AskedInv
  <2> QED
    BY <2>1, Zenon DEF Says, PortField, H!AskedIsUnderstood
<1>2. AskedIsHttp /\ AskedInv /\ [Next]_vars => AskedInv'
  BY StepAsks
<1> QED
  BY <1>1, <1>2, InitAsks, PTL DEF Spec
================================================================================
