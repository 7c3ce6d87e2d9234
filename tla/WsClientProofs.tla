---------------------------- MODULE WsClientProofs ----------------------------
(***************************************************************************)
(* The client, for any server, configuration and number of addresses.      *)
(*                                                                         *)
(* No handler outlives it: from the destructor's first step on the gate is *)
(* closed and nobody is behind it.                                         *)
(*                                                                         *)
(* And however the bytes come in, it stays in step with the frames.  What  *)
(* the frames of the script tell, one by one, is a sequence of places      *)
(* (Tells): how far the stream is, what is collected, what is complete.    *)
(* The folds of BytesIn and Messages are such sequences (BytesAre,         *)
(* TellsExist), found by induction in the form of a least counterexample   *)
(* (Least).  The invariant says that the reader is amid a frame k with     *)
(* what the frames before k told, and that its buffer ends within the      *)
(* stream and holds what num_additional_bytes says.                        *)
(***************************************************************************)
EXTENDS WsClient, FiniteSetTheorems, SequenceTheorems, TLAPS

--------------------------------------------------------------------------------
(* The gate. *)

Destroying == owner \in {"closing", "leaving", "gone"}
GateShut   == Destroying => stopped /\ inside = {}

\* The bodies of the handlers, each of which gives back the lock it holds.
LEMMA BodyNeedsLock == HandlerBody => inside # {}
  BY DEF HandlerBody, HandlerFails, Resolved, Connected, ProxyWritten, ProxyAnswered,
         Secured, Written, Answered,
         HeaderRead, LengthRead, ContentRead, Handles

LEMMA BodyKeepsOwner == HandlerBody => UNCHANGED <<ownVars, stopped>>
  BY DEF HandlerBody, HandlerFails, Resolved, Connected, ProxyWritten, ProxyAnswered,
         Secured, Written, Answered,
         HeaderRead, LengthRead, ContentRead, Handles, Gate!Leave, ownVars

\* The destructor closes the gate (client_ws.hpp:336) and no step opens it.
LEMMA ShutStays == GateShut /\ [Next]_vars => GateShut'
<1> SUFFICES ASSUME GateShut, [Next]_vars PROVE GateShut'
  OBVIOUS
<1> USE DEF GateShut, Destroying
<1>1. CASE Start
  BY <1>1 DEF Start, gateVars
<1>2. CASE StopClose
  BY <1>2 DEF StopClose, gateVars
<1>3. CASE StopIo
  BY <1>3 DEF StopIo, gateVars
<1>4. CASE Destroy
  BY <1>4 DEF Destroy, Gate!Close
<1>5. CASE TimerHandler
  BY <1>5 DEF TimerHandler, gateVars, ownVars
<1>6. CASE HandlerBegins
  BY <1>6 DEF HandlerBegins, gateVars, ownVars, Gate!Enter
<1>7. CASE HandlerBody
  <2>1. ~Destroying
    BY <1>7, BodyNeedsLock
  <2> QED
    BY <1>7, <2>1, BodyKeepsOwner DEF ownVars
<1>8. CASE RunReturns
  BY <1>8 DEF RunReturns, gateVars
<1>9. CASE Arrive
  BY <1>9 DEF Arrive, gateVars, ownVars
<1>10. CASE Fail
  BY <1>10 DEF Fail, gateVars, ownVars
<1>11. CASE TimerExpires
  BY <1>11 DEF TimerExpires, gateVars, ownVars
<1>12. CASE UNCHANGED vars
  BY <1>12 DEF vars, gateVars, ownVars
<1> QED
  BY <1>1, <1>2, <1>3, <1>4, <1>5, <1>6, <1>7, <1>8, <1>9, <1>10, <1>11, <1>12 DEF Next, IoThread

\* With the gate shut only a handler that asks for the lock in vain still runs,
\* and it neither calls back nor enters.
LEMMA ShutIsQuiet == GateShut /\ owner = "gone" /\ [Next]_vars => UNCHANGED <<outVars, inside>>
<1> SUFFICES ASSUME GateShut, owner = "gone", [Next]_vars PROVE UNCHANGED <<outVars, inside>>
  OBVIOUS
<1>1. stopped /\ inside = {}
  BY DEF GateShut, Destroying
<1>2. ~HandlerBody
  BY <1>1, BodyNeedsLock
<1>3. CASE HandlerBegins
  BY <1>1, <1>3 DEF HandlerBegins, Gate!Enter, gateVars
<1>4. CASE TimerHandler \/ RunReturns \/ Arrive \/ Fail \/ TimerExpires
  BY <1>4 DEF TimerHandler, RunReturns, Arrive, Fail, TimerExpires, gateVars
<1>5. CASE Start \/ StopClose \/ StopIo \/ Destroy
  BY <1>5 DEF Start, StopClose, StopIo, Destroy, gateVars
<1>6. CASE UNCHANGED vars
  BY <1>6 DEF vars, gateVars
<1> QED
  BY <1>2, <1>3, <1>4, <1>5, <1>6 DEF Next, IoThread

\* From the destructor's first step on no handler is inside (client_ws.hpp:336).
THEOREM ShutFromDestruction == Spec => []GateShut
<1>1. Init => GateShut
  BY DEF Init, GateShut, Destroying
<1> QED
  BY <1>1, ShutStays, PTL DEF Spec

\* "a potential destructor call is delayed until all locks are released"
\* (utility.hpp:455): what QuietAfterDestruction says, for all constants.
THEOREM QuietOnceGone == Spec => QuietAfterDestruction
<1>1. GateShut /\ [Next]_vars
        => [owner = "gone" => inside = {} /\ UNCHANGED <<outVars, inside>>]_vars
  BY ShutIsQuiet DEF GateShut, Destroying
<1> QED
  BY <1>1, ShutFromDestruction, PTL DEF Spec, QuietAfterDestruction

--------------------------------------------------------------------------------
(* Folds of sequences. *)

\* Every set of naturals that is not empty has a least member.
LEMMA Least ==
  ASSUME NEW T \in SUBSET Nat, T # {}
  PROVE  \E n \in T : \A m \in T : n <= m
<1>1. PICK n \in T : \A m \in T : <<m, n>> \notin OpToRel(<, Nat)
  BY NatLessThanWellFounded, WFMin
<1>2. \A m \in T : ~(m < n)
  BY <1>1 DEF OpToRel
<1> QED
  BY <1>2

\* g is the recursive function of a fold of S with the step Op, which begins with the
\* member c of a set.
IsFold(g, S, base, c, Op) ==
  \A s \in SUBSET S : g[s] = IF s = {} THEN base ELSE Op[c[s]][g[s \ {c[s]}]]

\* The recursive function of a fold exists: what a step makes of a part that is one
\* member smaller defines it, size by size.
LEMMA FoldExists ==
  ASSUME NEW S, IsFiniteSet(S), NEW V, NEW base \in V, NEW c, NEW Op,
         \A s \in SUBSET S : s # {} => c[s] \in s,
         \A x \in S, v \in V : Op[x][v] \in V
  PROVE  \E g \in [SUBSET S -> V] : IsFold(g, S, base, c, Op)
<1> DEFINE Value(g, s) == IF s = {} THEN base ELSE Op[c[s]][g[s \ {c[s]}]]
           UpTo(g, n)  == \A s \in SUBSET S : Cardinality(s) <= n => g[s] = Value(g, s)
           Fails       == {n \in Nat : ~ \E g \in [SUBSET S -> V] : UpTo(g, n)}
<1>1. \A s \in SUBSET S : /\ IsFiniteSet(s) /\ Cardinality(s) \in Nat /\ Cardinality(s) <= Cardinality(S)
                          /\ Cardinality(s) = 0 <=> s = {}
                          /\ s # {} => Cardinality(s \ {c[s]}) = Cardinality(s) - 1
  BY FS_Subset, FS_CardinalityType, FS_EmptySet, FS_RemoveElement
<1>2. \A g \in [SUBSET S -> V], s \in SUBSET S : Value(g, s) \in V
  <2> SUFFICES ASSUME NEW g \in [SUBSET S -> V], NEW s \in SUBSET S, s # {} PROVE Op[c[s]][g[s \ {c[s]}]] \in V
    OBVIOUS
  <2>1. s \ {c[s]} \in SUBSET S /\ c[s] \in S
    OBVIOUS
  <2> QED
    BY <2>1
<1>3. 0 \notin Fails
  <2> DEFINE g == [s \in SUBSET S |-> base]
  <2>1. ASSUME NEW s \in SUBSET S, Cardinality(s) <= 0 PROVE g[s] = Value(g, s)
    <3>1. Cardinality(s) \in Nat /\ (Cardinality(s) = 0 <=> s = {})
      BY <1>1
    <3>2. s = {}
      BY <2>1, <3>1
    <3> QED
      BY <3>2
  <2>2. g \in [SUBSET S -> V] /\ UpTo(g, 0)
    BY <2>1
  <2> HIDE DEF UpTo
  <2> QED
    BY <2>2
<1>4. ASSUME NEW n \in Nat, n \notin Fails PROVE n + 1 \notin Fails
  <2>1. PICK g \in [SUBSET S -> V] : UpTo(g, n)
    BY <1>4
  <2> DEFINE h == [s \in SUBSET S |-> IF Cardinality(s) <= n THEN g[s] ELSE Value(g, s)]
  <2>2. h \in [SUBSET S -> V]
    BY <1>2
  <2>3. ASSUME NEW s \in SUBSET S, Cardinality(s) <= n + 1 PROVE h[s] = Value(h, s)
    <3>1. CASE s = {}
      BY <1>1, <2>1, <3>1
    <3>2. CASE s # {}
      <4>1. s \ {c[s]} \in SUBSET S /\ Cardinality(s \ {c[s]}) <= n
        <5>1. Cardinality(s) \in Nat /\ Cardinality(s \ {c[s]}) = Cardinality(s) - 1
          BY <1>1, <3>2
        <5> QED
          BY <2>3, <5>1
      <4>2. h[s \ {c[s]}] = g[s \ {c[s]}]
        BY <4>1
      <4>3. h[s] = Value(g, s)
        BY <2>1
      <4> QED
        BY <4>2, <4>3
    <3> QED
      BY <3>1, <3>2
  <2>4. UpTo(h, n + 1)
    BY <2>3
  <2> HIDE DEF UpTo, h
  <2> QED
    BY <2>2, <2>4
<1>5. Fails = {}
  <2> SUFFICES ASSUME Fails # {} PROVE FALSE
    OBVIOUS
  <2> HIDE DEF UpTo
  <2>1. Fails \in SUBSET Nat
    OBVIOUS
  <2> HIDE DEF Fails
  <2>2. PICK n \in Fails : \A m \in Fails : n <= m
    BY <2>1, Least
  <2>3. n \in Nat /\ n - 1 \in Nat /\ (n - 1) + 1 = n
    <3>1. n \in Nat /\ n # 0
      BY <1>3, <2>1, <2>2
    <3> QED
      BY <3>1
  <2>4. n - 1 \in Fails
    BY <1>4, <2>2, <2>3
  <2> QED
    BY <2>2, <2>3, <2>4
<1>6. PICK g \in [SUBSET S -> V] : UpTo(g, Cardinality(S))
  <2>1. Cardinality(S) \in Nat
    BY FS_CardinalityType
  <2> HIDE DEF UpTo
  <2> QED
    BY <1>5, <2>1
<1> QED
  BY <1>1, <1>6 DEF IsFold

LEMMA MaxExists ==
  ASSUME NEW n \in Nat, NEW s \in SUBSET (1 .. n), s # {}
  PROVE  Max(s) \in s
<1> DEFINE T == {m \in Nat : n - m \in s}
<1>1. T \in SUBSET Nat /\ T # {}
  <2>1. PICK x \in s : TRUE
    OBVIOUS
  <2>2. n - x \in Nat /\ n - (n - x) = x
    OBVIOUS
  <2> QED
    BY <2>2
<1> HIDE DEF T
<1>2. PICK m \in T : \A k \in T : m <= k
  BY <1>1, Least
<1>3. n - m \in s /\ m \in Nat
  BY <1>2 DEF T
<1>4. ASSUME NEW x \in s PROVE n - m >= x
  <2>1. n - x \in Nat /\ n - (n - x) = x
    OBVIOUS
  <2>2. n - x \in T
    BY <2>1 DEF T
  <2> QED
    BY <1>2, <1>3, <2>1, <2>2
<1> QED
  BY <1>3, <1>4 DEF Max


LEMMA MaxOfUpTo == \A k \in Nat \ {0} : Max(1 .. k) = k /\ (1 .. k) \ {k} = 1 .. k - 1 /\ 1 .. k # {}
<1> TAKE k \in Nat \ {0}
<1>1. Max(1 .. k) \in 1 .. k /\ \A i \in 1 .. k : Max(1 .. k) >= i
  <2>1. \E x \in 1 .. k : \A i \in 1 .. k : x >= i
    <3>1. k \in 1 .. k
      OBVIOUS
    <3> QED
      BY <3>1
  <2> QED
    BY <2>1 DEF Max
<1>2. Max(1 .. k) = k
  <2> HIDE DEF Max
  <2> QED
    BY <1>1
<1>3. (1 .. k) \ {k} = 1 .. k - 1 /\ k \in 1 .. k
  OBVIOUS
<1> QED
  BY <1>2, <1>3

\* Induction up to n.
LEMMA UpToEnd ==
  ASSUME NEW n \in Nat, NEW T, 0 \in T, \A k \in 1 .. n : k - 1 \in T => k \in T
  PROVE  \A k \in 0 .. n : k \in T
<1> DEFINE Bad == {k \in 0 .. n : k \notin T}
<1> SUFFICES ASSUME Bad # {} PROVE FALSE
  OBVIOUS
<1>1. Bad \in SUBSET Nat
  OBVIOUS
<1> HIDE DEF Bad
<1>2. PICK k \in Bad : \A i \in Bad : k <= i
  BY <1>1, Least
<1>3. k \in 0 .. n /\ k \notin T /\ k # 0
  BY DEF Bad
<1>4. k - 1 \in 0 .. n /\ k \in 1 .. n /\ ~(k <= k - 1)
  BY <1>3
<1>5. k - 1 \in T
  BY <1>2, <1>4 DEF Bad
<1> QED
  BY <1>3, <1>4, <1>5

\* g is the fold of a sequence of n members over any set of them, the last one last.
Runs(g, n, base, Op) ==
  \A s \in SUBSET (1 .. n) : g[s] = IF s = {} THEN base ELSE Op[Max(s)][g[s \ {Max(s)}]]

LEMMA FoldRuns ==
  ASSUME NEW n \in Nat, NEW V, NEW base \in V, NEW Op, \A x \in 1 .. n, v \in V : Op[x][v] \in V
  PROVE  \E g \in [SUBSET (1 .. n) -> V] : Runs(g, n, base, Op)
<1> DEFINE S == 1 .. n
           c == [s \in SUBSET S |-> Max(s)]
<1>1. IsFiniteSet(S)
  BY FS_Interval
<1>2. \A s \in SUBSET S : s # {} => c[s] \in s
  BY MaxExists
<1>3. \E g \in [SUBSET S -> V] : IsFold(g, S, base, c, Op)
  <2> HIDE DEF S, c
  <2>1. \A x \in S, v \in V : Op[x][v] \in V
    BY DEF S
  <2> QED
    BY <1>1, <1>2, <2>1, FoldExists
<1>4. PICK g \in [SUBSET S -> V] : \A s \in SUBSET S : g[s] = IF s = {} THEN base ELSE Op[c[s]][g[s \ {c[s]}]]
  BY <1>3 DEF IsFold
<1>5. ASSUME NEW s \in SUBSET S PROVE g[s] = IF s = {} THEN base ELSE Op[Max(s)][g[s \ {Max(s)}]]
  <2>1. c[s] = Max(s)
    OBVIOUS
  <2> HIDE DEF S, c
  <2> QED
    BY <1>4, <2>1
<1> QED
  BY <1>4, <1>5 DEF Runs

--------------------------------------------------------------------------------
(* The stream of the server. *)

\* The bytes of the first k frames add up to b[k].
Counts(b, s) == /\ b \in [0 .. Len(s) -> Nat] /\ b[0] = 0
                /\ \A k \in 1 .. Len(s) : b[k] = b[k - 1] + SizeOf(s[k])

LEMMA SizeOfFrame == \A f \in Frames : SizeOf(f) \in Nat /\ SizeOf(f) >= 2 + f.ext /\ f.len \in Nat /\ f.ext \in Nat
  BY DEF Frames, SizeOf

LEMMA BytesAre ==
  ASSUME NEW s \in Seq(Frames), NEW b, Counts(b, s)
  PROVE  BytesIn(s) = b[Len(s)]
<1>0. SUFFICES ASSUME NEW n \in Nat, n = Len(s) PROVE BytesIn(s) = b[n]
  BY LenProperties
<1> DEFINE S  == 1 .. n
           Op == [x \in S |-> [v \in Nat |-> v + SizeOf(s[x])]]
           Step(iter, t) == IF t = {} THEN 0 ELSE iter[t \ {Max(t)}] + SizeOf(s[Max(t)])
           it == CHOOSE iter : iter = [t \in SUBSET S |-> Step(iter, t)]
<1>1. n \in Nat /\ DOMAIN s = S /\ \A k \in S : SizeOf(s[k]) \in Nat
  BY <1>0, LenProperties, ElementOfSeq, SizeOfFrame
<1>2. PICK g \in [SUBSET S -> Nat] :
        \A t \in SUBSET S : g[t] = IF t = {} THEN 0 ELSE Op[Max(t)][g[t \ {Max(t)}]]
  <2> DEFINE V == Nat
  <2>1. 0 \in V /\ \A x \in 1 .. n, v \in V : Op[x][v] \in V
    BY <1>1
  <2> HIDE DEF Op, V
  <2>2. \E g \in [SUBSET (1 .. n) -> V] : Runs(g, n, 0, Op)
    BY <2>1, FoldRuns
  <2> QED
    BY <2>2 DEF V, Runs
<1>3. g = [t \in SUBSET S |-> Step(g, t)]
  <2>1. ASSUME NEW t \in SUBSET S PROVE g[t] = Step(g, t)
    <3>1. CASE t = {}
      BY <1>2, <3>1
    <3>2. CASE t # {}
      <4>1. Max(t) \in S /\ t \ {Max(t)} \in SUBSET S
        BY <1>1, <3>2, MaxExists
      <4> HIDE DEF S
      <4>2. g[t \ {Max(t)}] \in Nat
        BY <1>2, <4>1
      <4>3. Op[Max(t)][g[t \ {Max(t)}]] = g[t \ {Max(t)}] + SizeOf(s[Max(t)])
        BY <4>1, <4>2
      <4> QED
        BY <1>2, <3>2, <4>3
    <3> QED
      BY <3>1, <3>2
  <2> HIDE DEF S, Step
  <2> QED
    BY <1>2, <2>1
<1>4. it = [t \in SUBSET S |-> Step(it, t)]
  <2> HIDE DEF Step, S
  <2> QED
    BY <1>3
<1>5. BytesIn(s) = it[S]
  BY <1>1 DEF BytesIn, FoldLeft, MapThenFoldSet
<1> HIDE DEF it
<1> DEFINE T == {k \in 0 .. n : it[1 .. k] = b[k]}
<1>6. 0 \in T
  <2>1. it[{}] = 0
    BY <1>4
  <2>2. 1 .. 0 = {} /\ 0 \in 0 .. n
    BY <1>1
  <2> QED
    BY <2>1, <2>2 DEF Counts
<1>7. ASSUME NEW k \in 1 .. n, k - 1 \in T PROVE k \in T
  <2>1. k \in Nat \ {0} /\ 1 .. k \in SUBSET S /\ k - 1 \in 0 .. n /\ k \in 0 .. n
    BY <1>1
  <2>2. it[1 .. k] = Step(it, 1 .. k)
    BY <1>4, <2>1
  <2>3. it[1 .. k] = it[1 .. k - 1] + SizeOf(s[k])
    BY <2>1, <2>2, MaxOfUpTo
  <2>4. b[k] = b[k - 1] + SizeOf(s[k])
    BY <1>0 DEF Counts
  <2> QED
    BY <1>7, <2>1, <2>3, <2>4
<1>8. n \in T
  <2>1. n \in 0 .. n
    OBVIOUS
  <2> HIDE DEF T
  <2> QED
    BY <1>6, <1>7, <2>1, UpToEnd
<1> QED
  BY <1>0, <1>1, <1>5, <1>8

\* Where the server is behind a frame: the place in the stream, the fragments of the
\* message it is amid, the messages it completed.
Places == [at : Nat, part : Seq(Spans), done : Seq(Seq(Spans))]
First  == [at |-> 0, part |-> << >>, done |-> << >>]

SpanOf(m, f) == <<m.at + 2 + f.ext, f.len>>
PartOf(m, f) == CASE f.kind = "more" -> Append(m.part, SpanOf(m, f))
                  [] f.kind = "data" -> << >>
                  [] OTHER -> m.part
DoneOf(m, f) == IF f.kind = "data" THEN Append(m.done, Append(m.part, SpanOf(m, f))) ELSE m.done
Told(m, f)   == [at |-> m.at + SizeOf(f), part |-> PartOf(m, f), done |-> DoneOf(m, f)]

Tells(a, s) == /\ a \in [0 .. Len(s) -> Places] /\ a[0] = First
               /\ \A k \in 1 .. Len(s) : a[k] = Told(a[k - 1], s[k])

MessagesOf(s) == FoldLeft(Told, First, s).done

LEMMA MessagesAre == Messages = MessagesOf(script) /\ Messages' = MessagesOf(script')
  BY DEF Messages, MessagesOf, FoldLeft, MapThenFoldSet, First, Told, PartOf, DoneOf, SpanOf

LEMMA SpanTyped == \A m \in Places, f \in Frames : SpanOf(m, f) \in Spans
<1> SUFFICES ASSUME NEW m \in Places, NEW f \in Frames PROVE SpanOf(m, f) \in Spans
  OBVIOUS
<1>1. m.at \in Nat /\ f.ext \in Nat /\ f.len \in Nat
  BY SizeOfFrame DEF Places
<1>2. m.at + 2 + f.ext \in Nat
  BY <1>1
<1> QED
  BY <1>1, <1>2 DEF SpanOf, Spans

LEMMA ToldTyped == \A m \in Places, f \in Frames : Told(m, f) \in Places
<1> SUFFICES ASSUME NEW m \in Places, NEW f \in Frames PROVE Told(m, f) \in Places
  OBVIOUS
<1> DEFINE S == Seq(Spans)
           x == SpanOf(m, f)
<1>1. m.at \in Nat /\ m.part \in S /\ m.done \in Seq(S) /\ SizeOf(f) \in Nat
  BY SizeOfFrame DEF Places
<1>2. Append(m.part, x) \in S
  <2>1. x \in Spans
    BY SpanTyped
  <2> HIDE DEF x
  <2> QED
    BY <1>1, <2>1
<1>3. << >> \in S
  OBVIOUS
<1>4. PartOf(m, f) \in S
  <2> HIDE DEF S
  <2> QED
    BY <1>1, <1>2, <1>3 DEF PartOf
<1>5. DoneOf(m, f) \in Seq(S)
  <2> DEFINE y == Append(m.part, x)
  <2>1. y \in S
    BY <1>2
  <2> HIDE DEF S, y
  <2>2. Append(m.done, y) \in Seq(S)
    BY <1>1, <2>1
  <2> QED
    BY <1>1, <2>2 DEF DoneOf, y
<1>6. m.at + SizeOf(f) \in Nat
  BY <1>1
<1> QED
  BY <1>4, <1>5, <1>6 DEF Told, Places

\* What the fold of Messages passes through.
LEMMA TellsExist ==
  ASSUME NEW n \in Nat, NEW s \in Seq(Frames), n = Len(s)
  PROVE  \E a : Tells(a, s) /\ MessagesOf(s) = a[n].done
<1> DEFINE S  == 1 .. n
           Op == [x \in S |-> [m \in Places |-> Told(m, s[x])]]
           Step(iter, t) == IF t = {} THEN First ELSE Told(iter[t \ {Max(t)}], s[Max(t)])
           it == CHOOSE iter : iter = [t \in SUBSET S |-> Step(iter, t)]
<1>1. DOMAIN s = S /\ \A k \in S : s[k] \in Frames
  BY LenProperties, ElementOfSeq
<1>2. PICK g \in [SUBSET S -> Places] :
        \A t \in SUBSET S : g[t] = IF t = {} THEN First ELSE Op[Max(t)][g[t \ {Max(t)}]]
  <2>1. First \in Places
    BY DEF First, Places
  <2>2. \A x \in 1 .. n, v \in Places : Op[x][v] \in Places
    BY <1>1, ToldTyped
  <2> HIDE DEF Op
  <2>3. \E g \in [SUBSET (1 .. n) -> Places] : Runs(g, n, First, Op)
    BY <2>1, <2>2, FoldRuns
  <2> QED
    BY <2>3 DEF Runs
<1>3. \A t \in SUBSET S : g[t] = Step(g, t)
  <2> SUFFICES ASSUME NEW t \in SUBSET S PROVE g[t] = Step(g, t)
    OBVIOUS
  <2>1. CASE t = {}
    BY <1>2, <2>1
  <2>2. CASE t # {}
    <3>1. Max(t) \in S /\ t \ {Max(t)} \in SUBSET S
      BY <2>2, MaxExists
    <3> HIDE DEF S
    <3>2. g[t \ {Max(t)}] \in Places
      BY <1>2, <3>1
    <3>3. Op[Max(t)][g[t \ {Max(t)}]] = Told(g[t \ {Max(t)}], s[Max(t)])
      BY <3>1, <3>2
    <3> QED
      BY <1>2, <2>2, <3>3
  <2> QED
    BY <2>1, <2>2
<1>4. g = [t \in SUBSET S |-> Step(g, t)]
  <2> HIDE DEF S, Step
  <2> QED
    BY <1>2, <1>3
<1>5. it = [t \in SUBSET S |-> Step(it, t)]
  <2> HIDE DEF Step, S
  <2> QED
    BY <1>4
<1>6. MessagesOf(s) = it[S].done
  BY <1>1 DEF MessagesOf, FoldLeft, MapThenFoldSet
<1> HIDE DEF it
<1>7. ASSUME NEW h, \A t \in SUBSET S : h[t] = Step(h, t), NEW k \in 1 .. n
      PROVE  h[1 .. k] = Told(h[1 .. k - 1], s[k])
  <2>1. k \in Nat \ {0} /\ 1 .. k \in SUBSET S
    OBVIOUS
  <2>2. h[1 .. k] = Step(h, 1 .. k)
    BY <1>7, <2>1
  <2> QED
    BY <2>1, <2>2, MaxOfUpTo
<1>8. ASSUME NEW h, \A t \in SUBSET S : h[t] = Step(h, t) PROVE h[1 .. 0] = First
  <2>1. 1 .. 0 = {} /\ {} \in SUBSET S
    OBVIOUS
  <2> QED
    BY <1>8, <2>1
<1>9. \A t \in SUBSET S : it[t] = Step(it, t)
  <2> HIDE DEF S, Step
  <2> QED
    BY <1>5
<1> HIDE DEF Step
<1>10. it[S] = g[S]
  <2> DEFINE T == {k \in 0 .. n : it[1 .. k] = g[1 .. k]}
  <2>1. 0 \in T
    <3>1. it[1 .. 0] = First
      BY <1>8, <1>9
    <3>2. g[1 .. 0] = First
      BY <1>3, <1>8
    <3> QED
      BY <3>1, <3>2
  <2>2. ASSUME NEW k \in 1 .. n, k - 1 \in T PROVE k \in T
    <3>1. it[1 .. k] = Told(it[1 .. k - 1], s[k])
      BY <1>7, <1>9
    <3>2. g[1 .. k] = Told(g[1 .. k - 1], s[k])
      BY <1>3, <1>7
    <3>3. k \in 0 .. n
      OBVIOUS
    <3> QED
      BY <2>2, <3>1, <3>2, <3>3
  <2>3. n \in 0 .. n
    OBVIOUS
  <2>4. n \in T
    <3> HIDE DEF T
    <3> QED
      BY <2>1, <2>2, <2>3, UpToEnd
  <2> QED
    BY <2>4
<1> DEFINE a == [k \in 0 .. n |-> g[1 .. k]]
<1>11. a \in [0 .. n -> Places]
  <2>1. \A k \in 0 .. n : 1 .. k \in SUBSET S
    OBVIOUS
  <2> HIDE DEF S
  <2> QED
    BY <1>2, <2>1
<1>12. a[0] = First
  <2>1. 0 \in 0 .. n
    OBVIOUS
  <2> QED
    BY <1>3, <1>8, <2>1
<1>13. ASSUME NEW k \in 1 .. n PROVE a[k] = Told(a[k - 1], s[k])
  <2>1. k \in 0 .. n /\ k - 1 \in 0 .. n
    OBVIOUS
  <2> QED
    BY <1>3, <1>7, <2>1
<1>14. a[n] = g[S]
  <2>1. n \in 0 .. n
    OBVIOUS
  <2> QED
    BY <2>1
<1> HIDE DEF a, S
<1>15. Tells(a, s)
  BY <1>11, <1>12, <1>13 DEF Tells
<1> QED
  BY <1>6, <1>10, <1>14, <1>15

\* The place behind each frame of the script.
Sofar == CHOOSE a : Tells(a, script) /\ MessagesOf(script) = a[Len(script)].done

LEMMA ToldIs == \A m, f : /\ Told(m, f).at = m.at + SizeOf(f)
                          /\ Told(m, f).part = PartOf(m, f) /\ Told(m, f).done = DoneOf(m, f)
  BY DEF Told

LEMMA SofarTells ==
  ASSUME script \in Seq(Frames)
  PROVE  /\ Sofar \in [0 .. Len(script) -> Places] /\ Sofar[0] = First
         /\ \A k \in 1 .. Len(script) : script[k] \in Frames /\ Sofar[k] = Told(Sofar[k - 1], script[k])
         /\ Messages = Sofar[Len(script)].done /\ Len(script) \in Nat
<1>1. Len(script) \in Nat /\ \A k \in 1 .. Len(script) : script[k] \in Frames
  BY LenProperties, ElementOfSeq
<1>2. Tells(Sofar, script) /\ MessagesOf(script) = Sofar[Len(script)].done
  BY <1>1, TellsExist DEF Sofar
<1> QED
  BY <1>1, <1>2, MessagesAre DEF Tells

\* Where a frame begins, in bytes.
LEMMA Starts ==
  ASSUME script \in Seq(Frames)
  PROVE  /\ \A k \in 1 .. Len(script) + 1 : StartOf(k) = Sofar[k - 1].at
         /\ BytesIn(script) = Sofar[Len(script)].at
         /\ \A k \in 0 .. Len(script) : Sofar[k].at \in Nat
         /\ \A k \in 1 .. Len(script) : Sofar[k].at = Sofar[k - 1].at + SizeOf(script[k])
<1>1. \A k \in 0 .. Len(script) : Sofar[k].at \in Nat
  BY SofarTells DEF Places
<1>2. \A k \in 1 .. Len(script) : Sofar[k].at = Sofar[k - 1].at + SizeOf(script[k])
  <2> TAKE k \in 1 .. Len(script)
  <2>1. Sofar[k] = Told(Sofar[k - 1], script[k])
    BY SofarTells
  <2> QED
    BY <2>1, ToldIs
<1>3. ASSUME NEW n \in 0 .. Len(script), NEW s \in Seq(Frames), Len(s) = n,
             \A k \in 1 .. n : s[k] = script[k]
      PROVE  BytesIn(s) = Sofar[n].at
  <2> DEFINE b == [k \in 0 .. n |-> Sofar[k].at]
  <2>0. Len(script) \in Nat /\ n \in Nat /\ n <= Len(script)
    BY SofarTells
  <2>1. b \in [0 .. n -> Nat]
    BY <1>1, <2>0
  <2>2. b[0] = 0 /\ b[n] = Sofar[n].at
    BY <2>0, SofarTells DEF First
  <2>3. ASSUME NEW k \in 1 .. n PROVE b[k] = b[k - 1] + SizeOf(s[k])
    <3>1. k \in 0 .. n /\ k - 1 \in 0 .. n /\ k \in 1 .. Len(script)
      BY <2>0
    <3> QED
      BY <1>2, <1>3, <3>1
  <2> HIDE DEF b
  <2>4. Counts(b, s)
    BY <1>3, <2>1, <2>2, <2>3 DEF Counts
  <2> QED
    BY <1>3, <2>2, <2>4, BytesAre
<1>4. ASSUME NEW k \in 1 .. Len(script) + 1 PROVE StartOf(k) = Sofar[k - 1].at
  <2> DEFINE s == SubSeq(script, 1, k - 1)
  <2>1. Len(script) \in Nat /\ k - 1 \in 0 .. Len(script) /\ k - 1 \in Int /\ 1 \in Int
    BY SofarTells
  <2>2. \A i \in 1 .. k - 1 : script[i] \in Frames
    BY <2>1, SofarTells
  <2>3. /\ s \in Seq(Frames) /\ Len(s) = IF 1 <= k - 1 THEN k - 1 - 1 + 1 ELSE 0
        /\ \A i \in 1 .. k - 1 - 1 + 1 : s[i] = script[1 + i - 1]
    BY <2>1, <2>2, SubSeqProperties
  <2> HIDE DEF s
  <2>4. Len(s) = k - 1 /\ \A i \in 1 .. k - 1 : s[i] = script[i]
    BY <2>1, <2>3
  <2>5. BytesIn(s) = Sofar[k - 1].at
    BY <1>3, <2>1, <2>3, <2>4
  <2> QED
    BY <2>5 DEF StartOf, s
<1>5. BytesIn(script) = Sofar[Len(script)].at
  <2>1. Len(script) \in 0 .. Len(script)
    BY SofarTells
  <2> QED
    BY <1>3, <2>1
<1> QED
  BY <1>1, <1>2, <1>4, <1>5

\* s is the beginning of t.
Begins(s, t) == Len(s) <= Len(t) /\ \A i \in 1 .. Len(s) : s[i] = t[i]

LEMMA BeginsStill ==
  ASSUME NEW r, NEW s, NEW t, Len(r) \in Nat, Len(s) \in Nat, Len(t) \in Nat, Begins(r, s), Begins(s, t)
  PROVE  Begins(r, t)
<1>1. Len(r) <= Len(t) /\ \A i \in 1 .. Len(r) : i \in 1 .. Len(s)
  BY DEF Begins
<1> QED
  BY <1>1 DEF Begins

LEMMA BeginsIsPrefix ==
  ASSUME NEW X, NEW s \in Seq(X), NEW t \in Seq(X), Begins(s, t)
  PROVE  IsPrefix(s, t)
<1>1. Len(s) \in Nat /\ Len(t) \in Nat /\ Len(s) <= Len(t) /\ \A i \in 1 .. Len(s) : s[i] = t[i]
  BY LenProperties DEF Begins
<1>2. SubSeq(s, 1, Len(s)) = SubSeq(t, 1, Len(s))
  BY <1>1
<1> QED
  BY <1>1, <1>2 DEF IsPrefix

LEMMA DoneGrows == \A m \in Places, f \in Frames : Begins(m.done, DoneOf(m, f))
<1> SUFFICES ASSUME NEW m \in Places, NEW f \in Frames PROVE Begins(m.done, DoneOf(m, f))
  OBVIOUS
<1> DEFINE S == Seq(Spans)
           x == SpanOf(m, f)
           y == Append(m.part, x)
<1>1. m.part \in S /\ m.done \in Seq(S) /\ x \in Spans
  BY SpanTyped DEF Places
<1>2. y \in S
  <2> HIDE DEF x
  <2> QED
    BY <1>1
<1>3. Begins(m.done, Append(m.done, y))
  <2> HIDE DEF S, y
  <2>1. /\ Len(m.done) \in Nat /\ Len(Append(m.done, y)) = Len(m.done) + 1
        /\ \A i \in 1 .. Len(m.done) : Append(m.done, y)[i] = m.done[i]
    BY <1>1, <1>2
  <2> QED
    BY <2>1 DEF Begins
<1>4. Begins(m.done, m.done)
  <2> HIDE DEF S
  <2> QED
    BY <1>1, LenProperties DEF Begins
<1> QED
  BY <1>3, <1>4 DEF DoneOf

\* Frame by frame the stream goes on and the messages become more.
LEMMA Onward ==
  ASSUME script \in Seq(Frames), NEW j \in 0 .. Len(script)
  PROVE  \A k \in j .. Len(script) :
           /\ Sofar[j].at <= Sofar[k].at /\ (j < k => Sofar[j].at + 2 <= Sofar[k].at)
           /\ Begins(Sofar[j].done, Sofar[k].done)
<1> DEFINE P(k) == /\ Sofar[j].at <= Sofar[k].at /\ (j < k => Sofar[j].at + 2 <= Sofar[k].at)
                   /\ Begins(Sofar[j].done, Sofar[k].done)
           T == {k \in 0 .. Len(script) : k >= j => P(k)}
<1> SUFFICES ASSUME NEW n \in Nat, n = Len(script) PROVE \A k \in 0 .. n : k \in T
  <2>1. Len(script) \in Nat
    BY SofarTells
  <2> QED
    BY <2>1
<1>0. j \in 0 .. n
  OBVIOUS
<1>1. /\ \A k \in 0 .. n : /\ Sofar[k] \in Places /\ Sofar[k].at \in Nat /\ Sofar[k].done \in Seq(Seq(Spans))
                           /\ Len(Sofar[k].done) \in Nat
  BY SofarTells, LenProperties DEF Places
<1>2. P(j)
  BY <1>1 DEF Begins
<1>3. ASSUME NEW k \in 1 .. n, k - 1 >= j, P(k - 1) PROVE P(k)
  <2>1. k - 1 \in 0 .. n /\ k \in 0 .. n
    OBVIOUS
  <2>2. /\ script[k] \in Frames /\ Sofar[k].at = Sofar[k - 1].at + SizeOf(script[k])
        /\ Sofar[k].done = DoneOf(Sofar[k - 1], script[k])
    <3>1. script[k] \in Frames /\ Sofar[k] = Told(Sofar[k - 1], script[k])
      BY SofarTells
    <3> QED
      BY <3>1, ToldIs
  <2>3. SizeOf(script[k]) \in Nat /\ SizeOf(script[k]) >= 2
    BY <2>2, SizeOfFrame
  <2>4. Begins(Sofar[k - 1].done, Sofar[k].done)
    BY <1>1, <2>1, <2>2, DoneGrows
  <2>5. Begins(Sofar[j].done, Sofar[k].done)
    <3>1. Begins(Sofar[j].done, Sofar[k - 1].done)
      BY <1>3
    <3>2. /\ Len(Sofar[j].done) \in Nat /\ Len(Sofar[k - 1].done) \in Nat /\ Len(Sofar[k].done) \in Nat
      BY <1>0, <1>1, <2>1
    <3> QED
      BY <2>4, <3>1, <3>2, BeginsStill
  <2>6. Sofar[j].at + 2 <= Sofar[k].at
    <3>1. Sofar[j].at <= Sofar[k - 1].at
      BY <1>3
    <3>2. Sofar[j].at \in Nat /\ Sofar[k - 1].at \in Nat /\ Sofar[k].at \in Nat
      BY <1>0, <1>1, <2>1
    <3> QED
      BY <2>2, <2>3, <3>1, <3>2
  <2> QED
    BY <1>1, <2>1, <2>5, <2>6
<1> HIDE DEF P
<1>4. 0 \in T
  <2>1. CASE j = 0
    BY <1>2, <2>1
  <2>2. CASE j # 0
    BY <2>2
  <2> QED
    BY <2>1, <2>2
<1>5. ASSUME NEW k \in 1 .. n, k - 1 \in T PROVE k \in T
  <2>1. CASE k - 1 >= j
    BY <1>3, <1>5, <2>1
  <2>2. CASE k = j
    BY <1>2, <2>2
  <2>3. CASE k < j
    BY <2>3
  <2> QED
    BY <2>1, <2>2, <2>3
<1> HIDE DEF T
<1> QED
  BY <1>4, <1>5, UpToEnd

\* Where a frame begins, its header is found.
LEMMA FrameFound ==
  ASSUME script \in Seq(Frames), NEW k \in 1 .. Len(script)
  PROVE  /\ FrameAt(StartOf(k)) = script[k] /\ script[k] \in Frames
         /\ StartOf(k) \in Nat /\ StartOf(k + 1) = StartOf(k) + SizeOf(script[k])
         /\ StartOf(k + 1) <= BytesIn(script)
<1>1. /\ Len(script) \in Nat /\ k - 1 \in 0 .. Len(script) /\ k \in 0 .. Len(script)
      /\ k + 1 \in 1 .. Len(script) + 1 /\ k \in 1 .. Len(script) + 1 /\ (k + 1) - 1 = k
  BY SofarTells
<1>2. \A j \in 1 .. Len(script) : StartOf(j) = StartOf(k) => j = k
  <2> SUFFICES ASSUME NEW i \in 1 .. Len(script), NEW j \in 1 .. Len(script), i < j
               PROVE  StartOf(i) # StartOf(j)
    BY <1>1
  <2>1. i - 1 \in 0 .. Len(script) /\ j - 1 \in i - 1 .. Len(script) /\ i - 1 < j - 1
        /\ i \in 1 .. Len(script) + 1 /\ j \in 1 .. Len(script) + 1 /\ j - 1 \in 0 .. Len(script)
    BY <1>1
  <2>2. Sofar[i - 1].at + 2 <= Sofar[j - 1].at
    BY <2>1, Onward
  <2> QED
    BY SMTT(30), <2>1, <2>2, Starts
<1>3. DOMAIN script = 1 .. Len(script)
  BY LenProperties
<1>4. FrameAt(StartOf(k)) = script[k]
  BY <1>2, <1>3 DEF FrameAt
<1>5. Sofar[k].at <= Sofar[Len(script)].at
  <2>1. Len(script) \in k .. Len(script)
    BY <1>1
  <2> QED
    BY <1>1, <2>1, Onward
<1> QED
  BY <1>1, <1>4, <1>5, SofarTells, Starts

--------------------------------------------------------------------------------
(* The bytes that are read. *)

LEMMA ScriptTold ==
  ASSUME script' = script
  PROVE  /\ Sofar' = Sofar /\ Messages' = Messages /\ BytesIn(script)' = BytesIn(script)
         /\ \A k : StartOf(k)' = StartOf(k)
<1>1. Messages' = Messages
  BY MessagesAre
<1>2. Sofar' = Sofar
  BY DEF Sofar
<1> QED
  BY <1>1, <1>2 DEF StartOf

\* None is no frame.
NoneIsNoFrame == None \notin Frames

\* Nothing is collected before the first frame is read.
Unread == stage \notin Reading \cup {"ended"} => fragmented = << >> /\ delivered = << >>

\* Nothing is under way before start.
Unstarted == owner = "new" => stage = "none" /\ ready = "none"

\* The bytes that came along with the answer are the stream's first ones.
AnswerInv == stage = "response" /\ ready = "ok" => at = 0 /\ size <= BytesIn(script)

\* Amid frame k the reader has what the frames before it told, and a read that is done
\* left in the buffer the bytes it asked for or the additional ones, if these are more.
Amid(k) == /\ InStep(k) /\ (stage # "header" => k <= Len(script))
           /\ fragmented = Sofar[k - 1].part /\ delivered = Sofar[k - 1].done
ReadInv == stage \in Reading =>
  /\ at + size <= BytesIn(script)
  /\ \E k \in 1 .. Len(script) + 1 : Amid(k)
  /\ ready = "none" => num = size
  /\ ready = "ok" => size = IF num > Wanted THEN num ELSE Wanted

ByteInv == Unread /\ Unstarted /\ AnswerInv /\ ReadInv /\ Begins(delivered, Messages)

IInv == TypeOK /\ ByteInv

LEMMA ScriptTyped == TypeOK => script \in Seq(Frames)
  BY ClientAssumption DEF TypeOK

\* Steps of others: a read may fail, and is what it was.
LEMMA OthersKeep ==
  ASSUME ByteInv, UNCHANGED <<fixed, stage, byteVars, outVars>>,
         ready' = ready \/ ready' = "error", Unstarted'
  PROVE  ByteInv'
<1>1. script' = script /\ stage' = stage /\ delivered' = delivered /\ fragmented' = fragmented
      /\ at' = at /\ size' = size /\ num' = num /\ frame' = frame
  BY DEF fixed, byteVars, outVars
<1>2. Unread' /\ AnswerInv' /\ Begins(delivered, Messages)'
  BY <1>1, ScriptTold DEF ByteInv, Unread, AnswerInv
<1>3. \A k : Amid(k) => Amid(k)'
  <2> TAKE k
  <2>1. StartOf(k)' = StartOf(k) /\ Sofar' = Sofar
    BY <1>1, ScriptTold
  <2>2. InStep(k)' <=> InStep(k)
    BY <1>1, <2>1 DEF InStep
  <2> QED
    BY <1>1, <2>1, <2>2 DEF Amid
<1>4. Wanted' = Wanted
  BY <1>1 DEF Wanted
<1>5. ReadInv'
  BY <1>1, <1>3, <1>4, ScriptTold DEF ByteInv, ReadInv
<1> QED
  BY <1>2, <1>5 DEF ByteInv

\* The connection is on its way, and nothing is read yet.
LEMMA UpgradeKeeps ==
  ASSUME ByteInv, UNCHANGED <<fixed, byteVars, outVars>>, ready' = "none", owner' # "new",
         stage \notin Reading \cup {"ended"}, stage' \notin Reading \cup {"ended"}
  PROVE  ByteInv'
<1>1. script' = script /\ delivered' = delivered /\ fragmented' = fragmented
  BY DEF fixed, byteVars, outVars
<1>2. Unread' /\ Begins(delivered, Messages)'
  BY <1>1, ScriptTold DEF ByteInv, Unread
<1> QED
  BY <1>2 DEF ByteInv, Unstarted, AnswerInv, ReadInv

\* Nothing is read any more.
LEMMA EndKeeps ==
  ASSUME ByteInv, UNCHANGED fixed, delivered' = delivered, stage' = "ended", owner' # "new"
  PROVE  ByteInv'
<1>1. Begins(delivered, Messages)'
  BY ScriptTold DEF ByteInv, fixed
<1> QED
  BY <1>1 DEF ByteInv, Unread, Unstarted, AnswerInv, ReadInv, Reading

LEMMA MinOfTwo == ASSUME NEW a \in Nat, NEW b \in Nat PROVE Min({a, b}) \in Nat /\ Min({a, b}) <= b
<1>1. \E x \in {a, b} : \A y \in {a, b} : x =< y
  <2>1. CASE a <= b
    BY <2>1
  <2>2. CASE b <= a
    BY <2>2
  <2> QED
    BY <2>1, <2>2
<1>2. Min({a, b}) \in {a, b} /\ \A y \in {a, b} : Min({a, b}) =< y
  BY <1>1 DEF Min
<1> HIDE DEF Min
<1> QED
  BY <1>2

LEMMA WantedTyped == TypeOK /\ stage \in Reading => Wanted \in Nat
<1> SUFFICES ASSUME TypeOK, stage \in Reading PROVE Wanted \in Nat
  OBVIOUS
<1>1. frame \in Frames => frame.ext \in Nat /\ frame.len \in Nat
  BY SizeOfFrame
<1>2. stage \in {"length", "content"} => frame \in Frames
  BY DEF TypeOK
<1> QED
  BY <1>1, <1>2 DEF Wanted, Reading

--------------------------------------------------------------------------------
(* The steps of the owner, the clock and the network. *)

LEMMA NextAddressTyped ==
  ASSUME TypeOK, NextAddress
  PROVE  /\ ready' = ready \/ ready' = "error"
         /\ ready' \in {"none", "ok", "error"} /\ tries' \in 1 .. Endpoints
<1>1. Endpoints \in Nat /\ tries \in 1 .. Endpoints /\ ready \in {"none", "ok", "error"}
  BY ClientAssumption DEF TypeOK
<1> QED
  BY <1>1 DEF NextAddress

LEMMA CloseSocketTyped ==
  ASSUME TypeOK, CloseSocket
  PROVE  /\ ready' = ready \/ (stage # "none" /\ ready' = "error")
         /\ ready' \in {"none", "ok", "error"} /\ tries' \in 1 .. Endpoints /\ broken' \in BOOLEAN
<1>1. CASE stage = "connect" /\ ready = "none"
  BY <1>1, NextAddressTyped DEF CloseSocket, TypeOK
<1>2. CASE ~(stage = "connect" /\ ready = "none") /\ stage \in {"none", "resolve", "ended"}
  BY <1>2 DEF CloseSocket, TypeOK
<1>3. CASE ~(stage = "connect" /\ ready = "none") /\ stage \notin {"none", "resolve", "ended"}
  BY <1>3 DEF CloseSocket, TypeOK
<1> QED
  BY <1>1, <1>2, <1>3

\* What the others change has its type, and the rest is what it was.
LEMMA OthersTyped ==
  ASSUME TypeOK, UNCHANGED <<fixed, stage, byteVars, outVars>>,
         owner' \in {"new", "started", "stopping", "stopped", "closing", "leaving", "gone"},
         inside' \subseteq {"io"}, stopped' \in BOOLEAN, run' \in BOOLEAN, io_stopped' \in BOOLEAN,
         ready' \in {"none", "ok", "error"}, tries' \in 1 .. Endpoints, broken' \in BOOLEAN,
         timer' \in {"none", "request", "idle"}, due' \in {"none", "request", "idle"}, closed' \in BOOLEAN
  PROVE  TypeOK'
<1>1. script' = script /\ config' = config /\ stage' = stage /\ delivered' = delivered /\ fragmented' = fragmented
      /\ at' = at /\ size' = size /\ num' = num /\ frame' = frame /\ reports' = reports
  BY DEF fixed, byteVars, outVars
<1> QED
  BY <1>1 DEF TypeOK

LEMMA OwnerKeeps == ASSUME IInv, StopClose \/ StopIo \/ Destroy PROVE IInv'
<1> USE DEF IInv
<1>1. UNCHANGED <<fixed, stage, byteVars, outVars, timeVars>> /\ owner' # "new" /\ owner # "gone"
  BY DEF StopClose, StopIo, Destroy, opVars
<1>2. CASE StopClose
  <2>1. /\ owner' \in {"stopping", "leaving"} /\ CloseSocket /\ UNCHANGED <<run, io_stopped, gateVars>>
    BY <1>2 DEF StopClose
  <2>2. TypeOK'
    BY <1>1, <2>1, CloseSocketTyped, OthersTyped DEF TypeOK, gateVars, timeVars
  <2>3. ByteInv'
    BY <1>1, <2>1, CloseSocketTyped, OthersKeep DEF Unstarted
  <2> QED
    BY <2>2, <2>3
<1>3. CASE StopIo
  <2>1. /\ owner' \in {"stopped", "gone"} /\ io_stopped' = ~config.own_io /\ UNCHANGED <<run, gateVars, opVars>>
    BY <1>3 DEF StopIo
  <2>2. TypeOK'
    BY <1>1, <2>1, OthersTyped DEF TypeOK, gateVars, opVars, timeVars
  <2>3. ByteInv'
    BY <1>1, <2>1, OthersKeep DEF Unstarted, opVars
  <2> QED
    BY <2>2, <2>3
<1>4. CASE Destroy
  <2>1. /\ owner' = "closing" /\ stopped' = TRUE /\ inside' = inside /\ UNCHANGED <<run, io_stopped, opVars>>
    BY <1>4 DEF Destroy, Gate!Close
  <2>2. TypeOK'
    BY <1>1, <2>1, OthersTyped DEF TypeOK, opVars, timeVars
  <2>3. ByteInv'
    BY <1>1, <2>1, OthersKeep DEF Unstarted, opVars
  <2> QED
    BY <2>2, <2>3
<1> QED
  BY <1>2, <1>3, <1>4

LEMMA TimerKeeps == ASSUME IInv, RunReturns \/ TimerHandler \/ TimerExpires \/ UNCHANGED vars PROVE IInv'
<1> USE DEF IInv
<1>1. UNCHANGED <<fixed, stage, byteVars, outVars, owner, io_stopped, gateVars>>
  BY DEF RunReturns, TimerHandler, TimerExpires, vars, opVars, ownVars
<1>2. CASE RunReturns
  <2>1. run' = FALSE /\ UNCHANGED <<opVars, timeVars>>
    BY <1>2 DEF RunReturns
  <2>2. /\ owner' = owner /\ inside' = inside /\ stopped' = stopped /\ io_stopped' = io_stopped
        /\ ready' = ready /\ tries' = tries /\ broken' = broken
        /\ timer' = timer /\ due' = due /\ closed' = closed
    BY <1>1, <2>1 DEF gateVars, opVars, timeVars
  <2>3. TypeOK'
    <3>1. run' \in BOOLEAN
      BY <2>1
    <3>2. /\ inside \subseteq {"io"} /\ stopped \in BOOLEAN /\ io_stopped \in BOOLEAN
          /\ owner \in {"new", "started", "stopping", "stopped", "closing", "leaving", "gone"}
          /\ ready \in {"none", "ok", "error"} /\ tries \in 1 .. Endpoints /\ broken \in BOOLEAN
          /\ timer \in {"none", "request", "idle"} /\ due \in {"none", "request", "idle"} /\ closed \in BOOLEAN
      BY DEF TypeOK
    <3> QED
      BY <1>1, <2>2, <3>1, <3>2, OthersTyped
  <2>4. ByteInv'
    BY <1>1, <2>1, OthersKeep DEF ByteInv, Unstarted, opVars
  <2> QED
    BY <2>3, <2>4
<1>3. CASE TimerHandler
  <2>1. /\ due' = "none" /\ UNCHANGED <<run, timer>>
        /\ \/ CloseSocket /\ UNCHANGED closed
           \/ closed' = TRUE /\ UNCHANGED <<ready, tries, broken>>
    BY <1>3 DEF TimerHandler, ownVars
  <2>2. /\ ready' = ready \/ (stage # "none" /\ ready' = "error")
        /\ ready' \in {"none", "ok", "error"} /\ tries' \in 1 .. Endpoints /\ broken' \in BOOLEAN
        /\ closed' \in BOOLEAN
    BY <2>1, CloseSocketTyped DEF TypeOK
  <2>3. TypeOK'
    BY <1>1, <2>1, <2>2, OthersTyped DEF TypeOK, gateVars
  <2>4. ByteInv'
    BY <1>1, <2>2, OthersKeep DEF ByteInv, Unstarted
  <2> QED
    BY <2>3, <2>4
<1>4. CASE TimerExpires
  <2>1. /\ due' \in {due, timer} /\ timer' = "none" /\ UNCHANGED <<run, opVars, closed>>
    BY <1>4 DEF TimerExpires, ownVars
  <2>2. TypeOK'
    BY <1>1, <2>1, OthersTyped DEF TypeOK, gateVars, opVars
  <2>3. ByteInv'
    BY <1>1, <2>1, OthersKeep DEF ByteInv, Unstarted, opVars
  <2> QED
    BY <2>2, <2>3
<1>5. CASE UNCHANGED vars
  <2>1. UNCHANGED <<run, opVars, timeVars>>
    BY <1>5 DEF vars, ownVars
  <2>2. /\ owner' = owner /\ inside' = inside /\ stopped' = stopped /\ run' = run /\ io_stopped' = io_stopped
        /\ ready' = ready /\ tries' = tries /\ broken' = broken
        /\ timer' = timer /\ due' = due /\ closed' = closed
    BY <1>1, <2>1 DEF gateVars, opVars, timeVars
  <2>3. TypeOK'
    BY <1>1, <2>2, OthersTyped DEF TypeOK
  <2>4. ByteInv'
    BY <1>1, <2>1, OthersKeep DEF ByteInv, Unstarted, opVars
  <2> QED
    BY <2>3, <2>4
<1> QED
  BY <1>2, <1>3, <1>4, <1>5

LEMMA FailKeeps == ASSUME IInv, Fail PROVE IInv'
<1> USE DEF IInv
<1>1. /\ UNCHANGED <<fixed, stage, byteVars, outVars, owner, run, io_stopped, gateVars, timeVars>>
      /\ stage # "none"
  BY DEF Fail, ownVars, Waiting
<1>2. /\ ready' = ready \/ ready' = "error"
      /\ ready' \in {"none", "ok", "error"} /\ tries' \in 1 .. Endpoints /\ broken' \in BOOLEAN
  BY NextAddressTyped DEF Fail, TypeOK
<1>3. TypeOK'
  BY <1>1, <1>2, OthersTyped DEF TypeOK, gateVars, timeVars
<1>4. ByteInv'
  BY <1>1, <1>2, OthersKeep DEF ByteInv, Unstarted
<1> QED
  BY <1>3, <1>4

\* start() finds a client that did nothing yet (client_ws.hpp:299).
LEMMA StartKeeps == ASSUME IInv, Start PROVE IInv'
<1> USE DEF IInv
<1>1. /\ owner = "new" /\ owner' = "started" /\ run' = TRUE /\ stage' = "resolve"
      /\ timer' \in {"none", "request"}
      /\ UNCHANGED <<fixed, io_stopped, gateVars, ready, tries, broken, due, closed, byteVars, outVars>>
  BY DEF Start, SetTimeoutRequest
<1>2. stage = "none" /\ ready = "none"
  BY <1>1 DEF ByteInv, Unstarted
<1>3. TypeOK'
  BY <1>1 DEF TypeOK, fixed, gateVars, byteVars, outVars
<1>4. ByteInv'
  BY <1>1, <1>2, UpgradeKeeps DEF Reading
<1> QED
  BY <1>3, <1>4

\* Bytes come in, those of the stream and no more.
LEMMA ArriveKeeps == ASSUME IInv, Arrive PROVE IInv'
<1> USE DEF IInv
<1>1. /\ ready = "none" /\ ready' = "ok" /\ stage \notin {"none", "ended"}
      /\ UNCHANGED <<fixed, ownVars, gateVars, stage, tries, broken, timeVars, num, frame, fragmented, outVars>>
      /\ \/ stage \notin Reading \cup {"response"} /\ UNCHANGED <<at, size>>
         \/ stage = "response" /\ at' = 0 /\ size' \in 0 .. Min({MaxEager, BytesIn(script)})
         \/ /\ stage \in Reading /\ at + size + Missing(Wanted) <= BytesIn(script)
            /\ size' = size + Missing(Wanted) /\ UNCHANGED at
  BY DEF Arrive, Waiting, Reading, Securing
<1>2. script' = script /\ stage' = stage /\ delivered' = delivered /\ fragmented' = fragmented
      /\ num' = num /\ frame' = frame /\ owner' = owner
  BY <1>1 DEF fixed, outVars, ownVars
<1>3. BytesIn(script) \in Nat
  <2>1. Len(script) \in 0 .. Len(script)
    BY ScriptTyped, SofarTells
  <2> QED
    BY <2>1, ScriptTyped, Starts
<1>4. CASE stage \notin Reading
  <2>1. size' \in Nat /\ at' \in Nat /\ (stage = "response" => at' = 0 /\ size' <= BytesIn(script))
    <3>1. MaxEager \in Nat /\ Min({MaxEager, BytesIn(script)}) \in Nat
          /\ Min({MaxEager, BytesIn(script)}) <= BytesIn(script)
      BY <1>3, MinOfTwo, ClientAssumption
    <3> HIDE DEF Min
    <3> QED
      BY <1>1, <1>3, <1>4, <3>1 DEF TypeOK
  <2>2. TypeOK'
    BY <1>1, <2>1 DEF TypeOK, fixed, ownVars, gateVars, timeVars, outVars
  <2>3. ByteInv'
    BY <1>1, <1>2, <1>4, <2>1, ScriptTold DEF ByteInv, Unread, Unstarted, AnswerInv, ReadInv
  <2> QED
    BY <2>2, <2>3
<1>5. CASE stage \in Reading
  <2>1. /\ num = size /\ at + size <= BytesIn(script) /\ \E k \in 1 .. Len(script) + 1 : Amid(k)
    BY <1>1, <1>5 DEF ByteInv, ReadInv
  <2>2. Wanted' = Wanted /\ Wanted \in Nat
    BY <1>2, <1>5, WantedTyped DEF Wanted
  <2>3. /\ size' = IF num > Wanted THEN num ELSE Wanted
        /\ size' \in Nat /\ at' = at /\ at' + size' <= BytesIn(script)
    <3>1. at \in Nat /\ size \in Nat
      BY DEF TypeOK
    <3>2. /\ size' = size + Missing(Wanted) /\ at' = at /\ at + size + Missing(Wanted) <= BytesIn(script)
      BY <1>1, <1>5 DEF Reading
    <3>3. Missing(Wanted) = IF num > Wanted THEN 0 ELSE Wanted - num
      BY DEF Missing
    <3> HIDE DEF Wanted, Missing
    <3> QED
      BY <1>3, <2>1, <2>2, <3>1, <3>2, <3>3
  <2>4. TypeOK'
    BY <1>1, <2>3 DEF TypeOK, fixed, ownVars, gateVars, timeVars, outVars
  <2>5. \A k : Amid(k) => Amid(k)'
    <3> TAKE k
    <3>1. StartOf(k)' = StartOf(k) /\ Sofar' = Sofar
      BY <1>2, ScriptTold
    <3>2. InStep(k)' <=> InStep(k)
      BY <1>2, <2>3, <3>1 DEF InStep
    <3> QED
      BY <1>2, <3>1, <3>2 DEF Amid
  <2>6. ReadInv'
    BY <1>1, <1>2, <2>1, <2>2, <2>3, <2>5, ScriptTold DEF ReadInv
  <2>7. Begins(delivered, Messages)'
    BY <1>2, ScriptTold DEF ByteInv
  <2> QED
    BY <1>1, <1>2, <1>5, <2>4, <2>6, <2>7 DEF ByteInv, Unread, Unstarted, AnswerInv, Reading
<1> QED
  BY <1>4, <1>5

--------------------------------------------------------------------------------
(* The handlers. *)

LEMMA HandlerBeginsKeeps == ASSUME IInv, HandlerBegins PROVE IInv'
<1> USE DEF IInv
<1>1. /\ ready # "none" /\ timer' = "none" /\ tries' = tries /\ broken' = broken /\ due' = due /\ closed' = closed
      /\ owner' = owner /\ run' = run /\ io_stopped' = io_stopped
      /\ UNCHANGED <<fixed, byteVars, outVars>>
  BY DEF HandlerBegins, ownVars
<1>2. owner' # "new"
  BY <1>1 DEF ByteInv, Unstarted
<1>3. CASE stopped
  <2>1. stage' = "ended" /\ ready' = "none" /\ inside' = inside /\ stopped' = stopped
    BY <1>3 DEF HandlerBegins, Gate!Enter, gateVars
  <2>2. TypeOK'
    <3>1. script' = script /\ config' = config /\ delivered' = delivered /\ fragmented' = fragmented
          /\ at' = at /\ size' = size /\ num' = num /\ frame' = frame /\ reports' = reports
      BY <1>1 DEF fixed, byteVars, outVars
    <3> QED
      BY <1>1, <2>1, <3>1 DEF TypeOK
  <2>3. ByteInv'
    BY <1>1, <1>2, <2>1, EndKeeps DEF outVars
  <2> QED
    BY <2>2, <2>3
<1>4. CASE ~stopped
  <2>1. stage' = stage /\ ready' = ready /\ inside' = inside \cup {"io"} /\ stopped' = stopped
    BY <1>4 DEF HandlerBegins, Gate!Enter
  <2>2. TypeOK'
    BY <1>1, <2>1, OthersTyped DEF TypeOK
  <2>3. ByteInv'
    BY <1>1, <1>2, <2>1, OthersKeep DEF Unstarted
  <2> QED
    BY <2>2, <2>3
<1> QED
  BY <1>3, <1>4

\* The frame of every body: the lock goes back, the result is used up.
LEMMA BodyFrame ==
  ASSUME IInv, NEW s, NEW r, s # "none", Handles(s, r)
  PROVE  /\ stage = s /\ ready = r /\ ready' = "none" /\ inside' = {} /\ owner' = owner /\ owner' # "new"
         /\ UNCHANGED <<script, config, stopped, run, io_stopped, broken, due>>
<1>1. /\ stage = s /\ ready = r /\ ready' = "none" /\ inside' = {} /\ owner' = owner
      /\ UNCHANGED <<script, config, stopped, run, io_stopped, broken, due>>
  BY DEF Handles, Gate!Leave, fixed, ownVars
<1> QED
  BY <1>1 DEF IInv, ByteInv, Unstarted

\* What a body changes has its type, and the rest is what it was.
LEMMA BodyTyped ==
  ASSUME TypeOK, ready' = "none", inside' = {}, owner' = owner,
         UNCHANGED <<script, config, stopped, run, io_stopped, broken, due, tries>>,
         stage' \in {"none", "resolve", "connect", "ended"} \cup Upgrading \cup Reading,
         timer' \in {"none", "request", "idle"}, closed' \in BOOLEAN,
         at' \in Nat, size' \in Nat, num' \in Nat,
         frame' \in {None} \cup Frames, stage' \in {"length", "content"} => frame' # None,
         fragmented' \in Seq(Spans), delivered' \in Seq(Seq(Spans)),
         reports' \in Seq({"open", "close", "error"})
  PROVE  TypeOK'
  BY DEF TypeOK

LEMMA ReportsTyped ==
  ASSUME TypeOK, NEW c, c \in {<<"error">>, <<"close">>, <<"error", "close">>}
  PROVE  reports \o c \in Seq({"open", "close", "error"})
<1> DEFINE R == {"open", "close", "error"}
<1>1. c \in Seq(R)
  <2>1. "close" \in R /\ "error" \in R
    OBVIOUS
  <2> HIDE DEF R
  <2>2. <<"error">> \in Seq(R) /\ <<"close">> \in Seq(R) /\ <<"error", "close">> \in Seq(R)
    BY <2>1
  <2> QED
    BY <2>2
<1>2. reports \in Seq(R)
  BY DEF TypeOK
<1> HIDE DEF R
<1>3. reports \o c \in Seq(R)
  BY <1>1, <1>2
<1> QED
  BY <1>3 DEF R

\* A handler that ends the reading, whatever it took from the buffer.
LEMMA EndsKeep ==
  ASSUME IInv, ready' = "none", inside' = {}, owner' = owner, owner' # "new",
         UNCHANGED <<script, config, stopped, run, io_stopped, broken, due, tries, fragmented, delivered>>,
         NEW c, c \in {<<"error">>, <<"close">>, <<"error", "close">>}, Ends(c),
         closed' \in BOOLEAN, at' \in Nat, size' \in Nat, num' \in Nat, frame' \in {None} \cup Frames
  PROVE  IInv'
<1>1. stage' = "ended" /\ timer' = timer /\ reports' = reports \o c
  BY DEF Ends
<1>2. TypeOK
  BY DEF IInv
<1>3. TypeOK'
  <2>1. reports' \in Seq({"open", "close", "error"})
    BY <1>1, <1>2, ReportsTyped
  <2> QED
    BY <1>1, <1>2, <2>1, BodyTyped DEF TypeOK
<1>4. ByteInv'
  BY <1>1, EndKeeps DEF IInv, fixed
<1> QED
  BY <1>3, <1>4 DEF IInv

\* The handlers before the first frame.
LEMMA UpgradingKeeps ==
  ASSUME IInv,
         \/ HandlerFails \/ Resolved \/ Connected \/ ProxyWritten \/ ProxyAnswered
         \/ Secured \/ Written
  PROVE  IInv'
<1>1. ASSUME NEW s, s \notin Reading \cup {"none", "ended"}, Handles(s, "ok"),
             stage' \in Upgrading \cup {"connect"}, SetTimeoutRequest,
             UNCHANGED <<tries, closed, byteVars, outVars>>
      PROVE  IInv'
  <2>1. /\ stage = s /\ ready' = "none" /\ inside' = {} /\ owner' = owner /\ owner' # "new"
        /\ UNCHANGED <<script, config, stopped, run, io_stopped, broken, due>>
    BY <1>1, BodyFrame
  <2>2. /\ at' = at /\ size' = size /\ num' = num /\ frame' = frame /\ fragmented' = fragmented
        /\ delivered' = delivered /\ reports' = reports /\ tries' = tries /\ closed' = closed
        /\ timer' \in {"none", "request", "idle"}
    BY <1>1 DEF byteVars, outVars, SetTimeoutRequest
  <2>3. stage' \notin Reading \cup {"ended", "length", "content"}
    BY <1>1 DEF Upgrading, Securing, Reading
  <2>4. TypeOK'
    BY <1>1, <2>1, <2>2, <2>3, BodyTyped DEF IInv, TypeOK
  <2>5. ByteInv'
    BY <1>1, <2>1, <2>3, UpgradeKeeps DEF IInv, fixed
  <2> QED
    BY <2>4, <2>5 DEF IInv
<1>2. ASSUME NEW s, NEW r, s # "none", Handles(s, r), Ends(<<"error">>),
             UNCHANGED <<tries, closed, byteVars, delivered>>
      PROVE  IInv'
  <2>1. /\ ready' = "none" /\ inside' = {} /\ owner' = owner /\ owner' # "new"
        /\ UNCHANGED <<script, config, stopped, run, io_stopped, broken, due>>
    BY <1>2, BodyFrame
  <2>2. UNCHANGED <<at, size, num, frame, fragmented, delivered, tries, closed>>
    BY <1>2 DEF byteVars
  <2>3. closed' \in BOOLEAN /\ at' \in Nat /\ size' \in Nat /\ num' \in Nat /\ frame' \in {None} \cup Frames
    BY <2>2 DEF IInv, TypeOK
  <2> QED
    BY <1>2, <2>1, <2>2, <2>3, EndsKeep
<1>3. CASE HandlerFails
  <2>1. PICK s \in {"resolve", "connect"} \cup Upgrading \cup Reading : Handles(s, "error")
    BY <1>3 DEF HandlerFails
  <2>2. s # "none"
    BY DEF Upgrading, Securing, Reading
  <2> QED
    BY <1>2, <1>3, <2>1, <2>2 DEF HandlerFails
<1>4. CASE Resolved
  BY <1>1, <1>4 DEF Resolved, Reading
<1>5. CASE Connected
  <2>1. stage' \in {"write", "tls", "proxy_write"}
    <3>1. config.layer \in Layers
      BY ClientAssumption DEF IInv, TypeOK
    <3> QED
      BY <1>5, <3>1 DEF Connected, Layers
  <2>2. stage' \in Upgrading
    BY <2>1 DEF Upgrading, Securing
  <2> QED
    BY <1>1, <1>5, <2>2 DEF Connected, Reading
<1>6. CASE ProxyWritten
  BY <1>1, <1>6 DEF ProxyWritten, Reading, Upgrading, Securing
<1>7. CASE ProxyAnswered
  <2>1. /\ Handles("proxy_response", "ok") /\ UNCHANGED <<tries, closed, byteVars, delivered>>
        /\ \/ stage' = "tls" /\ SetTimeoutRequest /\ UNCHANGED reports
           \/ Ends(<<"error">>)
    BY <1>7 DEF ProxyAnswered
  <2>2. CASE Ends(<<"error">>)
    BY <1>2, <2>1, <2>2
  <2>3. CASE stage' = "tls" /\ SetTimeoutRequest /\ UNCHANGED reports
    BY <1>1, <2>1, <2>3 DEF Reading, Upgrading, Securing, outVars
  <2> QED
    BY <2>1, <2>2, <2>3
<1>8. CASE Secured
  BY <1>1, <1>8 DEF Secured, Reading, Upgrading, Securing
<1>9. CASE Written
  BY <1>1, <1>9 DEF Written, Reading, Upgrading, Securing
<1> QED
  BY <1>3, <1>4, <1>5, <1>6, <1>7, <1>8, <1>9

--------------------------------------------------------------------------------
(* The handlers of the frames. *)

\* A read that goes on to the next part of a frame leaves the invariant as it is.
LEMMA NextKeeps ==
  ASSUME IInv, NoneIsNoFrame, ready' = "none", inside' = {}, owner' = owner, owner' # "new",
         UNCHANGED <<script, config, stopped, run, io_stopped, broken, due, tries>>,
         closed' \in BOOLEAN, timer' \in {"none", "request", "idle"},
         at' \in Nat, size' \in Nat, num' = size', at' + size' <= BytesIn(script),
         NEW s \in Reading, stage' = s, NEW k \in 1 .. Len(script) + 1, s # "header" => k <= Len(script),
         frame' \in {None} \cup Frames,
         CASE s = "header"  -> at' = StartOf(k)
           [] s = "length"  -> at' = StartOf(k) + 2 /\ frame' = script[k]
           [] s = "content" -> at' = StartOf(k) + 2 + frame'.ext /\ frame' = script[k],
         fragmented' = Sofar[k - 1].part, delivered' = Sofar[k - 1].done,
         reports' \in Seq({"open", "close", "error"})
  PROVE  IInv'
<1> USE DEF IInv
<1>1. script \in Seq(Frames) /\ script' = script
  BY ScriptTyped
<1>2. Len(script) \in Nat /\ k - 1 \in 0 .. Len(script) /\ Len(script) \in k - 1 .. Len(script)
  BY <1>1, SofarTells
<1>3. Sofar[k - 1] \in Places
  BY <1>1, <1>2, SofarTells
<1>4. fragmented' \in Seq(Spans) /\ delivered' \in Seq(Seq(Spans))
  BY <1>3 DEF Places
<1>5. s # "header" => frame' # None
  <2>1. s # "header" => frame' = script[k] /\ script[k] \in Frames
    <3>1. s # "header" => k \in 1 .. Len(script)
      BY <1>2
    <3>2. s # "header" => script[k] \in Frames
      BY <1>1, <3>1, SofarTells
    <3>3. s # "header" => frame' = script[k]
      BY DEF Reading
    <3> QED
      BY <3>2, <3>3
  <2> QED
    BY <2>1 DEF NoneIsNoFrame
<1>6. TypeOK'
  BY <1>4, <1>5, BodyTyped
<1>7. Begins(delivered, Messages)'
  BY <1>1, <1>2, SofarTells, Onward, ScriptTold
<1>8. Amid(k)'
  <2>1. StartOf(k)' = StartOf(k) /\ Sofar' = Sofar
    BY <1>1, ScriptTold
  <2>2. InStep(k)'
    BY <2>1 DEF InStep, Reading
  <2> QED
    BY <2>1, <2>2 DEF Amid
<1>9. ReadInv'
  BY <1>1, <1>8, ScriptTold DEF ReadInv
<1> QED
  BY <1>6, <1>7, <1>9 DEF ByteInv, Unread, Unstarted, AnswerInv, Reading

LEMMA ReadNextIs ==
  ASSUME NEW s, NEW n, ReadNext(s, n)
  PROVE  stage' = s /\ num' = n /\ timer' \in {"none", "idle"}
  BY DEF ReadNext, SetTimeoutIdle

\* on_open, and the first frame's header is next (client_ws.hpp:473).
LEMMA AnsweredKeeps == ASSUME IInv, NoneIsNoFrame, Answered PROVE IInv'
<1>1. /\ stage = "response" /\ ready = "ok" /\ ready' = "none" /\ inside' = {} /\ owner' = owner /\ owner' # "new"
      /\ UNCHANGED <<script, config, stopped, run, io_stopped, broken, due>>
  BY BodyFrame DEF Answered
<1>2. UNCHANGED <<tries, closed, at, size, frame, fragmented, delivered>>
  BY DEF Answered
<1>3. /\ closed' \in BOOLEAN /\ at' \in Nat /\ size' \in Nat /\ frame' \in {None} \cup Frames
  BY <1>2 DEF IInv, TypeOK
<1>4. CASE Ends(<<"error">>) /\ UNCHANGED num
  <2>1. num' \in Nat
    BY <1>4 DEF IInv, TypeOK
  <2> QED
    BY <1>1, <1>2, <1>3, <1>4, <2>1, EndsKeep
<1>5. CASE ReadNext("header", size) /\ reports' = Append(reports, "open")
  <2>1. stage' = "header" /\ num' = size' /\ timer' \in {"none", "idle"}
    BY <1>2, <1>5, ReadNextIs
  <2>2. at = 0 /\ size <= BytesIn(script) /\ fragmented = << >> /\ delivered = << >>
    BY <1>1 DEF IInv, ByteInv, AnswerInv, Unread, Reading
  <2>3. reports' \in Seq({"open", "close", "error"})
    <3> DEFINE R == {"open", "close", "error"}
    <3>1. reports \in Seq(R) /\ "open" \in R
      BY DEF IInv, TypeOK
    <3> HIDE DEF R
    <3>2. Append(reports, "open") \in Seq(R)
      BY <3>1
    <3> QED
      BY <1>5, <3>2 DEF R
  <2>4. script \in Seq(Frames)
    BY ScriptTyped DEF IInv
  <2>5. PICK k \in Nat : k = 1
    OBVIOUS
  <2>6. k \in 1 .. Len(script) + 1 /\ k - 1 = 0
    BY <2>4, <2>5, SofarTells
  <2>7. /\ Sofar[k - 1] = First /\ StartOf(k) = Sofar[k - 1].at /\ First.at = 0
        /\ First.part = << >> /\ First.done = << >>
    BY <2>4, <2>6, SofarTells, Starts DEF First
  <2>8. at' + size' <= BytesIn(script)
    BY <1>2, <1>3, <2>2
  <2>9. at' = StartOf(k) /\ fragmented' = Sofar[k - 1].part /\ delivered' = Sofar[k - 1].done
    BY <1>2, <2>2, <2>7
  <2> QED
    BY <1>1, <1>2, <1>3, <2>1, <2>3, <2>6, <2>8, <2>9, NextKeeps DEF Reading
<1> QED
  BY <1>4, <1>5 DEF Answered

\* What a read that is done has: its bytes, and behind them the additional ones.
LEMMA ReadIs ==
  ASSUME IInv, stage \in Reading, ready = "ok"
  PROVE  /\ script \in Seq(Frames) /\ at \in Nat /\ size \in Nat /\ num \in Nat /\ Wanted \in Nat
         /\ size >= Wanted /\ size - Wanted = Rest(Wanted) /\ Rest(Wanted) \in Nat
         /\ at + size <= BytesIn(script) /\ BytesIn(script) \in Nat
         /\ \E k \in 1 .. Len(script) + 1 : Amid(k)
<1>1. script \in Seq(Frames) /\ at \in Nat /\ size \in Nat /\ num \in Nat /\ Wanted \in Nat
  BY ScriptTyped, WantedTyped DEF IInv, TypeOK
<1>2. /\ at + size <= BytesIn(script) /\ size = IF num > Wanted THEN num ELSE Wanted
      /\ \E k \in 1 .. Len(script) + 1 : Amid(k)
  BY DEF IInv, ByteInv, ReadInv
<1>3. Rest(Wanted) = IF num > Wanted THEN num - Wanted ELSE 0
  BY DEF Rest
<1>4. BytesIn(script) \in Nat
  <2>1. Len(script) \in 0 .. Len(script)
    BY <1>1, SofarTells
  <2> QED
    BY <1>1, <2>1, Starts
<1> HIDE DEF Wanted, Rest
<1> QED
  BY <1>1, <1>2, <1>3, <1>4

\* The content of frame k is next, or the message is too big.
LEMMA ReadContentKeeps ==
  ASSUME IInv, NoneIsNoFrame, ready' = "none", inside' = {}, owner' = owner, owner' # "new",
         UNCHANGED <<script, config, stopped, run, io_stopped, broken, due, tries, fragmented, delivered>>,
         at' \in Nat, size' \in Nat, at' + size' <= BytesIn(script),
         NEW n, n = size', NEW length, ReadContent(n, length),
         NEW k \in 1 .. Len(script), frame' = script[k], frame' \in Frames,
         at' = StartOf(k) + 2 + frame'.ext,
         fragmented = Sofar[k - 1].part, delivered = Sofar[k - 1].done
  PROVE  IInv'
<1>1. CASE LengthOf(fragmented) + length > max_message_size
  <2>1. Ends(<<"error", "close">>) /\ closed' = TRUE /\ num' = num
    BY <1>1 DEF ReadContent
  <2>2. num' \in Nat
    BY <2>1 DEF IInv, TypeOK
  <2>3. closed' \in BOOLEAN
    BY <2>1
  <2> QED
    BY <2>1, <2>2, <2>3, EndsKeep
<1>2. CASE ~(LengthOf(fragmented) + length > max_message_size)
  <2>1. ReadNext("content", n) /\ closed' = closed /\ reports' = reports
    BY <1>2 DEF ReadContent
  <2>2. stage' = "content" /\ num' = n /\ timer' \in {"none", "idle"}
    BY <2>1, ReadNextIs
  <2>3. closed' \in BOOLEAN /\ reports' \in Seq({"open", "close", "error"})
    BY <2>1 DEF IInv, TypeOK
  <2>4. k \in 1 .. Len(script) + 1 /\ k <= Len(script)
    BY ScriptTyped, SofarTells DEF IInv
  <2>5. fragmented' = Sofar[k - 1].part /\ delivered' = Sofar[k - 1].done
    OBVIOUS
  <2> QED
    BY <2>2, <2>3, <2>4, <2>5, NextKeeps DEF Reading
<1> QED
  BY <1>1, <1>2

LEMMA Moved ==
  ASSUME NEW a \in Nat, NEW s \in Nat, NEW n \in Nat, n <= s, NEW b \in Nat, a + s <= b
  PROVE  a + n \in Nat /\ s - n \in Nat /\ (a + n) + (s - n) <= b
  OBVIOUS

LEMMA Summed == \A p, e, l \in Nat : (p + 2 + e) + l = p + (2 + e + l)
  OBVIOUS

LEMMA HeaderReadKeeps == ASSUME IInv, NoneIsNoFrame, HeaderRead PROVE IInv'
<1>1. /\ stage = "header" /\ ready = "ok" /\ ready' = "none" /\ inside' = {} /\ owner' = owner /\ owner' # "new"
      /\ UNCHANGED <<script, config, stopped, run, io_stopped, broken, due>>
  BY BodyFrame DEF HeaderRead
<1>2. at' = at + 2 /\ size' = size - 2 /\ frame' = FrameAt(at) /\ UNCHANGED <<tries, fragmented, delivered>>
  BY DEF HeaderRead, Consume
<1>3. Wanted = 2
  BY <1>1 DEF Wanted
<1>4. /\ script \in Seq(Frames) /\ at \in Nat /\ size \in Nat /\ num \in Nat
      /\ size >= 2 /\ size - 2 = Rest(2) /\ Rest(2) \in Nat
      /\ at + size <= BytesIn(script) /\ BytesIn(script) \in Nat
      /\ \E k \in 1 .. Len(script) + 1 : Amid(k)
  BY <1>1, <1>3, ReadIs DEF Reading
<1>5. PICK k \in 1 .. Len(script) + 1 : Amid(k)
  BY <1>4
<1>6. at = StartOf(k) /\ fragmented = Sofar[k - 1].part /\ delivered = Sofar[k - 1].done
  BY <1>1, <1>5 DEF Amid, InStep
<1>7. k \in 1 .. Len(script)
  <2>1. Len(script) \in Nat /\ (Len(script) + 1) - 1 = Len(script)
    BY <1>4, SofarTells
  <2>2. CASE k = Len(script) + 1
    <3>1. StartOf(k) = BytesIn(script)
      BY <1>4, <2>1, <2>2, Starts
    <3> QED
      BY <1>4, <1>6, <3>1
  <2> QED
    BY <2>1, <2>2
<1>8. FrameAt(at) = script[k] /\ script[k] \in Frames
  BY <1>4, <1>6, <1>7, FrameFound
<1>9. /\ frame' = script[k] /\ frame' \in Frames /\ frame'.ext \in Nat
  BY <1>2, <1>8, SizeOfFrame
<1>10. /\ at' \in Nat /\ size' \in Nat /\ size' = Rest(2) /\ at' + size' <= BytesIn(script)
       /\ at' = StartOf(k) + 2
  BY SMTT(30), <1>2, <1>4, <1>6
<1>11. CASE frame'.kind = "masked" /\ Ends(<<"close">>) /\ closed' = TRUE /\ num' = num
  <2>1. num' \in Nat /\ closed' \in BOOLEAN
    BY <1>4, <1>11
  <2> QED
    BY <1>1, <1>2, <1>9, <1>10, <1>11, <2>1, EndsKeep
<1>12. CASE frame'.ext > 0 /\ ReadNext("length", Rest(2)) /\ UNCHANGED <<closed, reports>>
  <2>1. stage' = "length" /\ num' = size' /\ timer' \in {"none", "idle"}
    BY <1>10, <1>12, ReadNextIs
  <2>2. closed' \in BOOLEAN /\ reports' \in Seq({"open", "close", "error"})
    BY <1>12 DEF IInv, TypeOK
  <2>3. k \in 1 .. Len(script) + 1 /\ k <= Len(script)
    BY <1>5, <1>7
  <2> QED
    BY <1>1, <1>2, <1>6, <1>9, <1>10, <2>1, <2>2, <2>3, NextKeeps DEF Reading
<1>13. CASE frame'.ext = 0 /\ ReadContent(Rest(2), frame'.len)
  <2>1. at' = StartOf(k) + 2 + frame'.ext
    BY <1>10, <1>13
  <2> QED
    BY <1>1, <1>2, <1>6, <1>7, <1>9, <1>10, <1>13, <2>1, ReadContentKeeps
<1> QED
  BY <1>11, <1>12, <1>13 DEF HeaderRead

LEMMA LengthReadKeeps == ASSUME IInv, NoneIsNoFrame, LengthRead PROVE IInv'
<1>1. /\ stage = "length" /\ ready = "ok" /\ ready' = "none" /\ inside' = {} /\ owner' = owner /\ owner' # "new"
      /\ UNCHANGED <<script, config, stopped, run, io_stopped, broken, due>>
  BY BodyFrame DEF LengthRead
<1>2. at' = at + frame.ext /\ size' = size - frame.ext /\ UNCHANGED <<tries, frame, fragmented, delivered>>
  BY DEF LengthRead, Consume
<1>3. Wanted = frame.ext
  BY <1>1 DEF Wanted
<1>4. /\ script \in Seq(Frames) /\ at \in Nat /\ size \in Nat /\ frame.ext \in Nat
      /\ size >= frame.ext /\ size - frame.ext = Rest(frame.ext) /\ Rest(frame.ext) \in Nat
      /\ at + size <= BytesIn(script) /\ BytesIn(script) \in Nat
      /\ \E k \in 1 .. Len(script) + 1 : Amid(k)
  BY <1>1, <1>3, ReadIs DEF Reading
<1>5. PICK k \in 1 .. Len(script) + 1 : Amid(k)
  BY <1>4
<1>6. /\ at = StartOf(k) + 2 /\ frame = script[k] /\ k <= Len(script)
      /\ fragmented = Sofar[k - 1].part /\ delivered = Sofar[k - 1].done
  BY <1>1, <1>5 DEF Amid, InStep
<1>7. k \in 1 .. Len(script)
  BY <1>5, <1>6
<1>8. frame \in Frames /\ StartOf(k) \in Nat
  BY <1>4, <1>6, <1>7, FrameFound
<1>9. /\ at' \in Nat /\ size' \in Nat /\ Rest(frame.ext) = size' /\ at' + size' <= BytesIn(script)
      /\ at' = StartOf(k) + 2 + frame'.ext
  <2>1. at + frame.ext \in Nat /\ size - frame.ext \in Nat /\ (at + frame.ext) + (size - frame.ext) <= BytesIn(script)
    BY <1>4, Moved
  <2>2. at + frame.ext = StartOf(k) + 2 + frame.ext
    BY <1>6
  <2> QED
    BY <1>2, <1>4, <2>1, <2>2
<1>10. ReadContent(Rest(frame.ext), frame.len)
  BY DEF LengthRead
<1> QED
  BY <1>1, <1>2, <1>6, <1>7, <1>8, <1>9, <1>10, ReadContentKeeps

\* What is taken for the content is the content (client_ws.hpp:590).
LEMMA ContentReadKeeps == ASSUME IInv, NoneIsNoFrame, ContentRead PROVE IInv'
<1>1. /\ stage = "content" /\ ready = "ok" /\ ready' = "none" /\ inside' = {} /\ owner' = owner /\ owner' # "new"
      /\ UNCHANGED <<script, config, stopped, run, io_stopped, broken, due>>
  BY BodyFrame DEF ContentRead
<1>2. at' = at + Content[2] /\ size' = size - Content[2] /\ UNCHANGED <<tries, frame>>
  BY DEF ContentRead, Consume
<1>3. Wanted = frame.len
  BY <1>1 DEF Wanted
<1>4. /\ script \in Seq(Frames) /\ at \in Nat /\ size \in Nat /\ frame.len \in Nat
      /\ size >= frame.len /\ size - frame.len = Rest(frame.len) /\ Rest(frame.len) \in Nat
      /\ at + size <= BytesIn(script) /\ BytesIn(script) \in Nat
      /\ \E k \in 1 .. Len(script) + 1 : Amid(k)
  BY <1>1, <1>3, ReadIs DEF Reading
<1>5. PICK k \in 1 .. Len(script) + 1 : Amid(k)
  BY <1>4
<1> DEFINE m == Sofar[k - 1]
           f == script[k]
<1>6. at = StartOf(k) + 2 + f.ext /\ frame = f /\ k <= Len(script) /\ fragmented = m.part /\ delivered = m.done
  BY <1>1, <1>5 DEF Amid, InStep
<1>7. k \in 1 .. Len(script) /\ Len(script) \in Nat
  BY <1>4, <1>5, <1>6, SofarTells
<1>8. /\ f \in Frames /\ StartOf(k) \in Nat /\ StartOf(k + 1) = StartOf(k) + SizeOf(f)
      /\ k + 1 \in 1 .. Len(script) + 1 /\ (k + 1) - 1 = k
  BY <1>4, <1>7, FrameFound
<1>9. /\ m.at = StartOf(k) /\ Sofar[k].part = PartOf(m, f) /\ Sofar[k].done = DoneOf(m, f)
  <2>1. Sofar[k] = Told(m, f)
    BY <1>4, <1>7, SofarTells
  <2> QED
    BY <1>4, <1>5, <2>1, Starts, ToldIs
<1> HIDE DEF m, f
<1>10. Content = <<at, frame.len>>
  <2>1. CASE Rest(frame.len) > 0
    BY <2>1 DEF Content
  <2>2. CASE ~(Rest(frame.len) > 0)
    <3>1. size = frame.len
      BY <1>4, <2>2
    <3> QED
      BY <2>2, <3>1 DEF Content
  <2> QED
    BY <2>1, <2>2
<1>11. Content = SpanOf(m, f) /\ Content[2] = frame.len
  BY <1>6, <1>9, <1>10 DEF SpanOf
<1>12. /\ at' \in Nat /\ size' \in Nat /\ Rest(frame.len) = size' /\ at' + size' <= BytesIn(script)
       /\ at' = StartOf(k + 1)
  <2>1. f.ext \in Nat /\ f.len = frame.len /\ SizeOf(f) = 2 + f.ext + f.len
    BY <1>6, <1>8, SizeOfFrame DEF SizeOf
  <2> QED
    <3>1. at + frame.len \in Nat /\ size - frame.len \in Nat /\ (at + frame.len) + (size - frame.len) <= BytesIn(script)
      BY <1>4, Moved
    <3>2. at + frame.len = StartOf(k) + SizeOf(f)
      <4>1. f.len \in Nat /\ frame.len = f.len
        BY <1>4, <2>1
      <4>2. (StartOf(k) + 2 + f.ext) + f.len = StartOf(k) + (2 + f.ext + f.len)
        BY <1>8, <2>1, <4>1, Summed
      <4> QED
        BY <1>6, <2>1, <4>1, <4>2
    <3> QED
      BY <1>2, <1>4, <1>8, <1>11, <3>1, <3>2
<1>13. frame' \in Frames
  BY <1>2, <1>6, <1>8
<1>14. CASE frame.kind = "close" /\ Ends(<<"close">>) /\ closed' = TRUE /\ UNCHANGED <<num, fragmented, delivered>>
  <2>1. num' \in Nat /\ closed' \in BOOLEAN
    BY <1>14 DEF IInv, TypeOK
  <2> QED
    BY <1>1, <1>2, <1>12, <1>13, <1>14, <2>1, EndsKeep
<1>15. CASE NextMessage /\ fragmented' = PartOf(m, f) /\ delivered' = DoneOf(m, f)
  <2>1. ReadNext("header", Rest(frame.len)) /\ closed' = closed /\ reports' = reports
    BY <1>15 DEF NextMessage
  <2>2. stage' = "header" /\ num' = size' /\ timer' \in {"none", "idle"}
    BY <1>12, <2>1, ReadNextIs
  <2>3. closed' \in BOOLEAN /\ reports' \in Seq({"open", "close", "error"})
    BY <2>1 DEF IInv, TypeOK
  <2>4. PICK k2 \in 1 .. Len(script) + 1 : k2 = k + 1
    BY <1>8
  <2>5. at' = StartOf(k2) /\ fragmented' = Sofar[k2 - 1].part /\ delivered' = Sofar[k2 - 1].done
    BY <1>8, <1>9, <1>12, <1>15, <2>4
  <2> QED
    BY <1>1, <1>2, <1>12, <1>13, <2>2, <2>3, <2>4, <2>5, NextKeeps DEF Reading
<1>16. CASE frame.kind \in {"ping", "pong"} /\ NextMessage /\ UNCHANGED <<fragmented, delivered>>
  <2>1. PartOf(m, f) = m.part /\ DoneOf(m, f) = m.done
    BY <1>6, <1>16 DEF PartOf, DoneOf
  <2> QED
    BY <1>6, <1>15, <1>16, <2>1
<1>17. CASE frame.kind = "more" /\ fragmented' = Append(fragmented, Content) /\ NextMessage /\ UNCHANGED delivered
  <2>1. PartOf(m, f) = Append(m.part, SpanOf(m, f)) /\ DoneOf(m, f) = m.done
    BY <1>6, <1>17 DEF PartOf, DoneOf
  <2> QED
    BY <1>6, <1>11, <1>15, <1>17, <2>1
<1>18. CASE /\ frame.kind = "data" /\ delivered' = Append(delivered, Append(fragmented, Content))
            /\ fragmented' = << >> /\ NextMessage
  <2>1. PartOf(m, f) = << >> /\ DoneOf(m, f) = Append(m.done, Append(m.part, SpanOf(m, f)))
    BY <1>6, <1>18 DEF PartOf, DoneOf
  <2> QED
    BY <1>6, <1>11, <1>15, <1>18, <2>1
<1> QED
  BY <1>14, <1>16, <1>17, <1>18 DEF ContentRead

--------------------------------------------------------------------------------
(* The theorems. *)

LEMMA InitHolds == Init => IInv
<1> SUFFICES ASSUME Init PROVE IInv
  OBVIOUS
<1>1. script \in Seq(Frames) /\ config.own_io \in BOOLEAN /\ 1 \in 1 .. Endpoints
  BY ClientAssumption DEF Init
<1>2. TypeOK
  <2>1. run \in BOOLEAN /\ inside = {} /\ stopped \in BOOLEAN /\ io_stopped \in BOOLEAN
    BY <1>1 DEF Init, Gate!Init
  <2>2. /\ << >> \in Seq(Spans) /\ << >> \in Seq(Seq(Spans)) /\ << >> \in Seq({"open", "close", "error"})
    OBVIOUS
  <2> QED
    BY <1>1, <2>1, <2>2 DEF Init, TypeOK
<1>3. Begins(delivered, Messages)
  <2>1. 0 \in 0 .. Len(script) /\ Len(script) \in 0 .. Len(script)
    BY <1>1, SofarTells
  <2>2. Sofar[0].done = << >> /\ Messages = Sofar[Len(script)].done
    BY <1>1, SofarTells DEF First
  <2>3. Begins(Sofar[0].done, Sofar[Len(script)].done)
    BY <1>1, <2>1, Onward
  <2> QED
    BY <2>2, <2>3 DEF Init
<1> QED
  BY <1>2, <1>3 DEF Init, IInv, ByteInv, Unread, Unstarted, AnswerInv, ReadInv, Reading

LEMMA StepKeeps == NoneIsNoFrame /\ IInv /\ [Next]_vars => IInv'
<1> SUFFICES ASSUME NoneIsNoFrame, IInv, [Next]_vars PROVE IInv'
  OBVIOUS
<1>1. CASE Start
  BY <1>1, StartKeeps
<1>2. CASE StopClose \/ StopIo \/ Destroy
  BY <1>2, OwnerKeeps
<1>3. CASE RunReturns \/ TimerHandler \/ TimerExpires \/ UNCHANGED vars
  BY <1>3, TimerKeeps
<1>4. CASE HandlerBegins
  BY <1>4, HandlerBeginsKeeps
<1>5. CASE Arrive
  BY <1>5, ArriveKeeps
<1>6. CASE Fail
  BY <1>6, FailKeeps
<1>7. CASE HandlerBody
  <2>1. CASE \/ HandlerFails \/ Resolved \/ Connected \/ ProxyWritten \/ ProxyAnswered \/ Secured \/ Written
    BY <2>1, UpgradingKeeps
  <2>2. CASE Answered
    BY <2>2, AnsweredKeeps
  <2>3. CASE HeaderRead
    BY <2>3, HeaderReadKeeps
  <2>4. CASE LengthRead
    BY <2>4, LengthReadKeeps
  <2>5. CASE ContentRead
    BY <2>5, ContentReadKeeps
  <2> QED
    BY <1>7, <2>1, <2>2, <2>3, <2>4, <2>5 DEF HandlerBody
<1> QED
  BY <1>1, <1>2, <1>3, <1>4, <1>5, <1>6, <1>7 DEF Next, IoThread

\* Through every handshake, read, failure and stop the buffer holds the bytes of the
\* stream that num_additional_bytes and the frame amid which the reader is say.
THEOREM ByteInvariance == ASSUME NoneIsNoFrame PROVE Spec => []IInv
<1>1. Init => IInv
  BY InitHolds
<1>2. IInv /\ [Next]_vars => IInv'
  BY StepKeeps
<1> QED
  BY <1>1, <1>2, PTL DEF Spec

\* "What is left of the streambuf (maybe some bytes of a message) is appended to in the
\* next async_read-function" (client_ws.hpp:456): every read begins where its part of a
\* frame does, and on_message gets the server's messages, byte for byte.
THEOREM BytesAreInStep == ASSUME NoneIsNoFrame PROVE Spec => []BytesInStep
<1>1. IInv => BytesInStep
  <2> SUFFICES ASSUME IInv PROVE BytesInStep
    OBVIOUS
  <2>1. TypeOK /\ script \in Seq(Frames) /\ delivered \in Seq(Seq(Spans))
    BY ScriptTyped DEF IInv, TypeOK
  <2>2. stage \in Reading => \E k \in 1 .. Len(script) + 1 : InStep(k)
    BY DEF IInv, ByteInv, ReadInv, Amid
  <2>3. stage \in Reading /\ ready = "none" => num = size
    BY DEF IInv, ByteInv, ReadInv
  <2>4. Messages \in Seq(Seq(Spans))
    <3>1. Len(script) \in 0 .. Len(script)
      BY <2>1, SofarTells
    <3> QED
      BY <2>1, <3>1, SofarTells DEF Places
  <2>5. IsPrefix(delivered, Messages)
    BY <2>1, <2>4, BeginsIsPrefix DEF IInv, ByteInv
  <2> QED
    BY <2>1, <2>2, <2>3, <2>5 DEF BytesInStep
<1> QED
  BY <1>1, ByteInvariance, PTL
===============================================================================
