------------------------------ MODULE OutStream ------------------------------
(***************************************************************************)
(* What one WebSocket connection promises to the threads that call send(): *)
(* frames leave in the order in which they were accepted, none twice; a    *)
(* broken socket loses the whole rest of the stream; and a callback tells  *)
(* the truth about its frame, once.  SendQueue implements this.            *)
(***************************************************************************)
EXTENDS Naturals, Sequences, SequencesExt

CONSTANTS Frames,        \* everything that may be sent on the connection
          WithCallback   \* the frames whose sender passed a callback

VARIABLES sent,      \* frames accepted by send(), in the order of acceptance
          wire,      \* frames the peer's TCP has been given, in wire order
          lost,      \* frames given up after a failure
          reported   \* per frame, what its callback was told

vars == <<sent, wire, lost, reported>>

TypeOK == /\ sent \in Seq(Frames)
          /\ wire \in Seq(Frames)
          /\ lost \subseteq Frames
          /\ reported \in [WithCallback -> {"nothing", "ok", "failed"}]

Init == /\ sent = << >>
        /\ wire = << >>
        /\ lost = {}
        /\ reported = [f \in WithCallback |-> "nothing"]

Accept(f) == /\ f \notin ToSet(sent)
             /\ sent' = Append(sent, f)
             /\ UNCHANGED <<wire, lost, reported>>

\* The next frame in order, as long as no earlier one has been lost.
Deliver == /\ lost = {}
           /\ Len(wire) < Len(sent)
           /\ wire' = Append(wire, sent[Len(wire) + 1])
           /\ UNCHANGED <<sent, lost, reported>>

\* A failure loses everything accepted that is not on the wire.
Lose == /\ ToSet(sent) \ (ToSet(wire) \cup lost) # {}
        /\ lost' = ToSet(sent) \ ToSet(wire)
        /\ UNCHANGED <<sent, wire, reported>>

Report(f) == /\ reported[f] = "nothing"
             /\ \/ f \in ToSet(wire) /\ reported' = [reported EXCEPT ![f] = "ok"]
                \/ f \in lost /\ reported' = [reported EXCEPT ![f] = "failed"]
             /\ UNCHANGED <<sent, wire, lost>>

Next == \/ \E f \in Frames : Accept(f)
        \/ Deliver
        \/ Lose
        \/ \E f \in WithCallback : Report(f)

Settle == Deliver \/ Lose

SafeSpec == Init /\ [][Next]_vars

\* Every frame is delivered or given up, and every callback is called.
Progress == WF_vars(Settle) /\ \A f \in WithCallback : WF_vars(Report(f))

Spec == SafeSpec /\ Progress
==============================================================================
