--------------------------- MODULE ScopeRunnerProofs --------------------------
(***************************************************************************)
(* ScopeRunner for any finite set of threads and any stoppers: the counter *)
(* counts, a returned stop() means that no scope runs, and the runner      *)
(* implements the gate.                                                    *)
(***************************************************************************)
EXTENDS ScopeRunner, FiniteSetTheorems, TLAPS

\* What the steps keep: the types but for the counter's, that the counter
\* counts, and that a stop() that returned found or left it negative.
LocalTypes == /\ locker \in [Threads -> {"idle", "try", "held"}]
              /\ expected \in [Threads -> Int]
              /\ scopes \in [Threads -> 0 .. MaxScopes]
              /\ stopper \in [Stoppers -> {"idle", "try", "returned"}]
ReturnedNegative == \A s \in Stoppers : stopper[s] = "returned" => count < 0
IInv == LocalTypes /\ CountIsHolders /\ ReturnedNegative

--------------------------------------------------------------------------------
\* The number of scopes that run is a number, and at most all threads' own.
LEMMA HoldersCounted ==
  ASSUME LocalTypes
  PROVE  /\ IsFiniteSet(Holders)
         /\ Cardinality(Holders) \in Nat
         /\ Cardinality(Holders) <= Cardinality(Threads)
         /\ Cardinality(Threads) \in Nat
         /\ Cardinality(Holders) = 0 <=> Holders = {}
  <1>1. Holders \subseteq Threads
    BY DEF Holders
  <1>2. IsFiniteSet(Threads)
    BY ScopeAssumption
  <1> QED BY <1>1, <1>2, FS_Subset, FS_CardinalityType, FS_EmptySet

\* Who holds a lock, after a thread's place has changed.
LEMMA HoldersAfter ==
  ASSUME LocalTypes, NEW t \in Threads
  PROVE  /\ locker' = [locker EXCEPT ![t] = "held"] => Holders' = Holders \cup {t}
         /\ locker' = [locker EXCEPT ![t] = "idle"] => Holders' = Holders \ {t}
         /\ locker' = [locker EXCEPT ![t] = "try"] => Holders' = Holders \ {t}
  BY DEF Holders, LocalTypes

\* One holder more.
LEMMA OneMore ==
  ASSUME LocalTypes, NEW t \in Threads, locker[t] # "held"
  PROVE  Cardinality(Holders \cup {t}) = Cardinality(Holders) + 1
  <1>1. t \notin Holders
    BY DEF Holders
  <1> QED BY <1>1, HoldersCounted, FS_AddElement

\* One holder less.
LEMMA OneLess ==
  ASSUME LocalTypes, NEW t \in Threads, locker[t] = "held"
  PROVE  Cardinality(Holders \ {t}) = Cardinality(Holders) - 1
  <1>1. t \in Holders
    BY DEF Holders
  <1> QED BY <1>1, HoldersCounted, FS_RemoveElement

--------------------------------------------------------------------------------
\* Nobody holds a lock at the start.
LEMMA InitHolds == Init => IInv
  <1> SUFFICES ASSUME Init PROVE IInv
    OBVIOUS
  <1>1. LocalTypes
    BY ScopeAssumption DEF Init, LocalTypes
  <1>2. Holders = {}
    BY DEF Init, Holders
  <1>3. CountIsHolders
    BY <1>2, FS_EmptySet DEF Init, CountIsHolders
  <1>4. ReturnedNegative
    BY DEF Init, ReturnedNegative
  <1> QED BY <1>1, <1>3, <1>4 DEF IInv

\* Every step of a thread keeps the invariant.
LEMMA LockKeeps ==
  ASSUME IInv, NEW t \in Threads, Lock(t)
  PROVE  IInv'
  <1> USE DEF IInv
  <1>0. /\ count \in Int
        /\ IsFiniteSet(Holders) /\ Cardinality(Holders) \in Nat
        /\ Cardinality(Holders) = 0 <=> Holders = {}
    BY HoldersCounted DEF CountIsHolders
  <1>1. CASE LockRead(t)
    <2>1. LocalTypes'
      BY <1>1, <1>0, ScopeAssumption DEF LockRead, LocalTypes
    <2>2. Holders' = Holders
      BY <1>1, HoldersAfter DEF LockRead, Holders
    <2> QED BY <1>1, <2>1, <2>2 DEF LockRead, CountIsHolders, ReturnedNegative
  <1>2. CASE LockCas(t)
    <2>1. LocalTypes'
      BY <1>2 DEF LockCas, LocalTypes
    <2>2. Holders' = Holders \cup {t}
      BY <1>2, HoldersAfter DEF LockCas
    <2>3. count = Cardinality(Holders)
      BY <1>2 DEF LockCas, CountIsHolders
    <2>4. CountIsHolders'
      BY <1>2, <2>2, <2>3, OneMore DEF LockCas, CountIsHolders
    <2>5. ReturnedNegative'
      BY <1>0, <1>2 DEF LockCas, ReturnedNegative
    <2> QED BY <2>1, <2>4, <2>5
  <1>3. CASE LockCasFails(t)
    <2>1. LocalTypes'
      BY <1>3, <1>0 DEF LockCasFails, LocalTypes
    <2> QED BY <1>3, <2>1 DEF LockCasFails, CountIsHolders, ReturnedNegative, Holders
  <1>4. CASE LockRefused(t)
    <2>1. LocalTypes'
      BY <1>4 DEF LockRefused, LocalTypes
    <2>2. Holders' = Holders
      BY <1>4, HoldersAfter DEF LockRefused, Holders
    <2> QED BY <1>4, <2>1, <2>2 DEF LockRefused, CountIsHolders, ReturnedNegative
  <1>5. CASE Release(t)
    <2>1. LocalTypes'
      BY <1>5 DEF Release, LocalTypes
    <2>2. Holders' = Holders \ {t}
      BY <1>5, HoldersAfter DEF Release
    <2>3. t \in Holders
      BY <1>5 DEF Release, Holders
    <2>4. count = Cardinality(Holders)
      BY <2>3 DEF CountIsHolders
    <2>5. CountIsHolders'
      BY <1>5, <2>2, <2>4, OneLess DEF Release, CountIsHolders
    <2>6. ReturnedNegative'
      BY <1>0, <1>5, <2>4 DEF Release, ReturnedNegative
    <2> QED BY <2>1, <2>5, <2>6
  <1> QED BY <1>1, <1>2, <1>3, <1>4, <1>5 DEF Lock

\* Every step of stop() keeps the invariant.
LEMMA StopKeeps ==
  ASSUME IInv, NEW s \in Stoppers, Stop(s)
  PROVE  IInv'
  <1> USE DEF IInv
  <1>0. Holders' = Holders
    BY DEF Stop, StopCall, StopCas, StopFound, Holders
  <1>1. LocalTypes'
    BY DEF Stop, StopCall, StopCas, StopFound, LocalTypes
  <1>2. CountIsHolders'
    <2>1. CASE StopCas(s)
      <3>1. Holders = {}
        BY <2>1, HoldersCounted DEF StopCas, CountIsHolders
      <3> QED BY <1>0, <2>1, <3>1 DEF StopCas, CountIsHolders
    <2>2. CASE StopCall(s) \/ StopFound(s)
      BY <1>0, <2>2 DEF StopCall, StopFound, CountIsHolders
    <2> QED BY <2>1, <2>2 DEF Stop
  <1>3. ReturnedNegative'
    BY DEF Stop, StopCall, StopCas, StopFound, ReturnedNegative, LocalTypes
  <1> QED BY <1>1, <1>2, <1>3

\* So do a stutter and any step.
LEMMA NextKeeps == IInv /\ [Next]_vars => IInv'
  <1> SUFFICES ASSUME IInv, [Next]_vars PROVE IInv'
    OBVIOUS
  <1>1. CASE UNCHANGED vars
    BY <1>1 DEF vars, IInv, LocalTypes, CountIsHolders, ReturnedNegative, Holders
  <1>2. ASSUME NEW t \in Threads, Lock(t) PROVE IInv'
    BY <1>2, LockKeeps
  <1>3. ASSUME NEW s \in Stoppers, Stop(s) PROVE IInv'
    BY <1>3, StopKeeps
  <1> QED BY <1>1, <1>2, <1>3 DEF Next

\* IInv holds in every reachable state of the runner.
THEOREM Invariance == SafeSpec => []IInv
  BY InitHolds, NextKeeps, PTL DEF SafeSpec

--------------------------------------------------------------------------------
\* The counter lies between -1 and the number of threads and every local
\* variable has its type (utility.hpp:440).
THEOREM TypeCorrect == SafeSpec => []TypeOK
  <1>1. IInv => TypeOK
    BY HoldersCounted DEF IInv, LocalTypes, CountIsHolders, TypeOK
  <1> QED BY <1>1, Invariance, PTL

\* The counter is the number of scopes that run, or -1 with none running
\* (continue_lock and ~SharedLock, utility.hpp:452, 456).
THEOREM Counts == SafeSpec => []CountIsHolders
  <1>1. IInv => CountIsHolders
    BY DEF IInv
  <1> QED BY <1>1, Invariance, PTL

\* Once a stop() has returned no scope runs (utility.hpp:467).
THEOREM StoppedQuiet == SafeSpec => []StoppedMeansQuiet
  <1>1. IInv => StoppedMeansQuiet
    BY HoldersCounted DEF IInv, LocalTypes, CountIsHolders, ReturnedNegative, TypeOK, StoppedMeansQuiet
  <1> QED BY <1>1, Invariance, PTL

--------------------------------------------------------------------------------
\* A thread's step enters or leaves the gate, or is none of its steps.
LEMMA LockImplements ==
  ASSUME IInv, NEW t \in Threads, Lock(t)
  PROVE  Gate!Next \/ UNCHANGED <<Holders, count < 0>>
  <1>0. /\ count \in Int /\ Cardinality(Holders) \in Nat /\ LocalTypes
        /\ Cardinality(Holders) = 0 <=> Holders = {}
    BY HoldersCounted DEF IInv, CountIsHolders
  <1>1. CASE LockRead(t) \/ LockRefused(t)
    <2>1. Holders' = Holders
      BY <1>0, <1>1, HoldersAfter DEF LockRead, LockRefused, Holders
    <2> QED BY <1>1, <2>1 DEF LockRead, LockRefused
  <1>2. CASE LockCasFails(t)
    BY <1>2 DEF LockCasFails, Holders
  <1>3. CASE LockCas(t)
    <2>1. Holders' = Holders \cup {t} /\ t \notin Holders
      BY <1>0, <1>3, HoldersAfter DEF LockCas, Holders
    <2>2. ~(count < 0) /\ ~(count' < 0)
      BY <1>0, <1>3 DEF LockCas
    <2>3. Gate!Enter(t)
      BY <2>1, <2>2 DEF Gate!Enter
    <2> QED BY <2>3 DEF Gate!Next
  <1>4. CASE Release(t)
    <2>1. Holders' = Holders \ {t} /\ t \in Holders
      BY <1>0, <1>4, HoldersAfter DEF Release, Holders
    <2>2. ~(count < 0) /\ ~(count' < 0)
      BY <1>0, <1>4, <2>1 DEF Release, IInv, CountIsHolders
    <2>3. Gate!Leave(t)
      BY <2>1, <2>2 DEF Gate!Leave
    <2> QED BY <2>3 DEF Gate!Next
  <1> QED BY <1>1, <1>2, <1>3, <1>4 DEF Lock

\* A step of stop() closes the gate, or is none of its steps.
LEMMA StopImplements ==
  ASSUME IInv, NEW s \in Stoppers, Stop(s)
  PROVE  Gate!Next \/ UNCHANGED <<Holders, count < 0>>
  <1>0. Holders' = Holders
    BY DEF Stop, StopCall, StopCas, StopFound, Holders
  <1>1. CASE StopCall(s) \/ StopFound(s)
    BY <1>0, <1>1 DEF StopCall, StopFound
  <1>2. CASE StopCas(s)
    <2>1. Holders = {}
      BY <1>2, HoldersCounted DEF StopCas, IInv, CountIsHolders
    <2>2. Gate!Close
      BY <1>0, <1>2, <2>1 DEF StopCas, Gate!Close
    <2> QED BY <2>2 DEF Gate!Next
  <1> QED BY <1>1, <1>2 DEF Stop

\* ScopeRunner implements the gate: scopes start only before the gate closes,
\* and it closes only while none runs (utility.hpp:434-477).
THEOREM Implements == SafeSpec => ImplementsGate
  <1>1. Init => Gate!Init
    BY DEF Init, Gate!Init, Holders
  <1>2. IInv /\ [Next]_vars => [Gate!Next]_<<Holders, count < 0>>
    <2> SUFFICES ASSUME IInv, [Next]_vars
                 PROVE  Gate!Next \/ UNCHANGED <<Holders, count < 0>>
      OBVIOUS
    <2>1. CASE UNCHANGED vars
      BY <2>1 DEF vars, Holders
    <2>2. ASSUME NEW t \in Threads, Lock(t) PROVE Gate!Next \/ UNCHANGED <<Holders, count < 0>>
      BY <2>2, LockImplements
    <2>3. ASSUME NEW s \in Stoppers, Stop(s) PROVE Gate!Next \/ UNCHANGED <<Holders, count < 0>>
      BY <2>3, StopImplements
    <2> QED BY <2>1, <2>2, <2>3 DEF Next
  <1> QED BY <1>1, <1>2, Invariance, PTL DEF SafeSpec, ImplementsGate, Gate!Spec
==============================================================================
