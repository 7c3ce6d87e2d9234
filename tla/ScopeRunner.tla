------------------------------ MODULE ScopeRunner -----------------------------
(***************************************************************************)
(* SimpleWeb::ScopeRunner: an atomic counter of running scopes that stop() *)
(* sets to -1.  Both operations are loops around compare_exchange_weak,    *)
(* which may fail although the value is the expected one.                  *)
(***************************************************************************)
EXTENDS Integers, FiniteSets

CONSTANTS Threads,   \* run handlers: continue_lock() and the lock's release
          Stoppers,  \* call stop()
          MaxScopes  \* how often a thread asks for a lock (bound)

ASSUME ScopeAssumption == IsFiniteSet(Threads) /\ MaxScopes \in Nat

VARIABLES count,     \* the atomic
          locker,    \* where each thread is in continue_lock and after
          expected,  \* its local variable
          scopes,    \* locks it asked for (bound)
          stopper    \* where each stopper is in stop()

vars == <<count, locker, expected, scopes, stopper>>

Holders == {t \in Threads : locker[t] = "held"}

TypeOK ==
  /\ count \in -1 .. Cardinality(Threads)
  /\ locker \in [Threads -> {"idle", "try", "held"}]
  /\ expected \in [Threads -> Int]
  /\ scopes \in [Threads -> 0 .. MaxScopes]
  /\ stopper \in [Stoppers -> {"idle", "try", "returned"}]

Init ==
  /\ count = 0
  /\ locker = [t \in Threads |-> "idle"]
  /\ expected = [t \in Threads |-> 0]
  /\ scopes = [t \in Threads |-> 0]
  /\ stopper = [s \in Stoppers |-> "idle"]

--------------------------------------------------------------------------------
(* continue_lock() and ~SharedLock(). *)

\* long expected = count.
LockRead(t) ==
  /\ locker[t] = "idle" /\ scopes[t] < MaxScopes
  /\ locker' = [locker EXCEPT ![t] = "try"]
  /\ expected' = [expected EXCEPT ![t] = count]
  /\ scopes' = [scopes EXCEPT ![t] = @ + 1]
  /\ UNCHANGED <<count, stopper>>

\* Mutant: a stopped runner is locked as well.
LockCas_Always(t) ==
  /\ locker[t] = "try" /\ expected[t] = count
  /\ count' = count + 1
  /\ locker' = [locker EXCEPT ![t] = "held"]
  /\ UNCHANGED <<expected, scopes, stopper>>

\* The exchange succeeds.
LockCas(t) ==
  /\ locker[t] = "try" /\ expected[t] >= 0 /\ expected[t] = count
  /\ count' = expected[t] + 1
  /\ locker' = [locker EXCEPT ![t] = "held"]
  /\ UNCHANGED <<expected, scopes, stopper>>

\* It fails, spuriously perhaps, and expected becomes what is there.
LockCasFails(t) ==
  /\ locker[t] = "try" /\ expected[t] >= 0
  /\ expected' = [expected EXCEPT ![t] = count]
  /\ UNCHANGED <<count, locker, scopes, stopper>>

\* nullptr: the handler returns at once.
LockRefused(t) ==
  /\ locker[t] = "try" /\ expected[t] < 0
  /\ locker' = [locker EXCEPT ![t] = "idle"]
  /\ UNCHANGED <<count, expected, scopes, stopper>>

\* Mutant: the destructor leaves the counter alone.
Release_Leak(t) ==
  /\ locker[t] = "held"
  /\ locker' = [locker EXCEPT ![t] = "idle"]
  /\ UNCHANGED <<count, expected, scopes, stopper>>

\* ~SharedLock: fetch_sub(1).
Release(t) ==
  /\ locker[t] = "held"
  /\ locker' = [locker EXCEPT ![t] = "idle"]
  /\ count' = count - 1
  /\ UNCHANGED <<expected, scopes, stopper>>

--------------------------------------------------------------------------------
(* stop(). *)

StopCall(s) ==
  /\ stopper[s] = "idle"
  /\ stopper' = [stopper EXCEPT ![s] = "try"]
  /\ UNCHANGED <<count, locker, expected, scopes>>

\* Mutant: exchange instead of compare-exchange, whoever holds a lock.
StopCas_Exchange(s) ==
  /\ stopper[s] = "try"
  /\ count' = -1
  /\ stopper' = [stopper EXCEPT ![s] = "returned"]
  /\ UNCHANGED <<locker, expected, scopes>>

\* The exchange of 0 for -1 succeeds.  When it fails, spuriously perhaps, it
\* is tried again: nothing changes.
StopCas(s) ==
  /\ stopper[s] = "try" /\ count = 0
  /\ count' = -1
  /\ stopper' = [stopper EXCEPT ![s] = "returned"]
  /\ UNCHANGED <<locker, expected, scopes>>

\* It fails because somebody else has stopped the runner.
StopFound(s) ==
  /\ stopper[s] = "try" /\ count < 0
  /\ stopper' = [stopper EXCEPT ![s] = "returned"]
  /\ UNCHANGED <<count, locker, expected, scopes>>

Lock(t) == LockRead(t) \/ LockCas(t) \/ LockCasFails(t) \/ LockRefused(t) \/ Release(t)
Stop(s) == StopCall(s) \/ StopCas(s) \/ StopFound(s)

Next == (\E t \in Threads : Lock(t)) \/ (\E s \in Stoppers : Stop(s))

SafeSpec == Init /\ [][Next]_vars

\* A handler ends, which releases its lock, and stop() spins on.
Spec == /\ SafeSpec
        /\ \A t \in Threads : WF_vars(Release(t))
        /\ \A s \in Stoppers : WF_vars(StopCas(s) \/ StopFound(s))

--------------------------------------------------------------------------------
(* Properties. *)

\* The counter is the number of scopes that run, or -1 and none runs.
CountIsHolders == \/ count = Cardinality(Holders)
                  \/ count = -1 /\ Holders = {}

\* "Blocks until all shared locks are released, then prevents future shared
\* locks" (utility.hpp:467): once a stop() has returned, no scope runs
\* (with the types).
StoppedMeansQuiet ==
  TypeOK /\ ((\E s \in Stoppers : stopper[s] = "returned") => Holders = {} /\ count = -1)

\* As long as threads do not come back for ever, every stop() returns.
StopReturns == \A s \in Stoppers : stopper[s] = "try" ~> stopper[s] = "returned"

\* The runner is the gate.
Gate == INSTANCE ScopeGate WITH inside <- Holders, closed <- count < 0
ImplementsGate == Gate!Spec
==============================================================================
