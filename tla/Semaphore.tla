----------------------------- MODULE Semaphore -----------------------------
(***************************************************************************)
(* The counting semaphore of lib/semaphore.c on top of the atomics of      *)
(* include/arch/x86/atomic.h, as its only user, the ACPICA OS layer        *)
(* (AcpiOsWaitSemaphore, AcpiOsSignalSemaphore), calls it.                 *)
(*                                                                         *)
(* A call takes a number of units.  sem_trywait and sem_wait are the calls *)
(* for one unit: `value > 0' is `value >= 1' and the atomic operations are *)
(* those of the *_units forms, so one action stands for both.              *)
(*                                                                         *)
(* atomic_add_return is `lock xadd': what it returns is the value BEFORE   *)
(* the addition, and atomic_sub_return and atomic_dec_return are built on  *)
(* it.  The counter is an integer: with a start value in int32_t and a few *)
(* units per CPU in flight it stays far from wrapping unless it is posted  *)
(* to 2^31 times.                                                          *)
(***************************************************************************)
EXTENDS Integers, FiniteSetsExt

CONSTANTS Threads,              \* the CPUs that call the semaphore
          InitialUnits,         \* the value given to sem_init
          MaxUnits,             \* the largest number of units in one call
          MaxSignals,           \* bound on the units posted by non-holders
          MAX_SEMAPHORE_VALUE   \* _U32(-1) / 2; a small number for TLC

\* What sem_init's BUG_ON lets through, and calls for at least one unit.
ASSUME SemaphoreAssumption ==
  /\ MAX_SEMAPHORE_VALUE \in Nat
  /\ InitialUnits \in 0 .. MAX_SEMAPHORE_VALUE
  /\ MaxUnits \in Nat \ {0}
  /\ MaxSignals \in Nat

VARIABLES v,          \* sem->v.counter
          pc,         \* where each thread is
          units,      \* the argument of the call a thread is in
          signalled   \* history: units posted by threads that held none

vars == <<v, pc, units, signalled>>

UnitCounts == 1 .. MaxUnits

\* sem_init
Init ==
  /\ v = InitialUnits
  /\ pc = [t \in Threads |-> "idle"]
  /\ units = [t \in Threads |-> 1]
  /\ signalled = 0

Goto(t, from, to) ==
  /\ pc[t] = from
  /\ pc' = [pc EXCEPT ![t] = to]

(***************************************************************************)
(* The operations.                                                         *)
(***************************************************************************)

\* sem_wait_units: the spin loop around sem_trywait_units begins.
SemWaitUnits(t, n) ==
  /\ Goto(t, "idle", "check")
  /\ units' = [units EXCEPT ![t] = n]
  /\ UNCHANGED <<v, signalled>>

\* The first look of sem_trywait_units at the value; while it is too small
\* the caller spins and looks again.
EnoughUnits(value, n) == value >= n

CheckValue(t) ==
  /\ EnoughUnits(v, units[t])
  /\ Goto(t, "check", "sub")
  /\ UNCHANGED <<v, units, signalled>>

\* atomic_add_return: the xadd leaves the old value in the register returned.
AddReturned(counter, n) == counter

\* Mutant of WaitSucceeds: the result of the xadd is not tested.
WaitSucceedsAlways(val) == TRUE

\* The second look, at what atomic_sub_return returned.
WaitSucceeds(val) == val >= 0

\* val = atomic_sub_return(&sem->v, units); if (val >= 0) return true;
\* The test is of a local variable, so it is part of the same step.
SubReturn(t) ==
  /\ Goto(t, "sub", IF WaitSucceeds(AddReturned(v, -units[t])) THEN "held" ELSE "undo")
  /\ v' = v - units[t]
  /\ UNCHANGED <<units, signalled>>

\* Mutant of Undo: atomic_inc, as sem_trywait has it, in the *_units form.
UndoOneUnit(t) ==
  /\ Goto(t, "undo", "check")
  /\ v' = v + 1
  /\ UNCHANGED <<units, signalled>>

\* Mutant of Undo: the failing wait gives nothing back.
UndoNothing(t) ==
  /\ Goto(t, "undo", "check")
  /\ UNCHANGED <<v, units, signalled>>

\* else atomic_add_return(&sem->v, units); the caller spins and looks again.
Undo(t) ==
  /\ Goto(t, "undo", "check")
  /\ v' = v + units[t]
  /\ UNCHANGED <<units, signalled>>

\* sem_post_units by a thread that gives back what it was granted.
SemPostUnits(t) ==
  /\ Goto(t, "held", "idle")
  /\ v' = v + units[t]
  /\ UNCHANGED <<units, signalled>>

\* sem_post_units by a thread that holds nothing: no code ties a post to an
\* earlier wait.  MaxSignals bounds it.
Signal(t, n) ==
  /\ pc[t] = "idle"
  /\ signalled + n <= MaxSignals
  /\ v' = v + n
  /\ signalled' = signalled + n
  /\ UNCHANGED <<pc, units>>

\* The steps a thread takes by itself once it is in a call or holds units.
Step(t) == CheckValue(t) \/ SubReturn(t) \/ Undo(t) \/ SemPostUnits(t)

Next ==
  \E t \in Threads :
    \/ \E n \in UnitCounts : SemWaitUnits(t, n) \/ Signal(t, n)
    \/ Step(t)

Spec == Init /\ [][Next]_vars

\* Every CPU keeps executing, and the holder of a semaphore posts it.
FairSpec == Spec /\ \A t \in Threads : WF_vars(Step(t))

(***************************************************************************)
(* Properties.                                                             *)
(***************************************************************************)

In(locations) == {t \in Threads : pc[t] \in locations}
UnitsOf(threads) == MapThenSumSet(LAMBDA t : units[t], threads)

\* Units are neither lost nor made up, whatever the interleaving of waits that
\* succeed, waits that fail half way and posts: the counter of sem->v plus the
\* units held plus the units a failing sem_trywait_units has not yet given
\* back is what sem_init and the signals put in.
UnitsConserved ==
  v + UnitsOf(In({"held", "undo"})) = InitialUnits + signalled

\* How far sem_trywait_units can over-grant.  The test after the xadd is of the
\* old value, so a wait can succeed on a semaphore that has just run out; but
\* however many CPUs race between the two looks, the units granted exceed what
\* was put in by those of one call at most (by one, when all ask for one).
HoldersBounded ==
  UnitsOf(In({"held"})) <= InitialUnits + signalled + MaxUnits

\* A wait that fails leaves the semaphore able to serve: when somebody spins in
\* sem_wait_units for no more units than the semaphore has in all, somebody is
\* eventually granted units (holders post what they hold).
SomeoneGetsUnits ==
  (\E t \in Threads : pc[t] = "check" /\ units[t] <= InitialUnits)
    ~> (\E t \in Threads : pc[t] = "held")

\* What the comment in sem_init says of the bound on its argument: no more than
\* MAX_SEMAPHORE_VALUE threads access the semaphore (one that nobody posts to
\* without having waited).
AtMostMaxThreads ==
  signalled = 0 => Cardinality(In({"held"})) <= MAX_SEMAPHORE_VALUE
============================================================================
