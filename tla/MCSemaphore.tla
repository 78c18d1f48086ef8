---------------------------- MODULE MCSemaphore ----------------------------
(* The semaphore model with three CPUs. *)
EXTENDS Semaphore, TLC

CONSTANTS t1, t2, t3

MCThreads == {t1, t2, t3}
ThreadSymmetry == Permutations(MCThreads)
============================================================================
