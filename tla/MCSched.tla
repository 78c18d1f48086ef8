------------------------------ MODULE MCSched ------------------------------
(* The scheduler model with a Bsp, one or two further CPUs and a few tasks. *)
EXTENDS Sched, TLC

CONSTANTS bsp, ap1, ap2, t1, t2, t3

\* add_cpu inserts at the front of the list `cpus', so the Bsp comes last.
TwoCpus == <<ap1, bsp>>
ThreeCpus == <<ap2, ap1, bsp>>

TaskSymmetry == Permutations(Tasks)
============================================================================
