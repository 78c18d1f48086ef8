------------------------------- MODULE MCPmm -------------------------------
(***************************************************************************)
(* Small memories for the physical memory manager.                         *)
(***************************************************************************)
EXTENDS Pmm

CONSTANTS LastMfn, TopOrder

MCMfns == 0 .. LastMfn
MCSize == [o \in 0 .. TopOrder + 1 |-> 2 ^ o]

\* An early 4K frame and two frames of the largest order that are siblings, so
\* that splits and merges cascade and a merge can go above the largest order.
TwoLarge == << <<0, 0>>, <<8, 2>>, <<12, 2>> >>

\* Only 4K frames, as in a memory no larger than EARLY_VIRT_MEM.
EarlyOnly == [i \in 1 .. LastMfn + 1 |-> <<i - 1, 0>>]
============================================================================
