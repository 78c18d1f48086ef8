--------------------------- MODULE FrameAllocator ---------------------------
(***************************************************************************)
(* What mm/pmm.c promises, without orders to split, frames to merge,       *)
(* descriptors and counters: the pages handed over at boot, or reclaimed   *)
(* after it, are given out in blocks of 2^order pages, a page to one owner *)
(* at a time, and a block comes back whole.  A page the allocator takes    *)
(* for its own descriptors is never given out again.                       *)
(***************************************************************************)
EXTENDS Integers

CONSTANTS Mfns,    \* page numbers
          Orders,  \* the orders a block can have
          Size     \* Size[o] is the number of pages of a block of order o

VARIABLES memory,  \* the pages the allocator was handed
          given,   \* the blocks callers have, <<mfn, order>> each
          own      \* the pages the allocator keeps for itself

vars == <<memory, given, own>>

Block(m, o) == m .. m + Size[o] - 1

\* The pages that have an owner.
Owned == own \cup UNION {Block(b[1], b[2]) : b \in given}

Init == memory = {} /\ given = {} /\ own = {}

\* More memory is handed over.
Extend ==
  /\ memory \subseteq memory' /\ memory' \subseteq Mfns /\ memory' # memory
  /\ UNCHANGED <<given, own>>

Get(m, o) ==
  /\ Block(m, o) \subseteq memory \ Owned
  /\ given' = given \cup {<<m, o>>}
  /\ UNCHANGED <<memory, own>>

Put(b) ==
  /\ given' = given \ {b}
  /\ UNCHANGED <<memory, own>>

Keep(m) ==
  /\ m \in memory \ Owned
  /\ own' = own \cup {m}
  /\ UNCHANGED <<memory, given>>

Next ==
  \/ Extend
  \/ \E m \in Mfns, o \in Orders : Get(m, o)
  \/ \E b \in given : Put(b)
  \/ \E m \in Mfns : Keep(m)

Spec == Init /\ [][Next]_vars
=============================================================================
