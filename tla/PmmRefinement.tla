--------------------------- MODULE PmmRefinement ----------------------------
(***************************************************************************)
(* The buddy allocator of mm/pmm.c implements the allocator of module      *)
(* FrameAllocator, for any memory map, any largest order and any size of   *)
(* the frames arrays.                                                      *)
(***************************************************************************)
EXTENDS PmmProofs

\* What the free lists hold has no owner: the pages of a free frame are memory
\* that neither a caller nor the allocator itself has.
LEMMA FreeFrameUnowned ==
  ASSUME IInv, NEW m \in Frames, ~used[m]
  PROVE  Promise!Block(m, order[m]) \subseteq added \ Promise!Owned
  <1>1. Pages(m, order[m]) \subseteq added
    BY DEF IInv, FramesPartition
  <1>2. ASSUME NEW n \in Frames, used[n]
        PROVE  Pages(m, order[m]) \cap Pages(n, order[n]) = {}
    BY <1>2 DEF IInv, FramesPartition
  <1>3. ASSUME NEW a \in arrays \ {EarlyArray}
        PROVE  a \notin Pages(m, order[m])
    <2>1. a \in Frames /\ used[a]
      BY Sizes DEF IInv, Types, Arrays, BusyFramesOwned, Frames, PAGE_ORDER_4K
    <2>2. a \in Pages(a, order[a])
      BY <2>1, FirstPage DEF IInv
    <2> QED
      BY <2>1, <2>2, <1>2
  <1>4. ASSUME NEW b \in held
        PROVE  Pages(m, order[m]) \cap Pages(b[1], b[2]) = {}
    <2>1. b[1] \in Frames /\ used[b[1]] /\ b[2] = order[b[1]]
      BY Sizes DEF IInv, Types, BusyFramesOwned, Frames
    <2> QED
      BY <2>1, <1>2
  <1> QED
    BY <1>1, <1>3, <1>4 DEF Promise!Block, Promise!Owned, Pages

\* The boot and reclaim_frame hand memory over.
LEMMA MemoryExtended ==
  ASSUME IInv, IInv',
         BootFrame \/ \E m \in ReclaimMfns : ReclaimFrame(m)
  PROVE  Promise!Extend \/ UNCHANGED Promise!vars
  <1>1. added \subseteq added' /\ UNCHANGED <<held, arrays>>
    BY DEF BootFrame, ReclaimFrame, arrayVars
  <1>2. added' \subseteq Mfns
    BY DEF IInv, Types
  <1> QED
    BY <1>1, <1>2 DEF Promise!Extend, Promise!vars

\* reserve_frame gives a caller a block that had no owner.
LEMMA BlockGiven ==
  ASSUME IInv, NEW m \in Mfns, ReserveFrame(m)
  PROVE  \E o \in Orders : Promise!Get(m, o)
  <1>1. m \in Frames /\ ~used[m] /\ order[m] \in Orders
    BY DEF ReserveFrame, Frames, IInv, Types
  <1>2. held' = held \cup {<<m, order[m]>>} /\ UNCHANGED <<added, arrays>>
    BY DEF ReserveFrame, arrayVars
  <1>3. Promise!Get(m, order[m])
    BY <1>1, <1>2, FreeFrameUnowned DEF Promise!Get
  <1> QED
    BY <1>1, <1>3

\* return_frame takes a block back.
LEMMA BlockPutBack ==
  ASSUME NEW f \in held, PutFreeFrames(f)
  PROVE  Promise!Put(f)
  BY DEF PutFreeFrames, arrayVars, Promise!Put

\* new_frames_array keeps a page that had no owner.
LEMMA PageKept ==
  ASSUME IInv, NEW m \in Mfns, NewFramesArray(m)
  PROVE  Promise!Keep(m)
  <1>1. m \in Frames /\ ~used[m] /\ m # EarlyArray
    BY Sizes, PmmAssumption DEF NewFramesArray, FreeFrames, Frames, PAGE_ORDER_4K
  <1>2. arrays' = arrays \cup {m} /\ UNCHANGED <<added, held>>
    BY DEF NewFramesArray, historyVars
  <1>3. m \in Promise!Block(m, order[m])
    BY <1>1, FirstPage DEF IInv, Promise!Block, Pages
  <1>4. m \in added \ Promise!Owned
    BY <1>1, <1>3, FreeFrameUnowned
  <1> QED
    BY <1>1, <1>2, <1>4 DEF Promise!Keep

\* Splitting, merging, descriptors and counters are the allocator's own business.
LEMMA NobodyNotices ==
  ASSUME \/ BootDone \/ NewFramesArrayPanics \/ LinkFrame \/ OutOfFrames \/ CondFindsNone
         \/ MergeFrames \/ MergeAboveMaxOrder \/ MergeDone \/ GetFreeFramesCond
         \/ UNCHANGED vars
         \/ \E a \in arrays : TakeFrame(a)
         \/ \E m \in Mfns : SplitFrame(m)
         \/ \E o \in Orders : GetFreeFrames(o)
  PROVE  UNCHANGED Promise!vars
  <1>1. UNCHANGED <<added, held, arrays>>
    BY DEF BootDone, NewFramesArrayPanics, LinkFrame, OutOfFrames, CondFindsNone, MergeFrames,
           MergeAboveMaxOrder, MergeDone, GetFreeFramesCond, TakeFrame, SplitFrame,
           GetFreeFrames, vars, arrayVars, historyVars
  <1> QED
    BY <1>1 DEF Promise!vars

\* Every step of mm/pmm.c is a step of the abstract allocator, or none.
LEMMA StepRefines ==
  ASSUME IInv, IInv', [Next]_vars
  PROVE  [Promise!Next]_(Promise!vars)
  <1>1. CASE BootFrame \/ \E m \in ReclaimMfns : ReclaimFrame(m)
    BY <1>1, MemoryExtended DEF Promise!Next
  <1>2. CASE \E m \in Mfns : ReserveFrame(m)
    BY <1>2, BlockGiven DEF Promise!Next
  <1>3. CASE \E f \in held : PutFreeFrames(f)
    BY <1>3, BlockPutBack DEF Promise!Next
  <1>4. CASE \E m \in Mfns : NewFramesArray(m)
    BY <1>4, PageKept DEF Promise!Next
  <1> QED
    BY <1>1, <1>2, <1>3, <1>4, NobodyNotices DEF Next, Call, Step

\* mm/pmm.c, with its orders, lists, frames arrays and counters, implements module
\* FrameAllocator: a page has one owner at a time.
THEOREM PmmImplementsAllocator == Spec => PagesGivenOnce
  <1>1. Init => Promise!Init
    BY DEF Init, Promise!Init
  <1> QED
    BY <1>1, StepRefines, PmmInvariant, PTL DEF Spec, PagesGivenOnce, Promise!Spec
=============================================================================
