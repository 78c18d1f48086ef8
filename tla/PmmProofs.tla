----------------------------- MODULE PmmProofs ------------------------------
(***************************************************************************)
(* The frame allocator of mm/pmm.c neither loses nor doubles a page, for   *)
(* any memory map, any largest order and any size of the frames arrays.    *)
(***************************************************************************)
EXTENDS Pmm, FiniteSetTheorems, WellFoundedInduction, TLAPS

\* The locations at which a frame is not yet, or will never be, on a list.
Adding == AddLocations \cup {"panic_array"}

Types ==
  /\ order \in [Mfns -> Orders \cup {NoFrame}]
  /\ used \in [Mfns -> BOOLEAN]
  /\ arrays \subseteq Arrays
  /\ held \subseteq Mfns \X Orders
  /\ added \subseteq Mfns
  /\ booted \in 0 .. Len(BootFrames)
  /\ want \in Orders
  /\ ret \in {"boot", "idle", "get", "cond"}
  /\ pc \in Adding => newMfn \in Mfns /\ newOrder \in Orders
  /\ pc = "merge" => cur \in Frames

\* The ranges process_memory_range has not come to are not in use.
BootLeft ==
  \A i \in DOMAIN BootFrames : i > booted =>
    Pages(BootFrames[i][1], BootFrames[i][2]) \cap added = {}

IInv == Types /\ BootLeft /\ FramesPartition /\ BusyFramesOwned

-----------------------------------------------------------------------------

\* The sizes of the orders are powers of two.
LEMMA Sizes ==
  /\ \A o \in Orders : Size[o] \in Nat \ {0}
  /\ \A o \in Orders : o + 1 \in Orders => Size[o + 1] = 2 * Size[o]
  /\ Size[0] = 1 /\ 0 \in Orders /\ NoFrame \notin Orders
  BY PmmAssumption DEF Orders, NoFrame

\* The orders next to one.
LEMMA Neighbours ==
  ASSUME NEW o \in Orders
  PROVE  /\ o \in Nat
         /\ o < MAX_PAGE_ORDER => o + 1 \in Orders
         /\ \A w \in Orders : o > w => o - 1 \in Orders /\ (o - 1) + 1 = o
  <1>1. MAX_PAGE_ORDER \in Nat
    BY PmmAssumption
  <1> QED
    BY <1>1 DEF Orders

\* A set of natural numbers that is not empty has a least element.
LEMMA LeastNatural ==
  ASSUME NEW S, S \subseteq Nat, S # {}
  PROVE  \E x \in S : \A y \in S : x <= y
  <1> DEFINE T == {0 .. x : x \in S}
  <1>1. T \subseteq FiniteSubsetsOf(Nat) /\ T # {}
    <2>1. \A x \in S : 0 .. x \in SUBSET Nat /\ IsFiniteSet(0 .. x)
      BY FS_Interval
    <2> QED
      BY <2>1 DEF FiniteSubsetsOf
  <1>2. IsWellFoundedOn(StrictSubsetOrdering(Nat), FiniteSubsetsOf(Nat))
    BY FS_StrictSubsetOrderingWellFounded
  <1>3. PICK s \in T : \A t \in T : ~(<<t, s>> \in StrictSubsetOrdering(Nat))
    BY <1>1, <1>2, WFMin
  <1>4. PICK x \in S : s = 0 .. x
    OBVIOUS
  <1>5. ASSUME NEW y \in S, y < x PROVE FALSE
    <2>1. 0 .. y \in T
      OBVIOUS
    <2>2. 0 .. y \subseteq 0 .. x /\ 0 .. x \subseteq Nat /\ x \in 0 .. x /\ x \notin 0 .. y
      BY <1>5
    <2>3. <<0 .. y, 0 .. x>> \in StrictSubsetOrdering(Nat)
      BY <2>2 DEF StrictSubsetOrdering
    <2> QED
      BY <2>1, <2>3, <1>3, <1>4
  <1> QED
    BY <1>5

\* find_larger_frame finds free frames of an order above the one asked for.
LEMMA LargerFrame ==
  ASSUME Types, NEW m \in LargerFrames
  PROVE  m \in Frames /\ ~used[m] /\ order[m] \in Orders /\ order[m] > want
  <1> DEFINE larger == {o \in Orders : o > want /\ FreeFrames(o) # {}}
  <1>1. larger # {} /\ m \in FreeFrames(Min(larger))
    BY DEF LargerFrames
  <1>2. larger \subseteq Nat
    BY DEF Orders
  <1>3. Min(larger) \in larger
    BY <1>1, <1>2, LeastNatural DEF Min
  <1> QED
    BY <1>1, <1>3, Sizes DEF FreeFrames, Frames, Types

\* The steps that touch neither lists nor arrays, nor the frame being added.
LEMMA NothingMoves ==
  ASSUME IInv, Types', UNCHANGED <<order, used, arrays, held, added, booted>>,
         PendingPages' = PendingPages
  PROVE  IInv'
  <1>1. Frames' = Frames
    BY DEF Frames
  <1>2. FramesPartition'
    BY <1>1 DEF IInv, FramesPartition
  <1>3. BusyFramesOwned' /\ BootLeft'
    BY <1>1 DEF IInv, BusyFramesOwned, BootLeft
  <1> QED
    BY <1>2, <1>3 DEF IInv

\* Before init_pmm there is no frame.
LEMMA InitIInv == Init => IInv
  <1> SUFFICES ASSUME Init PROVE IInv
    OBVIOUS
  <1>1. Frames = {} /\ PendingPages = {}
    BY DEF Init, Frames, PendingPages, AddLocations
  <1>2. Types
    BY Sizes, MemoryAssumption DEF Init, Types, Arrays, Adding, AddLocations
  <1>3. FramesPartition
    BY <1>1 DEF Init, FramesPartition
  <1>4. BootLeft /\ BusyFramesOwned
    BY <1>1 DEF Init, BootLeft, BusyFramesOwned
  <1> QED
    BY <1>2, <1>3, <1>4 DEF IInv

-----------------------------------------------------------------------------

\* A frame on the lists owns its first page.
LEMMA FirstPage ==
  ASSUME Types, NEW m \in Frames
  PROVE  m \in Nat /\ order[m] \in Orders /\ m \in Pages(m, order[m])
  BY Sizes, PmmAssumption DEF Types, Frames, Pages

\* The frame that is being added is on no list yet.
LEMMA NewFrameNowhere ==
  ASSUME IInv, pc \in Adding
  PROVE  newMfn \in Mfns /\ newOrder \in Orders /\ newMfn \notin Frames
  <1>1. newMfn \in Mfns /\ newOrder \in Orders
    BY DEF IInv, Types
  <1>2. newMfn \in PendingPages
    BY <1>1, Sizes, PmmAssumption DEF PendingPages, Pages, Adding
  <1>3. ASSUME newMfn \in Frames PROVE FALSE
    <2>1. newMfn \in Pages(newMfn, order[newMfn])
      BY <1>3, FirstPage DEF IInv
    <2> QED
      BY <1>2, <1>3, <2>1 DEF IInv, FramesPartition
  <1> QED
    BY <1>1, <1>3

\* process_memory_range hands over pages nobody has.
LEMMA BootFrameStep == IInv /\ BootFrame => IInv'
  <1> SUFFICES ASSUME IInv, BootFrame PROVE IInv'
    OBVIOUS
  <1> DEFINE f == BootFrames[booted + 1]
  <1>1. booted + 1 \in DOMAIN BootFrames /\ f[1] \in Mfns /\ f[2] \in Orders
    BY MemoryAssumption DEF IInv, Types, BootFrame
  <1>2. Pages(f[1], f[2]) \subseteq Mfns /\ Pages(f[1], f[2]) \cap added = {}
    BY <1>1, MemoryAssumption DEF IInv, Types, BootLeft
  <1>3. PendingPages = {} /\ PendingPages' = Pages(f[1], f[2]) /\ Frames' = Frames
    BY DEF BootFrame, AddFrame, PendingPages, AddLocations, Frames, frameVars
  <1>4. Types'
    BY <1>1, <1>2, <1>3 DEF IInv, Types, BootFrame, AddFrame, frameVars, arrayVars, Adding, AddLocations
  <1>5. FramesPartition'
    <2>1. added' = added \cup Pages(f[1], f[2]) /\ order' = order
      BY DEF BootFrame, frameVars
    <2> QED
      BY <2>1, <1>2, <1>3 DEF IInv, FramesPartition
  <1>6. BootLeft'
    <2> SUFFICES ASSUME NEW i \in DOMAIN BootFrames, i > booted'
                 PROVE  Pages(BootFrames[i][1], BootFrames[i][2]) \cap added' = {}
      BY DEF BootLeft
    <2>1. i # booted + 1 /\ i > booted
      BY MemoryAssumption DEF BootFrame, IInv, Types
    <2>2. Pages(BootFrames[i][1], BootFrames[i][2]) \cap Pages(f[1], f[2]) = {}
      BY <1>1, <2>1, MemoryAssumption
    <2>3. Pages(BootFrames[i][1], BootFrames[i][2]) \cap added = {}
      BY <2>1 DEF IInv, BootLeft
    <2>4. added' = added \cup Pages(f[1], f[2])
      BY DEF BootFrame
    <2> QED
      BY <2>2, <2>3, <2>4
  <1>7. BusyFramesOwned'
    BY <1>3 DEF IInv, BusyFramesOwned, BootFrame, frameVars, arrayVars
  <1> QED
    BY <1>4, <1>5, <1>6, <1>7 DEF IInv

\* reclaim_frame hands over a page of the init sections, once.
LEMMA ReclaimFrameStep == \A m \in ReclaimMfns : IInv /\ ReclaimFrame(m) => IInv'
  <1> SUFFICES ASSUME NEW m \in ReclaimMfns, IInv, ReclaimFrame(m) PROVE IInv'
    OBVIOUS
  <1>1. m \in Mfns /\ m \in Nat /\ m \notin added
    BY MemoryAssumption, PmmAssumption DEF ReclaimFrame
  <1>2. Pages(m, 0) = {m}
    BY <1>1, Sizes DEF Pages
  <1>3. PendingPages = {} /\ PendingPages' = {m} /\ Frames' = Frames
    BY <1>2 DEF ReclaimFrame, AddFrame, PendingPages, AddLocations, Frames, frameVars, PAGE_ORDER_4K
  <1>4. Types'
    BY <1>1, <1>3, Sizes
    DEF IInv, Types, ReclaimFrame, AddFrame, frameVars, arrayVars, Adding, AddLocations, PAGE_ORDER_4K
  <1>5. FramesPartition'
    <2>1. added' = added \cup {m} /\ order' = order
      BY DEF ReclaimFrame, frameVars
    <2> QED
      BY <2>1, <1>1, <1>3 DEF IInv, FramesPartition
  <1>6. BootLeft'
    BY <1>1, MemoryAssumption DEF IInv, Types, BootLeft, ReclaimFrame
  <1>7. BusyFramesOwned'
    BY <1>3 DEF IInv, BusyFramesOwned, ReclaimFrame, frameVars, arrayVars
  <1> QED
    BY <1>4, <1>5, <1>6, <1>7 DEF IInv

\* A descriptor is taken for the frame being added.
LEMMA TakeFrameStep == \A a \in arrays : IInv /\ TakeFrame(a) => IInv'
  <1> SUFFICES ASSUME NEW a \in arrays, IInv, TakeFrame(a) PROVE IInv'
    OBVIOUS
  <1>1. Types'
    BY DEF IInv, Types, TakeFrame, frameVars, opVars, historyVars, Adding, AddLocations, Frames
  <1>2. PendingPages' = PendingPages
    BY DEF PendingPages, TakeFrame, AddLocations
  <1> QED
    BY <1>1, <1>2, NothingMoves DEF TakeFrame, frameVars, opVars, historyVars

\* A free 4K frame becomes a frames array and is its own owner.
LEMMA NewFramesArrayStep == \A m \in Mfns : IInv /\ NewFramesArray(m) => IInv'
  <1> SUFFICES ASSUME NEW m \in Mfns, IInv, NewFramesArray(m) PROVE IInv'
    OBVIOUS
  <1> USE DEF NewFramesArray, opVars, newVars, historyVars
  <1>1. PendingPages' = PendingPages /\ Frames' = Frames
    BY DEF PendingPages, AddLocations, Frames
  <1>2. order[m] = 0 /\ ~used[m] /\ m \in Frames
    BY Sizes DEF FreeFrames, Frames, PAGE_ORDER_4K
  <1>3. Types'
    BY <1>1 DEF IInv, Types, Adding, AddLocations, Arrays
  <1>4. FramesPartition'
    BY <1>1 DEF IInv, FramesPartition
  <1>5. BusyFramesOwned'
    <2>1. \A f \in held : f[1] # m /\ f[1] \in Mfns
      BY <1>2 DEF IInv, Types, BusyFramesOwned
    <2>2. used' = [used EXCEPT ![m] = TRUE] /\ arrays' = arrays \cup {m} /\ order' = order /\ held' = held
      OBVIOUS
    <2>3. \A x \in Mfns : used'[x] = (x = m \/ used[x])
      BY <2>2 DEF IInv, Types
    <2>4. \A x \in arrays \ {EarlyArray} : x \in Mfns
      BY DEF IInv, Types, Arrays
    <2> QED
      BY <1>1, <1>2, <2>1, <2>2, <2>3, <2>4 DEF IInv, BusyFramesOwned, PAGE_ORDER_4K, Frames
  <1>6. BootLeft'
    BY DEF IInv, BootLeft
  <1> QED
    BY <1>3, <1>4, <1>5, <1>6 DEF IInv

\* The frame being added comes to the free list with all its pages.
LEMMA LinkFrameStep == IInv /\ LinkFrame => IInv'
  <1> SUFFICES ASSUME IInv, LinkFrame PROVE IInv'
    OBVIOUS
  <1>1. newMfn \in Mfns /\ newOrder \in Orders /\ newMfn \notin Frames
    BY NewFrameNowhere DEF LinkFrame, Adding, AddLocations
  <1>2. PendingPages = Pages(newMfn, newOrder) /\ PendingPages' = {}
    BY DEF LinkFrame, PendingPages, AddLocations, IInv, Types
  <1>3. order' = [order EXCEPT ![newMfn] = newOrder] /\ used' = [used EXCEPT ![newMfn] = FALSE]
        /\ order \in [Mfns -> Orders \cup {NoFrame}] /\ used \in [Mfns -> BOOLEAN]
        /\ UNCHANGED <<arrays, added, held, booted>>
    BY DEF LinkFrame, IInv, Types, arrayVars, historyVars
  <1>4. Frames' = Frames \cup {newMfn}
    BY <1>1, <1>3, Sizes DEF Frames
  <1>5. Types'
    BY <1>1, <1>3, <1>4 DEF IInv, Types, LinkFrame, arrayVars, historyVars, Adding, AddLocations
  <1>6. \A m \in Frames : m # newMfn /\ m \in Mfns /\ order'[m] = order[m] /\ used'[m] = used[m]
    BY <1>1, <1>3 DEF Frames
  <1>7. order'[newMfn] = newOrder /\ used'[newMfn] = FALSE
    BY <1>1, <1>3
  <1>8. FramesPartition'
    <2>1. \A m, n \in Frames' : m # n => Pages(m, order'[m]) \cap Pages(n, order'[n]) = {}
      BY <1>2, <1>4, <1>6, <1>7 DEF IInv, FramesPartition
    <2>2. added' = UNION {Pages(m, order'[m]) : m \in Frames'}
      BY <1>2, <1>3, <1>4, <1>6, <1>7 DEF IInv, FramesPartition
    <2> QED
      BY <2>1, <2>2, <1>2 DEF FramesPartition
  <1>9. BusyFramesOwned'
    <2>1. \A f \in held : f[1] \in Frames /\ f[2] \in Orders
      BY Sizes DEF IInv, Types, BusyFramesOwned, Frames
    <2>2. \A m \in arrays \ {EarlyArray} : m \in Frames
      BY Sizes DEF IInv, Types, BusyFramesOwned, Frames, Arrays, PAGE_ORDER_4K
    <2> QED
      BY <1>3, <1>4, <1>6, <1>7, <2>1, <2>2 DEF IInv, BusyFramesOwned
  <1>10. BootLeft'
    BY <1>3 DEF IInv, BootLeft
  <1> QED
    BY <1>5, <1>8, <1>9, <1>10 DEF IInv

-----------------------------------------------------------------------------

\* A frame is made of two halves of the order below.
LEMMA Halves ==
  ASSUME NEW m \in Nat, NEW o \in Orders, o + 1 \in Orders
  PROVE  /\ Pages(m, o + 1) = Pages(m, o) \cup Pages(m + Size[o], o)
         /\ Pages(m, o) \cap Pages(m + Size[o], o) = {}
         /\ m + Size[o] \in Pages(m, o + 1) /\ m + Size[o] # m
  <1>1. Size[o] \in Nat \ {0} /\ Size[o + 1] = 2 * Size[o]
    BY Sizes
  <1> QED
    BY <1>1 DEF Pages

\* split_frame keeps the first half and hands the second to add_frame.
LEMMA SplitFrameStep == \A m \in Mfns : IInv /\ SplitFrame(m) => IInv'
  <1> SUFFICES ASSUME NEW m \in Mfns, IInv, SplitFrame(m) PROVE IInv'
    OBVIOUS
  <1> DEFINE o == order[m] - 1
             half == m + Size[o]
  <1>1. /\ m \in Frames /\ ~used[m] /\ m \in Nat
        /\ o \in Orders /\ o + 1 \in Orders /\ o + 1 = order[m]
    <2>1. m \in Frames /\ ~used[m] /\ order[m] \in Orders /\ order[m] > want
      BY LargerFrame DEF SplitFrame, IInv
    <2>2. want \in Orders
      BY DEF IInv, Types
    <2>3. m \in Nat
      BY PmmAssumption
    <2> QED
      BY <2>1, <2>2, <2>3, Neighbours
  <1>2. /\ order' = [order EXCEPT ![m] = o] /\ order \in [Mfns -> Orders \cup {NoFrame}]
        /\ newMfn' = half /\ newOrder' = o /\ pc' = "entry" /\ ret' \in {"get", "cond"}
        /\ UNCHANGED <<used, arrays, added, held, booted, want>>
    BY DEF SplitFrame, AddFrame, IInv, Types, arrayVars, historyVars
  <1>3. /\ Pages(m, order[m]) = Pages(m, o) \cup Pages(half, o)
        /\ Pages(m, o) \cap Pages(half, o) = {}
        /\ half \in Pages(m, order[m])
    BY <1>1, Halves
  <1>4. PendingPages = {} /\ PendingPages' = Pages(half, o)
    BY <1>2 DEF PendingPages, AddLocations, SplitFrame
  <1>5. /\ Frames' = Frames /\ order'[m] = o
        /\ \A n \in Frames : n \in Mfns /\ (n # m => order'[n] = order[n])
    BY <1>1, <1>2, Sizes DEF Frames
  <1>6. half \in Mfns
    <2>1. half \in added
      BY <1>1, <1>3 DEF IInv, FramesPartition
    <2> QED
      BY <2>1 DEF IInv, Types
  <1>7. Types'
    BY <1>1, <1>2, <1>5, <1>6 DEF IInv, Types, Adding, AddLocations
  <1>8. FramesPartition'
    <2>1. \A x, y \in Frames' : x # y => Pages(x, order'[x]) \cap Pages(y, order'[y]) = {}
      BY <1>1, <1>3, <1>5 DEF IInv, FramesPartition
    <2>2. \A x \in Frames' : Pages(x, order'[x]) \cap PendingPages' = {}
      BY <1>1, <1>3, <1>4, <1>5 DEF IInv, FramesPartition
    <2>3. added' = PendingPages' \cup UNION {Pages(x, order'[x]) : x \in Frames'}
      BY <1>1, <1>2, <1>3, <1>4, <1>5 DEF IInv, FramesPartition
    <2> QED
      BY <2>1, <2>2, <2>3 DEF FramesPartition
  <1>9. BusyFramesOwned'
    <2>1. \A f \in held : f[1] # m /\ f[1] \in Mfns /\ order'[f[1]] = order[f[1]]
      BY <1>1, <1>2 DEF IInv, Types, BusyFramesOwned
    <2>2. \A x \in arrays \ {EarlyArray} : x # m /\ x \in Mfns /\ order'[x] = order[x]
      BY <1>1, <1>2 DEF IInv, Types, Arrays, BusyFramesOwned
    <2> QED
      BY <1>1, <1>2, <1>5, <2>1, <2>2 DEF IInv, BusyFramesOwned
  <1>10. BootLeft'
    BY <1>2 DEF IInv, BootLeft
  <1> QED
    BY <1>7, <1>8, <1>9, <1>10 DEF IInv

\* merge_frames makes one frame of the pages of two that nobody has.
LEMMA MergeFramesStep == IInv /\ MergeFrames => IInv'
  <1> SUFFICES ASSUME IInv, MergeFrames PROVE IInv'
    OBVIOUS
  <1> DEFINE o == order[cur]
             first == First(cur)
             second == Second(cur)
  <1>1. /\ cur \in Nat /\ o \in Orders /\ o + 1 \in Orders
        /\ first \in Frames /\ order[first] = o /\ ~used[first] /\ first \in Nat /\ first \in Mfns
        /\ second \in Frames /\ order[second] = o /\ ~used[second] /\ second \in Mfns
    <2>1. cur \in Frames /\ CanMerge(cur) /\ o < MAX_PAGE_ORDER
      BY DEF MergeFrames, IInv, Types
    <2>2. cur \in Nat /\ o \in Orders
      BY <2>1, FirstPage DEF IInv
    <2>3. o + 1 \in Orders
      BY <2>1, <2>2, Neighbours
    <2>4. first \in FreeFrames(o) /\ second \in FreeFrames(o)
      BY <2>1 DEF CanMerge
    <2> QED
      BY <2>2, <2>3, <2>4, Sizes, PmmAssumption DEF FreeFrames, Frames
  <1>2. second = first + Size[o]
    BY <1>1, Sizes DEF First, Second
  <1>3. /\ order' = [order EXCEPT ![first] = o + 1, ![second] = NoFrame]
        /\ order \in [Mfns -> Orders \cup {NoFrame}]
        /\ cur' = first /\ pc' \in {"merge", "assert_array"}
        /\ UNCHANGED <<used, arrays, added, held, booted, want, ret>>
    BY DEF MergeFrames, PutFramesArrayEntry, IInv, Types, historyVars
  <1>4. Pages(first, o + 1) = Pages(first, o) \cup Pages(second, o) /\ second # first
    BY <1>1, <1>2, Halves
  <1>5. PendingPages = {} /\ PendingPages' = {}
    BY <1>3 DEF PendingPages, AddLocations, MergeFrames
  <1>6. /\ Frames' = Frames \ {second} /\ order'[first] = o + 1
        /\ \A n \in Frames : n \in Mfns /\ (n \notin {first, second} => order'[n] = order[n])
    BY <1>1, <1>3, <1>4, Sizes DEF Frames
  <1>7. Types'
    BY <1>1, <1>3, <1>4, <1>6 DEF IInv, Types, Adding, AddLocations
  <1>8. FramesPartition'
    <2>1. \A x, y \in Frames' : x # y => Pages(x, order'[x]) \cap Pages(y, order'[y]) = {}
      BY <1>1, <1>4, <1>6 DEF IInv, FramesPartition
    <2>2. added' = UNION {Pages(x, order'[x]) : x \in Frames'}
      BY <1>1, <1>3, <1>4, <1>5, <1>6 DEF IInv, FramesPartition
    <2> QED
      BY <2>1, <2>2, <1>5 DEF FramesPartition
  <1>9. BusyFramesOwned'
    <2>1. \A f \in held : f[1] \notin {first, second} /\ f[1] \in Mfns /\ order'[f[1]] = order[f[1]]
      BY <1>1, <1>3 DEF IInv, Types, BusyFramesOwned
    <2>2. \A x \in arrays \ {EarlyArray} : x \notin {first, second} /\ x \in Mfns /\ order'[x] = order[x]
      BY <1>1, <1>3 DEF IInv, Types, Arrays, BusyFramesOwned
    <2> QED
      BY <1>1, <1>3, <1>6, <2>1, <2>2 DEF IInv, BusyFramesOwned
  <1>10. BootLeft'
    BY <1>3 DEF IInv, BootLeft
  <1> QED
    BY <1>7, <1>8, <1>9, <1>10 DEF IInv

\* reserve_frame gives a free frame to the caller.
LEMMA ReserveFrameStep == \A m \in Mfns : IInv /\ ReserveFrame(m) => IInv'
  <1> SUFFICES ASSUME NEW m \in Mfns, IInv, ReserveFrame(m) PROVE IInv'
    OBVIOUS
  <1>1. /\ used' = [used EXCEPT ![m] = TRUE] /\ used \in [Mfns -> BOOLEAN]
        /\ m \in Frames /\ ~used[m] /\ order[m] \in Orders
        /\ held' = held \cup {<<m, order[m]>>} /\ pc' = "idle" /\ want' = 0
        /\ UNCHANGED <<order, arrays, added, booted, ret>>
    BY DEF ReserveFrame, Return, Frames, IInv, Types, arrayVars
  <1>2. Frames' = Frames /\ PendingPages = {} /\ PendingPages' = {}
    BY <1>1 DEF Frames, PendingPages, AddLocations, ReserveFrame
  <1>3. Types'
    BY <1>1, Sizes DEF IInv, Types, Adding, AddLocations
  <1>4. FramesPartition'
    BY <1>1, <1>2 DEF IInv, FramesPartition
  <1>5. BusyFramesOwned'
    <2>1. \A x \in Mfns : used'[x] = (x = m \/ used[x])
      BY <1>1
    <2>2. m \notin arrays
      BY <1>1, PmmAssumption DEF IInv, Types, BusyFramesOwned
    <2>3. \A f \in held' : order'[f[1]] = f[2] /\ used'[f[1]] /\ f[1] \notin arrays'
      BY <1>1, <2>1, <2>2 DEF IInv, Types, BusyFramesOwned
    <2>4. \A x \in arrays' \ {EarlyArray} : order'[x] = PAGE_ORDER_4K /\ used'[x]
      BY <1>1, <2>1 DEF IInv, Types, Arrays, BusyFramesOwned
    <2>5. \A x \in Frames' : used'[x] => x \in arrays' \/ <<x, order'[x]>> \in held'
      BY <1>1, <1>2, <2>1 DEF IInv, BusyFramesOwned, Frames
    <2> QED
      BY <2>3, <2>4, <2>5 DEF BusyFramesOwned
  <1>6. BootLeft'
    BY <1>1 DEF IInv, BootLeft
  <1> QED
    BY <1>3, <1>4, <1>5, <1>6 DEF IInv

\* return_frame takes a frame from the caller who had it, and from nobody else.
LEMMA PutFreeFramesStep == \A f \in held : IInv /\ PutFreeFrames(f) => IInv'
  <1> SUFFICES ASSUME NEW f \in held, IInv, PutFreeFrames(f) PROVE IInv'
    OBVIOUS
  <1>1. /\ used' = [used EXCEPT ![f[1]] = FALSE] /\ used \in [Mfns -> BOOLEAN]
        /\ held' = held \ {f} /\ pc' = "merge" /\ cur' = f[1]
        /\ UNCHANGED <<order, arrays, added, booted, ret, want>>
    BY DEF PutFreeFrames, IInv, Types, arrayVars
  <1>2. f[1] \in Mfns /\ f[1] \in Frames /\ f = <<f[1], order[f[1]]>> /\ f[1] \notin arrays
    BY Sizes DEF IInv, Types, BusyFramesOwned, Frames
  <1>3. Frames' = Frames /\ PendingPages = {} /\ PendingPages' = {}
    BY <1>1 DEF Frames, PendingPages, AddLocations, PutFreeFrames
  <1>4. Types'
    BY <1>1, <1>2, <1>3 DEF IInv, Types, Adding, AddLocations
  <1>5. FramesPartition'
    BY <1>1, <1>3 DEF IInv, FramesPartition
  <1>6. BusyFramesOwned'
    <2>1. \A x \in Mfns : used'[x] = (x # f[1] /\ used[x])
      BY <1>1, <1>2
    <2>2. ASSUME NEW g \in held' PROVE order'[g[1]] = g[2] /\ used'[g[1]] /\ g[1] \notin arrays'
      <3>1. g \in held /\ g # f /\ g[1] \in Mfns /\ g = <<g[1], order[g[1]]>>
        BY <1>1, <2>2 DEF IInv, Types, BusyFramesOwned
      <3>2. g[1] # f[1]
        BY <3>1, <1>2
      <3> QED
        BY <3>1, <3>2, <2>1, <1>1 DEF IInv, BusyFramesOwned
    <2>3. \A x \in arrays' \ {EarlyArray} : order'[x] = PAGE_ORDER_4K /\ used'[x]
      BY <1>1, <1>2, <2>1 DEF IInv, Types, Arrays, BusyFramesOwned
    <2>4. \A x \in Frames' : used'[x] => x \in arrays' \/ <<x, order'[x]>> \in held'
      BY <1>1, <1>2, <1>3, <2>1 DEF IInv, BusyFramesOwned, Frames
    <2> QED
      BY <2>2, <2>3, <2>4 DEF BusyFramesOwned
  <1>7. BootLeft'
    BY <1>1 DEF IInv, BootLeft
  <1> QED
    BY <1>4, <1>5, <1>6, <1>7 DEF IInv

-----------------------------------------------------------------------------

\* The steps after which the lists are as before.
LEMMA OtherSteps ==
  ASSUME IInv,
         \/ BootDone \/ NewFramesArrayPanics \/ GetFreeFramesCond \/ OutOfFrames
         \/ CondFindsNone \/ MergeAboveMaxOrder \/ MergeDone \/ UNCHANGED vars
         \/ \E o \in Orders : GetFreeFrames(o)
  PROVE  IInv'
  <1> USE DEF frameVars, arrayVars, opVars, newVars, historyVars, Return
  <1>1. UNCHANGED <<order, used, arrays, held, added, booted>>
    BY DEF BootDone, NewFramesArrayPanics, GetFreeFramesCond, OutOfFrames, CondFindsNone,
           MergeAboveMaxOrder, MergeDone, GetFreeFrames, vars
  <1>2. PendingPages' = PendingPages
    BY DEF BootDone, NewFramesArrayPanics, GetFreeFramesCond, OutOfFrames, CondFindsNone,
           MergeAboveMaxOrder, MergeDone, GetFreeFrames, vars, PendingPages, AddLocations
  <1>3. want' \in Orders
    BY Sizes DEF IInv, Types, BootDone, NewFramesArrayPanics, GetFreeFramesCond, OutOfFrames,
           CondFindsNone, MergeAboveMaxOrder, MergeDone, GetFreeFrames, vars, PAGE_ORDER_4K
  <1>4. /\ ret' = ret /\ newMfn' = newMfn /\ newOrder' = newOrder
        /\ pc' \in Adding => pc \in Adding
        /\ pc' = "merge" => pc = "merge" /\ cur' = cur
    BY DEF BootDone, NewFramesArrayPanics, GetFreeFramesCond, OutOfFrames, CondFindsNone,
           MergeAboveMaxOrder, MergeDone, GetFreeFrames, vars, Adding, AddLocations
  <1>5. Types'
    BY <1>1, <1>3, <1>4 DEF IInv, Types, Frames
  <1> QED
    BY <1>1, <1>2, <1>5, NothingMoves

\* Every step keeps the invariant.
LEMMA NextIInv == IInv /\ [Next]_vars => IInv'
  <1> SUFFICES ASSUME IInv, [Next]_vars PROVE IInv'
    OBVIOUS
  <1>1. CASE \E m \in ReclaimMfns : ReclaimFrame(m)
    BY <1>1, ReclaimFrameStep
  <1>2. CASE \E f \in held : PutFreeFrames(f)
    BY <1>2, PutFreeFramesStep
  <1>3. CASE BootFrame
    BY <1>3, BootFrameStep
  <1>4. CASE \E a \in arrays : TakeFrame(a)
    BY <1>4, TakeFrameStep
  <1>5. CASE \E m \in Mfns : NewFramesArray(m)
    BY <1>5, NewFramesArrayStep
  <1>6. CASE LinkFrame
    BY <1>6, LinkFrameStep
  <1>7. CASE \E m \in Mfns : SplitFrame(m)
    BY <1>7, SplitFrameStep
  <1>8. CASE \E m \in Mfns : ReserveFrame(m)
    BY <1>8, ReserveFrameStep
  <1>9. CASE MergeFrames
    BY <1>9, MergeFramesStep
  <1> QED
    BY <1>1, <1>2, <1>3, <1>4, <1>5, <1>6, <1>7, <1>8, <1>9, OtherSteps DEF Next, Call, Step

\* The inductive invariant: types, the untouched ranges of the boot, the
\* partition of the memory and the owners of the busy frames.
THEOREM PmmInvariant == Spec => []IInv
  BY InitIInv, NextIInv, PTL DEF Spec

\* mm/pmm.c neither loses a page of the memory it was handed nor puts it into two
\* frames, through all splits and merges.
THEOREM MemoryIsPartitioned == Spec => []FramesPartition
  <1>1. IInv => FramesPartition
    BY DEF IInv
  <1> QED
    BY <1>1, PmmInvariant, PTL

\* A frame that get_free_frames handed out is not touched until put_free_frames,
\* and every busy frame has one owner: a caller or the allocator itself.
THEOREM BusyFramesHaveOwners == Spec => []BusyFramesOwned
  <1>1. IInv => BusyFramesOwned
    BY DEF IInv
  <1> QED
    BY <1>1, PmmInvariant, PTL

\* get_free_frames of a 4K frame never takes the last one: new_frames_array, which
\* add_frame calls and which panics without one, finds it.
THEOREM A4kFrameIsLeft == Spec => LeavesA4kFrame
  <1> DEFINE A == pc = "get" /\ want = PAGE_ORDER_4K /\ pc' = "idle"
                    => FreeFrames(PAGE_ORDER_4K)' # {}
  <1>1. ASSUME IInv, [Next]_vars PROVE [A]_vars
    <2> SUFFICES ASSUME Next, pc = "get", want = PAGE_ORDER_4K, pc' = "idle"
                 PROVE  FreeFrames(PAGE_ORDER_4K)' # {}
      BY <1>1
    <2>1. PICK m \in Mfns : ReserveFrame(m)
      BY DEF Next, Call, Step, ReclaimFrame, GetFreeFrames, GetFreeFramesCond, PutFreeFrames,
             BootFrame, BootDone, TakeFrame, NewFramesArray, NewFramesArrayPanics, LinkFrame,
             SplitFrame, AddFrame, OutOfFrames, CondFindsNone, MergeFrames, MergeAboveMaxOrder,
             MergeDone
    <2>2. m \in FreeFrames(PAGE_ORDER_4K) /\ Enough4kFrames
      BY <2>1 DEF ReserveFrame, MustSplit, FreeFrames
    <2>3. PICK n \in FreeFrames(PAGE_ORDER_4K) : n # m
      <3>1. FreeFrames(PAGE_ORDER_4K) # {m}
        <4>1. Cardinality({m}) = 1
          BY FS_Singleton
        <4>2. Cardinality(FreeFrames(PAGE_ORDER_4K)) >= 2
          BY <2>2 DEF Enough4kFrames, MIN_NUM_4K_FRAMES
        <4> QED
          BY <4>1, <4>2
      <3> QED
        BY <2>2, <3>1
    <2>4. n \in FreeFrames(PAGE_ORDER_4K)'
      BY <1>1, <2>1, <2>3 DEF ReserveFrame, FreeFrames, IInv, Types
    <2> QED
      BY <2>4
  <1> QED
    BY <1>1, PmmInvariant, PTL DEF LeavesA4kFrame, Spec
=============================================================================
