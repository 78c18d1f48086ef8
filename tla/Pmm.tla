-------------------------------- MODULE Pmm --------------------------------
(***************************************************************************)
(* The physical memory manager of mm/pmm.c: a buddy allocator of frames of *)
(* 2^order pages, with the arrays that hold the frame descriptors.         *)
(*                                                                         *)
(* A frame is known by its first page (mfn).  The lists free_frames[order] *)
(* and busy_frames[order] are the frames of that order that are free or    *)
(* used; where the code takes the first entry of a list, the model takes   *)
(* any entry.  A frame is only ever reserved when it is free, so refcount  *)
(* is 0 or 1 and `used' stands for it.  Each frame has its descriptor in   *)
(* an array: the static early_frames, or an array in a page the allocator  *)
(* reserved for itself.                                                    *)
(*                                                                         *)
(* All operations but reclaim_frame hold the lock from beginning to end,   *)
(* so one is in progress at a time; pc says where it is.  An operation     *)
(* that splits or merges takes one step per frame split or merged.         *)
(***************************************************************************)
EXTENDS Integers, Sequences, FiniteSets, FiniteSetsExt

CONSTANTS Mfns,          \* page numbers
          MAX_PAGE_ORDER,
          Size,          \* Size[o] is 2^o, the number of pages of order o
          BootFrames,    \* what process_memory_range adds, <<mfn, order>> each
          ReclaimMfns,   \* pages of the init sections, reclaimed after boot
          EarlyArray,    \* the static array early_frames
          ARRAY_SIZE,    \* descriptors per array (127 in the build)
          MIN_FREE_FRAMES_THRESHOLD,
          WORD,          \* total_free_frames is unsigned: modulo WORD (2^64)
          MaxHeld        \* bound on the frames callers hold at a time

PAGE_ORDER_4K == 0
\* Mutant: one frame is thought to be enough.
OneFrameIsEnough == 1

MIN_NUM_4K_FRAMES == 2
MAX_FREE_FRAMES_THRESHOLD == 2 * ARRAY_SIZE

Orders == 0 .. MAX_PAGE_ORDER
NoFrame == -1            \* PAGE_ORDER_INVALID: no frame starts at this page
Arrays == Mfns \cup {EarlyArray}

ASSUME PmmAssumption ==
  /\ Mfns \subseteq Nat /\ IsFiniteSet(Mfns)
  /\ MAX_PAGE_ORDER \in Nat
  /\ Size \in [0 .. MAX_PAGE_ORDER + 1 -> Nat \ {0}]
  /\ Size[0] = 1
  /\ \A o \in Orders : Size[o + 1] = 2 * Size[o]
  /\ EarlyArray \notin Mfns
  /\ ARRAY_SIZE \in Nat \ {0}
  /\ MIN_FREE_FRAMES_THRESHOLD \in Nat
  /\ WORD \in Nat \ {0}
  /\ MaxHeld \in Nat

Pages(m, o) == m .. m + Size[o] - 1

\* The page ranges of boot and of the init sections do not overlap.
ASSUME MemoryAssumption ==
  /\ BootFrames \in Seq(Mfns \X Orders)
  /\ \A i \in DOMAIN BootFrames :
       Pages(BootFrames[i][1], BootFrames[i][2]) \subseteq Mfns \ ReclaimMfns
  /\ \A i, j \in DOMAIN BootFrames : i # j =>
       Pages(BootFrames[i][1], BootFrames[i][2])
         \cap Pages(BootFrames[j][1], BootFrames[j][2]) = {}
  /\ ReclaimMfns \subseteq Mfns

VARIABLES
  order,        \* frame->order of the frame that starts at a page, or NoFrame
  used,         \* frame->refcount > 0
  array,        \* the frames array that holds the frame's descriptor
  arrays,       \* the list `frames' of frames arrays
  freeCount,    \* array->meta.free_count
  framesCount,  \* frames_count
  total,        \* total_free_frames
  pc,           \* where the operation in progress is
  ret,          \* where it goes on after add_frame
  want,         \* the order get_free_frames was called for
  cur,          \* the frame merge_frames is at
  newMfn, newOrder, newArray,   \* the frame add_frame is adding
  booted,       \* how many of the BootFrames have been added
  added,        \* history: the pages handed to the allocator
  held          \* history: the frames callers hold, <<mfn, order>> each

frameVars == <<order, used, array, framesCount>>
arrayVars == <<arrays, freeCount, total>>
opVars == <<booted, ret, want, cur>>
newVars == <<newMfn, newOrder, newArray>>
historyVars == <<added, held>>
vars == <<frameVars, arrayVars, pc, opVars, newVars, historyVars>>

AddLocations == {"entry", "low", "link"}
PanicLocations == {"panic_no_4k", "panic_array", "assert_order", "assert_array"}

Frames == {m \in Mfns : order[m] # NoFrame}

\* Mutant: the busy frames are searched too.
AllFrames(o) == {m \in Mfns : order[m] = o}

FreeFrames(o) == {m \in Mfns : order[m] = o /\ ~used[m]}

\* The arguments and locals of an operation when there is none: they are reset
\* on return, so that states do not differ in dead values.
NoNewFrame == newMfn' = 0 /\ newOrder' = 0 /\ newArray' = EarlyArray
Return == pc' = "idle" /\ want' = 0 /\ cur' = 0

\* Before init_pmm has added any frame: the list of arrays holds early_frames,
\* whose descriptors total_free_frames does not count.
Init ==
  /\ order = [m \in Mfns |-> NoFrame]
  /\ used = [m \in Mfns |-> FALSE]
  /\ array = [m \in Mfns |-> EarlyArray]
  /\ arrays = {EarlyArray}
  /\ freeCount = [a \in Arrays |-> IF a = EarlyArray THEN ARRAY_SIZE ELSE 0]
  /\ framesCount = [o \in Orders |-> 0]
  /\ total = 0
  /\ pc = "boot"
  /\ ret = "boot"
  /\ want = 0
  /\ cur = 0
  /\ newMfn = 0
  /\ newOrder = 0
  /\ newArray = EarlyArray
  /\ booted = 0
  /\ added = {}
  /\ held = {}

(***************************************************************************)
(* add_frame, and the frames arrays under it.                              *)
(***************************************************************************)

\* add_frame(m, o) is called, and its caller goes on at r.
AddFrame(m, o, r) ==
  /\ newMfn' = m
  /\ newOrder' = o
  /\ pc' = "entry"
  /\ ret' = r

FreeArrays == {a \in arrays : freeCount[a] > 0}

\* get_frames_array_entry and take_frame: a descriptor of an array that has one
\* is taken.  When few are left a new array is made at once.
TakeFrame(a) ==
  /\ pc = "entry"
  /\ a \in FreeArrays
  /\ freeCount' = [freeCount EXCEPT ![a] = @ - 1]
  /\ total' = (total - 1) % WORD
  /\ newArray' = a
  /\ pc' = IF (total - 1) % WORD <= MIN_FREE_FRAMES_THRESHOLD THEN "low" ELSE "link"
  /\ UNCHANGED <<frameVars, arrays, opVars, newMfn, newOrder, historyVars>>

\* Mutant: the descriptors of the new array are not added to total_free_frames.
NewFramesArrayUncounted(m) ==
  /\ pc = "low" \/ (pc = "entry" /\ FreeArrays = {})
  /\ m \in FreeFrames(PAGE_ORDER_4K)
  /\ used' = [used EXCEPT ![m] = TRUE]
  /\ arrays' = arrays \cup {m}
  /\ freeCount' = [freeCount EXCEPT ![m] = ARRAY_SIZE]
  /\ pc' = IF pc = "low" THEN "link" ELSE "entry"
  /\ UNCHANGED <<order, array, framesCount, total, opVars, newVars, historyVars>>

\* new_frames_array: a free 4K frame is reserved and becomes an array (that
\* mapping the page succeeds is taken from vmap_kern_4k).
NewFramesArray(m) ==
  /\ pc = "low" \/ (pc = "entry" /\ FreeArrays = {})
  /\ m \in FreeFrames(PAGE_ORDER_4K)
  /\ used' = [used EXCEPT ![m] = TRUE]
  /\ arrays' = arrays \cup {m}
  /\ freeCount' = [freeCount EXCEPT ![m] = ARRAY_SIZE]
  /\ total' = (total + ARRAY_SIZE) % WORD
  /\ pc' = IF pc = "low" THEN "link" ELSE "entry"
  /\ UNCHANGED <<order, array, framesCount, opVars, newVars, historyVars>>

\* new_frames_array finds no free 4K frame: panic.
NewFramesArrayPanics ==
  /\ pc = "low" \/ (pc = "entry" /\ FreeArrays = {})
  /\ FreeFrames(PAGE_ORDER_4K) = {}
  /\ pc' = "panic_array"
  /\ UNCHANGED <<frameVars, arrayVars, opVars, newVars, historyVars>>

\* The end of new_frame and add_frame: the frame is on the free list.
LinkFrame ==
  /\ pc = "link"
  /\ order' = [order EXCEPT ![newMfn] = newOrder]
  /\ used' = [used EXCEPT ![newMfn] = FALSE]
  /\ array' = [array EXCEPT ![newMfn] = newArray]
  /\ framesCount' = [framesCount EXCEPT ![newOrder] = @ + 1]
  /\ pc' = ret
  /\ ret' = "boot"
  /\ NoNewFrame
  /\ UNCHANGED <<arrayVars, booted, want, cur, historyVars>>

(***************************************************************************)
(* Boot and reclaim_frame.                                                 *)
(***************************************************************************)

\* process_memory_range adds its next frame.
BootFrame ==
  /\ pc = "boot"
  /\ booted < Len(BootFrames)
  /\ booted' = booted + 1
  /\ AddFrame(BootFrames[booted + 1][1], BootFrames[booted + 1][2], "boot")
  /\ added' = added \cup Pages(BootFrames[booted + 1][1], BootFrames[booted + 1][2])
  /\ UNCHANGED <<frameVars, arrayVars, want, cur, newArray, held>>

\* The end of init_pmm.
BootDone ==
  /\ pc = "boot"
  /\ booted = Len(BootFrames)
  /\ pc' = "idle"
  /\ UNCHANGED <<frameVars, arrayVars, opVars, newVars, historyVars>>

\* reclaim_frame, called by zap_boot_mappings for the pages of init sections.
ReclaimFrame(m) ==
  /\ pc = "idle"
  /\ m \in ReclaimMfns \ added
  /\ AddFrame(m, PAGE_ORDER_4K, "idle")
  /\ added' = added \cup {m}
  /\ UNCHANGED <<frameVars, arrayVars, booted, want, cur, newArray, held>>

(***************************************************************************)
(* get_free_frames and get_free_frames_cond.                               *)
(***************************************************************************)

GetFreeFrames(o) ==
  /\ pc = "idle"
  /\ Cardinality(held) < MaxHeld
  /\ pc' = "get"
  /\ want' = o
  /\ UNCHANGED <<frameVars, arrayVars, booted, ret, cur, newVars, historyVars>>

GetFreeFramesCond ==
  /\ pc = "idle"
  /\ Cardinality(held) < MaxHeld
  /\ pc' = "cond"
  /\ want' = PAGE_ORDER_4K
  /\ UNCHANGED <<frameVars, arrayVars, booted, ret, cur, newVars, historyVars>>

Enough4kFrames == Cardinality(FreeFrames(PAGE_ORDER_4K)) >= MIN_NUM_4K_FRAMES

\* The loop of try_create_4k_frames, then that of get_free_frames.
MustSplit ==
  \/ want = PAGE_ORDER_4K /\ ~Enough4kFrames
  \/ pc = "get" /\ FreeFrames(want) = {}

\* find_larger_frame: the frames of the smallest larger order that has any.
LargerFrames ==
  LET larger == {o \in Orders : o > want /\ FreeFrames(o) # {}}
  IN  IF larger = {} THEN {} ELSE FreeFrames(Min(larger))

\* Mutant: the second half is taken to begin where the undivided frame ends.
SplitFrameOldOrder(m) ==
  /\ pc \in {"get", "cond"}
  /\ MustSplit
  /\ m \in LargerFrames
  /\ LET o == order[m] - 1 IN
       /\ order' = [order EXCEPT ![m] = o]
       /\ framesCount' = [framesCount EXCEPT ![o + 1] = @ - 1, ![o] = @ + 1]
       /\ AddFrame(m + Size[o + 1], o, pc)
  /\ UNCHANGED <<used, array, arrayVars, booted, want, cur, newArray, historyVars>>

\* split_frame: the first half is relinked to the order below, add_frame is
\* called for the second.
SplitFrame(m) ==
  /\ pc \in {"get", "cond"}
  /\ MustSplit
  /\ m \in LargerFrames
  /\ LET o == order[m] - 1 IN
       /\ order' = [order EXCEPT ![m] = o]
       /\ framesCount' = [framesCount EXCEPT ![o + 1] = @ - 1, ![o] = @ + 1]
       /\ AddFrame(m + Size[o], o, pc)
  /\ UNCHANGED <<used, array, arrayVars, booted, want, cur, newArray, historyVars>>

\* Mutant: that find_larger_frame found nothing goes unnoticed.
OutOfFramesUnnoticed ==
  /\ pc \in {"get", "cond"}
  /\ MustSplit
  /\ LargerFrames = {}
  /\ UNCHANGED vars

\* Nothing larger to split: get_free_frames returns NULL for a larger order,
\* and try_create_4k_frames panics.
OutOfFrames ==
  /\ pc \in {"get", "cond"}
  /\ MustSplit
  /\ LargerFrames = {}
  /\ IF want = PAGE_ORDER_4K THEN pc' = "panic_no_4k" /\ UNCHANGED <<want, cur>> ELSE Return
  /\ UNCHANGED <<frameVars, arrayVars, booted, ret, newVars, historyVars>>

\* reserve_frame of a frame of the wanted order, or, for get_free_frames_cond,
\* of any frame (the first one that satisfies the caller's condition).
ReserveFrame(m) ==
  /\ pc \in {"get", "cond"}
  /\ ~MustSplit
  /\ m \in Frames /\ ~used[m]
  /\ pc = "get" => order[m] = want
  /\ used' = [used EXCEPT ![m] = TRUE]
  /\ held' = held \cup {<<m, order[m]>>}
  /\ Return
  /\ UNCHANGED <<order, array, framesCount, arrayVars, booted, ret, newVars, added>>

\* get_free_frames_cond: no frame satisfies the caller's condition.
CondFindsNone ==
  /\ pc = "cond"
  /\ ~MustSplit
  /\ Return
  /\ UNCHANGED <<frameVars, arrayVars, booted, ret, newVars, historyVars>>

(***************************************************************************)
(* put_free_frames.                                                        *)
(***************************************************************************)

\* return_frame, and merge_frames is called.
PutFreeFrames(f) ==
  /\ pc = "idle"
  /\ f \in held
  /\ held' = held \ {f}
  /\ used' = [used EXCEPT ![f[1]] = FALSE]
  /\ cur' = f[1]
  /\ pc' = "merge"
  /\ UNCHANGED <<order, array, framesCount, arrayVars, booted, ret, want, newVars, added>>

\* FIRST_FRAME_SIBLING for the frame at m, at the order above its own.
FirstFrameSibling(m) == m % Size[order[m] + 1] = 0

\* The two frames merge_frames looks at, in address order.
First(m) == IF FirstFrameSibling(m) THEN m ELSE m - Size[order[m]]
Second(m) == IF FirstFrameSibling(m) THEN m + Size[order[m]] ELSE m

\* Mutant: a busy sibling is merged too.
CanMergeBusy(m) ==
  /\ First(m) \in Frames /\ order[First(m)] = order[m]
  /\ Second(m) \in Frames /\ order[Second(m)] = order[m]

CanMerge(m) ==
  /\ First(m) \in FreeFrames(order[m])
  /\ Second(m) \in FreeFrames(order[m])

\* is_frames_array_free by free_count, before it looks at the descriptors.
IsFramesArrayFree(count) == count = ARRAY_SIZE

\* put_frames_array_entry for a descriptor of array a.  When the array is then
\* empty and total_free_frames above its threshold, put_frames_array walks it and
\* asserts that all its descriptors are free, but this one is only cleared after
\* that.
PutFramesArrayEntry(a) ==
  /\ freeCount' = [freeCount EXCEPT ![a] = @ + 1]
  /\ total' = (total + 1) % WORD
  /\ pc' = IF /\ (total + 1) % WORD >= MAX_FREE_FRAMES_THRESHOLD
              /\ IsFramesArrayFree(freeCount[a] + 1)
             THEN "assert_array" ELSE "merge"

\* relink_frame_to_order(first, order + 1), destroy_frame(second) and the
\* recursive call.  (The second's `array' is reset with its descriptor.)
MergeFrames ==
  LET o == order[cur]
      first == First(cur)
      second == Second(cur)
  IN
  /\ pc = "merge"
  /\ CanMerge(cur)
  /\ o < MAX_PAGE_ORDER
  /\ order' = [order EXCEPT ![first] = o + 1, ![second] = NoFrame]
  /\ framesCount' = [framesCount EXCEPT ![o] = @ - 2, ![o + 1] = @ + 1]
  /\ PutFramesArrayEntry(array[second])
  /\ array' = [array EXCEPT ![second] = EarlyArray]
  /\ cur' = first
  /\ UNCHANGED <<used, arrays, booted, ret, want, newVars, historyVars>>

\* ASSERT(new_order <= MAX_PAGE_ORDER) in relink_frame_to_order fails.
MergeAboveMaxOrder ==
  /\ pc = "merge"
  /\ CanMerge(cur)
  /\ order[cur] = MAX_PAGE_ORDER
  /\ pc' = "assert_order"
  /\ UNCHANGED <<frameVars, arrayVars, opVars, newVars, historyVars>>

MergeDone ==
  /\ pc = "merge"
  /\ ~CanMerge(cur)
  /\ Return
  /\ UNCHANGED <<frameVars, arrayVars, booted, ret, newVars, historyVars>>

----------------------------------------------------------------------------

\* A call from outside.
Call ==
  \/ \E m \in ReclaimMfns : ReclaimFrame(m)
  \/ \E o \in Orders : GetFreeFrames(o)
  \/ GetFreeFramesCond
  \/ \E f \in held : PutFreeFrames(f)

\* A step of the operation in progress.
Step ==
  \/ BootFrame
  \/ BootDone
  \/ \E a \in arrays : TakeFrame(a)
  \/ \E m \in Mfns : NewFramesArray(m)
  \/ NewFramesArrayPanics
  \/ LinkFrame
  \/ \E m \in Mfns : SplitFrame(m)
  \/ OutOfFrames
  \/ \E m \in Mfns : ReserveFrame(m)
  \/ CondFindsNone
  \/ MergeFrames
  \/ MergeAboveMaxOrder
  \/ MergeDone

Next == Call \/ Step

Spec == Init /\ [][Next]_vars

\* The CPU that runs an operation goes on with it.
FairSpec == Spec /\ WF_vars(Step)

(***************************************************************************)
(* Properties.                                                             *)
(***************************************************************************)

\* The pages of the frame add_frame is about to link, or panicked over.
PendingPages ==
  IF pc \in AddLocations \cup {"panic_array"} THEN Pages(newMfn, newOrder) ELSE {}

\* Splitting and merging neither lose a page nor give it to two frames: the
\* frames on the lists, with the one being added, are a partition of the memory
\* that process_memory_range and reclaim_frame handed to the allocator.
FramesPartition ==
  /\ \A m, n \in Frames :
       m # n => Pages(m, order[m]) \cap Pages(n, order[n]) = {}
  /\ \A m \in Frames : Pages(m, order[m]) \cap PendingPages = {}
  /\ added = PendingPages \cup UNION {Pages(m, order[m]) : m \in Frames}

\* What a caller got from get_free_frames or get_free_frames_cond stays busy,
\* whole and of the order it asked for until it is put back, whatever is split,
\* merged or turned into a frames array meanwhile; no caller gets a page that
\* holds descriptors; and no busy frame has neither an owner nor descriptors.
BusyFramesOwned ==
  /\ \A f \in held : order[f[1]] = f[2] /\ used[f[1]] /\ f[1] \notin arrays
  /\ \A m \in arrays \ {EarlyArray} : order[m] = PAGE_ORDER_4K /\ used[m]
  /\ \A m \in Frames : used[m] => m \in arrays \/ <<m, order[m]>> \in held

\* The frames whose descriptors an array holds, the taken one included.
Described(a) ==
  Cardinality({m \in Frames : array[m] = a})
    + (IF pc \in {"low", "link"} /\ newArray = a THEN 1 ELSE 0)

\* frames_count is the number of frames of an order.
FramesCounted == \A o \in Orders : framesCount[o] = Cardinality({m \in Mfns : order[m] = o})

\* free_count is what is left of an array's descriptors.
DescriptorsCounted ==
  pc \notin PanicLocations => \A a \in arrays : freeCount[a] + Described(a) = ARRAY_SIZE

\* total_free_frames is the sum, but for the early array's.
TotalCounted == total = (MapThenSumSet(LAMBDA a : freeCount[a], arrays) - ARRAY_SIZE) % WORD

\* The counters that drive the allocator agree with the lists at every step:
\* frames_count with the frames of each order, an array's free_count with the
\* descriptors in use, and total_free_frames with the sum of free_count less
\* the early descriptors it never counted, modulo the word.
CountersAgree == FramesCounted /\ DescriptorsCounted /\ TotalCounted

\* get_free_frames of a 4K frame leaves another one on the free list, the page
\* new_frames_array would need next (MIN_NUM_4K_FRAMES).
LeavesA4kFrame ==
  [][pc = "get" /\ want = PAGE_ORDER_4K /\ pc' = "idle"
       => FreeFrames(PAGE_ORDER_4K)' # {}]_vars

\* Every operation ends: it returns or it panics.  The loop of
\* try_create_4k_frames makes progress although the descriptors of the frames it
\* splits may take away the 4K frames it makes.
OperationsEnd == [](pc # "idle" => <>(pc \in {"idle"} \cup PanicLocations))

\* The abstract allocator: the memory it was handed, the blocks it gave away and
\* the pages of its frames arrays.
Promise == INSTANCE FrameAllocator WITH
  memory <- added,
  given <- held,
  own <- arrays \ {EarlyArray}

\* get_free_frames, get_free_frames_cond, put_free_frames and new_frames_array,
\* with all they split and merge, keep the promise of module FrameAllocator: a page
\* has one owner at a time, and a page with descriptors never gets another.
PagesGivenOnce == Promise!Spec

\* ASSERT(new_order <= MAX_PAGE_ORDER) in relink_frame_to_order holds.
OrderAssert == pc # "assert_order"

\* ASSERT(is_frame_free(&array->frames[i])) in is_frames_array_free holds.
ArrayAssert == pc # "assert_array"

\* The comment of get_free_frames_cond: it does not split larger frames.
CondDoesNotSplit ==
  [][pc = "cond" => \A m \in Frames : order'[m] = order[m]]_vars
============================================================================
