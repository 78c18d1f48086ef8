---------------------------- MODULE PmmCounters -----------------------------
(***************************************************************************)
(* frames_count and the free_count of the frames arrays in mm/pmm.c agree  *)
(* with the lists, for any memory map, any largest order and any size of   *)
(* the arrays.                                                             *)
(***************************************************************************)
EXTENDS PmmProofs

CounterTypes ==
  /\ framesCount \in [Orders -> Int]
  /\ freeCount \in [Arrays -> Int]
  /\ array \in [Mfns -> Arrays]

\* Descriptors are in arrays that are on the list.
ArraysListed ==
  /\ \A m \in Frames : array[m] \in arrays
  /\ pc \in {"low", "link"} => newArray \in arrays

CInv == CounterTypes /\ ArraysListed /\ FramesCounted /\ DescriptorsCounted

-----------------------------------------------------------------------------

One(x, y) == IF x = y THEN 1 ELSE 0

\* The pages at which frames of an order begin.
With(ord, o) == {m \in Mfns : ord[m] = o}

\* How the frames of an order are counted after the order of one has changed.
LEMMA Recount ==
  ASSUME NEW ord \in [Mfns -> Int], NEW new \in [Mfns -> Int], NEW x \in Mfns, NEW o \in Int,
         \A m \in Mfns \ {x} : new[m] = ord[m]
  PROVE  /\ Cardinality(With(ord, o)) \in Nat
         /\ Cardinality(With(new, o)) = Cardinality(With(ord, o)) + One(new[x], o) - One(ord[x], o)
  <1> DEFINE S == With(ord, o)
             T == With(new, o)
             R == S \ {x}
  <1>1. IsFiniteSet(S)
    BY FS_Subset, PmmAssumption DEF With
  <1>2. IsFiniteSet(R) /\ x \notin R /\ Cardinality(S) \in Nat /\ Cardinality(R) \in Nat
    BY <1>1, FS_Subset, FS_CardinalityType
  <1>3. S = IF ord[x] = o THEN R \cup {x} ELSE R
    BY DEF With
  <1>4. T = IF new[x] = o THEN R \cup {x} ELSE R
    BY DEF With
  <1>5. Cardinality(R \cup {x}) = Cardinality(R) + 1
    BY <1>2, FS_AddElement
  <1>6. Cardinality(S) = Cardinality(R) + One(ord[x], o)
    BY <1>2, <1>3, <1>5 DEF One
  <1>7. Cardinality(T) = Cardinality(R) + One(new[x], o)
    BY <1>2, <1>4, <1>5 DEF One
  <1>8. One(ord[x], o) \in Int /\ One(new[x], o) \in Int
    BY DEF One
  <1> HIDE DEF S, T, R
  <1>9. Cardinality(S) \in Nat /\ Cardinality(T) = Cardinality(S) + One(new[x], o) - One(ord[x], o)
    BY <1>2, <1>6, <1>7, <1>8
  <1> QED
    BY <1>9 DEF S, T

\* The frames whose descriptors are in an array, as Described counts them.
DescribedBy(a) == {m \in Frames : array[m] = a}

\* They are counted.
LEMMA DescribedFinite ==
  \A a : IsFiniteSet(DescribedBy(a)) /\ Cardinality(DescribedBy(a)) \in Nat
  <1> SUFFICES ASSUME NEW a PROVE IsFiniteSet(DescribedBy(a)) /\ Cardinality(DescribedBy(a)) \in Nat
    OBVIOUS
  <1>1. DescribedBy(a) \subseteq Mfns
    BY DEF DescribedBy, Frames
  <1> QED
    BY <1>1, FS_Subset, FS_CardinalityType, PmmAssumption

\* Described in terms of that set.
LEMMA DescribedIs ==
  \A a : Described(a) = Cardinality(DescribedBy(a)) + (IF pc \in {"low", "link"} /\ newArray = a THEN 1 ELSE 0)
  BY DEF Described, DescribedBy, One

\* Before init_pmm the early array is free.
LEMMA InitCInv == Init => CInv
  <1> SUFFICES ASSUME Init PROVE CInv
    OBVIOUS
  <1>1. CounterTypes
    BY PmmAssumption DEF Init, CounterTypes, Arrays
  <1>2. Frames = {}
    BY DEF Init, Frames
  <1>3. ArraysListed
    BY <1>2 DEF Init, ArraysListed
  <1>4. FramesCounted
    <2>1. \A o \in Orders : {m \in Mfns : order[m] = o} = {}
      BY Sizes DEF Init
    <2> QED
      BY <2>1, FS_EmptySet DEF Init, FramesCounted
  <1>5. DescriptorsCounted
    <2>1. \A a \in arrays : freeCount[a] = ARRAY_SIZE
      BY DEF Init, Arrays
    <2>2. \A a : DescribedBy(a) = {}
      BY <1>2 DEF DescribedBy
    <2>3. \A a : Described(a) = 0
      <3>1. Cardinality({}) = 0 /\ pc = "boot"
        BY FS_EmptySet DEF Init
      <3> QED
        BY <2>2, <3>1, DescribedIs DEF One
    <2> QED
      BY <2>1, <2>3, PmmAssumption DEF DescriptorsCounted
  <1> QED
    BY <1>1, <1>3, <1>4, <1>5 DEF CInv

\* The steps that leave the lists and the arrays alone, and whether a descriptor
\* has been taken.
LEMMA NothingCounted ==
  ASSUME CInv, UNCHANGED <<order, array, framesCount, arrays, freeCount, newArray>>,
         pc' \notin PanicLocations =>
           pc \notin PanicLocations /\ (pc' \in {"low", "link"} <=> pc \in {"low", "link"}),
         pc' \in {"low", "link"} => pc \in {"low", "link"}
  PROVE  CInv'
  <1>1. Frames' = Frames
    BY DEF Frames
  <1>2. CounterTypes' /\ ArraysListed'
    BY <1>1 DEF CInv, CounterTypes, ArraysListed
  <1>3. FramesCounted'
    BY DEF CInv, FramesCounted
  <1>4. DescriptorsCounted'
    <2> SUFFICES ASSUME pc' \notin PanicLocations, NEW a \in arrays
                 PROVE  freeCount[a] + Described(a)' = ARRAY_SIZE
      BY DEF DescriptorsCounted
    <2>1. Described(a)' = Described(a)
      BY <1>1 DEF Described
    <2> QED
      BY <2>1 DEF CInv, DescriptorsCounted
  <1> QED
    BY <1>2, <1>3, <1>4 DEF CInv

-----------------------------------------------------------------------------

\* A descriptor of an array is taken: its count goes down.
LEMMA TakeFrameCounted == \A b \in arrays : IInv /\ CInv /\ TakeFrame(b) => CInv'
  <1> SUFFICES ASSUME NEW b \in arrays, IInv, CInv, TakeFrame(b) PROVE CInv'
    OBVIOUS
  <1>1. /\ pc = "entry" /\ pc' \in {"low", "link"} /\ newArray' = b
        /\ freeCount' = [freeCount EXCEPT ![b] = @ - 1]
        /\ UNCHANGED <<order, array, arrays, framesCount>>
    BY DEF TakeFrame, frameVars
  <1>2. Frames' = Frames /\ b \in Arrays /\ arrays \subseteq Arrays
    BY <1>1 DEF Frames, IInv, Types
  <1>3. CounterTypes' /\ ArraysListed' /\ FramesCounted'
    BY <1>1, <1>2 DEF CInv, CounterTypes, ArraysListed, FramesCounted
  <1>4. DescriptorsCounted'
    <2> SUFFICES ASSUME NEW a \in arrays PROVE freeCount'[a] + Described(a)' = ARRAY_SIZE
      BY <1>1 DEF DescriptorsCounted
    <2>1. freeCount[a] + Described(a) = ARRAY_SIZE /\ freeCount[a] \in Int
      BY <1>1, <1>2 DEF CInv, DescriptorsCounted, PanicLocations, CounterTypes
    <2>2. DescribedBy(a)' = DescribedBy(a)
      BY <1>1, <1>2 DEF DescribedBy
    <2>3. Described(a) = Cardinality(DescribedBy(a))
      BY <1>1, DescribedIs, DescribedFinite DEF One
    <2>4. Described(a)' = Cardinality(DescribedBy(a)) + One(a, b)
      BY <1>1, <1>2, <2>2 DEF Described, DescribedBy, One
    <2>5. freeCount'[a] = freeCount[a] - One(a, b)
      BY <1>1, <1>2, <2>1 DEF CInv, CounterTypes, One
    <2> QED
      BY <2>1, <2>3, <2>4, <2>5, DescribedFinite DEF One
  <1> QED
    BY <1>3, <1>4 DEF CInv

\* The new array has no descriptor in use.
LEMMA NewFramesArrayCounted == \A b \in Mfns : IInv /\ CInv /\ NewFramesArray(b) => CInv'
  <1> SUFFICES ASSUME NEW b \in Mfns, IInv, CInv, NewFramesArray(b) PROVE CInv'
    OBVIOUS
  <1>1. /\ pc \in {"low", "entry"} /\ pc' = IF pc = "low" THEN "link" ELSE "entry"
        /\ freeCount' = [freeCount EXCEPT ![b] = ARRAY_SIZE] /\ arrays' = arrays \cup {b}
        /\ UNCHANGED <<order, array, framesCount, newArray>>
    BY DEF NewFramesArray, newVars
  <1>2. Frames' = Frames /\ b \in Arrays /\ arrays \subseteq Arrays /\ b \notin arrays
    BY <1>1, PmmAssumption DEF Frames, IInv, Types, Arrays, BusyFramesOwned, NewFramesArray, FreeFrames
  <1>3. CounterTypes' /\ ArraysListed' /\ FramesCounted'
    BY <1>1, <1>2, PmmAssumption DEF CInv, CounterTypes, ArraysListed, FramesCounted
  <1>4. DescriptorsCounted'
    <2> SUFFICES ASSUME NEW a \in arrays' PROVE freeCount'[a] + Described(a)' = ARRAY_SIZE
      BY DEF DescriptorsCounted
    <2>1. Described(a)' = Described(a)
      BY <1>1, <1>2 DEF Described
    <2>2. CASE a = b
      <3>1. DescribedBy(b) = {}
        BY <1>2 DEF DescribedBy, CInv, ArraysListed
      <3>2. Described(b) = 0
        BY <1>1, <1>2, <3>1, DescribedIs, FS_EmptySet DEF One, CInv, ArraysListed
      <3>3. freeCount'[b] = ARRAY_SIZE
        BY <1>1, <1>2 DEF CInv, CounterTypes
      <3> QED
        BY <2>1, <2>2, <3>2, <3>3, PmmAssumption
    <2>3. CASE a # b
      <3>1. a \in arrays /\ freeCount'[a] = freeCount[a]
        BY <1>1, <1>2, <2>3 DEF CInv, CounterTypes
      <3> QED
        BY <1>1, <2>1, <3>1 DEF CInv, DescriptorsCounted, PanicLocations
    <2> QED
      BY <2>2, <2>3
  <1> QED
    BY <1>3, <1>4 DEF CInv

\* The descriptor that was taken describes the frame that is linked.
LEMMA LinkFrameCounted == IInv /\ CInv /\ LinkFrame => CInv'
  <1> SUFFICES ASSUME IInv, CInv, LinkFrame PROVE CInv'
    OBVIOUS
  <1>1. newMfn \in Mfns /\ newOrder \in Orders /\ newMfn \notin Frames
    BY NewFrameNowhere DEF LinkFrame, Adding, AddLocations
  <1>2. /\ pc = "link" /\ pc' \in {"boot", "idle", "get", "cond"}
        /\ order' = [order EXCEPT ![newMfn] = newOrder]
        /\ array' = [array EXCEPT ![newMfn] = newArray]
        /\ framesCount' = [framesCount EXCEPT ![newOrder] = @ + 1]
        /\ UNCHANGED <<arrays, freeCount>>
    BY DEF LinkFrame, IInv, Types, arrayVars
  <1>3. /\ order \in [Mfns -> Orders \cup {NoFrame}] /\ arrays \subseteq Arrays
        /\ newArray \in arrays /\ array \in [Mfns -> Arrays]
    BY <1>2 DEF IInv, Types, CInv, ArraysListed, CounterTypes
  <1>4. Frames' = Frames \cup {newMfn} /\ order[newMfn] = NoFrame
    BY <1>1, <1>2, <1>3, Sizes DEF Frames
  <1>5. CounterTypes' /\ ArraysListed'
    <2>1. CounterTypes'
      BY <1>1, <1>2, <1>3 DEF CInv, CounterTypes
    <2>2. \A m \in Frames' : array'[m] \in arrays
      BY <1>1, <1>2, <1>3, <1>4 DEF CInv, ArraysListed, Frames
    <2> QED
      BY <1>2, <2>1, <2>2 DEF ArraysListed
  <1>6. FramesCounted'
    <2> SUFFICES ASSUME NEW o \in Orders
                 PROVE  framesCount'[o] = Cardinality(With(order', o))
      BY DEF FramesCounted, With
    <2>1. order \in [Mfns -> Int] /\ order' \in [Mfns -> Int] /\ o \in Int
      BY <1>1, <1>2, <1>3 DEF Orders, NoFrame
    <2>2. Cardinality(With(order', o))
            = Cardinality(With(order, o)) + One(newOrder, o) - One(order[newMfn], o)
      <3>1. \A m \in Mfns \ {newMfn} : order'[m] = order[m]
        BY <1>1, <1>2, <2>1
      <3>2. Cardinality(With(order', o)) = Cardinality(With(order, o)) + One(order'[newMfn], o) - One(order[newMfn], o)
        BY <1>1, <2>1, <3>1, Recount
      <3> QED
        BY <1>1, <1>2, <2>1, <3>2
    <2>3. framesCount'[o] = framesCount[o] + One(newOrder, o) /\ framesCount[o] \in Int
      BY <1>1, <1>2 DEF CInv, CounterTypes, One
    <2>4. framesCount[o] = Cardinality(With(order, o))
      BY DEF CInv, FramesCounted, With
    <2>5. One(order[newMfn], o) = 0 /\ One(newOrder, o) \in Int
      BY <1>4, Sizes DEF One
    <2> QED
      BY <2>2, <2>3, <2>4, <2>5
  <1>7. DescriptorsCounted'
    <2> SUFFICES ASSUME NEW a \in arrays PROVE freeCount[a] + Described(a)' = ARRAY_SIZE
      BY <1>2 DEF DescriptorsCounted
    <2>1. freeCount[a] + Described(a) = ARRAY_SIZE /\ freeCount[a] \in Int
      BY <1>2, <1>3 DEF CInv, DescriptorsCounted, PanicLocations, CounterTypes
    <2>2. DescribedBy(a)' = IF a = newArray THEN DescribedBy(a) \cup {newMfn} ELSE DescribedBy(a)
      BY <1>1, <1>2, <1>3, <1>4 DEF DescribedBy, Frames
    <2>3. newMfn \notin DescribedBy(a)
      BY <1>1 DEF DescribedBy
    <2>4. Cardinality(DescribedBy(a)') = Cardinality(DescribedBy(a)) + One(newArray, a)
      BY <2>2, <2>3, DescribedFinite, FS_AddElement DEF One
    <2>5. Described(a)' = Cardinality(DescribedBy(a)')
      <3>1. Described(a)' = Cardinality(DescribedBy(a)') + 0
        BY <1>2 DEF Described, DescribedBy
      <3> QED
        BY <3>1, <2>4, DescribedFinite DEF One
    <2>6. Described(a) = Cardinality(DescribedBy(a)) + One(newArray, a)
      BY <1>2 DEF Described, DescribedBy, One
    <2> QED
      BY <2>1, <2>4, <2>5, <2>6
  <1> QED
    BY <1>5, <1>6, <1>7 DEF CInv

\* A frame of an order becomes one of the order below.
LEMMA SplitFrameCounted == \A x \in Mfns : IInv /\ CInv /\ SplitFrame(x) => CInv'
  <1> SUFFICES ASSUME NEW x \in Mfns, IInv, CInv, SplitFrame(x) PROVE CInv'
    OBVIOUS
  <1> DEFINE o == order[x] - 1
  <1>1. x \in Frames /\ o \in Orders /\ o + 1 \in Orders /\ o + 1 = order[x] /\ o \in Nat
    <2>1. x \in Frames /\ order[x] \in Orders /\ order[x] > want /\ want \in Orders
      BY LargerFrame DEF SplitFrame, IInv, Types
    <2> QED
      BY <2>1, Neighbours
  <1>2. /\ order' = [order EXCEPT ![x] = o] /\ order \in [Mfns -> Orders \cup {NoFrame}]
        /\ framesCount' = [framesCount EXCEPT ![o + 1] = @ - 1, ![o] = @ + 1]
        /\ pc \in {"get", "cond"} /\ pc' = "entry"
        /\ UNCHANGED <<array, arrays, freeCount>>
    BY DEF SplitFrame, AddFrame, IInv, Types, arrayVars
  <1>3. Frames' = Frames
    BY <1>1, <1>2, Sizes DEF Frames
  <1>4. CounterTypes' /\ ArraysListed'
    BY <1>1, <1>2, <1>3 DEF CInv, CounterTypes, ArraysListed
  <1>5. FramesCounted'
    <2> SUFFICES ASSUME NEW q \in Orders
                 PROVE  framesCount'[q] = Cardinality(With(order', q))
      BY DEF FramesCounted, With
    <2>1. order \in [Mfns -> Int] /\ order' \in [Mfns -> Int] /\ q \in Int
      BY <1>1, <1>2, <1>2 DEF Orders, NoFrame
    <2>2. Cardinality(With(order', q))
            = Cardinality(With(order, q)) + One(o, q) - One(o + 1, q)
      <3>1. \A m \in Mfns \ {x} : order'[m] = order[m]
        BY <1>1, <1>2, <2>1
      <3>2. Cardinality(With(order', q)) = Cardinality(With(order, q)) + One(order'[x], q) - One(order[x], q)
        BY <1>1, <2>1, <3>1, Recount
      <3> QED
        BY <1>1, <1>2, <2>1, <3>2
    <2>3. framesCount'[q] = framesCount[q] + One(o, q) - One(o + 1, q) /\ framesCount[q] \in Int
      BY <1>1, <1>2 DEF CInv, CounterTypes, One
    <2>4. framesCount[q] = Cardinality(With(order, q))
      BY DEF CInv, FramesCounted, With
    <2> QED
      BY <2>2, <2>3, <2>4
  <1>6. DescriptorsCounted'
    <2> SUFFICES ASSUME NEW a \in arrays PROVE freeCount[a] + Described(a)' = ARRAY_SIZE
      BY <1>2 DEF DescriptorsCounted
    <2>1. Described(a)' = Described(a)
      BY <1>2, <1>3 DEF Described
    <2> QED
      BY <1>2, <2>1 DEF CInv, DescriptorsCounted, PanicLocations
  <1> QED
    BY <1>4, <1>5, <1>6 DEF CInv

\* Two frames of an order become one of the order above, and a descriptor is
\* given back.
LEMMA MergeFramesCounted == IInv /\ CInv /\ MergeFrames => CInv'
  <1> SUFFICES ASSUME IInv, CInv, MergeFrames PROVE CInv'
    OBVIOUS
  <1> DEFINE o == order[cur]
             first == First(cur)
             second == Second(cur)
             b == array[second]
  <1>1. /\ cur \in Nat /\ o \in Orders /\ o + 1 \in Orders /\ o \in Nat
        /\ first \in Frames /\ order[first] = o /\ first \in Mfns /\ first \in Nat
        /\ second \in Frames /\ order[second] = o /\ second \in Mfns
    <2>1. cur \in Frames /\ CanMerge(cur) /\ o < MAX_PAGE_ORDER
      BY DEF MergeFrames, IInv, Types
    <2>2. cur \in Nat /\ o \in Orders
      BY <2>1, FirstPage DEF IInv
    <2>3. o + 1 \in Orders /\ o \in Nat
      BY <2>1, <2>2, Neighbours
    <2>4. first \in FreeFrames(o) /\ second \in FreeFrames(o)
      BY <2>1 DEF CanMerge
    <2> QED
      BY <2>2, <2>3, <2>4, Sizes, PmmAssumption DEF FreeFrames, Frames
  <1>2. first # second
    BY <1>1, Sizes DEF First, Second
  <1>3. /\ order' = [order EXCEPT ![first] = o + 1, ![second] = NoFrame]
        /\ order \in [Mfns -> Orders \cup {NoFrame}]
        /\ framesCount' = [framesCount EXCEPT ![o] = @ - 2, ![o + 1] = @ + 1]
        /\ freeCount' = [freeCount EXCEPT ![b] = @ + 1]
        /\ array' = [array EXCEPT ![second] = EarlyArray]
        /\ pc = "merge" /\ pc' \in {"merge", "assert_array"} /\ arrays' = arrays
    BY DEF MergeFrames, PutFramesArrayEntry, IInv, Types
  <1>4. Frames' = Frames \ {second}
    BY <1>1, <1>2, <1>3, Sizes DEF Frames
  <1>5. b \in arrays /\ arrays \subseteq Arrays /\ array \in [Mfns -> Arrays]
    BY <1>1 DEF CInv, ArraysListed, CounterTypes, IInv, Types
  <1>6. CounterTypes' /\ ArraysListed'
    <2>1. CounterTypes'
      BY <1>1, <1>3, <1>5 DEF CInv, CounterTypes, Arrays
    <2>2. \A m \in Frames' : array'[m] \in arrays
      BY <1>1, <1>3, <1>4, <1>5 DEF CInv, ArraysListed, Frames
    <2> QED
      BY <1>3, <2>1, <2>2 DEF ArraysListed
  <1>7. FramesCounted'
    <2> SUFFICES ASSUME NEW q \in Orders
                 PROVE  framesCount'[q] = Cardinality(With(order', q))
      BY DEF FramesCounted, With
    <2> DEFINE mid == [order EXCEPT ![first] = o + 1]
    <2>1. /\ order \in [Mfns -> Int] /\ order' \in [Mfns -> Int] /\ mid \in [Mfns -> Int]
          /\ q \in Int /\ NoFrame # q
      BY <1>1, <1>3 DEF Orders, NoFrame
    <2>2. /\ \A m \in Mfns \ {first} : mid[m] = order[m]
          /\ \A m \in Mfns \ {second} : order'[m] = mid[m]
          /\ mid[first] = o + 1 /\ mid[second] = o /\ order'[second] = NoFrame
      BY <1>1, <1>2, <1>3
    <2> HIDE DEF mid
    <2>3. Cardinality(With(mid, q)) = Cardinality(With(order, q)) + One(mid[first], q) - One(order[first], q)
      BY <1>1, <2>1, <2>2, Recount
    <2>4. Cardinality(With(order', q)) = Cardinality(With(mid, q)) + One(order'[second], q) - One(mid[second], q)
      BY <1>1, <2>1, <2>2, Recount
    <2>5. Cardinality(With(order, q)) \in Nat
      BY <1>1, <2>1, <2>2, Recount
    <2>6. framesCount[q] = Cardinality(With(order, q))
      BY DEF CInv, FramesCounted, With
    <2>7. framesCount'[q] = framesCount[q] + One(o + 1, q) - One(o, q) - One(o, q)
      BY <1>1, <1>3, <2>5, <2>6 DEF CInv, CounterTypes, One
    <2>8. One(NoFrame, q) = 0 /\ One(o, q) \in Int /\ One(o + 1, q) \in Int
      BY <2>1 DEF One
    <2> QED
      BY <1>1, <2>2, <2>3, <2>4, <2>5, <2>6, <2>7, <2>8
  <1>8. DescriptorsCounted'
    <2> SUFFICES ASSUME NEW a \in arrays PROVE freeCount'[a] + Described(a)' = ARRAY_SIZE
      BY <1>3 DEF DescriptorsCounted
    <2>1. freeCount[a] + Described(a) = ARRAY_SIZE /\ freeCount[a] \in Int
      BY <1>3, <1>5 DEF CInv, DescriptorsCounted, PanicLocations, CounterTypes
    <2>2. DescribedBy(a)' = IF a = b THEN DescribedBy(a) \ {second} ELSE DescribedBy(a)
      BY <1>1, <1>3, <1>4, <1>5 DEF DescribedBy, Frames
    <2>3. a = b => second \in DescribedBy(a)
      BY <1>1 DEF DescribedBy
    <2>4. Cardinality(DescribedBy(a)') = Cardinality(DescribedBy(a)) - One(a, b)
      <3>1. CASE a = b
        <4>1. Cardinality(DescribedBy(a) \ {second}) = Cardinality(DescribedBy(a)) - 1
          BY <2>3, <3>1, DescribedFinite, FS_RemoveElement
        <4> QED
          BY <2>2, <3>1, <4>1 DEF One
      <3>2. CASE a # b
        BY <2>2, <3>2, DescribedFinite DEF One
      <3> QED
        BY <3>1, <3>2
    <2>5. Described(a)' = Cardinality(DescribedBy(a)')
      <3>1. Described(a)' = Cardinality(DescribedBy(a)') + 0
        BY <1>3 DEF Described, DescribedBy
      <3> QED
        BY <3>1, <2>4, DescribedFinite DEF One
    <2>6. Described(a) = Cardinality(DescribedBy(a))
      BY <1>3, DescribedIs, DescribedFinite
    <2>7. freeCount'[a] = freeCount[a] + One(a, b)
      BY <1>3, <1>5, <2>1 DEF CInv, CounterTypes, One
    <2> QED
      BY <2>1, <2>4, <2>5, <2>6, <2>7, DescribedFinite DEF One
  <1> QED
    BY <1>6, <1>7, <1>8 DEF CInv

-----------------------------------------------------------------------------

\* Every step keeps the counters right.
LEMMA NextCInv == IInv /\ CInv /\ [Next]_vars => CInv'
  <1> SUFFICES ASSUME IInv, CInv, [Next]_vars PROVE CInv'
    OBVIOUS
  <1>1. CASE \E a \in arrays : TakeFrame(a)
    BY <1>1, TakeFrameCounted
  <1>2. CASE \E m \in Mfns : NewFramesArray(m)
    BY <1>2, NewFramesArrayCounted
  <1>3. CASE LinkFrame
    BY <1>3, LinkFrameCounted
  <1>4. CASE \E m \in Mfns : SplitFrame(m)
    BY <1>4, SplitFrameCounted
  <1>5. CASE MergeFrames
    BY <1>5, MergeFramesCounted
  <1> USE NothingCounted DEF frameVars, arrayVars, newVars, opVars, PanicLocations
  <1>6. CASE (\E m \in ReclaimMfns : ReclaimFrame(m)) \/ BootFrame
    BY <1>6 DEF ReclaimFrame, BootFrame, AddFrame
  <1>7. CASE (\E o \in Orders : GetFreeFrames(o)) \/ GetFreeFramesCond \/ OutOfFrames \/ CondFindsNone
    BY <1>7 DEF GetFreeFrames, GetFreeFramesCond, OutOfFrames, CondFindsNone, Return
  <1>8. CASE BootDone \/ NewFramesArrayPanics \/ MergeAboveMaxOrder \/ MergeDone \/ UNCHANGED vars
    BY <1>8 DEF BootDone, NewFramesArrayPanics, MergeAboveMaxOrder, MergeDone, Return, vars
  <1>9. CASE (\E f \in held : PutFreeFrames(f)) \/ (\E m \in Mfns : ReserveFrame(m))
    BY <1>9 DEF PutFreeFrames, ReserveFrame, Return
  <1> QED
    BY <1>1, <1>2, <1>3, <1>4, <1>5, <1>6, <1>7, <1>8, <1>9 DEF Next, Call, Step

\* frames_count says how many frames of each order there are, on both lists, and
\* free_count of an array how many of its descriptors are not in use, as long as
\* the allocator has not panicked: the tests of these counters in mm/pmm.c decide
\* by the true numbers.
THEOREM CountersAreRight == Spec => [](FramesCounted /\ DescriptorsCounted)
  <1>1. IInv /\ CInv => FramesCounted /\ DescriptorsCounted
    BY DEF CInv
  <1> QED
    BY <1>1, InitCInv, NextCInv, PmmInvariant, PTL DEF Spec
=============================================================================
