----------------------------- MODULE PoolProofs -----------------------------
(***************************************************************************)
(* Proofs about Pool for every size, preallocation and heap.               *)
(*                                                                         *)
(* The counters and the bucket count are not inductive by themselves:      *)
(* PoolReturn decrements `outstanding' and takes a bucket, which is sound  *)
(* because the client holds what it returns and because every element has  *)
(* a bucket; PoolGet's growth adds an address of malloc's, which is new    *)
(* only because every heap element of the pool is still allocated; and     *)
(* PoolInit takes buckets that are there because it has filled exactly u32 *)
(* of Size.  IInv adds these facts.                                        *)
(*                                                                         *)
(* The second half rests on IInv: Pool implements PoolAbs, whatever Init   *)
(* opened is cleaned up exactly once, and nothing malloc handed out is     *)
(* forgotten.                                                              *)
(***************************************************************************)
EXTENDS Pool, FiniteSetTheorems, TLAPS

(* Every element that came from malloc is still allocated. *)
HeapTracked ==
    /\ \A a \in held : a \in Heap => a \in heap
    /\ \A i \in 1 .. Len(p.alloc_stack) : p.alloc_stack[i] \in Heap => p.alloc_stack[i] \in heap

(* How far PoolInit has got. *)
FillProgress ==
    /\ life \in {"filling", "live"} => p.max_buckets = Size
    /\ life \in {"new", "filling"} => held = {}
    /\ life = "filling" /\ Size > 0 =>
        /\ Len(p.alloc_stack) = u32
        /\ \A i \in 1 .. Len(p.alloc_stack) : p.alloc_stack[i] = i - 1
    /\ life = "new" => p.alloc_stack = <<>> /\ u32 = 0

IInv ==
    /\ TypeOK /\ NoAliasing /\ CountersExact /\ BucketsConserved
    /\ HeapTracked /\ FillProgress /\ IsFiniteSet(held)

-----------------------------------------------------------------------------
(* The record's shape and its fields, as the provers need them. *)
LEMMA RecordShape ==
    ASSUME TypeOK
    PROVE  p = [max_buckets |-> p.max_buckets, alloc_stack |-> p.alloc_stack,
                empty_stack_size |-> p.empty_stack_size, allocated |-> p.allocated,
                outstanding |-> p.outstanding, max_outstanding |-> p.max_outstanding]
BY DEF TypeOK

(* The types of the fields. *)
LEMMA FieldTypes ==
    ASSUME TypeOK
    PROVE  /\ p.alloc_stack \in Seq(Addr) /\ p.empty_stack_size \in Nat /\ p.allocated \in Nat
           /\ p.outstanding \in Nat /\ p.max_outstanding \in Nat /\ p.max_buckets \in {0, Size}
           /\ Len(p.alloc_stack) \in Nat
BY DEF TypeOK

(* The initial state. *)
LEMMA InitIInv == Init => IInv
<1> SUFFICES ASSUME Init PROVE IInv
    OBVIOUS
<1> USE SizeAssumption, HeapAssumption
<1>1. p = [max_buckets |-> 0, alloc_stack |-> <<>>, empty_stack_size |-> 0,
           allocated |-> 0, outstanding |-> 0, max_outstanding |-> 0]
    BY DEF Init, PoolSetup
<1>2. TypeOK
  <2>1. <<>> \in Seq(Addr)
    OBVIOUS
  <2>2. p \in [max_buckets : {0, Size}, alloc_stack : Seq(Addr), empty_stack_size : Nat,
                allocated : Nat, outstanding : Nat, max_outstanding : Nat]
    BY <1>1, <2>1
  <2>3. u32 \in 0 .. Prealloc
    BY DEF Init
  <2>4. cleaned \in [Addr -> Nat]
    BY DEF Init
  <2> QED BY <2>2, <2>3, <2>4 DEF Init, TypeOK
<1>3. IsFiniteSet(held) /\ Cardinality(held) = 0
    BY FS_EmptySet DEF Init
<1>4. NoAliasing /\ CountersExact /\ BucketsConserved /\ HeapTracked /\ FillProgress
    BY <1>1, <1>3 DEF Init, NoAliasing, CountersExact, BucketsConserved, HeapTracked, FillProgress
<1> QED BY <1>2, <1>3, <1>4 DEF IInv

-----------------------------------------------------------------------------
Records == [max_buckets : {0, Size}, alloc_stack : Seq(Addr), empty_stack_size : Nat,
            allocated : Nat, outstanding : Nat, max_outstanding : Nat]

(* The steps of PoolInit. *)
LEMMA BeginStep == IInv /\ PoolInitBegin => IInv'
<1> SUFFICES ASSUME IInv, PoolInitBegin PROVE IInv'
    OBVIOUS
<1> USE SizeAssumption, HeapAssumption
<1>1. TypeOK /\ held = {} /\ held' = held /\ u32' = u32 /\ heap' = heap /\ cleaned' = cleaned
      /\ p.alloc_stack = <<>> /\ p.outstanding = Cardinality({})
    BY DEF IInv, PoolInitBegin, FillProgress, CountersExact
<1>2. IsFiniteSet(held') /\ Cardinality(held') = 0
    BY <1>1, FS_EmptySet
<1>3. CASE life' = "failed" /\ p' = p
    BY <1>1, <1>2, <1>3 DEF IInv, TypeOK, NoAliasing, CountersExact, BucketsConserved,
                            HeapTracked, FillProgress
<1>4. CASE life' = "filling" /\ p' = PoolSetup(Size)
  <2>1. p' = [max_buckets |-> Size, alloc_stack |-> <<>>, empty_stack_size |-> Size,
              allocated |-> 0, outstanding |-> 0, max_outstanding |-> 0]
    BY <1>4 DEF PoolSetup
  <2>2. <<>> \in Seq(Addr)
    OBVIOUS
  <2>3. p' \in Records
    BY <2>1, <2>2 DEF Records
  <2>4. TypeOK'
    BY <1>1, <1>4, <2>3 DEF TypeOK, Records
  <2>5. u32 = 0
    BY <1>1 DEF IInv, FillProgress, PoolInitBegin
  <2> QED BY <1>1, <1>2, <1>4, <2>1, <2>4, <2>5 DEF IInv, NoAliasing, CountersExact,
               BucketsConserved, HeapTracked, FillProgress
<1> QED BY <1>3, <1>4 DEF PoolInitBegin

(* An element is queued: its address is not on the alloc list yet, and a   *)
(* bounded pool has a bucket left for it.                                  *)
LEMMA ElementStep == IInv /\ PoolInitElement => IInv'
<1> SUFFICES ASSUME IInv, PoolInitElement PROVE IInv'
    OBVIOUS
<1> USE SizeAssumption, HeapAssumption
<1>1. PICK a \in Candidates : p' = PoolFill(p, a) /\ heap' = heap \union ({a} \ Buffer)
                               /\ cleaned' = [cleaned EXCEPT ![a] = 0]
    BY DEF PoolInitElement
<1>2. TypeOK /\ life = "filling" /\ life' = life /\ u32 < Prealloc /\ u32' = u32 + 1
      /\ held = {} /\ held' = {} /\ p.max_buckets = Size
    BY DEF IInv, PoolInitElement, FillProgress
<1>3. u32 \in Nat /\ u32' \in 0 .. Prealloc
    BY <1>2 DEF TypeOK
<1>4. a \in Addr /\ (a \in Buffer => Size > 0) /\ heap' \subseteq Heap
      /\ (a \in Heap => a \in heap')
    BY <1>1, <1>2, <1>3 DEF Candidates, Addr, Buffer, TypeOK
<1>5. \A i \in 1 .. Len(p.alloc_stack) : p.alloc_stack[i] # a
  <2>1. CASE Size > 0
    BY <1>2, <1>3, <2>1, FieldTypes DEF Candidates, IInv, FillProgress
  <2>2. CASE Size = 0
    BY <1>2, <2>2, FieldTypes DEF Candidates, IInv, HeapTracked
  <2> QED BY <2>1, <2>2
<1>6. p' = [max_buckets |-> Size, alloc_stack |-> Append(p.alloc_stack, a),
            empty_stack_size |-> IF Size = 0 THEN p.empty_stack_size ELSE p.empty_stack_size - 1,
            allocated |-> p.allocated + 1, outstanding |-> p.outstanding,
            max_outstanding |-> p.max_outstanding]
    BY <1>1, <1>2, RecordShape DEF PoolFill
<1>7. Size > 0 => p.empty_stack_size - 1 \in Nat
    BY <1>2, <1>3, FieldTypes DEF IInv, FillProgress, BucketsConserved
<1>8. /\ Append(p.alloc_stack, a) \in Seq(Addr)
      /\ Len(Append(p.alloc_stack, a)) = Len(p.alloc_stack) + 1
      /\ \A i \in 1 .. Len(p.alloc_stack) + 1 :
            Append(p.alloc_stack, a)[i] = IF i = Len(p.alloc_stack) + 1 THEN a ELSE p.alloc_stack[i]
    BY <1>2, <1>4, FieldTypes
<1>9. TypeOK'
  <2>1. p' \in Records
    BY <1>2, <1>6, <1>7, <1>8, FieldTypes DEF Records
  <2>2. cleaned' \in [Addr -> Nat]
    BY <1>1, <1>2 DEF TypeOK
  <2> QED BY <2>1, <2>2, <1>2, <1>3, <1>4 DEF TypeOK, Records
<1>10. IsFiniteSet(held') /\ Cardinality(held') = 0 /\ Cardinality(held) = 0
    BY <1>2, FS_EmptySet
<1>11. NoAliasing'
    BY <1>2, <1>5, <1>6, <1>8, FieldTypes DEF NoAliasing, IInv
<1>12. CountersExact'
  <2>1. p.outstanding = 0 /\ p.allocated = Len(p.alloc_stack)
    BY <1>2, <1>10, FieldTypes DEF CountersExact, IInv
  <2>2. p'.outstanding = 0 /\ p'.allocated = Len(p.alloc_stack) + 1
        /\ Len(p'.alloc_stack) = Len(p.alloc_stack) + 1 /\ p'.max_outstanding \in Nat
    BY <1>2, <1>6, <1>8, <2>1, FieldTypes
  <2> QED BY <1>2, <1>10, <2>2, FieldTypes DEF CountersExact
<1>13. BucketsConserved'
    BY <1>2, <1>3, <1>6, <1>8, <1>12, <1>10, FieldTypes DEF BucketsConserved, CountersExact, IInv, FillProgress
<1>14. HeapTracked'
    BY <1>1, <1>2, <1>4, <1>6, <1>8, FieldTypes DEF HeapTracked, IInv
<1>15. FillProgress'
    BY <1>2, <1>3, <1>6, <1>8, FieldTypes DEF FillProgress, IInv, Candidates
<1> QED BY <1>9, <1>10, <1>11, <1>12, <1>13, <1>14, <1>15 DEF IInv

(* PoolFree, on its own or at the end of a failed PoolInit: the alloc list *)
(* is gone, the client's elements are not touched.                         *)
LEMMA FreeStep ==
    ASSUME IInv, NEW extra \in SUBSET Buffer, NEW counts \in [Addr -> Nat], PoolFreeWith(extra, counts),
           life' \in {"failed", "freed"}
    PROVE  IInv'
<1> USE SizeAssumption, HeapAssumption
<1>1. /\ TypeOK /\ held' = held /\ u32' = u32
      /\ heap' = FreeHeap(Range(p.alloc_stack) \union extra)
      /\ p' = [p EXCEPT !.alloc_stack = <<>>, !.empty_stack_size = 0]
    BY DEF IInv, PoolFreeWith
<1>2. p' = [max_buckets |-> p.max_buckets, alloc_stack |-> <<>>, empty_stack_size |-> 0,
            allocated |-> p.allocated, outstanding |-> p.outstanding,
            max_outstanding |-> p.max_outstanding]
    BY <1>1, RecordShape
<1>3. cleaned' \in [Addr -> Nat]
    BY DEF PoolFreeWith
<1>4. TypeOK'
  <2>1. <<>> \in Seq(Addr)
    OBVIOUS
  <2>2. p' \in Records
    <3>1. TypeOK
      BY <1>1
    <3>2. 0 \in Nat
      OBVIOUS
    <3> QED BY ONLY <1>2, <2>1, <3>2, <3>1, FieldTypes DEF Records
  <2>3. heap' \subseteq Heap
    BY <1>1 DEF FreeHeap, TypeOK
  <2> QED BY <1>1, <1>3, <2>2, <2>3 DEF TypeOK, Records
<1>5. HeapTracked'
  <2>1. ASSUME NEW a \in held, a \in Heap PROVE a \in heap'
    <3>1. a \in heap
      BY <2>1 DEF IInv, HeapTracked
    <3>2. a \notin Range(p.alloc_stack)
      <4>1. DOMAIN p.alloc_stack = 1 .. Len(p.alloc_stack)
        BY <1>1, FieldTypes
      <4> QED BY <2>1, <4>1 DEF IInv, NoAliasing, Range
    <3>3. a \notin extra
      BY <2>1 DEF Buffer
    <3> QED BY <1>1, <3>1, <3>2, <3>3 DEF FreeHeap
  <2>2. p'.alloc_stack = <<>>
    BY ONLY <1>2
  <2>3. 1 .. Len(p'.alloc_stack) = {}
    BY ONLY <2>2
  <2>4. held' = held
    BY ONLY <1>1
  <2> QED BY ONLY <2>1, <2>3, <2>4 DEF HeapTracked
<1> QED BY <1>1, <1>2, <1>4, <1>5, FieldTypes DEF IInv, NoAliasing, CountersExact,
             BucketsConserved, FillProgress

(* The four operations that end in PoolFree's loop. *)
LEMMA FailStep ==
    IInv /\ (PoolInitRejectsSlice \/ PoolInitRejectsHeap \/ PoolInitOutOfMemory \/ PoolFree) => IInv'
<1> SUFFICES ASSUME IInv PROVE PoolInitRejectsSlice \/ PoolInitRejectsHeap
                               \/ PoolInitOutOfMemory \/ PoolFree => IInv'
    OBVIOUS
<1> USE SizeAssumption, HeapAssumption
<1>1. cleaned \in [Addr -> Nat] /\ u32 \in Nat /\ {} \in SUBSET Buffer
    BY DEF IInv, TypeOK
<1>2. ASSUME PoolInitRejectsSlice PROVE IInv'
  <2>1. u32 \in Buffer /\ [cleaned EXCEPT ![u32] = 1] \in [Addr -> Nat]
    BY <1>1, <1>2 DEF PoolInitRejectsSlice, Buffer, Addr
  <2> QED BY <1>2, <2>1, FreeStep DEF PoolInitRejectsSlice
<1>3. ASSUME PoolInitRejectsHeap PROVE IInv'
  <2>1. PICK a \in Heap \ heap : PoolFreeWith({}, [cleaned EXCEPT ![a] = 1])
    BY <1>3 DEF PoolInitRejectsHeap
  <2>2. [cleaned EXCEPT ![a] = 1] \in [Addr -> Nat]
    BY <1>1
  <2> QED BY <1>1, <1>3, <2>1, <2>2, FreeStep DEF PoolInitRejectsHeap
<1>4. ASSUME PoolInitOutOfMemory PROVE IInv'
    BY <1>1, <1>4, FreeStep DEF PoolInitOutOfMemory
<1>5. ASSUME PoolFree PROVE IInv'
    BY <1>1, <1>5, FreeStep DEF PoolFree
<1> QED BY <1>2, <1>3, <1>4, <1>5

(* PoolInit hands the pool over. *)
LEMMA EndStep == IInv /\ PoolInitEnd => IInv'
<1> SUFFICES ASSUME IInv, PoolInitEnd PROVE IInv'
    OBVIOUS
<1> QED BY DEF IInv, PoolInitEnd, TypeOK, NoAliasing, CountersExact, BucketsConserved,
               HeapTracked, FillProgress

-----------------------------------------------------------------------------
(* PoolGet from the alloc list: the top was with nobody, so one more       *)
(* element is held and the counter follows.                                *)
LEMMA GetQueuedStep == IInv /\ PoolGetQueued => IInv'
<1> SUFFICES ASSUME IInv, PoolGetQueued PROVE IInv'
    OBVIOUS
<1> USE SizeAssumption, HeapAssumption
<1> DEFINE n == Len(p.alloc_stack)
           top == p.alloc_stack[n]
           rest == SubSeq(p.alloc_stack, 1, n - 1)
<1>1. /\ TypeOK /\ life = "live" /\ life' = life /\ u32' = u32 /\ heap' = heap
      /\ cleaned' = cleaned /\ p.alloc_stack # <<>> /\ p' = PoolPull(p)
      /\ held' = held \union {top} /\ IsFiniteSet(held)
    BY DEF IInv, PoolGetQueued, PoolHasElement, PoolTop
<1>2. n \in Nat /\ n >= 1 /\ p.alloc_stack \in Seq(Addr)
    BY <1>1, FieldTypes
<1>3. /\ rest \in Seq(Addr) /\ Len(rest) = n - 1
      /\ \A i \in 1 .. n - 1 : rest[i] = p.alloc_stack[i]
    BY <1>2
<1>4. top \in Addr /\ top \notin held
    BY <1>2 DEF IInv, NoAliasing
<1>5. IsFiniteSet(held') /\ Cardinality(held') = Cardinality(held) + 1
    BY <1>1, <1>4, FS_AddElement
<1>6. \E mo \in Nat : mo >= p.outstanding + 1 /\ 
        p' = [max_buckets |-> p.max_buckets, alloc_stack |-> rest,
              empty_stack_size |-> p.empty_stack_size + 1, allocated |-> p.allocated,
              outstanding |-> p.outstanding + 1, max_outstanding |-> mo]
  <2> DEFINE mo == IF p.outstanding + 1 > p.max_outstanding THEN p.outstanding + 1
                   ELSE p.max_outstanding
  <2>1. p' = [max_buckets |-> p.max_buckets, alloc_stack |-> rest,
              empty_stack_size |-> p.empty_stack_size + 1, allocated |-> p.allocated,
              outstanding |-> p.outstanding + 1, max_outstanding |-> mo]
    BY <1>1, RecordShape DEF PoolPull, CountOut
  <2>2. mo \in Nat /\ mo >= p.outstanding + 1
    BY <1>1, FieldTypes
  <2> QED BY <2>1, <2>2
<1>7. PICK mo \in Nat : mo >= p.outstanding + 1 /\ 
        p' = [max_buckets |-> p.max_buckets, alloc_stack |-> rest,
              empty_stack_size |-> p.empty_stack_size + 1, allocated |-> p.allocated,
              outstanding |-> p.outstanding + 1, max_outstanding |-> mo]
    BY <1>6
<1> HIDE DEF rest, top
<1>8. TypeOK'
  <2>1. p' \in Records
    BY <1>1, <1>3, <1>7, FieldTypes DEF Records
  <2> QED BY <1>1, <1>4, <2>1 DEF TypeOK, Records
<1>9. /\ Len(p'.alloc_stack) = n - 1 /\ p'.alloc_stack = rest /\ p'.allocated = p.allocated
      /\ p'.outstanding = p.outstanding + 1 /\ p'.max_outstanding = mo
      /\ p'.empty_stack_size = p.empty_stack_size + 1 /\ p'.max_buckets = p.max_buckets
    BY <1>3, <1>7
<1>10. NoAliasing'
  <2>1. \A i \in 1 .. n - 1 : p.alloc_stack[i] # top
    BY <1>2 DEF IInv, NoAliasing, top
  <2>2. \A i \in 1 .. n - 1 : rest[i] \notin held'
    BY <1>1, <1>2, <1>3, <2>1 DEF IInv, NoAliasing
  <2>3. \A i, j \in 1 .. n - 1 : rest[i] = rest[j] => i = j
    BY <1>2, <1>3 DEF IInv, NoAliasing
  <2> QED BY <1>9, <2>2, <2>3 DEF NoAliasing
<1>11. CountersExact'
  <2>1. Cardinality(held) \in Nat
    BY <1>1, FS_CardinalityType
  <2> QED BY <1>1, <1>2, <1>5, <1>7, <1>9, <2>1, FieldTypes, SMTT(30) DEF IInv, CountersExact
<1>12. BucketsConserved'
  <2>1. BucketsConserved /\ life' = life
    BY ONLY <1>1, IInv DEF IInv
  <2>2. p.empty_stack_size \in Nat
    BY ONLY <1>1, FieldTypes
  <2>3. p'.empty_stack_size + Len(p'.alloc_stack) = p.empty_stack_size + n
    BY ONLY <1>2, <1>9, <2>2
  <2>4. p'.allocated = p.allocated
    BY ONLY <1>9
  <2> QED BY ONLY <2>1, <2>3, <2>4 DEF BucketsConserved
<1>13. HeapTracked'
    BY <1>1, <1>2, <1>3, <1>9 DEF IInv, HeapTracked, top
<1>14. FillProgress'
    BY <1>1, <1>9 DEF IInv, FillProgress
<1> QED BY <1>5, <1>8, <1>10, <1>11, <1>12, <1>13, <1>14 DEF IInv

(* PoolGet grows the pool: malloc's address is new to the pool and to the  *)
(* client because all their heap elements are still allocated.             *)
LEMMA GetGrowsStep == IInv /\ PoolGetGrows => IInv'
<1> SUFFICES ASSUME IInv, PoolGetGrows PROVE IInv'
    OBVIOUS
<1> USE SizeAssumption, HeapAssumption
<1>1. PICK a \in Heap \ heap : p' = PoolGrow(p) /\ held' = held \union {a}
                               /\ heap' = heap \union {a} /\ cleaned' = [cleaned EXCEPT ![a] = 0]
    BY DEF PoolGetGrows
<1>2. /\ TypeOK /\ life = "live" /\ life' = life /\ u32' = u32 /\ p.alloc_stack = <<>>
      /\ IsFiniteSet(held) /\ PoolMayGrow(p)
    BY DEF IInv, PoolGetGrows, PoolHasElement
<1>3. a \in Addr /\ a \notin held /\ Len(p.alloc_stack) = 0
    BY <1>2 DEF Addr, IInv, HeapTracked
<1>4. IsFiniteSet(held') /\ Cardinality(held') = Cardinality(held) + 1
    BY <1>1, <1>2, <1>3, FS_AddElement
<1>5. \E mo \in Nat : mo >= p.outstanding + 1 /\
        p' = [max_buckets |-> p.max_buckets, alloc_stack |-> p.alloc_stack,
              empty_stack_size |-> p.empty_stack_size, allocated |-> p.allocated + 1,
              outstanding |-> p.outstanding + 1, max_outstanding |-> mo]
  <2> DEFINE mo == IF p.outstanding + 1 > p.max_outstanding THEN p.outstanding + 1
                   ELSE p.max_outstanding
  <2>1. p' = [max_buckets |-> p.max_buckets, alloc_stack |-> p.alloc_stack,
              empty_stack_size |-> p.empty_stack_size, allocated |-> p.allocated + 1,
              outstanding |-> p.outstanding + 1, max_outstanding |-> mo]
    BY <1>1, <1>2, RecordShape DEF PoolGrow, CountOut
  <2>2. mo \in Nat /\ mo >= p.outstanding + 1
    BY <1>2, FieldTypes
  <2> QED BY <2>1, <2>2
<1>6. PICK mo \in Nat : mo >= p.outstanding + 1 /\
        p' = [max_buckets |-> p.max_buckets, alloc_stack |-> p.alloc_stack,
              empty_stack_size |-> p.empty_stack_size, allocated |-> p.allocated + 1,
              outstanding |-> p.outstanding + 1, max_outstanding |-> mo]
    BY <1>5
<1>7. TypeOK'
  <2>1. p' \in Records
    BY <1>2, <1>6, FieldTypes DEF Records
  <2>2. cleaned' \in [Addr -> Nat]
    BY <1>1, <1>2 DEF TypeOK
  <2> QED BY <1>1, <1>2, <1>3, <2>1, <2>2 DEF TypeOK, Records
<1>8. /\ p'.alloc_stack = <<>> /\ Len(p'.alloc_stack) = 0 /\ p'.allocated = p.allocated + 1
      /\ p'.outstanding = p.outstanding + 1 /\ p'.max_outstanding = mo
      /\ p'.empty_stack_size = p.empty_stack_size /\ p'.max_buckets = p.max_buckets
    BY <1>2, <1>3, <1>6
<1>9. NoAliasing' /\ HeapTracked' /\ FillProgress'
    BY <1>1, <1>2, <1>8 DEF IInv, NoAliasing, HeapTracked, FillProgress
<1>10. CountersExact'
  <2>1. Cardinality(held) \in Nat
    BY <1>2, FS_CardinalityType
  <2> QED BY <1>2, <1>3, <1>4, <1>6, <1>8, <2>1, FieldTypes DEF IInv, CountersExact
<1>11. BucketsConserved'
    BY <1>2, <1>3, <1>8, FieldTypes DEF IInv, BucketsConserved, PoolMayGrow, FillProgress
<1> QED BY <1>4, <1>7, <1>9, <1>10, <1>11 DEF IInv

(* PoolGet gives nothing out. *)
LEMMA GetNothingStep == IInv /\ (PoolGetRejects \/ PoolGetNull \/ UNCHANGED vars) => IInv'
<1> SUFFICES ASSUME IInv, PoolGetRejects \/ PoolGetNull \/ UNCHANGED vars PROVE IInv'
    OBVIOUS
<1>1. p' = p /\ life' = life /\ u32' = u32 /\ held' = held /\ heap' = heap
    BY DEF PoolGetRejects, PoolGetNull, vars
<1>2. cleaned' \in [Addr -> Nat]
  <2>1. cleaned \in [Addr -> Nat]
    BY DEF IInv, TypeOK
  <2>2. CASE PoolGetRejects
    <3>1. PICK a \in Heap \ heap : cleaned' = [cleaned EXCEPT ![a] = 1]
      BY <2>2 DEF PoolGetRejects
    <3> QED BY <2>1, <3>1
  <2>3. CASE PoolGetNull \/ UNCHANGED vars
    BY <2>1, <2>3 DEF PoolGetNull, vars
  <2> QED BY <2>2, <2>3
<1> QED BY <1>1, <1>2 DEF IInv, TypeOK, NoAliasing, CountersExact, BucketsConserved,
                          HeapTracked, FillProgress

(* PoolReturn: the client holds the element, so `outstanding' is above     *)
(* zero; a bounded pool that has given an element out has a bucket for it. *)
LEMMA ReturnStep == ASSUME IInv, NEW a \in held, PoolReturn(a) PROVE IInv'
<1> USE SizeAssumption, HeapAssumption
<1> DEFINE n == Len(p.alloc_stack)
<1>1. /\ TypeOK /\ life = "live" /\ life' = life /\ u32' = u32 /\ held' = held \ {a}
      /\ IsFiniteSet(held) /\ p' = PoolReturned(p, a) /\ a \in Addr
    BY DEF IInv, PoolReturn, TypeOK
<1>2. /\ IsFiniteSet(held') /\ Cardinality(held') = Cardinality(held) - 1
      /\ Cardinality(held) \in Nat /\ Cardinality(held') \in Nat
    BY <1>1, FS_RemoveElement, FS_CardinalityType
<1>3. p.outstanding = Cardinality(held) /\ p.outstanding - 1 \in Nat /\ n \in Nat
      /\ p.allocated = n + Cardinality(held) /\ p.allocated - 1 \in Nat
    BY <1>1, <1>2, FieldTypes DEF IInv, CountersExact
<1>4. CASE PoolDrops(p)
  <2>1. p' = [max_buckets |-> p.max_buckets, alloc_stack |-> p.alloc_stack,
              empty_stack_size |-> p.empty_stack_size, allocated |-> p.allocated - 1,
              outstanding |-> p.outstanding - 1, max_outstanding |-> p.max_outstanding]
    BY <1>1, <1>4, RecordShape DEF PoolReturned, PoolReturnDrop
  <2>2. /\ p'.alloc_stack = p.alloc_stack /\ p'.allocated = p.allocated - 1
        /\ p'.outstanding = p.outstanding - 1 /\ p'.max_outstanding = p.max_outstanding
        /\ p'.empty_stack_size = p.empty_stack_size /\ p'.max_buckets = p.max_buckets
    BY <2>1
  <2>3. heap' = FreeHeap({a}) /\ cleaned' = [cleaned EXCEPT ![a] = @ + 1]
    BY <1>4 DEF PoolReturn
  <2>4. TypeOK'
    <3>1. p' \in Records
      BY <1>1, <1>3, <2>1, FieldTypes DEF Records
    <3>2. cleaned' \in [Addr -> Nat]
      BY <1>1, <2>3 DEF TypeOK
    <3>3. heap' \subseteq Heap
      BY <1>1, <2>3 DEF TypeOK, FreeHeap
    <3> QED BY <1>1, <3>1, <3>2, <3>3 DEF TypeOK, Records
  <2>5. NoAliasing' /\ FillProgress'
    BY <1>1, <2>2 DEF IInv, NoAliasing, FillProgress
  <2>6. CountersExact'
    BY <1>1, <1>2, <1>3, <2>2, FieldTypes DEF IInv, CountersExact
  <2>7. BucketsConserved'
    BY <1>1, <1>3, <2>2, FieldTypes DEF IInv, BucketsConserved
  <2>8. HeapTracked'
    BY <1>1, <2>2, <2>3 DEF IInv, HeapTracked, FreeHeap, NoAliasing
  <2> QED BY <1>2, <2>4, <2>5, <2>6, <2>7, <2>8 DEF IInv
<1>5. CASE ~PoolDrops(p)
  <2> DEFINE pushed == Append(p.alloc_stack, a)
  <2>1. p' = [max_buckets |-> p.max_buckets, alloc_stack |-> pushed,
              empty_stack_size |-> p.empty_stack_size - 1, allocated |-> p.allocated,
              outstanding |-> p.outstanding - 1, max_outstanding |-> p.max_outstanding]
    BY <1>1, <1>5, RecordShape DEF PoolReturned, PoolReturnPush
  <2>2. /\ pushed \in Seq(Addr) /\ Len(pushed) = n + 1
        /\ \A i \in 1 .. n + 1 : pushed[i] = IF i = n + 1 THEN a ELSE p.alloc_stack[i]
    BY <1>1, FieldTypes
  <2>3. /\ Len(p'.alloc_stack) = n + 1 /\ p'.allocated = p.allocated
        /\ p'.outstanding = p.outstanding - 1 /\ p'.max_outstanding = p.max_outstanding
        /\ p'.empty_stack_size = p.empty_stack_size - 1 /\ p'.max_buckets = p.max_buckets
        /\ \A i \in 1 .. n + 1 :
              p'.alloc_stack[i] = IF i = n + 1 THEN a ELSE p.alloc_stack[i]
    BY <2>1, <2>2
  <2>4. heap' = heap /\ cleaned' = cleaned
    BY <1>5 DEF PoolReturn
  <2>5. p.empty_stack_size - 1 \in Nat
    BY <1>1, <1>5, FieldTypes DEF PoolDrops
  <2>6. TypeOK'
    <3>1. p' \in Records
      BY <1>1, <1>3, <2>1, <2>2, <2>5, FieldTypes DEF Records
    <3> QED BY <1>1, <2>4, <3>1 DEF TypeOK, Records
  <2> HIDE DEF n
  <2>7. NoAliasing'
    <3>1. \A i \in 1 .. n : p.alloc_stack[i] # a /\ p.alloc_stack[i] \notin held
      BY DEF IInv, NoAliasing, n
    <3>2. \A i, j \in 1 .. n : p.alloc_stack[i] = p.alloc_stack[j] => i = j
      BY DEF IInv, NoAliasing, n
    <3>3. \A i, j \in 1 .. n + 1 : p'.alloc_stack[i] = p'.alloc_stack[j] => i = j
      BY <1>3, <2>3, <3>1, <3>2
    <3>4. \A i \in 1 .. n + 1 : p'.alloc_stack[i] \notin held'
      BY <1>1, <1>3, <2>3, <3>1
    <3> QED BY <2>3, <3>3, <3>4 DEF NoAliasing
  <2>8. CountersExact'
    <3>1. p.max_outstanding >= p.outstanding /\ p.max_outstanding \in Nat
      BY <1>1, FieldTypes DEF IInv, CountersExact
    <3>2. p'.outstanding = Cardinality(held')
      BY <1>2, <1>3, <2>3
    <3>3. p'.allocated = Len(p'.alloc_stack) + Cardinality(held')
      BY <1>2, <1>3, <2>3
    <3>4. p'.max_outstanding >= p'.outstanding
      BY <1>2, <1>3, <2>3, <3>1
    <3> QED BY <3>2, <3>3, <3>4 DEF CountersExact
  <2>9. BucketsConserved'
    <3>1. Size > 0 => p.empty_stack_size + n = Size /\ p.allocated <= Size
      BY <1>1 DEF IInv, BucketsConserved, n
    <3>2. p.empty_stack_size \in Nat
      BY <1>1, FieldTypes
    <3>3. /\ p'.empty_stack_size + Len(p'.alloc_stack) = p.empty_stack_size + n
          /\ p'.allocated = p.allocated
      <4>1. /\ p'.empty_stack_size = p.empty_stack_size - 1 /\ p'.allocated = p.allocated
            /\ Len(p'.alloc_stack) = n + 1
        BY ONLY <2>3
      <4>2. n \in Nat
        BY ONLY <1>3
      <4>3. (p.empty_stack_size - 1) + (n + 1) = p.empty_stack_size + n
        BY ONLY <3>2, <4>2
      <4> QED BY ONLY <4>1, <4>3
    <3> QED BY ONLY <3>1, <3>3 DEF BucketsConserved
  <2>10. HeapTracked'
    <3>1. \A i \in 1 .. n : p.alloc_stack[i] \in Heap => p.alloc_stack[i] \in heap
      BY DEF IInv, HeapTracked, n
    <3>2. \A b \in held : b \in Heap => b \in heap
      BY DEF IInv, HeapTracked
    <3>3. \A i \in 1 .. n + 1 : p'.alloc_stack[i] \in Heap => p'.alloc_stack[i] \in heap'
      BY <1>3, <2>3, <2>4, <3>1, <3>2
    <3> QED BY <1>1, <2>3, <2>4, <3>2, <3>3 DEF HeapTracked
  <2>11. FillProgress'
    BY <1>1, <2>3 DEF IInv, FillProgress
  <2> QED BY <1>2, <2>6, <2>7, <2>8, <2>9, <2>10, <2>11 DEF IInv
<1> QED BY <1>4, <1>5

-----------------------------------------------------------------------------
(* The invariant holds in every state of every pool. *)
THEOREM PoolInvariant == Spec => []IInv
<1>1. Init => IInv
    BY InitIInv
<1>2. IInv /\ [Next]_vars => IInv'
  <2> SUFFICES ASSUME IInv, [Next]_vars PROVE IInv'
    OBVIOUS
  <2> QED BY BeginStep, ElementStep, EndStep, FailStep, GetQueuedStep, GetGrowsStep,
             GetNothingStep, ReturnStep DEF Next
<1> QED BY <1>1, <1>2, PTL DEF Spec

(* Type correctness: no counter of struct Pool_ (pool.h:60-68) underflows. *)
THEOREM TypeCorrect == Spec => []TypeOK
<1>1. IInv => TypeOK
    BY DEF IInv
<1> QED BY <1>1, PoolInvariant, PTL

(* PoolGet and PoolReturn never let one element be in two places. *)
THEOREM PoolNeverAliases == Spec => []NoAliasing
<1>1. IInv => NoAliasing
    BY DEF IInv
<1> QED BY <1>1, PoolInvariant, PTL

(* `outstanding', `allocated' and `max_outstanding' say what pool.h claims *)
(* of them, in PoolInit, PoolGet, PoolReturn and PoolFree.                 *)
THEOREM PoolCountsExactly == Spec => []CountersExact
<1>1. IInv => CountersExact
    BY DEF IInv
<1> QED BY <1>1, PoolInvariant, PTL

(* A bounded pool of any size, whatever PoolInit preallocated and PoolGet  *)
(* added: PoolReturn always finds a bucket, and PoolGet's early NULL means *)
(* that the client holds all Size elements.                                *)
THEOREM PoolLimitExact == Spec => []LimitExact
<1>1. IInv => BucketsConserved
    BY DEF IInv
<1>2. IInv => ExhaustedMeansAllHeld
  <2> SUFFICES ASSUME IInv, life = "live", PoolExhausted(p)
               PROVE Size > 0 /\ Cardinality(held) = Size
    BY DEF ExhaustedMeansAllHeld
  <2>1. TypeOK /\ p.max_buckets = Size /\ p.alloc_stack = <<>> /\ p.max_buckets # 0
        /\ ~(p.allocated < p.max_buckets)
    BY DEF IInv, FillProgress, PoolExhausted, PoolHasElement, PoolMayGrow
  <2>2. Size > 0 /\ p.allocated = Size
    BY <2>1, SizeAssumption, FieldTypes DEF IInv, BucketsConserved
  <2>3. p.allocated = Len(p.alloc_stack) + Cardinality(held) /\ Len(p.alloc_stack) = 0
        /\ Cardinality(held) \in Nat
    BY <2>1, FS_CardinalityType DEF IInv, CountersExact
  <2> QED BY <2>2, <2>3
<1>3. IInv => LimitExact
    BY <1>1, <1>2 DEF LimitExact
<1> QED BY <1>3, PoolInvariant, PTL

-----------------------------------------------------------------------------
(* The promise to the client, and what is cleaned and freed.               *)

(* The elements on the alloc list. *)
Queued == Range(p.alloc_stack)

(* Before PoolInit the record is that of no pool: a failure that finds a   *)
(* bucket array is one of PoolInit's loop.                                 *)
NewIsUnset == life = "new" => p.max_buckets = 0

PromiseInv == IInv /\ NewIsUnset /\ CleanupOnce

-----------------------------------------------------------------------------
(* The elements of a sequence, and what Append adds to them. *)
LEMMA RangeIs ==
    ASSUME NEW S, NEW s \in Seq(S)
    PROVE  Range(s) = {s[i] : i \in 1 .. Len(s)}
<1>1. DOMAIN s = 1 .. Len(s)
    OBVIOUS
<1> QED BY <1>1, Zenon DEF Range

(* Append adds the new element. *)
LEMMA RangeAppend ==
    ASSUME NEW S, NEW s \in Seq(S), NEW a \in S
    PROVE  Range(Append(s, a)) = Range(s) \union {a}
<1> DEFINE t == Append(s, a)
           n == Len(s)
<1>1. /\ t \in Seq(S) /\ Len(t) = n + 1 /\ n \in Nat
      /\ \A i \in 1 .. n + 1 : t[i] = IF i = n + 1 THEN a ELSE s[i]
    OBVIOUS
<1>2. Range(t) = {t[i] : i \in 1 .. Len(t)} /\ Range(s) = {s[i] : i \in 1 .. Len(s)}
  <2> HIDE DEF t
  <2> QED BY <1>1, RangeIs
<1> HIDE DEF t, n
<1>3. ASSUME NEW x \in Range(t) PROVE x \in Range(s) \union {a}
  <2>1. PICK i \in 1 .. n + 1 : x = t[i]
    BY <1>1, <1>2, <1>3
  <2>2. CASE i = n + 1
    BY <1>1, <2>1, <2>2
  <2>3. CASE i # n + 1
    <3>1. i \in 1 .. Len(s) /\ x = s[i]
      BY <1>1, <2>1, <2>3 DEF n
    <3> QED BY <1>2, <3>1
  <2> QED BY <2>2, <2>3
<1>4. ASSUME NEW x \in Range(s) PROVE x \in Range(t)
  <2>1. PICK i \in 1 .. Len(s) : x = s[i]
    BY <1>2, <1>4
  <2>2. i \in 1 .. n + 1 /\ i # n + 1
    BY <1>1, <2>1 DEF n
  <2>3. t[i] = x
    BY <1>1, <2>1, <2>2
  <2> QED BY <1>1, <1>2, <2>2, <2>3
<1>5. a \in Range(t)
  <2>1. n + 1 \in 1 .. n + 1 /\ t[n + 1] = a
    BY <1>1
  <2> QED BY <1>1, <1>2, <2>1
<1> QED BY <1>3, <1>4, <1>5 DEF t

(* What IInv says of the elements on the alloc list. *)
LEMMA QueuedFacts ==
    ASSUME IInv
    PROVE  /\ Queued \subseteq Addr /\ Queued \cap held = {}
           /\ \A a \in Queued : a \in Heap => a \in heap
           /\ p.alloc_stack = <<>> <=> Queued = {}
<1>1. TypeOK /\ NoAliasing /\ HeapTracked
    BY DEF IInv
<1>2. p.alloc_stack \in Seq(Addr) /\ Len(p.alloc_stack) \in Nat
    BY <1>1, FieldTypes
<1>3. Queued = {p.alloc_stack[i] : i \in 1 .. Len(p.alloc_stack)}
    BY <1>2, RangeIs DEF Queued
<1>4. \A i \in 1 .. Len(p.alloc_stack) : p.alloc_stack[i] \in Addr
    BY <1>2
<1>5. Queued \subseteq Addr
    BY <1>3, <1>4
<1>6. Queued \cap held = {}
    BY <1>1, <1>3 DEF NoAliasing
<1>7. \A a \in Queued : a \in Heap => a \in heap
    BY <1>1, <1>3 DEF HeapTracked
<1>8. p.alloc_stack = <<>> <=> Queued = {}
  <2>1. p.alloc_stack # <<>> => 1 \in 1 .. Len(p.alloc_stack)
    BY <1>2
  <2>2. p.alloc_stack = <<>> => 1 .. Len(p.alloc_stack) = {}
    OBVIOUS
  <2> QED BY <1>3, <2>1, <2>2
<1> QED BY <1>5, <1>6, <1>7, <1>8

-----------------------------------------------------------------------------
(* What the operations do to the alloc list and the client's elements.     *)

(* PoolInit queues an element nobody has seen. *)
LEMMA ElementEffect ==
    ASSUME IInv, PoolInitElement
    PROVE  \E a \in Candidates :
            /\ a \in Addr \ Queued /\ Queued' = Queued \union {a} /\ held = {} /\ held' = {}
            /\ heap' = heap \union ({a} \ Buffer) /\ cleaned' = [cleaned EXCEPT ![a] = 0]
            /\ life = "filling" /\ life' = "filling" /\ p'.max_buckets = p.max_buckets
<1> USE SizeAssumption, HeapAssumption
<1>1. PICK a \in Candidates : p' = PoolFill(p, a) /\ heap' = heap \union ({a} \ Buffer)
                               /\ cleaned' = [cleaned EXCEPT ![a] = 0]
    BY DEF PoolInitElement
<1>2. TypeOK /\ life = "filling" /\ life' = life /\ u32 < Prealloc /\ held = {} /\ held' = held
      /\ FillProgress
    BY DEF IInv, PoolInitElement, FillProgress
<1>3. u32 \in Nat
    BY <1>2 DEF TypeOK
<1>4. a \in Addr
    BY <1>1, <1>2, <1>3 DEF Candidates, Addr, Buffer
<1>5. p.alloc_stack \in Seq(Addr) /\ Len(p.alloc_stack) \in Nat
    BY <1>2, FieldTypes
<1>6. a \notin Queued
  <2>1. CASE Size > 0
    <3>1. a = u32 /\ Queued = {p.alloc_stack[i] : i \in 1 .. Len(p.alloc_stack)}
      BY <1>5, <2>1, RangeIs DEF Candidates, Queued
    <3>2. \A i \in 1 .. Len(p.alloc_stack) : p.alloc_stack[i] = i - 1 /\ i <= u32
      BY <1>2, <1>5, <2>1 DEF FillProgress
    <3> QED BY <1>3, <3>1, <3>2
  <2>2. CASE Size = 0
    BY <2>2, QueuedFacts DEF Candidates
  <2> QED BY <2>1, <2>2
<1>7. p'.alloc_stack = Append(p.alloc_stack, a) /\ p'.max_buckets = p.max_buckets
    BY <1>1, <1>2, RecordShape DEF PoolFill
<1>8. Queued' = Queued \union {a}
    BY <1>4, <1>5, <1>7, RangeAppend DEF Queued
<1> QED BY <1>1, <1>2, <1>4, <1>6, <1>7, <1>8

(* The loop of PoolFree leaves nothing on the alloc list. *)
LEMMA FreeEffect ==
    ASSUME IInv, NEW extra, NEW counts \in [Addr -> Nat], PoolFreeWith(extra, counts)
    PROVE  /\ Queued' = {} /\ held' = held /\ u32' = u32 /\ p'.max_buckets = p.max_buckets
           /\ heap' = FreeHeap(Queued \union extra)
           /\ \A a \in Addr : cleaned'[a] = counts[a] + (IF a \in Queued THEN 1 ELSE 0)
                                                      + (IF a \in extra THEN 1 ELSE 0)
<1>1. /\ held' = held /\ u32' = u32 /\ heap' = FreeHeap(Queued \union extra)
      /\ cleaned' = [a \in Addr |-> counts[a] + (IF a \in Queued THEN 1 ELSE 0)
                                               + (IF a \in extra THEN 1 ELSE 0)]
      /\ p' = [p EXCEPT !.alloc_stack = <<>>, !.empty_stack_size = 0]
    BY DEF PoolFreeWith, Queued
<1>2. p'.alloc_stack = <<>> /\ p'.max_buckets = p.max_buckets
    BY <1>1, RecordShape DEF IInv
<1>3. Queued' = {}
    BY <1>2 DEF Queued, Range
<1> QED BY <1>1, <1>2, <1>3

(* PoolGet takes the top off the alloc list. *)
LEMMA GetQueuedEffect ==
    ASSUME IInv, PoolGetQueued
    PROVE  \E a \in Queued :
            /\ Queued' = Queued \ {a} /\ held' = held \union {a}
            /\ heap' = heap /\ cleaned' = cleaned
            /\ life = "live" /\ life' = "live"
<1> DEFINE st == p.alloc_stack
           n == Len(st)
           rest == SubSeq(st, 1, n - 1)
<1>1. /\ TypeOK /\ NoAliasing /\ life = "live" /\ life' = life /\ heap' = heap /\ cleaned' = cleaned
      /\ st # <<>> /\ p' = PoolPull(p) /\ held' = held \union {st[n]}
    BY DEF IInv, PoolGetQueued, PoolHasElement, PoolTop
<1>2. n \in Nat /\ n >= 1 /\ st \in Seq(Addr)
    BY <1>1, FieldTypes
<1>3. /\ rest \in Seq(Addr) /\ Len(rest) = n - 1
      /\ \A i \in 1 .. n - 1 : rest[i] = st[i]
    BY <1>2
<1>4. p'.alloc_stack = rest
    BY <1>1, RecordShape DEF PoolPull, CountOut
<1>5. Queued = {st[i] : i \in 1 .. n}
    BY <1>2, RangeIs DEF Queued
<1>6. Queued' = {rest[i] : i \in 1 .. n - 1}
    BY <1>3, <1>4, RangeIs DEF Queued
<1>7. \A i, j \in 1 .. n : st[i] = st[j] => i = j
    BY <1>1 DEF NoAliasing
<1> HIDE DEF rest, n, st
<1>8. Queued' = Queued \ {st[n]}
  <2>1. \A x \in Queued' : x \in Queued \ {st[n]}
    BY <1>2, <1>3, <1>5, <1>6, <1>7
  <2>2. ASSUME NEW x \in Queued \ {st[n]} PROVE x \in Queued'
    <3>1. PICK i \in 1 .. n : x = st[i]
      BY <1>5, <2>2
    <3>2. i \in 1 .. n - 1
      BY <1>2, <2>2, <3>1
    <3> QED BY <1>3, <1>6, <3>1, <3>2
  <2> QED BY <2>1, <2>2
<1>9. st[n] \in Queued
    BY <1>2, <1>5
<1> QED BY <1>1, <1>8, <1>9

(* PoolGet grows the pool by an element malloc has just handed out. *)
LEMMA GetGrowsEffect ==
    ASSUME IInv, PoolGetGrows
    PROVE  \E a \in Heap \ heap :
            /\ a \in Addr /\ a \notin held /\ Queued = {} /\ Queued' = {} /\ held' = held \union {a}
            /\ heap' = heap \union {a} /\ cleaned' = [cleaned EXCEPT ![a] = 0]
            /\ Size = 0 \/ Cardinality(held) + 1 <= Size
            /\ life = "live" /\ life' = "live"
<1> USE SizeAssumption
<1>1. PICK a \in Heap \ heap : p' = PoolGrow(p) /\ held' = held \union {a}
                               /\ heap' = heap \union {a} /\ cleaned' = [cleaned EXCEPT ![a] = 0]
    BY DEF PoolGetGrows
<1>2. /\ TypeOK /\ CountersExact /\ FillProgress /\ HeapTracked /\ IsFiniteSet(held)
      /\ life = "live" /\ life' = life /\ p.alloc_stack = <<>> /\ PoolMayGrow(p)
    BY DEF IInv, PoolGetGrows, PoolHasElement
<1>3. a \in Addr /\ a \notin held
    BY <1>2 DEF Addr, HeapTracked
<1>4. p'.alloc_stack = p.alloc_stack
    BY <1>1, <1>2, RecordShape DEF PoolGrow, CountOut
<1>5. Queued = {} /\ Queued' = {}
    BY <1>2, <1>4 DEF Queued, Range
<1>6. Size = 0 \/ Cardinality(held) + 1 <= Size
  <2>1. Cardinality(held) \in Nat
    BY <1>2, FS_CardinalityType
  <2>2. p.allocated = Cardinality(held) /\ p.max_buckets = Size
    BY <1>2, <2>1 DEF CountersExact, FillProgress
  <2> QED BY <1>2, <2>1, <2>2 DEF PoolMayGrow
<1> QED BY <1>1, <1>2, <1>3, <1>5, <1>6

(* PoolReturn keeps the element, and always does so in a bounded pool:     *)
(* with an element out, fewer than Size are queued and a bucket is left.   *)
LEMMA ReturnEffect ==
    ASSUME IInv, NEW a \in held, PoolReturn(a)
    PROVE  /\ a \in Addr /\ a \notin Queued /\ held' = held \ {a} /\ life = "live" /\ life' = "live"
           /\ \/ Queued' = Queued \union {a} /\ cleaned' = cleaned /\ heap' = heap
              \/ /\ Size = 0 /\ Queued' = Queued /\ cleaned' = [cleaned EXCEPT ![a] = @ + 1]
                 /\ heap' = FreeHeap({a})
<1> USE SizeAssumption
<1>1. /\ TypeOK /\ CountersExact /\ BucketsConserved /\ IsFiniteSet(held)
      /\ life = "live" /\ life' = life /\ held' = held \ {a} /\ p' = PoolReturned(p, a) /\ a \in Addr
    BY DEF IInv, PoolReturn, TypeOK
<1>2. a \notin Queued
    BY QueuedFacts
<1>3. p.alloc_stack \in Seq(Addr) /\ Len(p.alloc_stack) \in Nat /\ p.empty_stack_size \in Nat
    BY <1>1, FieldTypes
<1>4. CASE PoolDrops(p)
  <2>1. p'.alloc_stack = p.alloc_stack
    BY <1>1, <1>4, RecordShape DEF PoolReturned, PoolReturnDrop
  <2>2. heap' = FreeHeap({a}) /\ cleaned' = [cleaned EXCEPT ![a] = @ + 1]
    BY <1>4 DEF PoolReturn
  <2>3. Size = 0
    <3>1. Cardinality(held) \in Nat /\ Cardinality(held) # 0
      BY <1>1, FS_CardinalityType, FS_EmptySet
    <3>2. Size > 0 => Len(p.alloc_stack) = Size /\ p.allocated <= Size
      BY <1>1, <1>3, <1>4 DEF BucketsConserved, PoolDrops
    <3>3. p.allocated = Len(p.alloc_stack) + Cardinality(held)
      BY <1>1 DEF CountersExact
    <3> QED BY <1>3, <3>1, <3>2, <3>3
  <2>4. Queued' = Queued
    BY <2>1 DEF Queued
  <2> QED BY <1>1, <1>2, <2>2, <2>3, <2>4
<1>5. CASE ~PoolDrops(p)
  <2>1. p'.alloc_stack = Append(p.alloc_stack, a)
    BY <1>1, <1>5, RecordShape DEF PoolReturned, PoolReturnPush
  <2>2. heap' = heap /\ cleaned' = cleaned
    BY <1>5 DEF PoolReturn
  <2>3. Queued' = Queued \union {a}
    BY <1>1, <1>3, <2>1, RangeAppend DEF Queued
  <2> QED BY <1>1, <1>2, <2>2, <2>3
<1> QED BY <1>4, <1>5

-----------------------------------------------------------------------------
(* CleanupOnce with the alloc list by its name. *)
Rejected == IF life = "failed" /\ p.max_buckets > 0 THEN {u32} ELSE {}
Cleaned ==
    \A a \in Addr : cleaned[a] = IF a \in held \union Queued THEN 0
                                 ELSE IF a \in Rejected THEN 2 ELSE 1

(* The two forms agree, in this state and in the next. *)
LEMMA CleanedIs == (CleanupOnce <=> Cleaned) /\ (CleanupOnce' <=> Cleaned')
BY DEF CleanupOnce, Cleaned, Rejected, Queued

(* PoolFree cleans what is queued, each element once. *)
LEMMA CleanupOfFree ==
    ASSUME IInv, Cleaned, Rejected = {}, Rejected' = {},
           NEW counts \in [Addr -> Nat], \A a \in Addr : counts[a] = cleaned[a],
           PoolFreeWith({}, counts)
    PROVE  Cleaned'
<1>1. /\ Queued' = {} /\ held' = held
      /\ \A a \in Addr : cleaned'[a] = counts[a] + (IF a \in Queued THEN 1 ELSE 0)
                                                 + (IF a \in {} THEN 1 ELSE 0)
    BY FreeEffect
<1>2. Queued \cap held = {}
    BY QueuedFacts
<1>3. \A a \in Addr : cleaned'[a] = cleaned[a] + (IF a \in Queued THEN 1 ELSE 0)
    BY <1>1
<1> QED BY <1>1, <1>2, <1>3 DEF Cleaned

(* Every step keeps the count of Cleanup calls. *)
LEMMA CleanupStep == PromiseInv /\ [Next]_vars => Cleaned' /\ NewIsUnset'
<1> SUFFICES ASSUME PromiseInv, [Next]_vars PROVE Cleaned' /\ NewIsUnset'
    OBVIOUS
<1> USE SizeAssumption, HeapAssumption
<1>1. /\ IInv /\ NewIsUnset /\ Cleaned /\ TypeOK /\ FillProgress /\ HeapTracked
      /\ cleaned \in [Addr -> Nat] /\ p.max_buckets \in {0, Size}
    BY CleanedIs, FieldTypes DEF PromiseInv, IInv, TypeOK
<1>2. CASE PoolInitBegin
  <2>1. /\ held = {} /\ held' = {} /\ cleaned' = cleaned /\ life = "new" /\ life' # "new"
        /\ Queued = {} /\ p.max_buckets = 0 /\ Rejected = {}
    <3>1. /\ held = {} /\ held' = {} /\ cleaned' = cleaned /\ life = "new" /\ life' # "new"
          /\ p.alloc_stack = <<>> /\ p.max_buckets = 0
      BY <1>1, <1>2 DEF PoolInitBegin, FillProgress, NewIsUnset
    <3>2. Queued = {}
      BY <3>1 DEF Queued, Range
    <3> QED BY <3>1, <3>2 DEF Rejected
  <2>2. Queued' = {}
    <3>1. p'.alloc_stack = <<>>
      BY <1>1, <1>2 DEF PoolInitBegin, PoolSetup, FillProgress
    <3> QED BY <3>1 DEF Queued, Range
  <2>3. Rejected' = {}
    BY <1>2, <2>1 DEF PoolInitBegin, Rejected, PoolSetup
  <2> QED BY <2>1, <2>2, <2>3, <1>1 DEF Cleaned, NewIsUnset
<1>3. CASE PoolInitElement
  <2>1. PICK a \in Candidates :
            /\ a \in Addr \ Queued /\ Queued' = Queued \union {a} /\ held = {} /\ held' = {}
            /\ cleaned' = [cleaned EXCEPT ![a] = 0] /\ life = "filling" /\ life' = "filling"
    BY <1>1, <1>3, ElementEffect
  <2>2. Rejected = {} /\ Rejected' = {} /\ NewIsUnset'
    BY <2>1 DEF Rejected, NewIsUnset
  <2>3. \A b \in Addr : cleaned'[b] = IF b = a THEN 0 ELSE cleaned[b]
    BY <1>1, <2>1
  <2> QED BY <1>1, <2>1, <2>2, <2>3 DEF Cleaned
<1>4. CASE PoolInitEnd
  <2>1. /\ held' = held /\ cleaned' = cleaned /\ life = "filling" /\ life' = "live" /\ Queued' = Queued
    BY <1>4 DEF PoolInitEnd, Queued
  <2> QED BY <1>1, <2>1 DEF Cleaned, Rejected, NewIsUnset
<1>5. CASE PoolInitRejectsSlice
  <2> DEFINE counts == [cleaned EXCEPT ![u32] = 1]
  <2>1. /\ life = "filling" /\ life' = "failed" /\ Size > 0 /\ u32 < Prealloc /\ u32 \in Nat
        /\ PoolFreeWith({u32}, counts)
    BY <1>1, <1>5 DEF PoolInitRejectsSlice, TypeOK
  <2>2. held = {} /\ p.max_buckets = Size /\ u32 \in Addr
    BY <1>1, <2>1 DEF FillProgress, Addr, Buffer
  <2>3. u32 \notin Queued
    <3>1. p.alloc_stack \in Seq(Addr) /\ Len(p.alloc_stack) = u32
      BY <1>1, <2>1, FieldTypes DEF FillProgress
    <3>2. Queued = {p.alloc_stack[i] : i \in 1 .. u32}
      BY <3>1, RangeIs DEF Queued
    <3>3. \A i \in 1 .. u32 : p.alloc_stack[i] = i - 1
      BY <1>1, <2>1, <3>1 DEF FillProgress
    <3> QED BY <2>1, <3>2, <3>3
  <2>4. /\ \A b \in Addr : counts[b] = IF b = u32 THEN 1 ELSE cleaned[b]
        /\ counts \in [Addr -> Nat]
    BY <1>1
  <2> HIDE DEF counts
  <2>5. /\ Queued' = {} /\ held' = held /\ u32' = u32 /\ p'.max_buckets = p.max_buckets
        /\ \A a \in Addr : cleaned'[a] = counts[a] + (IF a \in Queued THEN 1 ELSE 0)
                                                   + (IF a \in {u32} THEN 1 ELSE 0)
    <3> DEFINE extra == {u32}
    <3>1. PoolFreeWith(extra, counts) /\ IInv /\ counts \in [Addr -> Nat]
      BY <1>1, <2>1, <2>4
    <3> HIDE DEF extra
    <3>2. /\ Queued' = {} /\ held' = held /\ u32' = u32 /\ p'.max_buckets = p.max_buckets
          /\ \A a \in Addr : cleaned'[a] = counts[a] + (IF a \in Queued THEN 1 ELSE 0)
                                                     + (IF a \in extra THEN 1 ELSE 0)
      BY ONLY <3>1, FreeEffect
    <3> QED BY <3>2 DEF extra
  <2>6. Rejected = {} /\ Rejected' = {u32}
    BY <2>1, <2>2, <2>5 DEF Rejected
  <2>7. \A b \in Addr : cleaned'[b] = counts[b] + (IF b \in Queued THEN 1 ELSE 0)
                                                + (IF b = u32 THEN 1 ELSE 0)
    BY <2>5
  <2>8. \A b \in Addr : cleaned[b] = IF b \in Queued THEN 0 ELSE 1
    BY <1>1, <2>2, <2>6 DEF Cleaned
  <2>9. \A b \in Addr : cleaned'[b] = IF b = u32 THEN 2 ELSE 1
    BY <2>3, <2>4, <2>7, <2>8
  <2> QED BY <2>1, <2>2, <2>5, <2>6, <2>9 DEF Cleaned, NewIsUnset
<1>6. CASE PoolInitRejectsHeap
  <2>1. PICK a \in Heap \ heap : PoolFreeWith({}, [cleaned EXCEPT ![a] = 1])
    BY <1>6 DEF PoolInitRejectsHeap
  <2>2. life = "filling" /\ life' = "failed" /\ Size = 0 /\ p.max_buckets = 0 /\ held = {}
    BY <1>1, <1>6 DEF PoolInitRejectsHeap, FillProgress
  <2>3. Rejected = {} /\ Rejected' = {} /\ NewIsUnset'
    <3>1. p'.max_buckets = 0
      BY <1>1, <2>1, <2>2, FreeEffect
    <3> QED BY <2>2, <3>1 DEF Rejected, NewIsUnset
  <2>4. a \in Addr /\ a \notin Queued
    BY <1>1, QueuedFacts DEF Addr
  <2>5. cleaned[a] = 1
    BY <1>1, <2>2, <2>3, <2>4 DEF Cleaned
  <2>6. /\ [cleaned EXCEPT ![a] = 1] \in [Addr -> Nat]
        /\ \A b \in Addr : [cleaned EXCEPT ![a] = 1][b] = cleaned[b]
    BY <1>1, <2>4, <2>5
  <2> QED BY <1>1, <2>1, <2>3, <2>6, CleanupOfFree
<1>7. CASE PoolInitOutOfMemory \/ PoolFree
  <2>1. /\ life \in {"filling", "live"} /\ life' \in {"failed", "freed"}
        /\ life' = "failed" => Size = 0
        /\ PoolFreeWith({}, cleaned)
    BY <1>7 DEF PoolInitOutOfMemory, PoolFree
  <2>2. Rejected = {} /\ Rejected' = {} /\ NewIsUnset'
    <3>1. p'.max_buckets = p.max_buckets
      BY <1>1, <2>1, FreeEffect
    <3> QED BY <1>1, <2>1, <3>1 DEF Rejected, NewIsUnset
  <2> QED BY <1>1, <2>1, <2>2, CleanupOfFree
<1>8. CASE PoolGetQueued
  <2>1. PICK a \in Queued : /\ Queued' = Queued \ {a} /\ held' = held \union {a}
                            /\ cleaned' = cleaned /\ life = "live" /\ life' = "live"
    BY <1>1, <1>8, GetQueuedEffect
  <2>2. held' \union Queued' = held \union Queued
    BY <2>1
  <2> QED BY <1>1, <2>1, <2>2 DEF Cleaned, Rejected, NewIsUnset
<1>9. CASE PoolGetGrows
  <2>1. PICK a \in Heap \ heap :
            /\ a \in Addr /\ a \notin held /\ Queued = {} /\ Queued' = {} /\ held' = held \union {a}
            /\ cleaned' = [cleaned EXCEPT ![a] = 0] /\ life = "live" /\ life' = "live"
    BY <1>1, <1>9, GetGrowsEffect
  <2>2. \A b \in Addr : cleaned'[b] = IF b = a THEN 0 ELSE cleaned[b]
    BY <1>1, <2>1
  <2> QED BY <1>1, <2>1, <2>2 DEF Cleaned, Rejected, NewIsUnset
<1>10. CASE PoolGetRejects
  <2>1. PICK a \in Heap \ heap : cleaned' = [cleaned EXCEPT ![a] = 1]
    BY <1>10 DEF PoolGetRejects
  <2>2. UNCHANGED <<p, life, u32, held, heap>> /\ life = "live"
    BY <1>10 DEF PoolGetRejects
  <2>3. a \in Addr /\ a \notin Queued /\ a \notin held
    BY <1>1, QueuedFacts DEF Addr, HeapTracked
  <2>4. Queued' = Queued
    BY <2>2 DEF Queued
  <2>5. \A b \in Addr : cleaned'[b] = IF b = a THEN 1 ELSE cleaned[b]
    BY <1>1, <2>1
  <2> QED BY <1>1, <2>2, <2>3, <2>4, <2>5 DEF Cleaned, Rejected, NewIsUnset
<1>11. CASE \E a \in held : PoolReturn(a)
  <2>1. PICK a \in held : PoolReturn(a)
    BY <1>11
  <2>2. /\ a \in Addr /\ a \notin Queued /\ held' = held \ {a} /\ life = "live" /\ life' = "live"
        /\ \/ Queued' = Queued \union {a} /\ cleaned' = cleaned
           \/ Queued' = Queued /\ cleaned' = [cleaned EXCEPT ![a] = @ + 1]
    BY <1>1, <2>1, ReturnEffect
  <2>3. CASE Queued' = Queued \union {a} /\ cleaned' = cleaned
    BY <1>1, <2>2, <2>3 DEF Cleaned, Rejected, NewIsUnset
  <2>4. CASE Queued' = Queued /\ cleaned' = [cleaned EXCEPT ![a] = @ + 1]
    <3>1. cleaned[a] = 0
      BY <1>1, <2>2 DEF Cleaned
    <3>2. \A b \in Addr : cleaned'[b] = IF b = a THEN 1 ELSE cleaned[b]
      BY <1>1, <2>2, <2>4, <3>1
    <3> QED BY <1>1, <2>2, <2>4, <3>2 DEF Cleaned, Rejected, NewIsUnset
  <2> QED BY <2>2, <2>3, <2>4
<1>12. CASE PoolGetNull \/ UNCHANGED vars
    BY <1>1, <1>12 DEF PoolGetNull, vars, Cleaned, Rejected, Queued, NewIsUnset
<1> QED BY <1>2, <1>3, <1>4, <1>5, <1>6, <1>7, <1>8, <1>9, <1>10, <1>11, <1>12 DEF Next

(* All the invariants of a pool together. *)
THEOREM PoolPromises == Spec => []PromiseInv
<1>1. Init => PromiseInv
  <2> SUFFICES ASSUME Init PROVE PromiseInv
    OBVIOUS
  <2>1. life = "new" /\ held = {} /\ p = PoolSetup(0) /\ \A a \in Addr : cleaned[a] = 1
    BY DEF Init
  <2>2. p.max_buckets = 0 /\ p.alloc_stack = <<>>
    BY <2>1 DEF PoolSetup
  <2>3. Queued = {} /\ Rejected = {}
    BY <2>1, <2>2 DEF Queued, Range, Rejected
  <2>4. Cleaned
    BY <2>1, <2>3 DEF Cleaned
  <2> QED BY <2>2, <2>4, InitIInv, CleanedIs DEF PromiseInv, NewIsUnset
<1>2. PromiseInv /\ IInv' /\ [Next]_vars => PromiseInv'
    BY CleanupStep, CleanedIs DEF PromiseInv
<1> QED BY <1>1, <1>2, PoolInvariant, PTL DEF Spec

(* Cleanup is called once for every element Init accepted, on every path   *)
(* out of PoolInit, PoolGet, PoolReturn and PoolFree; the slice that Init  *)
(* refuses in PoolInit is the one element cleaned twice.                   *)
THEOREM CleanedOnce == Spec => []CleanupOnce
<1>1. PromiseInv => CleanupOnce
    BY DEF PromiseInv
<1> QED BY <1>1, PoolPromises, PTL

-----------------------------------------------------------------------------
(* With no element of malloc's right behind the data buffer, the one       *)
(* address PoolDataPreAllocated misjudges, freeing elements leaves the     *)
(* others.                                                                 *)
LEMMA FreeHeapIs ==
    ASSUME TypeOK, Size = 0 \/ Prealloc \notin Heap, NEW elements
    PROVE  FreeHeap(elements) = heap \ elements
<1> USE SizeAssumption, HeapAssumption
<1>1. ASSUME NEW a \in heap PROVE ~PoolDataPreAllocated(a)
  <2>1. a \in Heap /\ a \in Int /\ (a < 0 \/ a >= Prealloc)
    BY <1>1 DEF TypeOK
  <2> QED BY <2>1 DEF PoolDataPreAllocated
<1> QED BY <1>1 DEF FreeHeap

(* No step forgets an element that malloc handed out. *)
LEMMA FreesAllStep ==
    ASSUME IInv, [Next]_vars, heap \subseteq held \union Queued, Size = 0 \/ Prealloc \notin Heap
    PROVE  heap' \subseteq held' \union Queued'
<1>1. TypeOK /\ cleaned \in [Addr -> Nat]
    BY DEF IInv, TypeOK
<1>2. ASSUME NEW extra, NEW counts \in [Addr -> Nat], PoolFreeWith(extra, counts)
      PROVE  heap' \subseteq held' \union Queued'
  <2>1. Queued' = {} /\ held' = held /\ heap' = FreeHeap(Queued \union extra)
    BY <1>2, FreeEffect
  <2>2. heap' = heap \ (Queued \union extra)
    BY <1>1, <2>1, FreeHeapIs
  <2> QED BY <2>1, <2>2
<1>3. CASE PoolInitBegin
  <2>1. heap' = heap /\ held' = held
    BY <1>3 DEF PoolInitBegin
  <2>2. Queued = {}
    <3>1. p.alloc_stack = <<>>
      BY <1>3 DEF IInv, FillProgress, PoolInitBegin
    <3> QED BY <3>1 DEF Queued, Range
  <2> QED BY <2>1, <2>2
<1>4. CASE PoolInitElement
  <2>1. \E a \in Candidates : Queued' = Queued \union {a} /\ heap' = heap \union ({a} \ Buffer)
                               /\ held = {} /\ held' = {}
    BY <1>4, ElementEffect
  <2> QED BY <2>1
<1>5. CASE PoolInitRejectsSlice
  <2>1. PoolFreeWith({u32}, [cleaned EXCEPT ![u32] = 1])
    BY <1>5 DEF PoolInitRejectsSlice
  <2>2. [cleaned EXCEPT ![u32] = 1] \in [Addr -> Nat]
    BY <1>1
  <2> QED BY <1>2, <2>1, <2>2
<1>6. CASE PoolInitRejectsHeap
  <2>1. PICK a \in Heap \ heap : PoolFreeWith({}, [cleaned EXCEPT ![a] = 1])
    BY <1>6 DEF PoolInitRejectsHeap
  <2>2. [cleaned EXCEPT ![a] = 1] \in [Addr -> Nat]
    BY <1>1
  <2> QED BY <1>2, <2>1, <2>2
<1>7. CASE PoolInitOutOfMemory \/ PoolFree
    BY <1>1, <1>2, <1>7 DEF PoolInitOutOfMemory, PoolFree
<1>8. CASE PoolGetQueued
  <2>1. \E a \in Queued : Queued' = Queued \ {a} /\ held' = held \union {a} /\ heap' = heap
    BY <1>8, GetQueuedEffect
  <2> QED BY <2>1
<1>9. CASE PoolGetGrows
  <2>1. \E a \in Heap \ heap : Queued = {} /\ held' = held \union {a} /\ heap' = heap \union {a}
    BY <1>9, GetGrowsEffect
  <2> QED BY <2>1
<1>10. CASE \E a \in held : PoolReturn(a)
  <2>1. PICK a \in held : PoolReturn(a)
    BY <1>10
  <2>2. /\ held' = held \ {a}
        /\ \/ Queued' = Queued \union {a} /\ heap' = heap
           \/ Queued' = Queued /\ heap' = FreeHeap({a})
    BY <2>1, ReturnEffect
  <2>3. FreeHeap({a}) = heap \ {a}
    BY <1>1, FreeHeapIs
  <2> QED BY <2>2, <2>3
<1>11. CASE PoolInitEnd \/ PoolGetRejects \/ PoolGetNull \/ UNCHANGED vars
  <2>1. heap' = heap /\ held' = held /\ p' = p
    BY <1>11 DEF PoolInitEnd, PoolGetRejects, PoolGetNull, vars
  <2> QED BY <2>1 DEF Queued
<1> QED BY <1>3, <1>4, <1>5, <1>6, <1>7, <1>8, <1>9, <1>10, <1>11 DEF Next

(* PoolFree frees all the memory that is not with the client, as pool.c:27 *)
(* says, provided malloc never places an element at the very end of the    *)
(* data buffer: PoolDataPreAllocated takes that one for a slice of it.     *)
THEOREM AllMemoryFreed ==
    ASSUME Size = 0 \/ Prealloc \notin Heap
    PROVE  Spec => []PoolFreeFreesAll
<1>1. Init => PoolFreeFreesAll
    BY DEF Init, PoolFreeFreesAll
<1>2. IInv /\ PoolFreeFreesAll /\ [Next]_vars => PoolFreeFreesAll'
    BY FreesAllStep DEF PoolFreeFreesAll, Queued
<1> QED BY <1>1, <1>2, PoolInvariant, PTL DEF Spec

-----------------------------------------------------------------------------
(* The abstract pool counts with the same Cardinality. *)
LEMMA SameCardinality == \A S : Abs!Cardinality(S) = Cardinality(S)
BY Zenon DEF Abs!Cardinality, Cardinality

(* Every step of the pool is a step of the abstract pool, or no step.      *)
LEMMA AbstractStep == IInv /\ [Next]_vars => [Abs!AbsNext]_(Abs!absVars)
<1> SUFFICES ASSUME IInv, [Next]_vars
             PROVE  Abs!AbsNext \/ (Queued' = Queued /\ held' = held)
    BY DEF Abs!absVars, Queued
<1> USE SizeAssumption, HeapAssumption
<1>1. CASE PoolInitElement
  <2>1. PICK a \in Candidates : a \in Addr \ Queued /\ Queued' = Queued \union {a}
                                /\ held = {} /\ held' = {} /\ life = "filling"
    BY <1>1, ElementEffect
  <2>2. Size = 0 \/ Cardinality(Queued) + 1 <= Size
    <3>1. CASE Size > 0
      <4>1. TypeOK /\ u32 \in Nat /\ u32 < Prealloc /\ Len(p.alloc_stack) = u32
            /\ \A i \in 1 .. u32 : p.alloc_stack[i] = i - 1
        BY <1>1, <2>1, <3>1 DEF IInv, TypeOK, FillProgress, PoolInitElement
      <4>2. Queued = {p.alloc_stack[i] : i \in 1 .. u32}
        BY <4>1, FieldTypes, RangeIs DEF Queued
      <4>3. Queued = 0 .. (u32 - 1)
        <5>1. \A x \in Queued : x \in 0 .. (u32 - 1)
          BY <4>1, <4>2
        <5>2. ASSUME NEW x \in 0 .. (u32 - 1) PROVE x \in Queued
          <6>1. x + 1 \in 1 .. u32 /\ (x + 1) - 1 = x
            BY <4>1
          <6> QED BY <4>1, <4>2, <6>1
        <5> QED BY <5>1, <5>2
      <4>4. Cardinality(Queued) = u32
        BY <4>1, <4>3, FS_Interval
      <4> QED BY <4>1, <4>4
    <3> QED BY <3>1
  <2>3. Queued \union held = Queued
    BY <2>1
  <2>4. Abs!Stock
    BY <2>1, <2>2, <2>3, SameCardinality DEF Abs!Stock, Abs!WithinCapacity, Queued
  <2> QED BY <2>4 DEF Abs!AbsNext
<1>2. CASE PoolInitRejectsSlice \/ PoolInitRejectsHeap \/ PoolInitOutOfMemory \/ PoolFree
  <2>1. cleaned \in [Addr -> Nat]
    BY DEF IInv, TypeOK
  <2>2. \E extra, counts : counts \in [Addr -> Nat] /\ PoolFreeWith(extra, counts)
    <3>1. \A a : [cleaned EXCEPT ![a] = 1] \in [Addr -> Nat]
      BY <2>1
    <3> QED BY <1>2, <2>1, <3>1
            DEF PoolInitRejectsSlice, PoolInitRejectsHeap, PoolInitOutOfMemory, PoolFree
  <2>3. Queued' = {} /\ held' = held
    BY <2>2, FreeEffect
  <2>4. Abs!Close
    BY <2>3 DEF Abs!Close, Queued
  <2> QED BY <2>4 DEF Abs!AbsNext
<1>3. CASE PoolGetQueued
  <2>1. PICK a \in Queued : Queued' = Queued \ {a} /\ held' = held \union {a}
    BY <1>3, GetQueuedEffect
  <2>2. Abs!Get
    BY <2>1 DEF Abs!Get, Queued
  <2> QED BY <2>2 DEF Abs!AbsNext
<1>4. CASE PoolGetGrows
  <2>1. \E a : /\ a \in Addr \ held /\ Queued = {} /\ Queued' = {} /\ held' = held \union {a}
               /\ Size = 0 \/ Cardinality(held) + 1 <= Size
    BY <1>4, GetGrowsEffect
  <2>2. Abs!GetFresh
    BY <2>1, SameCardinality DEF Abs!GetFresh, Abs!WithinCapacity, Queued
  <2> QED BY <2>2 DEF Abs!AbsNext
<1>5. CASE \E a \in held : PoolReturn(a)
  <2>1. PICK a \in held : PoolReturn(a)
    BY <1>5
  <2>2. held' = held \ {a} /\ (Queued' = Queued \union {a} \/ (Size = 0 /\ Queued' = Queued))
    BY <2>1, ReturnEffect
  <2>3. Abs!Return \/ Abs!ReturnDropped
    BY <2>2 DEF Abs!Return, Abs!ReturnDropped, Queued
  <2> QED BY <2>3 DEF Abs!AbsNext
<1>6. CASE PoolInitBegin
  <2>1. p.alloc_stack = <<>> /\ p'.alloc_stack = <<>> /\ held' = held
    BY <1>6 DEF IInv, FillProgress, PoolInitBegin, PoolSetup
  <2> QED BY <2>1 DEF Queued
<1>7. CASE PoolInitEnd \/ PoolGetRejects \/ PoolGetNull \/ UNCHANGED vars
    BY <1>7 DEF PoolInitEnd, PoolGetRejects, PoolGetNull, vars, Queued
<1> QED BY <1>1, <1>2, <1>3, <1>4, <1>5, <1>6, <1>7 DEF Next

(* Pool implements PoolAbs, for every size, preallocation and heap, and    *)
(* whatever Alloc and Init refuse.                                         *)
THEOREM PoolImplementsPoolAbs == Spec => RefinesPoolAbs
<1>1. Init => Abs!AbsInit
  <2> SUFFICES ASSUME Init PROVE Abs!AbsInit
    OBVIOUS
  <2>1. p.alloc_stack = <<>> /\ held = {}
    BY DEF Init, PoolSetup
  <2>2. Range(p.alloc_stack) = {}
    BY <2>1 DEF Range
  <2> QED BY <2>1, <2>2 DEF Abs!AbsInit
<1>2. IInv /\ [Next]_vars => [Abs!AbsNext]_(Abs!absVars)
    BY AbstractStep
<1> QED BY <1>1, <1>2, PoolInvariant, PTL DEF Spec, RefinesPoolAbs, Abs!AbsSpec
=============================================================================
