-------------------------------- MODULE Pool --------------------------------
(***************************************************************************)
(* The object pool of pool.c as a state machine: PoolInit, PoolGet,        *)
(* PoolReturn and PoolFree called by one client that returns only what it  *)
(* holds.  Alloc and Init may fail wherever they are called.               *)
(*                                                                         *)
(* An element is its address relative to data_buffer in units of elt_size: *)
(* 0..Prealloc-1 are the preallocated elements of a bounded pool, Heap the *)
(* addresses at which the allocator may place an element of its own.       *)
(***************************************************************************)
EXTENDS PoolOps, FiniteSets, Functions

CONSTANTS Size,      \* PoolInit's size; 0 is unlimited
          Prealloc,  \* PoolInit's prealloc_size
          Heap       \* addresses malloc may return, outside the data buffer

(* The parameters PoolInit accepts (lines 99-110) and an allocator that    *)
(* never hands out the inside of the data buffer.                          *)
ASSUME SizeAssumption == Size \in Nat /\ Prealloc \in Nat /\ (Size # 0 => Prealloc <= Size)
ASSUME HeapAssumption == Heap \subseteq Int /\ \A a \in Heap : a < 0 \/ a >= Prealloc

VARIABLES p,        \* the pool record
          life,     \* "new", "filling", "live", "failed" (PoolInit returned NULL), "freed"
          u32,      \* PoolInit's loop index
          held,     \* the elements the client holds
          heap,     \* the elements malloc has handed out and not got back
          cleaned   \* Cleanup calls on an element since its last Init call; 1 at an
                    \* address that has seen no Init: there is nothing to clean

vars == <<p, life, u32, held, heap, cleaned>>

Buffer == IF Size > 0 THEN 0 .. Prealloc - 1 ELSE {}
Addr == Buffer \union Heap

(* Mutant: only the lower end of the block is tested. *)
PoolDataPreAllocatedM(a) == ~(a < 0)
(* delta > data_buffer_size is outside: the address one past the block     *)
(* counts as inside.  An unlimited pool has no block, and every address is *)
(* far from its NULL.                                                      *)
PoolDataPreAllocated(a) == Size > 0 /\ ~(a < 0 \/ a > Prealloc)

Init ==
    /\ p = PoolSetup(0)
    /\ life = "new"
    /\ u32 = 0
    /\ held = {} /\ heap = {}
    /\ cleaned = [a \in Addr |-> 1]

-----------------------------------------------------------------------------
(* PoolFree: every queued element is cleaned and, unless it is found to lie *)
(* in the data buffer, freed; `extra' is an element left in a bucket of the *)
(* empty list.  The client's elements are not touched.                      *)
FreeHeap(elements) == {a \in heap : a \in elements => PoolDataPreAllocated(a)}

PoolFreeWith(extra, counts) ==
    LET queued == Range(p.alloc_stack)
    IN /\ cleaned' = [a \in Addr |-> counts[a] + (IF a \in queued THEN 1 ELSE 0)
                                               + (IF a \in extra THEN 1 ELSE 0)]
       /\ heap' = FreeHeap(queued \union extra)
       /\ p' = [p EXCEPT !.alloc_stack = <<>>, !.empty_stack_size = 0]
       /\ UNCHANGED <<u32, held>>

-----------------------------------------------------------------------------
(* PoolInit up to its loop; the struct, the buckets or the data buffer may *)
(* be refused by the allocator.                                            *)
PoolInitBegin ==
    /\ life = "new"
    /\ \/ /\ life' = "filling"
          /\ p' = PoolSetup(Size)
       \/ /\ life' = "failed"
          /\ UNCHANGED p
    /\ UNCHANGED <<u32, held, heap, cleaned>>

(* The element iteration u32 works on: a slice of the buffer, or malloc's. *)
Candidates == IF Size > 0 THEN {u32} ELSE Heap \ heap

(* One iteration whose Init call succeeds. *)
PoolInitElement ==
    /\ life = "filling" /\ u32 < Prealloc
    /\ \E a \in Candidates :
        /\ p' = PoolFill(p, a)
        /\ heap' = heap \union ({a} \ Buffer)
        /\ cleaned' = [cleaned EXCEPT ![a] = 0]
    /\ u32' = u32 + 1
    /\ UNCHANGED <<life, held>>

(* Init refuses a slice of the buffer: it is cleaned and, its bucket being *)
(* still on the empty list with its data set, cleaned again by PoolFree.   *)
PoolInitRejectsSlice ==
    /\ life = "filling" /\ u32 < Prealloc /\ Size > 0
    /\ life' = "failed"
    /\ PoolFreeWith({u32}, [cleaned EXCEPT ![u32] = 1])

(* Init refuses a malloc'd element: it is cleaned and freed before the     *)
(* pool is.                                                                *)
PoolInitRejectsHeap ==
    /\ life = "filling" /\ u32 < Prealloc /\ Size = 0
    /\ life' = "failed"
    /\ \E a \in Heap \ heap : PoolFreeWith({}, [cleaned EXCEPT ![a] = 1])

(* An unlimited pool's bucket or element cannot be allocated. *)
PoolInitOutOfMemory ==
    /\ life = "filling" /\ u32 < Prealloc /\ Size = 0
    /\ life' = "failed"
    /\ PoolFreeWith({}, cleaned)

PoolInitEnd ==
    /\ life = "filling" /\ u32 = Prealloc
    /\ life' = "live"
    /\ UNCHANGED <<p, u32, held, heap, cleaned>>

-----------------------------------------------------------------------------
(* Mutant: the element stays on the alloc list. *)
PoolGetQueuedM ==
    /\ life = "live" /\ PoolHasElement(p)
    /\ p' = CountOut([p EXCEPT !.empty_stack_size = @ + 1])
    /\ held' = held \union {PoolTop(p)}
    /\ UNCHANGED <<life, u32, heap, cleaned>>
(* PoolGet from the alloc list. *)
PoolGetQueued ==
    /\ life = "live" /\ PoolHasElement(p)
    /\ p' = PoolPull(p)
    /\ held' = held \union {PoolTop(p)}
    /\ UNCHANGED <<life, u32, heap, cleaned>>

(* Mutant: allocated is not counted up. *)
PoolGetGrowsM ==
    /\ life = "live" /\ ~PoolHasElement(p) /\ PoolMayGrow(p)
    /\ \E a \in Heap \ heap :
        /\ p' = CountOut(p)
        /\ held' = held \union {a}
        /\ heap' = heap \union {a}
        /\ cleaned' = [cleaned EXCEPT ![a] = 0]
    /\ UNCHANGED <<life, u32>>
(* PoolGet allocates and initialises a new element. *)
PoolGetGrows ==
    /\ life = "live" /\ ~PoolHasElement(p) /\ PoolMayGrow(p)
    /\ \E a \in Heap \ heap :
        /\ p' = PoolGrow(p)
        /\ held' = held \union {a}
        /\ heap' = heap \union {a}
        /\ cleaned' = [cleaned EXCEPT ![a] = 0]
    /\ UNCHANGED <<life, u32>>

(* Mutant: the element is counted before Init has accepted it. *)
PoolGetRejectsM ==
    /\ life = "live" /\ ~PoolHasElement(p) /\ PoolMayGrow(p)
    /\ \E a \in Heap \ heap : cleaned' = [cleaned EXCEPT ![a] = 1]
    /\ p' = [p EXCEPT !.allocated = @ + 1]
    /\ UNCHANGED <<life, u32, held, heap>>
(* PoolGet allocates an element that Init refuses: cleaned, freed, NULL. *)
PoolGetRejects ==
    /\ life = "live" /\ ~PoolHasElement(p) /\ PoolMayGrow(p)
    /\ \E a \in Heap \ heap : cleaned' = [cleaned EXCEPT ![a] = 1]
    /\ UNCHANGED <<p, life, u32, held, heap>>

(* PoolGet returns NULL: the allocator refuses, or the pool is exhausted. *)
PoolGetNull ==
    /\ life = "live" /\ ~PoolHasElement(p)
    /\ UNCHANGED vars

(* Mutant: Cleanup is called whether or not the element is kept. *)
PoolReturnM(a) ==
    /\ life = "live"
    /\ p' = PoolReturned(p, a)
    /\ held' = held \ {a}
    /\ cleaned' = [cleaned EXCEPT ![a] = @ + 1]
    /\ heap' = IF PoolDrops(p) THEN FreeHeap({a}) ELSE heap
    /\ UNCHANGED <<life, u32>>
(* PoolReturn of an element the client holds. *)
PoolReturn(a) ==
    /\ life = "live"
    /\ p' = PoolReturned(p, a)
    /\ held' = held \ {a}
    /\ IF PoolDrops(p)
         THEN /\ cleaned' = [cleaned EXCEPT ![a] = @ + 1]
              /\ heap' = FreeHeap({a})
         ELSE UNCHANGED <<cleaned, heap>>
    /\ UNCHANGED <<life, u32>>

PoolFree ==
    /\ life = "live"
    /\ life' = "freed"
    /\ PoolFreeWith({}, cleaned)

Next ==
    \/ PoolInitBegin \/ PoolInitElement \/ PoolInitEnd
    \/ PoolInitRejectsSlice \/ PoolInitRejectsHeap \/ PoolInitOutOfMemory
    \/ PoolGetQueued \/ PoolGetGrows \/ PoolGetRejects \/ PoolGetNull
    \/ \E a \in held : PoolReturn(a)
    \/ PoolFree

Spec == Init /\ [][Next]_vars

-----------------------------------------------------------------------------
(* The record and the client's view are well formed; in particular no      *)
(* uint32_t counter of struct Pool_ is ever decremented below zero.        *)
TypeOK ==
    /\ p \in [max_buckets : {0, Size}, alloc_stack : Seq(Addr), empty_stack_size : Nat,
              allocated : Nat, outstanding : Nat, max_outstanding : Nat]
    /\ life \in {"new", "filling", "live", "failed", "freed"}
    /\ u32 \in 0 .. Prealloc
    /\ held \subseteq Addr /\ heap \subseteq Heap
    /\ cleaned \in [Addr -> Nat]

(* One element is never in two places: no address is twice on the alloc    *)
(* list, none is both there and with the client (PoolGet, PoolReturn).     *)
NoAliasing ==
    /\ \A i, j \in 1 .. Len(p.alloc_stack) :
        p.alloc_stack[i] = p.alloc_stack[j] => i = j
    /\ \A i \in 1 .. Len(p.alloc_stack) : p.alloc_stack[i] \notin held

(* pool.h's comments on the counters: `outstanding' is the number of items *)
(* in use, `allocated' counts the elements in the pool and outside of it,  *)
(* `max_outstanding' is never behind.                                      *)
CountersExact ==
    /\ p.outstanding = Cardinality(held)
    /\ life \in {"filling", "live"} =>
        p.allocated = Len(p.alloc_stack) + Cardinality(held)
    /\ p.max_outstanding >= p.outstanding

(* A bounded pool neither loses nor invents a bucket and never owns more   *)
(* elements than buckets.                                                  *)
BucketsConserved ==
    Size > 0 /\ life \in {"filling", "live"} =>
        /\ p.empty_stack_size + Len(p.alloc_stack) = Size
        /\ p.allocated <= Size

(* PoolGet turns a client of a bounded pool away without trying only when  *)
(* that client holds Size elements.                                        *)
ExhaustedMeansAllHeld ==
    life = "live" /\ PoolExhausted(p) => Size > 0 /\ Cardinality(held) = Size

(* A bounded pool hands out exactly Size elements: no bucket is lost or    *)
(* invented, and a client is turned away when it holds them all and not    *)
(* before.                                                                 *)
LimitExact == BucketsConserved /\ ExhaustedMeansAllHeld

(* Whatever Init opened is cleaned up exactly once: never while the element *)
(* is queued or in use, and always when the pool lets go of it, on every    *)
(* failure path too.  The one exception is the slice whose Init failed:     *)
(* PoolInit and then PoolFree clean it.                                     *)
CleanupOnce ==
    LET rejected == IF life = "failed" /\ p.max_buckets > 0 THEN {u32} ELSE {}
    IN \A a \in Addr :
        cleaned[a] = IF a \in held \union Range(p.alloc_stack) THEN 0
                     ELSE IF a \in rejected THEN 2 ELSE 1

(* "To destroy the Pool, call PoolFree(), it will free all used memory"    *)
(* (pool.c:27): once the pool is gone only what the client still holds is  *)
(* left of what malloc handed out, and before that nothing is forgotten.   *)
PoolFreeFreesAll == heap \subseteq held \union Range(p.alloc_stack)

-----------------------------------------------------------------------------
(* The free elements of the abstract pool are those on the alloc list, the *)
(* used ones those the client holds.                                       *)
Abs == INSTANCE PoolAbs WITH
    Elements <- Addr, Capacity <- Size, free <- Range(p.alloc_stack), used <- held

(* Pool implements PoolAbs: PoolGet, PoolReturn, PoolInit and PoolFree are *)
(* steps of the abstract pool, whatever fails.                             *)
RefinesPoolAbs == Abs!AbsSpec
=============================================================================
