------------------------------ MODULE PoolOps ------------------------------
(***************************************************************************)
(* The operations of the object pool (pool.c) on one pool, as operators on *)
(* a record.  Pool.tla makes a state machine of them; the agents' modules  *)
(* apply the same operators to their connection pools.                     *)
(*                                                                         *)
(* A pool record keeps the fields of struct Pool_ that its functions read: *)
(*   max_buckets       the number of buckets, 0 for an unlimited pool      *)
(*   alloc_stack       the data of the buckets on the alloc list; the top  *)
(*                     of the stack is the last element of the sequence    *)
(*   empty_stack_size  the number of buckets on the empty list             *)
(*   allocated, outstanding, max_outstanding   the counters                *)
(* A bucket on the empty list carries no data (PoolGet clears it), so that *)
(* list is its length; the one bucket that breaks the rule, an element     *)
(* whose Init failed in PoolInit, is treated where it matters (Pool.tla).  *)
(* The counters are uint32_t and integers here: where the code would wrap  *)
(* around zero, a counter is negative.  Pool's type invariant shows that   *)
(* none is for a client that returns what it holds; the agents may return  *)
(* an object twice.                                                        *)
(***************************************************************************)
EXTENDS Integers, Sequences

(* The record after the empty list is populated, before any element. *)
PoolSetup(size) ==
    [max_buckets |-> size, alloc_stack |-> <<>>, empty_stack_size |-> size,
     allocated |-> 0, outstanding |-> 0, max_outstanding |-> 0]

(* One iteration of PoolInit's loop: an initialised element is queued.  A  *)
(* bounded pool takes the bucket from its empty list, an unlimited one     *)
(* allocates the bucket.                                                   *)
PoolFill(p, a) ==
    [p EXCEPT !.alloc_stack = Append(@, a),
              !.empty_stack_size = IF p.max_buckets = 0 THEN @ ELSE @ - 1,
              !.allocated = @ + 1]

(* The pool PoolInit returns when no element fails: all of them queued. *)
FullPool(elements) ==
    [PoolSetup(Len(elements)) EXCEPT !.alloc_stack = elements, !.empty_stack_size = 0,
                                     !.allocated = Len(elements)]

(* outstanding goes up and its high-water mark follows. *)
CountOut(p) ==
    [p EXCEPT !.outstanding = @ + 1,
              !.max_outstanding = IF p.outstanding + 1 > @ THEN p.outstanding + 1 ELSE @]

PoolHasElement(p) == p.alloc_stack # <<>>

PoolTop(p) == p.alloc_stack[Len(p.alloc_stack)]

(* Mutant: the element is not counted as outstanding. *)
PoolPullM(p) ==
    [p EXCEPT !.alloc_stack = SubSeq(@, 1, Len(@) - 1), !.empty_stack_size = @ + 1]
(* PoolGet with an element at hand: PoolTop(p) leaves, its bucket goes to  *)
(* the empty list (also the bucket of an unlimited pool).                  *)
PoolPull(p) ==
    CountOut([p EXCEPT !.alloc_stack = SubSeq(@, 1, Len(@) - 1),
                       !.empty_stack_size = @ + 1])

(* PoolGet without an element at hand: may it allocate one? *)
PoolMayGrow(p) == p.max_buckets = 0 \/ p.allocated < p.max_buckets

PoolGrow(p) == CountOut([p EXCEPT !.allocated = @ + 1])

(* PoolGet returns NULL without having called Alloc or Init. *)
PoolExhausted(p) == ~PoolHasElement(p) /\ ~PoolMayGrow(p)

(* PoolReturn: without a bucket the element leaves the pool for good. *)
PoolDrops(p) == p.empty_stack_size = 0

PoolReturnPush(p, a) ==
    [p EXCEPT !.alloc_stack = Append(@, a),
              !.empty_stack_size = @ - 1,
              !.outstanding = @ - 1]

PoolReturnDrop(p) == [p EXCEPT !.allocated = @ - 1, !.outstanding = @ - 1]

PoolReturned(p, a) == IF PoolDrops(p) THEN PoolReturnDrop(p) ELSE PoolReturnPush(p, a)
=============================================================================
