------------------------------ MODULE PoolAbs ------------------------------
(***************************************************************************)
(* What a pool promises its client: a set of free elements and a set of    *)
(* elements in use, never overlapping.  A get moves an element from free   *)
(* to used or brings in a fresh one, never beyond the pool's capacity.     *)
(* Which element a get hands out, the counters, the buckets and the memory *)
(* are the business of the implementation (Pool.tla).                      *)
(***************************************************************************)
EXTENDS Integers, FiniteSets

CONSTANTS Elements,  \* all elements there may be
          Capacity   \* 0 is unlimited

VARIABLES free, used

absVars == <<free, used>>

AbsInit == free = {} /\ used = {}

WithinCapacity(n) == Capacity = 0 \/ n <= Capacity

Stock ==
    \E e \in Elements \ (free \union used) :
        /\ WithinCapacity(Cardinality(free \union used) + 1)
        /\ free' = free \union {e}
        /\ UNCHANGED used

Get ==
    \E e \in free : free' = free \ {e} /\ used' = used \union {e}

GetFresh ==
    /\ free = {}
    /\ WithinCapacity(Cardinality(used) + 1)
    /\ \E e \in Elements \ used : used' = used \union {e}
    /\ UNCHANGED free

Return ==
    \E e \in used : used' = used \ {e} /\ free' = free \union {e}

(* Only an unlimited pool may drop what it is given back. *)
ReturnDropped ==
    /\ Capacity = 0
    /\ \E e \in used : used' = used \ {e}
    /\ UNCHANGED free

Close == free' = {} /\ UNCHANGED used

AbsNext == Stock \/ Get \/ GetFresh \/ Return \/ ReturnDropped \/ Close

AbsSpec == AbsInit /\ [][AbsNext]_absVars
=============================================================================
