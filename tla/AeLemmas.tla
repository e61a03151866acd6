------------------------------ MODULE AeLemmas ------------------------------
(***************************************************************************)
(* What the operators of AeOps do to an event loop, field by field, and    *)
(* the rescan of aeDeleteFileEvent.  The proofs about the event loop and   *)
(* about the agents cite these lemmas instead of the operators.            *)
(***************************************************************************)
EXTENDS AeOps, WellFoundedInduction, TLAPS

(* Every non-empty set of naturals has a least element. *)
LEMMA LeastNatural ==
    ASSUME NEW S \in SUBSET Nat, S # {}
    PROVE  \E m \in S : \A k \in S : m <= k
<1>1. PICK m \in S : \A k \in S : ~(<<k, m>> \in OpToRel(<, Nat))
    BY WFMin, NatLessThanWellFounded, Zenon
<1>2. \A k \in S : ~(k < m)
    BY <1>1, Zenon DEF OpToRel
<1>3. \A k \in S : k \in Nat /\ m \in Nat
    OBVIOUS
<1>4. \A k \in S : m <= k
    BY <1>2, <1>3
<1> QED BY <1>4

(* A non-empty set of naturals below a bound has a greatest element. *)
LEMMA GreatestNatural ==
    ASSUME NEW T \in SUBSET Nat, NEW n \in Nat, T # {}, \A k \in T : k <= n
    PROVE  \E m \in T : \A k \in T : k <= m
<1> DEFINE S == {n - k : k \in T}
<1>1. S # {}
    OBVIOUS
<1>2. \A k \in T : n - k \in Nat
    OBVIOUS
<1>3. S \in SUBSET Nat
    BY <1>2
<1>4. PICK m \in S : \A k \in S : m <= k
  <2> HIDE DEF S
  <2> QED BY <1>1, <1>3, LeastNatural
<1>5. PICK t \in T : m = n - t
    OBVIOUS
<1>6. \A k \in T : n - t <= n - k
    BY <1>4, <1>5
<1>7. \A k \in T : k \in Nat /\ t \in Nat
    OBVIOUS
<1>8. \A k \in T : k <= t
    BY <1>6, <1>7
<1> QED BY <1>8

-----------------------------------------------------------------------------
(* The shape of an event loop over the descriptors D. *)
Loops(D, Slots, Interest) ==
    [setsize : Nat, maxfd : Int, events : [D -> Slots], epoll : [D -> Interest]]

(* aeDeleteFileEvent's rescan finds the highest slot below fd that is in   *)
(* use, or -1.                                                             *)
LEMMA MaxfdBelowFinds ==
    ASSUME NEW D \in SUBSET Nat, NEW Slots, NEW Interest, NEW l \in Loops(D, Slots, Interest),
           NEW fd \in D
    PROVE  LET m == MaxfdBelow(l, fd)
           IN  /\ m = -1 \/ (m \in D /\ m < fd /\ l.events[m].mask # {})
               /\ \A j \in D : j < fd /\ l.events[j].mask # {} => j <= m
<1> DEFINE used == {j \in DOMAIN l.events : j < fd /\ l.events[j].mask # {}}
<1>1. DOMAIN l.events = D
    BY DEF Loops
<1>2. used \in SUBSET Nat /\ used \subseteq D /\ \A j \in used : j <= fd
    BY <1>1
<1>3. MaxfdBelow(l, fd) = IF used = {} THEN -1 ELSE CHOOSE j \in used : \A k \in used : k <= j
    BY DEF MaxfdBelow
<1>4. \A j \in D : j < fd /\ l.events[j].mask # {} => j \in used
    BY <1>1
<1>5. \A j \in used : j \in D /\ j < fd /\ l.events[j].mask # {}
    BY <1>1
<1>6. CASE used = {}
    BY <1>3, <1>4, <1>6
<1>7. CASE used # {}
  <2> HIDE DEF used
  <2>1. \E m \in used : \A k \in used : k <= m
    BY <1>2, <1>7, GreatestNatural
  <2>2. MaxfdBelow(l, fd) \in used /\ \A k \in used : k <= MaxfdBelow(l, fd)
    BY <1>3, <1>7, <2>1
  <2> QED BY <1>4, <1>5, <2>2
<1> QED BY <1>6, <1>7

(* An event loop made of its fields, and the assignment of three of them. *)
LoopOf(setsize, maxfd, events, epoll) ==
    [setsize |-> setsize, maxfd |-> maxfd, events |-> events, epoll |-> epoll]
Assign(l, fd, slot, asked, top) ==
    [l EXCEPT !.events[fd] = slot, !.epoll[fd] = asked, !.maxfd = top]

(* Assigning to the fields assigns to these fields only. *)
LEMMA Assigned ==
    ASSUME NEW D, NEW Slots, NEW Interest, NEW l \in Loops(D, Slots, Interest),
           NEW fd, NEW slot, NEW asked, NEW top
    PROVE  Assign(l, fd, slot, asked, top) =
               LoopOf(l.setsize, top, [l.events EXCEPT ![fd] = slot],
                      [l.epoll EXCEPT ![fd] = asked])
<1> DEFINE l1 == [setsize |-> l.setsize, maxfd |-> l.maxfd,
                  events |-> [l.events EXCEPT ![fd] = slot], epoll |-> l.epoll]
           l2 == [setsize |-> l.setsize, maxfd |-> l.maxfd,
                  events |-> [l.events EXCEPT ![fd] = slot],
                  epoll |-> [l.epoll EXCEPT ![fd] = asked]]
<1>1. [l EXCEPT !.events[fd] = slot] = l1
    BY DEF Loops
<1>2. [l1 EXCEPT !.epoll[fd] = asked] = l2
    OBVIOUS
<1>3. [l2 EXCEPT !.maxfd = top] =
          [setsize |-> l.setsize, maxfd |-> top, events |-> [l.events EXCEPT ![fd] = slot],
           epoll |-> [l.epoll EXCEPT ![fd] = asked]]
    OBVIOUS
<1> HIDE DEF l1, l2
<1>4. [l EXCEPT !.events[fd] = slot, !.epoll[fd] = asked, !.maxfd = top] =
          [[[l EXCEPT !.events[fd] = slot] EXCEPT !.epoll[fd] = asked] EXCEPT !.maxfd = top]
    OBVIOUS
<1> QED BY <1>1, <1>2, <1>3, <1>4 DEF Assign, LoopOf

-----------------------------------------------------------------------------
(* The slot aeCreateFileEvent leaves behind. *)
CreatedSlot(old, mask, proc, data) ==
    [mask |-> old.mask \union mask,
     rfileProc |-> IF AE_READABLE \in mask THEN proc ELSE old.rfileProc,
     wfileProc |-> IF AE_WRITABLE \in mask THEN proc ELSE old.wfileProc,
     clientData |-> data]

(* aeCreateFileEvent: the slot, the interest list and maxfd. *)
LEMMA CreatedFields ==
    ASSUME NEW D, NEW Slots, NEW Interest, NEW l \in Loops(D, Slots, Interest),
           NEW fd \in D, NEW mask, NEW proc, NEW data
    PROVE  LET old == l.events[fd]
               c == FileEventCreated(l, fd, mask, proc, data)
           IN  /\ c = LoopOf(c.setsize, c.maxfd, c.events, c.epoll)
               /\ c.setsize = l.setsize
               /\ c.maxfd = IF fd > l.maxfd THEN fd ELSE l.maxfd
               /\ c.events = [l.events EXCEPT ![fd] = CreatedSlot(old, mask, proc, data)]
               /\ c.epoll = [l.epoll EXCEPT ![fd] = (old.mask \union mask) \cap ReadWrite]
<1> DEFINE old == l.events[fd]
           c == FileEventCreated(l, fd, mask, proc, data)
           slot == CreatedSlot(old, mask, proc, data)
           asked == (old.mask \union mask) \cap ReadWrite
           top == IF fd > l.maxfd THEN fd ELSE l.maxfd
<1>1. c = Assign(l, fd, slot, asked, top)
    BY Zenon DEF FileEventCreated, Assign, CreatedSlot
<1> HIDE DEF slot, asked, top, c
<1>2. c = LoopOf(l.setsize, top, [l.events EXCEPT ![fd] = slot], [l.epoll EXCEPT ![fd] = asked])
    BY <1>1, Assigned
<1>3. /\ c.setsize = l.setsize /\ c.maxfd = top
      /\ c.events = [l.events EXCEPT ![fd] = slot] /\ c.epoll = [l.epoll EXCEPT ![fd] = asked]
    BY <1>2 DEF LoopOf
<1> QED BY <1>2, <1>3, Zenon DEF slot, asked, top, c

(* aeDeleteFileEvent of a slot that is in use. *)
LEMMA DeletedFields ==
    ASSUME NEW D, NEW Slots, NEW Interest, NEW l \in Loops(D, Slots, Interest),
           NEW fd \in D, fd \in Int, NEW mask, fd < l.setsize, l.events[fd].mask # {}
    PROVE  LET left == l.events[fd].mask \ Removed(mask)
               d == FileEventDeleted(l, fd, mask)
           IN  /\ d = LoopOf(d.setsize, d.maxfd, d.events, d.epoll)
               /\ d.setsize = l.setsize
               /\ d.maxfd = IF fd = l.maxfd /\ left = {} THEN MaxfdBelow(l, fd) ELSE l.maxfd
               /\ d.events = [l.events EXCEPT ![fd] = [@ EXCEPT !.mask = left]]
               /\ d.epoll = [l.epoll EXCEPT ![fd] =
                                IF left = {} THEN NotMonitored ELSE left \cap ReadWrite]
<1> DEFINE left == l.events[fd].mask \ Removed(mask)
           d == FileEventDeleted(l, fd, mask)
           slot == [l.events[fd] EXCEPT !.mask = left]
           asked == IF left = {} THEN NotMonitored ELSE left \cap ReadWrite
           top == IF fd = l.maxfd /\ left = {} THEN MaxfdBelow(l, fd) ELSE l.maxfd
<1>1. ~(fd >= l.setsize \/ l.events[fd].mask = {})
  <2>1. l.setsize \in Int
    BY DEF Loops
  <2> QED BY <2>1
<1>2. d = [l EXCEPT !.events[fd].mask = left, !.epoll[fd] = asked, !.maxfd = top]
    BY <1>1, Zenon DEF FileEventDeleted
<1> HIDE DEF left, asked, top, d
<1>3. d = Assign(l, fd, slot, asked, top)
    BY <1>2 DEF Assign
<1> HIDE DEF slot
<1>4. d = LoopOf(l.setsize, top, [l.events EXCEPT ![fd] = slot], [l.epoll EXCEPT ![fd] = asked])
    BY <1>3, Assigned
<1>5. /\ d.setsize = l.setsize /\ d.maxfd = top
      /\ d.events = [l.events EXCEPT ![fd] = slot] /\ d.epoll = [l.epoll EXCEPT ![fd] = asked]
    BY <1>4 DEF LoopOf
<1> QED BY <1>4, <1>5, Zenon DEF left, slot, asked, top, d
=============================================================================
