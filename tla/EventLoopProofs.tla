--------------------------- MODULE EventLoopProofs ---------------------------
(***************************************************************************)
(* Proofs about EventLoop for every number of descriptors, set size,       *)
(* handler and mask.                                                       *)
(*                                                                         *)
(* The invariants of the event loop record hold each other up: maxfd is    *)
(* exact only because the rescan of aeDeleteFileEvent starts below a slot  *)
(* that was the highest one in use, a resize keeps the kernel's list and   *)
(* the slots in step only because maxfd is exact, and a close leaves no    *)
(* slot behind only because Removed takes AE_BARRIER away with             *)
(* AE_WRITABLE.  BarrierOrder is not inductive: StageOrder says which      *)
(* handlers may have been called at each stage of an entry's dispatch.     *)
(***************************************************************************)
EXTENDS EventLoop, AeLemmas, FiniteSetTheorems, SequenceTheorems

Interest == (SUBSET ReadWrite) \union {NotMonitored}
LoopType == [setsize : SetSizes, maxfd : Fds \union {-1}, events : [Fds -> Slots],
             epoll : [Fds -> Interest]]

(* The types of everything but the event loop. *)
BatchType ==
    /\ pc \in {"setup", "check", "enter", "wait", "dispatch", "handler", "exited"}
    /\ fired \in Seq([fd : Fds, mask : Masks])
    /\ stage \in {"first", "write", "last", "done"}
    /\ invert \in BOOLEAN /\ called \in Seq(ReadWrite)
    /\ stop \in BOOLEAN

(* The handlers called so far, by the stage of the dispatch. *)
StageOrder ==
    /\ stage = "first" => called = <<>>
    /\ stage = "write" => called \in {<<>>, <<AE_READABLE>>} /\ (invert => called = <<>>)
    /\ stage = "last" =>
        IF invert THEN called \in {<<>>, <<AE_WRITABLE>>}
        ELSE called \in {<<>>, <<AE_READABLE>>, <<AE_WRITABLE>>, <<AE_READABLE, AE_WRITABLE>>}
    /\ stage = "done" =>
        IF invert
        THEN called \in {<<>>, <<AE_READABLE>>, <<AE_WRITABLE>>, <<AE_WRITABLE, AE_READABLE>>}
        ELSE called \in {<<>>, <<AE_READABLE>>, <<AE_WRITABLE>>, <<AE_READABLE, AE_WRITABLE>>}

(* The same invariants for an event loop l and the open descriptors o, to  *)
(* speak of the loop between the two steps of a close.                     *)
Mirrors(l) ==
    \A fd \in Fds :
        l.epoll[fd] = IF fd < l.setsize /\ l.events[fd].mask # {}
                      THEN l.events[fd].mask \cap ReadWrite ELSE NotMonitored
Exact(l) ==
    /\ \A fd \in Fds : fd < l.setsize /\ l.events[fd].mask # {} => fd <= l.maxfd
    /\ l.maxfd # -1 => l.maxfd < l.setsize /\ l.events[l.maxfd].mask # {}
OnlyOpen(l, o) ==
    \A fd \in Fds : fd < l.setsize /\ l.events[fd].mask # {} => fd \in o
Consistent(l, o) == Mirrors(l) /\ Exact(l) /\ OnlyOpen(l, o)

LoopInv == KernelMirrorsSlots /\ MaxfdExact /\ RegisteredIsOpen
IInv == TypeOK /\ LoopInv /\ StageOrder

-----------------------------------------------------------------------------
(* TypeOK, split into the event loop and the rest. *)
LEMMA TypeParts == TypeOK <=> el \in LoopType /\ open \subseteq Fds /\ BatchType
BY DEF TypeOK, LoopType, BatchType, Interest

(* The constants, as the lemmas on AeOps need them. *)
LEMMA LoopShape ==
    ASSUME NEW l \in LoopType
    PROVE  /\ Fds \in SUBSET Nat /\ l \in Loops(Fds, Slots, Interest)
           /\ l.setsize \in SetSizes /\ l.setsize \in Nat /\ l.maxfd \in Fds \union {-1}
           /\ l.events \in [Fds -> Slots] /\ l.epoll \in [Fds -> Interest]
           /\ \A fd \in Fds : l.events[fd] \in Slots /\ l.events[fd].mask \subseteq {"R", "W", "B"}
<1>1. Fds \in SUBSET Nat /\ SetSizes \in SUBSET Nat
    BY NumFdsAssumption, SetSizesAssumption DEF Fds
<1>2. /\ l.setsize \in SetSizes /\ l.maxfd \in Fds \union {-1}
      /\ l.events \in [Fds -> Slots] /\ l.epoll \in [Fds -> Interest]
    BY DEF LoopType
<1>3. Fds \union {-1} \subseteq Int
    BY <1>1
<1>4. l \in Loops(Fds, Slots, Interest)
    BY <1>1, <1>3 DEF LoopType, Loops
<1>5. \A fd \in Fds : l.events[fd] \in Slots /\ l.events[fd].mask \subseteq {"R", "W", "B"}
    BY <1>2 DEF Slots, Masks, AE_READABLE, AE_WRITABLE, AE_BARRIER
<1> QED BY <1>1, <1>2, <1>4, <1>5

(* The three invariants say that the loop is consistent. *)
LEMMA LoopInvParts == LoopInv <=> Consistent(el, open)
BY DEF LoopInv, Consistent, KernelMirrorsSlots, MaxfdExact, RegisteredIsOpen, Mirrors, Exact,
       OnlyOpen

(* The initial states: an empty loop, nothing open. *)
LEMMA InitIInv == Init => IInv
<1> SUFFICES ASSUME Init PROVE IInv
    OBVIOUS
<1>1. PICK n \in SetSizes :
        el = [setsize |-> n, maxfd |-> -1,
              events |-> [fd \in Fds |-> IF fd < n THEN Blank ELSE Garbage],
              epoll |-> [fd \in Fds |-> NotMonitored]]
    BY DEF Init
<1>2. Blank \in Slots /\ Garbage \in Slots /\ Blank.mask = {} /\ n \in Nat
    BY SetSizesAssumption, NumFdsAssumption
    DEF Blank, Garbage, EmptySlot, Slots, Masks, None, AE_READABLE
<1>3. el \in LoopType
  <2>1. [fd \in Fds |-> IF fd < n THEN Blank ELSE Garbage] \in [Fds -> Slots]
    BY <1>2
  <2>2. [fd \in Fds |-> NotMonitored] \in [Fds -> Interest]
    BY DEF Interest
  <2> QED BY <1>1, <2>1, <2>2 DEF LoopType
<1>4. open \subseteq Fds /\ BatchType /\ StageOrder
  <2>1. fired = <<>> /\ called = <<>> /\ stage = "first" /\ open = {} /\ pc = "setup"
    BY DEF Init
  <2>2. invert \in BOOLEAN /\ stop \in BOOLEAN
    BY Zenon DEF Init
  <2>3. StageOrder
    BY <2>1 DEF StageOrder
  <2> QED BY <2>1, <2>2, <2>3 DEF BatchType
<1>5. /\ el.setsize = n /\ el.maxfd = -1
      /\ \A fd \in Fds : el.events[fd] = IF fd < n THEN Blank ELSE Garbage
      /\ \A fd \in Fds : el.epoll[fd] = NotMonitored
    BY <1>1
<1>6. LoopInv
    BY <1>2, <1>5 DEF LoopInv, KernelMirrorsSlots, MaxfdExact, RegisteredIsOpen
<1> QED BY <1>3, <1>4, <1>6, TypeParts DEF IInv

-----------------------------------------------------------------------------
(* The program's calls keep the event loop consistent.                     *)

(* aeCreateFileEvent on an open descriptor. *)
LEMMA CreateStep ==
    ASSUME NEW l \in LoopType, NEW o \in SUBSET Fds, NEW n, Consistent(l, o),
           NEW fd \in o, NEW mask \in NewMasks, NEW proc \in Procs, CreateAccepted(l, fd),
           n = FileEventCreated(l, fd, mask, proc, None)
    PROVE  n \in LoopType /\ Consistent(n, o) /\ n.setsize = l.setsize
<1> DEFINE old == l.events[fd]
           new == old.mask \union mask
           slot == CreatedSlot(old, mask, proc, None)
<1>1. fd \in Fds /\ fd \in Nat /\ fd < l.setsize /\ mask \in Masks /\ mask # {}
    BY LoopShape, NewMasksAssumption DEF CreateAccepted
<1>2. /\ n = LoopOf(n.setsize, n.maxfd, n.events, n.epoll)
      /\ n.setsize = l.setsize
      /\ n.maxfd = IF fd > l.maxfd THEN fd ELSE l.maxfd
      /\ n.events = [l.events EXCEPT ![fd] = slot]
      /\ n.epoll = [l.epoll EXCEPT ![fd] = new \cap ReadWrite]
    BY <1>1, LoopShape, CreatedFields
<1>3. old \in Slots /\ old.mask \in Masks
    BY <1>1, LoopShape DEF Slots
<1>4. slot \in Slots /\ slot.mask = new /\ new # {}
    BY <1>1, <1>3 DEF CreatedSlot, Slots, Masks, None
<1> HIDE DEF slot
<1>5. n \in LoopType
  <2>1. n.maxfd \in Fds \union {-1} /\ n.setsize \in SetSizes
    BY <1>1, <1>2, LoopShape
  <2>2. n.events \in [Fds -> Slots]
    BY <1>2, <1>4, LoopShape
  <2>3. n.epoll \in [Fds -> Interest]
    BY <1>2, LoopShape DEF Interest
  <2> QED BY <1>2, <2>1, <2>2, <2>3 DEF LoopOf, LoopType
<1>6. /\ \A g \in Fds : n.events[g] = IF g = fd THEN slot ELSE l.events[g]
      /\ \A g \in Fds : n.epoll[g] = IF g = fd THEN new \cap ReadWrite ELSE l.epoll[g]
    BY <1>2, LoopShape
<1>7. Mirrors(n)
    BY <1>1, <1>2, <1>4, <1>6 DEF Consistent, Mirrors
<1>8. Exact(n)
  <2>1. \A g \in Fds : g \in Int
    BY LoopShape
  <2>2. l.maxfd \in Int
    BY LoopShape, <2>1
  <2>3. ASSUME NEW g \in Fds, g < n.setsize, n.events[g].mask # {} PROVE g <= n.maxfd
    <3>1. g # fd => g <= l.maxfd
      BY <1>2, <1>6, <2>3 DEF Consistent, Exact
    <3>2. fd \in Int /\ g \in Int /\ n.maxfd = IF fd > l.maxfd THEN fd ELSE l.maxfd
      BY <1>1, <1>2, <2>1
    <3> QED BY ONLY <2>2, <3>1, <3>2
  <2>4. ASSUME n.maxfd # -1
        PROVE  n.maxfd < n.setsize /\ n.events[n.maxfd].mask # {}
    <3>1. CASE n.maxfd = fd
      BY <1>1, <1>2, <1>4, <1>6, <3>1
    <3>2. CASE n.maxfd # fd
      <4>1. n.maxfd = l.maxfd /\ l.maxfd \in Fds
        BY <1>2, <2>4, <3>2, LoopShape
      <4>2. l.maxfd < l.setsize /\ l.events[l.maxfd].mask # {}
        BY <2>4, <4>1 DEF Consistent, Exact
      <4> QED BY <1>2, <1>6, <3>2, <4>1, <4>2
    <3> QED BY <3>1, <3>2
  <2> QED BY <2>3, <2>4 DEF Exact
<1>9. OnlyOpen(n, o)
    BY <1>2, <1>6 DEF Consistent, OnlyOpen
<1> QED BY <1>2, <1>5, <1>7, <1>8, <1>9 DEF Consistent

(* aeDeleteFileEvent: maxfd goes down to the highest slot left in use. *)
LEMMA DeleteStep ==
    ASSUME NEW l \in LoopType, NEW o \in SUBSET Fds, NEW n, Consistent(l, o),
           NEW fd \in o, NEW mask, n = FileEventDeleted(l, fd, mask)
    PROVE  /\ n \in LoopType /\ Consistent(n, o)
           /\ \A g \in Fds : g # fd => n.events[g] = l.events[g]
           /\ fd < l.setsize => n.events[fd].mask = l.events[fd].mask \ Removed(mask)
           /\ n.setsize = l.setsize
<1>1. fd \in Fds /\ fd \in Nat /\ l.setsize \in Nat
    BY LoopShape
<1>2. CASE fd >= l.setsize \/ l.events[fd].mask = {}
  <2>1. n = l
    BY <1>2, Zenon DEF FileEventDeleted
  <2>2. Consistent(n, o)
    BY <2>1 DEF Consistent, Mirrors, Exact, OnlyOpen
  <2> QED BY <1>1, <1>2, <2>1, <2>2
<1>3. CASE fd < l.setsize /\ l.events[fd].mask # {}
  <2> DEFINE left == l.events[fd].mask \ Removed(mask)
             slot == [l.events[fd] EXCEPT !.mask = left]
  <2>1. /\ n = LoopOf(n.setsize, n.maxfd, n.events, n.epoll)
        /\ n.setsize = l.setsize
        /\ n.maxfd = IF fd = l.maxfd /\ left = {} THEN MaxfdBelow(l, fd) ELSE l.maxfd
        /\ n.events = [l.events EXCEPT ![fd] = slot]
        /\ n.epoll = [l.epoll EXCEPT ![fd] =
                          IF left = {} THEN NotMonitored ELSE left \cap ReadWrite]
    BY <1>1, <1>3, LoopShape, DeletedFields
  <2>2. l.events[fd] \in Slots
    BY <1>1, LoopShape
  <2>3. slot \in Slots /\ slot.mask = left
    BY <2>2 DEF Slots, Masks
  <2> HIDE DEF slot
  <2>4. /\ MaxfdBelow(l, fd) = -1 \/ ( /\ MaxfdBelow(l, fd) \in Fds /\ MaxfdBelow(l, fd) < fd
                                        /\ l.events[MaxfdBelow(l, fd)].mask # {} )
        /\ \A j \in Fds : j < fd /\ l.events[j].mask # {} => j <= MaxfdBelow(l, fd)
    BY <1>1, LoopShape, MaxfdBelowFinds
  <2>5. n \in LoopType
    <3>1. n.maxfd \in Fds \union {-1} /\ n.setsize \in SetSizes
      BY <2>1, <2>4, LoopShape
    <3>2. n.events \in [Fds -> Slots]
      BY <2>1, <2>3, LoopShape
    <3>3. n.epoll \in [Fds -> Interest]
      BY <2>1, LoopShape DEF Interest
    <3> QED BY <2>1, <3>1, <3>2, <3>3 DEF LoopOf, LoopType
  <2>6. /\ \A g \in Fds : n.events[g] = IF g = fd THEN slot ELSE l.events[g]
        /\ \A g \in Fds : n.epoll[g] =
              IF g # fd THEN l.epoll[g]
              ELSE IF left = {} THEN NotMonitored ELSE left \cap ReadWrite
    BY <2>1, LoopShape
  <2>7. Mirrors(n)
    BY <1>1, <1>3, <2>1, <2>3, <2>6, ZenonT(40) DEF Consistent, Mirrors
  <2>8. Exact(n)
    <3>1. \A g \in Fds : g \in Int
      BY LoopShape
    <3>2. l.maxfd \in Int
      BY LoopShape, <3>1
    <3>5. \A g \in Fds : g < l.setsize /\ l.events[g].mask # {} => g <= l.maxfd
      BY Zenon DEF Consistent, Exact
    <3>3. CASE fd = l.maxfd /\ left = {}
      <4>1. n.maxfd = MaxfdBelow(l, fd)
        BY <2>1, <3>3
      <4>2. ASSUME NEW g \in Fds, g < n.setsize, n.events[g].mask # {} PROVE g <= n.maxfd
        <5>1. g # fd /\ g < l.setsize /\ l.events[g].mask # {}
          BY <2>1, <2>3, <2>6, <3>3, <4>2
        <5>2. g < fd
          <6>1. g <= fd /\ g \in Int /\ fd \in Int
            BY <1>1, <3>1, <3>3, <3>5, <5>1
          <6> QED BY ONLY <5>1, <6>1
        <5> QED BY <2>4, <4>1, <5>1, <5>2
      <4>3. n.maxfd # -1 => n.maxfd < n.setsize /\ n.events[n.maxfd].mask # {}
        <5>1. CASE MaxfdBelow(l, fd) = -1
          BY <4>1, <5>1
        <5>2. CASE MaxfdBelow(l, fd) # -1
          <6> DEFINE m == MaxfdBelow(l, fd)
          <6>1. m \in Fds /\ m < fd /\ l.events[m].mask # {}
            BY <2>4, <5>2
          <6> HIDE DEF m
          <6>2. m # fd /\ m < l.setsize
            <7>1. m \in Int
              BY <3>1, <6>1
            <7> QED BY <1>1, <1>3, <6>1, <7>1
          <6>3. n.events[m].mask # {}
            BY <2>6, <6>1, <6>2
          <6> QED BY <2>1, <4>1, <6>2, <6>3 DEF m
        <5> QED BY <5>1, <5>2
      <4> QED BY <4>2, <4>3 DEF Exact
    <3>4. CASE ~(fd = l.maxfd /\ left = {})
      <4>1. n.maxfd = l.maxfd
        BY <2>1, <3>4
      <4>2. ASSUME NEW g \in Fds, g < n.setsize, n.events[g].mask # {} PROVE g <= n.maxfd
        <5>1. g < l.setsize /\ l.events[g].mask # {}
          <6>1. CASE g = fd
            BY <1>3, <6>1
          <6>2. CASE g # fd
            BY <2>1, <2>6, <4>2, <6>2
          <6> QED BY <6>1, <6>2
        <5> QED BY <3>5, <4>1, <5>1
      <4>3. ASSUME n.maxfd # -1 PROVE n.maxfd < n.setsize /\ n.events[n.maxfd].mask # {}
        <5>1. l.maxfd < l.setsize /\ l.events[l.maxfd].mask # {}
          BY <4>1, <4>3, Zenon DEF Consistent, Exact
        <5>2. l.maxfd \in Fds
          BY <4>1, <4>3, LoopShape
        <5>3. n.events[l.maxfd].mask # {}
          <6>1. CASE l.maxfd = fd
            BY <2>3, <2>6, <3>4, <6>1
          <6>2. CASE l.maxfd # fd
            BY <2>6, <5>1, <5>2, <6>2
          <6> QED BY <6>1, <6>2
        <5> QED BY <2>1, <4>1, <5>1, <5>3
      <4> QED BY <4>2, <4>3 DEF Exact
    <3> QED BY <3>3, <3>4
  <2>9. OnlyOpen(n, o)
    BY <1>3, <2>1, <2>6 DEF Consistent, OnlyOpen
  <2> QED BY <2>1, <2>3, <2>5, <2>6, <2>7, <2>8, <2>9 DEF Consistent
<1>4. (fd >= l.setsize \/ l.events[fd].mask = {}) \/ (fd < l.setsize /\ l.events[fd].mask # {})
    BY <1>1
<1> QED BY <1>2, <1>3, <1>4

(* Closing a descriptor: both directions are deleted first, so the slot is *)
(* empty when close takes the descriptor out of the interest list.         *)
LEMMA CloseStep ==
    ASSUME NEW l \in LoopType, NEW o \in SUBSET Fds, NEW n, Consistent(l, o), NEW fd \in o,
           n = [FileEventDeleted(l, fd, ReadWrite) EXCEPT !.epoll[fd] = NotMonitored]
    PROVE  n \in LoopType /\ Consistent(n, o \ {fd}) /\ n.setsize = l.setsize
<1> DEFINE d == FileEventDeleted(l, fd, ReadWrite)
<1>1. fd \in Fds /\ fd \in Nat /\ l.setsize \in Nat
    BY LoopShape
<1>2. /\ d \in LoopType /\ d.setsize = l.setsize /\ Consistent(d, o)
      /\ fd < l.setsize => d.events[fd].mask = l.events[fd].mask \ Removed(ReadWrite)
    BY DeleteStep
<1>3. fd < l.setsize => d.events[fd].mask = {}
  <2>1. l.events[fd].mask \subseteq {"R", "W", "B"}
    BY <1>1, LoopShape
  <2>2. Removed(ReadWrite) = {"R", "W", "B"}
    BY DEF Removed, ReadWrite, AE_READABLE, AE_WRITABLE, AE_BARRIER
  <2> QED BY <1>2, <2>1, <2>2
<1>4. n = [d EXCEPT !.epoll[fd] = NotMonitored]
    OBVIOUS
<1> HIDE DEF d
<1>5. d.epoll[fd] = NotMonitored
    BY <1>1, <1>2, <1>3 DEF Consistent, Mirrors
<1>6. n = d
  <2>1. d.epoll = [d.epoll EXCEPT ![fd] = NotMonitored]
    BY <1>1, <1>2, <1>5 DEF LoopType
  <2>2. n = [d EXCEPT !.epoll = [d.epoll EXCEPT ![fd] = NotMonitored]]
    BY <1>4
  <2>3. [d EXCEPT !.epoll = d.epoll] = d
    BY <1>2 DEF LoopType
  <2> QED BY <2>1, <2>2, <2>3
<1>7. OnlyOpen(d, o \ {fd})
    BY <1>2, <1>3 DEF Consistent, OnlyOpen
<1> QED BY <1>2, <1>6, <1>7 DEF Consistent

(* aeResizeSetSize: a new array that still holds the slot of maxfd holds   *)
(* every slot in use.                                                      *)
LEMMA ResizeStep ==
    ASSUME NEW l \in LoopType, NEW o \in SUBSET Fds, NEW n, Consistent(l, o),
           NEW size \in SetSizes, ResizeAccepted(l, size), n = Resized(l, size, Blank, Garbage)
    PROVE  /\ n \in LoopType /\ Consistent(n, o)
           /\ \A fd \in Fds : fd < l.setsize /\ l.events[fd].mask # {} =>
                fd < n.setsize /\ n.events[fd] = l.events[fd]
<1>1. CASE size = l.setsize
  <2>1. n = l
    BY <1>1 DEF Resized
  <2> QED BY <2>1
<1>2. CASE size # l.setsize
  <2> DEFINE E == [fd \in Fds |-> IF fd >= size THEN Garbage
                                  ELSE IF fd > l.maxfd THEN Blank ELSE l.events[fd]]
  <2>1. DOMAIN l.events = Fds /\ l.maxfd < size
    BY <1>2, LoopShape DEF ResizeAccepted
  <2>2. n = [l EXCEPT !.setsize = size, !.events = E]
    BY <1>2, <2>1 DEF Resized
  <2>3. Blank \in Slots /\ Garbage \in Slots /\ Blank.mask = {}
    BY DEF Blank, Garbage, EmptySlot, Slots, Masks, None, AE_READABLE
  <2>4. E \in [Fds -> Slots]
    BY <2>3, LoopShape
  <2>5. \A fd \in Fds : E[fd] = IF fd >= size THEN Garbage
                                ELSE IF fd > l.maxfd THEN Blank ELSE l.events[fd]
    OBVIOUS
  <2> HIDE DEF E
  <2>6. n = LoopOf(size, l.maxfd, E, l.epoll)
    <3> DEFINE l1 == [setsize |-> size, maxfd |-> l.maxfd, events |-> l.events, epoll |-> l.epoll]
    <3>1. [l EXCEPT !.setsize = size] = l1
      BY DEF LoopType
    <3>2. [l1 EXCEPT !.events = E] = LoopOf(size, l.maxfd, E, l.epoll)
      BY DEF LoopOf
    <3> HIDE DEF l1
    <3>3. [l EXCEPT !.setsize = size, !.events = E] = [[l EXCEPT !.setsize = size] EXCEPT !.events = E]
      OBVIOUS
    <3> QED BY <2>2, <3>1, <3>2, <3>3
  <2>7. n.setsize = size /\ n.maxfd = l.maxfd /\ n.events = E /\ n.epoll = l.epoll
    BY <2>6 DEF LoopOf
  <2>8. n \in LoopType
    <3>1. l.maxfd \in Fds \union {-1} /\ l.epoll \in [Fds -> Interest]
      BY LoopShape
    <3> QED BY <2>4, <2>6, <3>1 DEF LoopOf, LoopType
  <2>9. /\ size \in Nat /\ l.setsize \in Nat /\ l.maxfd \in Int
        /\ \A fd \in Fds : fd \in Nat
    <3>1. SetSizes \in SUBSET Nat
      BY NumFdsAssumption, SetSizesAssumption
    <3> QED BY <3>1, LoopShape
  <2>10. l.maxfd # -1 => /\ l.maxfd \in Fds /\ l.maxfd < l.setsize
                         /\ l.events[l.maxfd].mask # {}
    BY LoopShape DEF Consistent, Exact
  <2>11. \A fd \in Fds : fd < l.setsize /\ l.events[fd].mask # {} => fd <= l.maxfd
    BY DEF Consistent, Exact
  <2>12. ASSUME NEW fd \in Fds
         PROVE  IF fd <= l.maxfd
                THEN fd < size /\ fd < l.setsize /\ n.events[fd] = l.events[fd]
                ELSE /\ fd < size => n.events[fd].mask = {}
                     /\ ~(fd < l.setsize /\ l.events[fd].mask # {})
    <3>1. fd \in Nat
      BY <2>9
    <3>2. CASE fd <= l.maxfd
      <4>1. fd < size /\ fd < l.setsize
        BY <2>1, <2>9, <2>10, <3>1, <3>2
      <4>2. ~(fd >= size) /\ ~(fd > l.maxfd)
        BY <2>9, <3>1, <3>2, <4>1
      <4>3. n.events[fd] = l.events[fd]
        BY <2>5, <2>7, <4>2
      <4> QED BY <3>2, <4>1, <4>3
    <3>3. CASE ~(fd <= l.maxfd)
      <4>1. fd < size => ~(fd >= size) /\ fd > l.maxfd
        BY <2>9, <3>1, <3>3
      <4>2. fd < size => n.events[fd].mask = {}
        BY <2>3, <2>5, <2>7, <4>1
      <4> QED BY <2>11, <3>3, <4>2
    <3> QED BY <3>2, <3>3
  <2>13. Mirrors(n)
    BY <2>7, <2>12 DEF Consistent, Mirrors
  <2>14. Exact(n)
    <3>1. \A fd \in Fds : fd < n.setsize /\ n.events[fd].mask # {} => fd <= n.maxfd
      BY <2>7, <2>12
    <3>2. ASSUME n.maxfd # -1 PROVE n.maxfd < n.setsize /\ n.events[n.maxfd].mask # {}
      <4>1. l.maxfd \in Fds /\ l.maxfd <= l.maxfd /\ l.events[l.maxfd].mask # {}
        BY <2>7, <2>9, <2>10, <3>2
      <4> QED BY <2>7, <2>12, <4>1
    <3> QED BY <3>1, <3>2 DEF Exact
  <2>15. OnlyOpen(n, o)
    BY <2>7, <2>12 DEF Consistent, OnlyOpen
  <2>16. \A fd \in Fds : fd < l.setsize /\ l.events[fd].mask # {} =>
            fd < n.setsize /\ n.events[fd] = l.events[fd]
    BY <2>7, <2>12
  <2> QED BY <2>8, <2>13, <2>14, <2>15, <2>16 DEF Consistent
<1> QED BY <1>1, <1>2

-----------------------------------------------------------------------------
(* The batch and its dispatch.                                             *)

(* What aeApiPoll stores is a sequence of entries for known descriptors. *)
LEMMA BatchesType ==
    ASSUME NEW fds \in SUBSET Fds, NEW b \in Batches(fds)
    PROVE  b \in Seq([fd : Fds, mask : Masks])
<1>1. PICK s \in Orders(fds), m \in [fds -> SUBSET ReadWrite] :
        b = [i \in DOMAIN s |-> [fd |-> s[i], mask |-> m[s[i]]]]
    BY DEF Batches
<1>2. Cardinality(fds) \in Nat
  <2>1. IsFiniteSet(Fds)
    BY FS_Interval, NumFdsAssumption DEF Fds
  <2>2. IsFiniteSet(fds)
    BY <2>1, FS_Subset
  <2> QED BY <2>2, FS_CardinalityType
<1>3. DOMAIN s = 1 .. Cardinality(fds) /\ \A i \in DOMAIN s : s[i] \in fds
    BY DEF Orders
<1>4. \A i \in DOMAIN s : [fd |-> s[i], mask |-> m[s[i]]] \in [fd : Fds, mask : Masks]
  <2>1. SUBSET ReadWrite \subseteq Masks
    BY DEF ReadWrite, Masks
  <2> QED BY <1>3, <2>1
<1>5. b \in [1 .. Cardinality(fds) -> [fd : Fds, mask : Masks]]
    BY <1>1, <1>3, <1>4
<1> DEFINE S == [fd : Fds, mask : Masks]
           n == Cardinality(fds)
<1>6. n \in Nat /\ b \in [1 .. n -> S]
    BY <1>2, <1>5
<1> HIDE DEF S, n
<1>7. b \in Seq(S)
    BY <1>6, SeqDef
<1> QED BY <1>7 DEF S

(* The sequences of calls the dispatcher can make. *)
LEMMA CallSequences ==
    /\ {<<>>, <<AE_READABLE>>, <<AE_WRITABLE>>} \subseteq Seq(ReadWrite)
    /\ {<<AE_READABLE, AE_WRITABLE>>, <<AE_WRITABLE, AE_READABLE>>} \subseteq Seq(ReadWrite)
BY DEF ReadWrite, AE_READABLE, AE_WRITABLE

(* Appending to a sequence of no call or one. *)
LEMMA Appended ==
    ASSUME NEW x, NEW y
    PROVE  Append(<<>>, x) = <<x>> /\ Append(<<x>>, y) = <<x, y>>
<1> DEFINE a == Append(<<x>>, y)
           b == <<x, y>>
<1>1. <<x>> \in Seq({x, y}) /\ Len(<<x>>) = 1 /\ <<x>>[1] = x
    OBVIOUS
<1>2. a \in Seq({x, y}) /\ Len(a) = 2 /\ a[1] = x /\ a[2] = y
    BY <1>1, AppendProperties
<1>3. b \in Seq({x, y}) /\ Len(b) = 2 /\ b[1] = x /\ b[2] = y
    OBVIOUS
<1> HIDE DEF a, b
<1>4. \A i \in 1 .. Len(a) : a[i] = b[i]
    BY <1>2, <1>3
<1>5. a = b
    BY <1>2, <1>3, <1>4, SeqEqual
<1> QED BY <1>5 DEF a, b

(* The dispatcher calls the handlers of an entry in an order StageOrder    *)
(* allows.                                                                 *)
LEMMA DispatchFirstStep == BatchType /\ StageOrder /\ DispatchFirst => BatchType' /\ StageOrder'
<1> SUFFICES ASSUME BatchType, StageOrder, DispatchFirst PROVE BatchType' /\ StageOrder'
    OBVIOUS
<1>1. called = <<>> /\ stage' = "write" /\ UNCHANGED <<fired, stop>>
    BY DEF DispatchFirst, StageOrder
<1>2. invert' \in BOOLEAN /\ stop' \in BOOLEAN
  <2>1. invert' = (AE_BARRIER \in Slot.mask)
    BY DEF DispatchFirst
  <2>2. invert' \in BOOLEAN
    BY <2>1
  <2> QED BY <1>1, <2>2 DEF BatchType
<1>3. /\ called' \in {<<>>, <<AE_READABLE>>} /\ (invert' => called' = <<>>)
      /\ pc' \in {"dispatch", "handler"}
    BY <1>1 DEF DispatchFirst, Call, Skip
<1>4. called' \in Seq(ReadWrite)
    BY <1>3, CallSequences
<1> QED BY <1>1, <1>2, <1>3, <1>4 DEF BatchType, StageOrder

(* The writable handler: first when the order is inverted, second when not. *)
LEMMA DispatchWriteStep == BatchType /\ StageOrder /\ DispatchWrite => BatchType' /\ StageOrder'
<1> SUFFICES ASSUME BatchType, StageOrder, DispatchWrite PROVE BatchType' /\ StageOrder'
    OBVIOUS
<1>1. /\ called \in {<<>>, <<AE_READABLE>>} /\ (invert => called = <<>>)
      /\ stage' = "last" /\ UNCHANGED <<fired, invert, stop>>
    BY DEF DispatchWrite, StageOrder
<1>2. invert' \in BOOLEAN /\ stop' \in BOOLEAN
    BY Zenon DEF DispatchWrite, BatchType
<1>3. called' \in {called, Append(called, AE_WRITABLE)} /\ pc' \in {"dispatch", "handler"}
    BY DEF DispatchWrite, Call, Skip
<1>4. /\ called' \in {<<>>, <<AE_READABLE>>, <<AE_WRITABLE>>, <<AE_READABLE, AE_WRITABLE>>}
      /\ invert' => called' \in {<<>>, <<AE_WRITABLE>>}
    BY <1>1, <1>3, Appended
<1>5. called' \in Seq(ReadWrite)
    BY <1>4, CallSequences
<1> QED BY <1>1, <1>2, <1>3, <1>4, <1>5 DEF BatchType, StageOrder

(* The readable handler comes last only when the order is inverted. *)
LEMMA DispatchLastStep == BatchType /\ StageOrder /\ DispatchLast => BatchType' /\ StageOrder'
<1> SUFFICES ASSUME BatchType, StageOrder, DispatchLast PROVE BatchType' /\ StageOrder'
    OBVIOUS
<1>1. stage = "last" /\ stage' = "done" /\ UNCHANGED <<fired, invert, stop>>
    BY DEF DispatchLast
<1>2. invert' \in BOOLEAN /\ stop' \in BOOLEAN
    BY Zenon DEF DispatchLast, BatchType
<1>3. /\ called' \in {called, Append(called, AE_READABLE)} /\ pc' \in {"dispatch", "handler"}
      /\ ~invert => called' = called
    BY DEF DispatchLast, Call, Skip
<1>4. CASE invert
  <2>1. called \in {<<>>, <<AE_WRITABLE>>}
    BY <1>1, <1>4 DEF StageOrder
  <2>2. called' \in {<<>>, <<AE_READABLE>>, <<AE_WRITABLE>>, <<AE_WRITABLE, AE_READABLE>>}
    BY <1>3, <2>1, Appended
  <2>3. called' \in Seq(ReadWrite)
    BY <2>2, CallSequences
  <2> QED BY <1>1, <1>2, <1>3, <1>4, <2>2, <2>3 DEF BatchType, StageOrder
<1>5. CASE ~invert
  <2>1. called \in {<<>>, <<AE_READABLE>>, <<AE_WRITABLE>>, <<AE_READABLE, AE_WRITABLE>>}
    BY <1>1, <1>5 DEF StageOrder
  <2>2. called' = called
    BY <1>3, <1>5
  <2> QED BY <1>1, <1>2, <1>3, <1>5, <2>1, <2>2 DEF BatchType, StageOrder
<1> QED BY <1>4, <1>5

(* Every other step of the loop leaves the event loop record alone, and    *)
(* starts an entry with no call made.                                      *)
LEMMA LoopSteps ==
    ASSUME BatchType, StageOrder, open \subseteq Fds, Loop \/ aeApiPoll \/ Signal
    PROVE  BatchType' /\ StageOrder' /\ UNCHANGED <<el, open>>
<1>1. CASE aeMainEnter
    BY <1>1 DEF aeMainEnter, batchVars, BatchType, StageOrder
<1>2. CASE WhileNotStop
    BY <1>2 DEF WhileNotStop, batchVars, BatchType, StageOrder
<1>3. CASE EpollWait
    BY <1>3 DEF EpollWait, batchVars, BatchType, StageOrder
<1>4. CASE DispatchFirst
    BY <1>4, DispatchFirstStep DEF DispatchFirst
<1>5. CASE DispatchWrite
    BY <1>5, DispatchWriteStep DEF DispatchWrite
<1>6. CASE DispatchLast
    BY <1>6, DispatchLastStep DEF DispatchLast
<1>7. CASE NextEntry
  <2> DEFINE S == [fd : Fds, mask : Masks]
  <2>1. fired \in Seq(S) /\ fired # <<>> /\ fired' = Tail(fired)
    BY <1>7 DEF NextEntry, BatchType
  <2> HIDE DEF S
  <2>2. fired' \in Seq(S)
    BY <2>1, HeadTailProperties
  <2>3. fired' \in Seq([fd : Fds, mask : Masks])
    BY <2>2 DEF S
  <2>4. /\ stage' = "first" /\ invert' = FALSE /\ called' = <<>>
        /\ UNCHANGED <<el, open, pc, stop>>
    BY <1>7 DEF NextEntry
  <2> QED BY <2>3, <2>4, CallSequences DEF BatchType, StageOrder
<1>8. CASE BatchDone
    BY <1>8 DEF BatchDone, batchVars, BatchType, StageOrder
<1>9. CASE HandlerReturns
    BY <1>9 DEF HandlerReturns, batchVars, BatchType, StageOrder
<1>10. CASE aeApiPoll
  <2>1. fired' \in Seq([fd : Fds, mask : Masks])
    <3>1. PICK fds \in SUBSET {fd \in Fds : Reports(fd) # {}} : fired' \in Batches(fds)
      BY <1>10 DEF aeApiPoll
    <3> QED BY <3>1, BatchesType
  <2>2. /\ pc' = "dispatch" /\ stage' = "first" /\ invert' = FALSE /\ called' = <<>>
        /\ UNCHANGED <<el, open, stop>>
    BY <1>10 DEF aeApiPoll
  <2> QED BY <2>1, <2>2, CallSequences DEF BatchType, StageOrder
<1>11. CASE Signal
    BY <1>11 DEF Signal, batchVars, BatchType, StageOrder
<1> QED BY <1>1, <1>2, <1>3, <1>4, <1>5, <1>6, <1>7, <1>8, <1>9, <1>10, <1>11 DEF Loop

(* The program's calls leave the batch alone. *)
LEMMA ProgramSteps ==
    ASSUME el \in LoopType, open \subseteq Fds, LoopInv, Program
    PROVE  /\ el' \in LoopType /\ open' \subseteq Fds /\ LoopInv' /\ UNCHANGED <<pc, batchVars, stop>>
           /\ el'.setsize # el.setsize =>
                \A fd \in Fds : fd < el.setsize /\ el.events[fd].mask # {} =>
                    fd < el'.setsize /\ el'.events[fd] = el.events[fd]
<1>1. Consistent(el, open)
    BY LoopInvParts
<1>2. LoopInv' <=> Consistent(el', open')
    BY DEF LoopInv, Consistent, KernelMirrorsSlots, MaxfdExact, RegisteredIsOpen, Mirrors, Exact,
           OnlyOpen
<1>3. CASE Open
  <2>1. el' = el /\ open \subseteq open' /\ open' \subseteq Fds /\ UNCHANGED <<pc, batchVars, stop>>
    BY <1>3 DEF Open
  <2>2. Consistent(el, open')
    BY <1>1, <2>1 DEF Consistent, OnlyOpen
  <2> QED BY <1>2, <2>1, <2>2
<1>4. CASE DeleteAndClose
  <2>1. PICK fd \in open :
            /\ el' = [FileEventDeleted(el, fd, ReadWrite) EXCEPT !.epoll[fd] = NotMonitored]
            /\ open' = open \ {fd}
    BY <1>4 DEF DeleteAndClose
  <2>2. el' \in LoopType /\ Consistent(el', open \ {fd}) /\ el'.setsize = el.setsize
    BY <1>1, <2>1, CloseStep
  <2>3. UNCHANGED <<pc, batchVars, stop>>
    BY <1>4 DEF DeleteAndClose
  <2> QED BY <1>2, <2>1, <2>2, <2>3
<1>5. CASE aeCreateFileEvent
  <2>1. PICK fd \in open, mask \in NewMasks, proc \in Procs :
            CreateAccepted(el, fd) /\ el' = FileEventCreated(el, fd, mask, proc, None)
    BY <1>5 DEF aeCreateFileEvent
  <2>2. UNCHANGED <<open, pc, batchVars, stop>>
    BY <1>5 DEF aeCreateFileEvent
  <2>3. el' \in LoopType /\ Consistent(el', open) /\ el'.setsize = el.setsize
    BY <1>1, <2>1, CreateStep
  <2> QED BY <1>2, <2>2, <2>3
<1>6. CASE aeDeleteFileEvent
  <2>1. PICK fd \in open, mask \in {{AE_READABLE}, {AE_WRITABLE}, ReadWrite} :
            el' = FileEventDeleted(el, fd, mask)
    BY <1>6 DEF aeDeleteFileEvent
  <2>2. UNCHANGED <<open, pc, batchVars, stop>>
    BY <1>6 DEF aeDeleteFileEvent
  <2>3. el' \in LoopType /\ Consistent(el', open) /\ el'.setsize = el.setsize
    BY <1>1, <2>1, DeleteStep
  <2> QED BY <1>2, <2>2, <2>3
<1>7. CASE aeResizeSetSize
  <2>1. PICK n \in SetSizes : ResizeAccepted(el, n) /\ el' = Resized(el, n, Blank, Garbage)
    BY <1>7 DEF aeResizeSetSize
  <2>2. UNCHANGED <<open, pc, batchVars, stop>>
    BY <1>7 DEF aeResizeSetSize
  <2>3. /\ el' \in LoopType /\ Consistent(el', open)
        /\ \A fd \in Fds : fd < el.setsize /\ el.events[fd].mask # {} =>
                fd < el'.setsize /\ el'.events[fd] = el.events[fd]
    BY <1>1, <2>1, ResizeStep
  <2> QED BY <1>2, <2>2, <2>3
<1> QED BY <1>3, <1>4, <1>5, <1>6, <1>7 DEF Program

-----------------------------------------------------------------------------
(* The inductive invariant is kept by every step. *)
LEMMA NextIInv == IInv /\ [Next]_vars => IInv'
<1> SUFFICES ASSUME IInv, [Next]_vars PROVE IInv'
    OBVIOUS
<1>1. el \in LoopType /\ open \subseteq Fds /\ BatchType /\ LoopInv /\ StageOrder
    BY TypeParts DEF IInv
<1>2. IInv' <=> el' \in LoopType /\ open' \subseteq Fds /\ BatchType' /\ LoopInv' /\ StageOrder'
  <2>1. TypeOK' <=> el' \in LoopType /\ open' \subseteq Fds /\ BatchType'
    BY DEF TypeOK, LoopType, BatchType, Interest
  <2> QED BY <2>1 DEF IInv
<1>3. UNCHANGED <<el, open>> => LoopInv'
    BY <1>1 DEF LoopInv, KernelMirrorsSlots, MaxfdExact, RegisteredIsOpen
<1>4. UNCHANGED <<pc, batchVars, stop>> => BatchType' /\ StageOrder'
    BY <1>1 DEF batchVars, BatchType, StageOrder
<1>5. CASE Program
    BY <1>1, <1>2, <1>4, <1>5, ProgramSteps
<1>6. CASE Loop \/ aeApiPoll \/ Signal
    BY <1>1, <1>2, <1>3, <1>6, LoopSteps
<1>7. CASE UNCHANGED vars
  <2>1. UNCHANGED <<el, open>> /\ UNCHANGED <<pc, batchVars, stop>>
    BY <1>7 DEF vars, batchVars
  <2> QED BY <1>1, <1>2, <1>3, <1>4, <2>1
<1> QED BY <1>5, <1>6, <1>7 DEF Next

(* The event loop's record, the kernel's interest list, the open           *)
(* descriptors and the dispatch are consistent in every reachable state,   *)
(* whatever calls the handlers make.                                       *)
THEOREM EventLoopInvariant == Spec => []IInv
BY InitIInv, NextIInv, PTL DEF Spec

(* Types: whatever the handlers register, maxfd and the fired entries stay *)
(* within the descriptors and the set size is one that was asked for.      *)
THEOREM EventLoopTypes == Spec => []TypeOK
<1>1. IInv => TypeOK
    BY DEF IInv
<1> QED BY <1>1, EventLoopInvariant, PTL

(* epoll's interest list says what the slots say: aeApiAddEvent's choice   *)
(* between EPOLL_CTL_ADD and EPOLL_CTL_MOD is always the right one.        *)
THEOREM KernelAgrees == Spec => []KernelMirrorsSlots
<1>1. IInv => KernelMirrorsSlots
    BY DEF IInv, LoopInv
<1> QED BY <1>1, EventLoopInvariant, PTL

(* maxfd is the highest registered descriptor, for any number of them. *)
THEOREM MaxfdIsExact == Spec => []MaxfdExact
<1>1. IInv => MaxfdExact
    BY DEF IInv, LoopInv
<1> QED BY <1>1, EventLoopInvariant, PTL

(* The dispatcher never calls a handler for a closed descriptor. *)
THEOREM RegisteredAreOpen == Spec => []RegisteredIsOpen
<1>1. IInv => RegisteredIsOpen
    BY DEF IInv, LoopInv
<1> QED BY <1>1, EventLoopInvariant, PTL

(* AE_BARRIER inverts the order of the two handlers, and neither is called *)
(* twice for one entry of the batch.                                       *)
THEOREM BarrierIsKept == Spec => []BarrierOrder
<1>1. IInv => BarrierOrder
  <2> SUFFICES ASSUME IInv PROVE BarrierOrder
    OBVIOUS
  <2>1. stage \in {"first", "write", "last", "done"} /\ StageOrder
    BY TypeParts DEF IInv, BatchType
  <2>2. /\ called \in {<<>>, <<AE_READABLE>>, <<AE_WRITABLE>>, <<AE_READABLE, AE_WRITABLE>>,
                       <<AE_WRITABLE, AE_READABLE>>}
        /\ invert => called # <<AE_READABLE, AE_WRITABLE>>
    BY <2>1 DEF StageOrder, AE_READABLE, AE_WRITABLE
  <2>3. CASE called \in {<<>>, <<AE_READABLE>>, <<AE_WRITABLE>>}
    <3>1. Len(called) <= 2 /\ Len(called) # 2
      BY <2>3
    <3> QED BY <3>1 DEF BarrierOrder
  <2>4. CASE called = <<AE_READABLE, AE_WRITABLE>>
    <3>1. Len(called) = 2 /\ called[1] # called[2] /\ ~invert
      BY <2>2, <2>4 DEF AE_READABLE, AE_WRITABLE
    <3> QED BY <3>1 DEF BarrierOrder
  <2>5. CASE called = <<AE_WRITABLE, AE_READABLE>>
    <3>1. Len(called) = 2 /\ called[1] # called[2] /\ called[1] # AE_READABLE
      BY <2>5 DEF AE_READABLE, AE_WRITABLE
    <3> QED BY <3>1 DEF BarrierOrder
  <2> QED BY <2>2, <2>3, <2>4, <2>5
<1> QED BY <1>1, EventLoopInvariant, PTL

(* aeResizeSetSize never drops a registration: every slot in use is still  *)
(* there, as it was, in the array of the new size.                         *)
THEOREM ResizeIsSafe == Spec => ResizeKeepsSlots
<1> DEFINE Kept == el'.setsize # el.setsize =>
                \A fd \in Fds : fd < el.setsize /\ el.events[fd].mask # {} =>
                    fd < el'.setsize /\ el'.events[fd] = el.events[fd]
<1>1. IInv /\ [Next]_vars => [Kept]_vars
  <2> SUFFICES ASSUME IInv, [Next]_vars PROVE Kept
    OBVIOUS
  <2>1. el \in LoopType /\ open \subseteq Fds /\ BatchType /\ LoopInv /\ StageOrder
    BY TypeParts DEF IInv
  <2>2. CASE Program
    BY <2>1, <2>2, ProgramSteps
  <2>3. CASE Loop \/ aeApiPoll \/ Signal
    BY <2>1, <2>3, LoopSteps
  <2>4. CASE UNCHANGED vars
    BY <2>4 DEF vars
  <2> QED BY <2>2, <2>3, <2>4 DEF Next
<1> QED BY <1>1, EventLoopInvariant, PTL DEF Spec, ResizeKeepsSlots
=============================================================================
