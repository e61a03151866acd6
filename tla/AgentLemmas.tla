----------------------------- MODULE AgentLemmas -----------------------------
(***************************************************************************)
(* What the operators both agents use do to the event loop, to the sockets *)
(* and to the clients, descriptor by descriptor.  The proofs about the     *)
(* agents cite these lemmas instead of the operators.                      *)
(***************************************************************************)
EXTENDS AgentLoop, PoolOps, AeLemmas, SequenceTheorems

(* The agents' event loops: no agent asks for AE_BARRIER. *)
Procs == {"none", "accept_tcp_handler",
          "read_from_consumer", "write_to_remote_agent", "read_from_remote_agent",
          "write_to_consumer",
          "read_from_consumer_agent", "write_to_local_provider", "read_from_local_provider",
          "write_to_consumer_agent"}
Slots == [mask : SUBSET ReadWrite, rfileProc : Procs, wfileProc : Procs, clientData : Nat]
Interest == (SUBSET ReadWrite) \union {NotMonitored}
AgentLoops == Loops(Fds, Slots, Interest)

(* Only slots within the set size are in use. *)
InRange(l) == \A fd \in Fds : l.events[fd].mask # {} => fd < l.setsize

(* The kernel monitors what the slot says is registered. *)
Agrees(l, fd) == l.events[fd].mask = {} <=> l.epoll[fd] = NotMonitored

(* Nothing but the registrations of the descriptors fds differs. *)
SameBut(l, d, fds) ==
    /\ d \in AgentLoops /\ d.setsize = l.setsize
    /\ \A g \in Fds \ fds : d.events[g] = l.events[g] /\ d.epoll[g] = l.epoll[g]

(* The slot of fd in d is the one in l with another mask. *)
Masked(l, d, fd, mask) ==
    /\ d.events[fd].mask = mask
    /\ d.events[fd].rfileProc = l.events[fd].rfileProc
    /\ d.events[fd].wfileProc = l.events[fd].wfileProc
    /\ d.events[fd].clientData = l.events[fd].clientData

(* The event ev of fd has been registered in d. *)
Registers(l, d, fd, ev, proc, data) ==
    /\ SameBut(l, d, {fd})
    /\ d.events[fd].mask = l.events[fd].mask \union {ev}
    /\ d.events[fd].rfileProc = (IF ev = AE_READABLE THEN proc ELSE l.events[fd].rfileProc)
    /\ d.events[fd].wfileProc = (IF ev = AE_WRITABLE THEN proc ELSE l.events[fd].wfileProc)
    /\ d.events[fd].clientData = data

-----------------------------------------------------------------------------
LEMMA Descriptors == NumFds \in Nat /\ Fds \in SUBSET Nat /\ Fds \in SUBSET Int
                     /\ 0 \in Fds /\ -1 \notin Fds
<1>1. NumFds \in Nat /\ NumFds > 0
    BY LoopAssumption
<1> QED BY <1>1 DEF Fds

(* What is left of a mask after aeDeleteFileEvent. *)
LEMMA MaskLeft ==
    ASSUME NEW old \in SUBSET ReadWrite, NEW mask \in SUBSET ReadWrite
    PROVE  old \ Removed(mask) = old \ mask
BY DEF Removed, ReadWrite, AE_READABLE, AE_WRITABLE, AE_BARRIER

(* aeDeleteFileEvent takes the mask out of the slot of fd. *)
LEMMA Deleted ==
    ASSUME NEW l \in AgentLoops, InRange(l), NEW fd \in Fds, NEW mask \in SUBSET ReadWrite
    PROVE  LET d == FileEventDeleted(l, fd, mask)
           IN  /\ SameBut(l, d, {fd})
               /\ Masked(l, d, fd, l.events[fd].mask \ mask)
               /\ Agrees(l, fd) => Agrees(d, fd)
<1> DEFINE d == FileEventDeleted(l, fd, mask)
           left == l.events[fd].mask \ mask
           asked == IF left = {} THEN NotMonitored ELSE left \cap ReadWrite
<1>0. /\ l.setsize \in Nat /\ l.maxfd \in Int /\ l.events \in [Fds -> Slots]
      /\ l.epoll \in [Fds -> Interest] /\ l.events[fd] \in Slots /\ l.epoll[fd] \in Interest
    BY DEF AgentLoops, Loops
<1>m. l.events[fd].mask \in SUBSET ReadWrite
    BY <1>0 DEF Slots
<1>1. CASE l.events[fd].mask = {}
  <2>1. d = l
    BY <1>1, Zenon DEF FileEventDeleted
  <2> QED BY <1>1, <2>1 DEF SameBut, Masked
<1>2. CASE l.events[fd].mask # {}
  <2>1. fd < l.setsize /\ fd \in Int
    BY <1>2, Descriptors DEF InRange
  <2>2. l.events[fd].mask \ Removed(mask) = left
    BY <1>m, MaskLeft
  <2>3. /\ d = LoopOf(d.setsize, d.maxfd, d.events, d.epoll)
        /\ d.setsize = l.setsize
        /\ d.maxfd = IF fd = l.maxfd /\ left = {} THEN MaxfdBelow(l, fd) ELSE l.maxfd
        /\ d.events = [l.events EXCEPT ![fd] = [@ EXCEPT !.mask = left]]
        /\ d.epoll = [l.epoll EXCEPT ![fd] = asked]
    BY <1>2, <2>1, <2>2, DeletedFields DEF AgentLoops
  <2> HIDE DEF d
  <2>4. [l.events[fd] EXCEPT !.mask = left] \in Slots /\ left \in SUBSET ReadWrite
    BY <1>0, <1>m DEF Slots
  <2>5. asked \in Interest
    BY <2>4 DEF Interest
  <2>6. d.maxfd \in Int
    <3>1. l \in Loops(Fds, Slots, Interest) /\ Fds \in SUBSET Nat
        BY Descriptors DEF AgentLoops
    <3>2. MaxfdBelow(l, fd) = -1 \/ MaxfdBelow(l, fd) \in Fds
        BY <3>1, MaxfdBelowFinds
    <3> QED BY <1>0, <2>3, <3>2, Descriptors
  <2> HIDE DEF asked
  <2>7. d.events \in [Fds -> Slots] /\ d.epoll \in [Fds -> Interest] /\ d.setsize \in Nat
    BY <1>0, <2>3, <2>4, <2>5
  <2>8. LoopOf(d.setsize, d.maxfd, d.events, d.epoll) \in AgentLoops
    BY <2>6, <2>7 DEF LoopOf, AgentLoops, Loops
  <2>9. d \in AgentLoops
    BY <2>3, <2>8, Zenon
  <2>10. SameBut(l, d, {fd})
    BY <1>0, <2>3, <2>9 DEF SameBut
  <2>11. d.events[fd] = [l.events[fd] EXCEPT !.mask = left] /\ d.epoll[fd] = asked
    BY <1>0, <2>3
  <2>12. Masked(l, d, fd, left)
    BY <1>0, <2>11 DEF Masked, Slots
  <2>13. Agrees(d, fd)
    BY <2>4, <2>11, <2>12 DEF Agrees, Masked, asked, NotMonitored, ReadWrite, AE_READABLE, AE_WRITABLE
  <2> QED BY <2>10, <2>12, <2>13, Zenon DEF d
<1> QED BY <1>1, <1>2

(* aeCreateFileEvent adds an event to the slot of fd; its data replaces    *)
(* what was there.                                                         *)
LEMMA Created ==
    ASSUME NEW l \in AgentLoops, NEW fd \in Fds, NEW ev \in ReadWrite, NEW proc \in Procs,
           NEW data \in Nat
    PROVE  LET d == FileEventCreated(l, fd, {ev}, proc, data)
           IN  Registers(l, d, fd, ev, proc, data) /\ Agrees(d, fd)
<1> DEFINE d == FileEventCreated(l, fd, {ev}, proc, data)
           old == l.events[fd]
           slot == CreatedSlot(old, {ev}, proc, data)
           asked == (old.mask \union {ev}) \cap ReadWrite
<1>0. /\ l.setsize \in Nat /\ l.maxfd \in Int /\ l.events \in [Fds -> Slots]
      /\ l.epoll \in [Fds -> Interest] /\ old \in Slots
    BY DEF AgentLoops, Loops
<1>l. l \in Loops(Fds, Slots, Interest)
    BY Zenon DEF AgentLoops
<1>1. /\ d = LoopOf(d.setsize, d.maxfd, d.events, d.epoll)
      /\ d.setsize = l.setsize
      /\ d.maxfd = IF fd > l.maxfd THEN fd ELSE l.maxfd
      /\ d.events = [l.events EXCEPT ![fd] = slot]
      /\ d.epoll = [l.epoll EXCEPT ![fd] = asked]
    BY <1>l, CreatedFields, SMTT(30)
<1> HIDE DEF d
<1>2. /\ slot \in Slots /\ slot.mask = old.mask \union {ev} /\ slot.clientData = data
      /\ slot.rfileProc = IF ev = AE_READABLE THEN proc ELSE old.rfileProc
      /\ slot.wfileProc = IF ev = AE_WRITABLE THEN proc ELSE old.wfileProc
  <2>1. old.mask \union {ev} \in SUBSET ReadWrite /\ old.rfileProc \in Procs /\ old.wfileProc \in Procs
    BY <1>0 DEF Slots
  <2> QED BY <2>1 DEF CreatedSlot, Slots
<1>3. asked \in Interest /\ asked # NotMonitored
    BY DEF Interest, NotMonitored, ReadWrite, AE_READABLE, AE_WRITABLE
<1> HIDE DEF slot, asked
<1>4. d.events \in [Fds -> Slots] /\ d.epoll \in [Fds -> Interest] /\ d.setsize \in Nat
    BY <1>0, <1>1, <1>2, <1>3
<1>5. d.maxfd \in Int
    BY <1>0, <1>1, Descriptors
<1>6. LoopOf(d.setsize, d.maxfd, d.events, d.epoll) \in AgentLoops
    BY <1>4, <1>5 DEF LoopOf, AgentLoops, Loops
<1>7. d \in AgentLoops
    BY <1>1, <1>6, Zenon
<1>8. SameBut(l, d, {fd})
    BY <1>0, <1>1, <1>7 DEF SameBut
<1>9. d.events[fd] = slot /\ d.epoll[fd] = asked
    BY <1>0, <1>1
<1>10. Agrees(d, fd)
    BY <1>2, <1>3, <1>9 DEF Agrees
<1>11. Registers(l, d, fd, ev, proc, data)
    BY <1>2, <1>8, <1>9 DEF Registers
<1> QED BY <1>10, <1>11, Zenon DEF d

(* A closed descriptor leaves the interest list; the slots stay. *)
LEMMA Forgotten ==
    ASSUME NEW l \in AgentLoops, NEW fds
    PROVE  LET d == KernelForgets(l, fds)
           IN  /\ d \in AgentLoops /\ d.setsize = l.setsize /\ d.events = l.events
               /\ \A g \in Fds : d.epoll[g] = IF g \in fds THEN NotMonitored ELSE l.epoll[g]
<1> DEFINE epoll == [fd \in Fds |-> IF fd \in fds THEN NotMonitored ELSE l.epoll[fd]]
           d == KernelForgets(l, fds)
<1>0. /\ l.setsize \in Nat /\ l.maxfd \in Int /\ l.events \in [Fds -> Slots]
      /\ l.epoll \in [Fds -> Interest]
    BY DEF AgentLoops, Loops
<1>1. \A fd \in Fds : (IF fd \in fds THEN NotMonitored ELSE l.epoll[fd]) \in Interest
    BY <1>0 DEF Interest
<1>2. epoll \in [Fds -> Interest]
    BY <1>1
<1>3. d = [l EXCEPT !.epoll = epoll]
    BY Zenon DEF KernelForgets
<1>4. \A g \in Fds : epoll[g] = IF g \in fds THEN NotMonitored ELSE l.epoll[g]
    OBVIOUS
<1> HIDE DEF epoll, d
<1>5. d \in AgentLoops /\ d.setsize = l.setsize /\ d.events = l.events /\ d.epoll = epoll
    BY <1>2, <1>3 DEF AgentLoops, Loops
<1> QED BY <1>4, <1>5 DEF d

(* Both descriptors of an aborted connection, -1 or open, are dropped from *)
(* the loop and closed.                                                    *)
LEMMA Dropped ==
    ASSUME NEW l \in AgentLoops, InRange(l), NEW fd \in Fds \union {-1}
    PROVE  LET d == DropEvents(l, fd)
           IN  /\ SameBut(l, d, {fd}) /\ InRange(d)
               /\ fd \in Fds => Masked(l, d, fd, {})
<1> DEFINE d == DropEvents(l, fd)
<1>1. CASE fd = -1
  <2>1. d = l
    BY <1>1 DEF DropEvents
  <2> QED BY <1>1, <2>1, Descriptors DEF SameBut
<1>2. CASE fd \in Fds
  <2>1. fd \in Nat
    BY <1>2, Descriptors
  <2>2. d = FileEventDeleted(l, fd, ReadWrite)
    BY <2>1 DEF DropEvents
  <2> HIDE DEF d
  <2>3. l.events[fd].mask \ ReadWrite = {}
    BY <1>2 DEF AgentLoops, Loops, Slots
  <2>4. SameBut(l, d, {fd}) /\ Masked(l, d, fd, {})
    BY <1>2, <2>2, <2>3, Deleted
  <2>5. InRange(d)
    BY <2>4 DEF InRange, SameBut, Masked
  <2> QED BY <2>4, <2>5 DEF d
<1> QED BY <1>1, <1>2

LEMMA AbortDrops ==
    ASSUME NEW l \in AgentLoops, InRange(l), NEW f \in Fds \union {-1}, NEW g \in Fds \union {-1}
    PROVE  LET d == KernelForgets(DropEvents(DropEvents(l, f), g), {f, g} \cap Fds)
           IN  /\ SameBut(l, d, {f, g})
               /\ \A h \in Fds \cap {f, g} :
                    Masked(l, d, h, {}) /\ d.epoll[h] = NotMonitored
<1> DEFINE d1 == DropEvents(l, f)
           d2 == DropEvents(d1, g)
           d == KernelForgets(d2, {f, g} \cap Fds)
<1>1. SameBut(l, d1, {f}) /\ InRange(d1) /\ (f \in Fds => Masked(l, d1, f, {}))
    BY Dropped
<1>2. d1 \in AgentLoops
    BY <1>1 DEF SameBut
<1> HIDE DEF d1
<1>3. SameBut(d1, d2, {g}) /\ InRange(d2) /\ (g \in Fds => Masked(d1, d2, g, {}))
    BY <1>1, <1>2, Dropped
<1>4. d2 \in AgentLoops
    BY <1>3 DEF SameBut
<1> HIDE DEF d2
<1>5. /\ d \in AgentLoops /\ d.setsize = d2.setsize /\ d.events = d2.events
      /\ \A h \in Fds : d.epoll[h] = IF h \in {f, g} \cap Fds THEN NotMonitored ELSE d2.epoll[h]
    BY <1>4, Forgotten
<1> HIDE DEF d
<1>6. SameBut(l, d, {f, g})
    BY <1>1, <1>3, <1>5 DEF SameBut
<1>7. ASSUME NEW h \in Fds, h \in {f, g}
      PROVE  Masked(l, d, h, {}) /\ d.epoll[h] = NotMonitored
  <2>1. d.epoll[h] = NotMonitored
    BY <1>5, <1>7
  <2>2. CASE h = g
    <3>1. Masked(d1, d2, g, {})
        BY <1>3, <2>2
    <3>2. h = f \/ d1.events[h] = l.events[h]
        BY <1>1 DEF SameBut
    <3> QED BY <1>1, <1>5, <2>1, <2>2, <3>1, <3>2 DEF Masked
  <2>3. CASE h # g
    <3>1. d2.events[h] = d1.events[h] /\ Masked(l, d1, h, {})
        BY <1>1, <1>3, <1>7, <2>3 DEF SameBut
    <3> QED BY <1>5, <2>1, <3>1 DEF Masked
  <2> QED BY <2>2, <2>3
<1> QED BY <1>6, <1>7 DEF d, d2, d1

-----------------------------------------------------------------------------
(* Sockets that carry tokens of Tok *)

Kinds == {"free", "listen", "client", "ap", "apa"}
Socks(Tok) == [kind : Kinds, peer : Clients \union Nat, inq : Seq(Tok), st : {"open", "eof", "rst"}]

(* The two tables have the same sockets at every descriptor, in the same   *)
(* state or not.                                                           *)
SameSockets(s, t) == \A fd \in Fds : t[fd].kind = s[fd].kind /\ t[fd].peer = s[fd].peer

LEMMA PrefixSuffix ==
    ASSUME NEW Tok, NEW q \in Seq(Tok), NEW n \in 0 .. Len(q)
    PROVE  /\ Prefix(q, n) \in Seq(Tok) /\ Len(Prefix(q, n)) = n
           /\ Suffix(q, n) \in Seq(Tok) /\ Len(Suffix(q, n)) = Len(q) - n
           /\ \A i \in 1 .. n : Prefix(q, n)[i] = q[i]
           /\ \A i \in 1 .. Len(q) - n : Suffix(q, n)[i] = q[n + i]
<1>0. Len(q) \in Nat /\ DOMAIN q = 1 .. Len(q) /\ n \in Int /\ \A i \in 1 .. Len(q) : q[i] \in Tok
    OBVIOUS
<1>1. /\ SubSeq(q, 1, n) \in Seq(Tok)
      /\ Len(SubSeq(q, 1, n)) = IF 1 <= n THEN n - 1 + 1 ELSE 0
      /\ \A i \in 1 .. n - 1 + 1 : SubSeq(q, 1, n)[i] = q[1 + i - 1]
  <2>1. \A i \in 1 .. n : q[i] \in Tok
    BY <1>0
  <2>2. 1 \in Int /\ n \in Int
    BY <1>0
  <2> QED BY <2>1, <2>2, SubSeqProperties
<1>2. /\ SubSeq(q, n + 1, Len(q)) \in Seq(Tok)
      /\ Len(SubSeq(q, n + 1, Len(q))) = IF n + 1 <= Len(q) THEN Len(q) - (n + 1) + 1 ELSE 0
      /\ \A i \in 1 .. Len(q) - (n + 1) + 1 : SubSeq(q, n + 1, Len(q))[i] = q[(n + 1) + i - 1]
  <2>1. \A i \in n + 1 .. Len(q) : q[i] \in Tok
    BY <1>0
  <2>2. n + 1 \in Int /\ Len(q) \in Int
    BY <1>0
  <2> QED BY <2>1, <2>2, SubSeqProperties
<1>3. Prefix(q, n) = SubSeq(q, 1, n) /\ Suffix(q, n) = SubSeq(q, n + 1, Len(q))
    BY Zenon DEF Prefix, Suffix
<1> DEFINE u == Prefix(q, n)
           v == Suffix(q, n)
           k == Len(q)
<1>4. /\ u \in Seq(Tok) /\ Len(u) = (IF 1 <= n THEN n - 1 + 1 ELSE 0)
      /\ \A i \in 1 .. n - 1 + 1 : u[i] = q[1 + i - 1]
    BY <1>1, <1>3, Zenon
<1>5. /\ v \in Seq(Tok) /\ Len(v) = (IF n + 1 <= k THEN k - (n + 1) + 1 ELSE 0)
      /\ \A i \in 1 .. k - (n + 1) + 1 : v[i] = q[(n + 1) + i - 1]
    BY <1>2, <1>3, Zenon
<1>6. n \in 0 .. k /\ k \in Nat
    BY <1>0
<1> HIDE DEF u, v, k
<1>7. u \in Seq(Tok) /\ Len(u) = n /\ \A i \in 1 .. n : u[i] = q[i]
    BY <1>4, <1>6
<1>8. v \in Seq(Tok) /\ Len(v) = k - n /\ \A i \in 1 .. k - n : v[i] = q[n + i]
    BY <1>5, <1>6
<1> QED BY <1>7, <1>8, Zenon DEF u, v, k

LEMMA NoSocket == \A Tok : NoSock \in Socks(Tok) /\ NoSock.kind = "free"
<1> TAKE Tok
<1>1. <<>> \in Seq(Tok) /\ 0 \in Clients \union Nat
    BY EmptySeq
<1> QED BY <1>1 DEF NoSock, Socks, Kinds

LEMMA NewSocket ==
    ASSUME NEW Tok, NEW k \in Kinds, NEW x \in Clients \union Nat
    PROVE  Sock(k, x) \in Socks(Tok) /\ Sock(k, x).kind = k /\ Sock(k, x).peer = x
<1> DEFINE a == [NoSock EXCEPT !.kind = k]
           b == [a EXCEPT !.peer = x]
<1>1. Sock(k, x) = b
    BY DEF Sock
<1>2. a \in Socks(Tok) /\ a.kind = k
    BY NoSocket DEF Socks
<1> HIDE DEF a
<1>3. b \in Socks(Tok) /\ b.kind = k /\ b.peer = x
    BY <1>2 DEF Socks
<1> QED BY <1>1, <1>3

(* accept gets a descriptor that was free. *)
LEMMA NewDescriptor ==
    ASSUME NEW s, DOMAIN s = Fds, FreeFds(s) # {}
    PROVE  NewFd(s) \in Fds /\ s[NewFd(s)].kind = "free"
<1>1. FreeFds(s) \in SUBSET Nat
    BY Descriptors DEF FreeFds
<1>2. \E fd \in FreeFds(s) : \A g \in FreeFds(s) : fd <= g
    BY <1>1, LeastNatural
<1>3. NewFd(s) \in FreeFds(s)
    BY <1>2, Zenon DEF NewFd
<1> QED BY <1>3 DEF FreeFds

(* A read takes a prefix of what has been received and changes nothing     *)
(* else.                                                                   *)
LEMMA ReadTakes ==
    ASSUME NEW Tok, NEW s \in [Fds -> Socks(Tok)], NEW fd \in Fds, NEW space \in Nat
    PROVE  /\ Received(s[fd], space) \in Seq(Tok) /\ Len(Received(s[fd], space)) <= space
           /\ Len(Received(s[fd], space)) <= Len(s[fd].inq)
           /\ ReadResult(s[fd], space) = "data" => Received(s[fd], space) # <<>>
           /\ AfterRead(s, fd, space) \in [Fds -> Socks(Tok)]
           /\ SameSockets(s, AfterRead(s, fd, space))
<1> DEFINE q == s[fd].inq
           n == ReadLen(s[fd], space)
           t == AfterRead(s, fd, space)
<1>1. s[fd] \in Socks(Tok) /\ q \in Seq(Tok) /\ Len(q) \in Nat
    BY DEF Socks
<1>2. n \in 0 .. Len(q) /\ n <= space
    BY <1>1 DEF ReadLen
<1>3. t = [s EXCEPT ![fd] = [s[fd] EXCEPT !.inq = Suffix(q, n)]]
    BY DEF AfterRead
<1> HIDE DEF n, t, q
<1>4. /\ Prefix(q, n) \in Seq(Tok) /\ Len(Prefix(q, n)) = n
      /\ Suffix(q, n) \in Seq(Tok)
    BY <1>1, <1>2, PrefixSuffix
<1>5. Received(s[fd], space) = Prefix(q, n)
    BY DEF Received, q, n
<1>6. [s[fd] EXCEPT !.inq = Suffix(q, n)] \in Socks(Tok)
    BY <1>1, <1>4 DEF Socks
<1>7. t \in [Fds -> Socks(Tok)] /\ SameSockets(s, t)
    BY <1>1, <1>3, <1>6 DEF SameSockets, Socks
<1>8. ASSUME ReadResult(s[fd], space) = "data" PROVE Received(s[fd], space) # <<>>
  <2>1. space # 0
    BY <1>8 DEF ReadResult
  <2>2. s[fd].inq # <<>>
    <3>1. s[fd].st \in {"open", "eof", "rst"}
        BY <1>1 DEF Socks
    <3> QED BY <1>8, <2>1, <3>1 DEF ReadResult
  <2>3. Len(q) > 0
    BY <1>1, <2>2 DEF q
  <2>4. n > 0
    BY <1>1, <2>1, <2>3 DEF n, q, ReadLen
  <2> QED BY <1>4, <1>5, <2>4
<1> QED BY <1>2, <1>4, <1>5, <1>7, <1>8 DEF t, q, n

(* A write may turn the state of a socket. *)
LEMMA WriteTurns ==
    ASSUME NEW Tok, NEW s \in [Fds -> Socks(Tok)], NEW fd \in Fds, NEW n
    PROVE  /\ AfterWrite(s, fd, n) \in [Fds -> Socks(Tok)]
           /\ SameSockets(s, AfterWrite(s, fd, n))
<1> DEFINE st == IF s[fd].st = "eof" /\ n > 0 THEN "rst" ELSE s[fd].st
           t == AfterWrite(s, fd, n)
<1>1. s[fd] \in Socks(Tok) /\ s[fd].st \in {"open", "eof", "rst"}
    BY DEF Socks
<1>2. t = [s EXCEPT ![fd] = [s[fd] EXCEPT !.st = st]]
    BY DEF AfterWrite
<1>3. st \in {"open", "eof", "rst"}
    BY <1>1
<1> HIDE DEF st, t
<1>4. [s[fd] EXCEPT !.st = st] \in Socks(Tok)
    BY <1>1, <1>3 DEF Socks
<1>5. t \in [Fds -> Socks(Tok)] /\ SameSockets(s, t)
    BY <1>1, <1>2, <1>4 DEF SameSockets, Socks
<1> QED BY <1>5 DEF t

(* More tokens arrive on a socket. *)
LEMMA Arrives ==
    ASSUME NEW Tok, NEW s \in [Fds -> Socks(Tok)], NEW fd, NEW more \in Seq(Tok), NEW t,
           t = [s EXCEPT ![fd].inq = @ \o more]
    PROVE  t \in [Fds -> Socks(Tok)] /\ SameSockets(s, t)
<1>1. CASE fd \in Fds
  <2> DEFINE q == s[fd].inq \o more
             x == [s[fd] EXCEPT !.inq = q]
  <2>1. t = [s EXCEPT ![fd] = x]
    BY Zenon
  <2>2. s[fd] \in Socks(Tok) /\ q \in Seq(Tok)
    BY <1>1 DEF Socks
  <2> HIDE DEF q
  <2>3. x \in Socks(Tok) /\ x.kind = s[fd].kind /\ x.peer = s[fd].peer
    BY <2>2 DEF Socks
  <2> HIDE DEF x
  <2> QED BY <1>1, <2>1, <2>3 DEF SameSockets
<1>2. CASE fd \notin Fds
  <2>1. t = s
    BY <1>2
  <2> QED BY <2>1 DEF SameSockets
<1> QED BY <1>1, <1>2

(* The peer of a socket closes or resets the connection. *)
LEMMA Turns ==
    ASSUME NEW Tok, NEW s \in [Fds -> Socks(Tok)], NEW fd, NEW st \in {"open", "eof", "rst"}, NEW t,
           t = [s EXCEPT ![fd].st = st]
    PROVE  t \in [Fds -> Socks(Tok)] /\ SameSockets(s, t)
<1>1. CASE fd \in Fds
  <2> DEFINE x == [s[fd] EXCEPT !.st = st]
  <2>1. t = [s EXCEPT ![fd] = x]
    BY Zenon
  <2>2. x \in Socks(Tok) /\ x.kind = s[fd].kind /\ x.peer = s[fd].peer
    BY <1>1 DEF Socks
  <2> HIDE DEF x
  <2> QED BY <1>1, <2>1, <2>2 DEF SameSockets
<1>2. CASE fd \notin Fds
  <2>1. t = s
    BY <1>2
  <2> QED BY <2>1 DEF SameSockets
<1> QED BY <1>1, <1>2

(* A closed descriptor is free, the others stay. *)
LEMMA Closes ==
    ASSUME NEW Tok, NEW s \in [Fds -> Socks(Tok)], NEW fds
    PROVE  /\ CloseFds(s, fds) \in [Fds -> Socks(Tok)]
           /\ \A fd \in Fds : CloseFds(s, fds)[fd] = IF fd \in fds THEN NoSock ELSE s[fd]
<1>1. NoSock \in Socks(Tok)
  <2>1. <<>> \in Seq(Tok) /\ 0 \in Clients \union Nat
    BY EmptySeq
  <2> QED BY <2>1 DEF NoSock, Socks, Kinds
<1>2. CloseFds(s, fds) = [fd \in Fds |-> IF fd \in fds THEN NoSock ELSE s[fd]]
    BY DEF CloseFds
<1> QED BY <1>1, <1>2

-----------------------------------------------------------------------------
(* The pools of the agents' connections *)

Pools(max, Elems) ==
    [max_buckets : {max}, alloc_stack : Seq(Elems), empty_stack_size : Int,
     allocated : Int, outstanding : Int, max_outstanding : Int]

(* PoolGet takes the top of the stack. *)
LEMMA Pulled ==
    ASSUME NEW max, NEW Elems, NEW p \in Pools(max, Elems), PoolHasElement(p)
    PROVE  LET q == PoolPull(p)
               n == Len(p.alloc_stack)
           IN  /\ q \in Pools(max, Elems) /\ n \in Nat \ {0} /\ PoolTop(p) \in Elems
               /\ PoolTop(p) = p.alloc_stack[n]
               /\ DOMAIN p.alloc_stack = 1 .. n /\ DOMAIN q.alloc_stack = 1 .. n - 1
               /\ \A i \in 1 .. n - 1 : q.alloc_stack[i] = p.alloc_stack[i]
               /\ q.outstanding = p.outstanding + 1 /\ q.allocated = p.allocated
               /\ q.empty_stack_size = p.empty_stack_size + 1 /\ Len(q.alloc_stack) = n - 1
<1> DEFINE st == p.alloc_stack
           n == Len(st)
           st2 == SubSeq(st, 1, n - 1)
           high == IF p.outstanding + 1 > p.max_outstanding THEN p.outstanding + 1
                   ELSE p.max_outstanding
           p1 == [p EXCEPT !.alloc_stack = st2]
           p2 == [p1 EXCEPT !.empty_stack_size = p.empty_stack_size + 1]
           p3 == [p2 EXCEPT !.outstanding = p.outstanding + 1]
           p4 == [p3 EXCEPT !.max_outstanding = high]
<1>1. st \in Seq(Elems) /\ st # <<>>
    BY DEF Pools, PoolHasElement
<1>2. n \in Nat \ {0} /\ DOMAIN st = 1 .. n /\ st[n] \in Elems
    BY <1>1, EmptySeq, LenProperties
<1>3. st2 \in Seq(Elems) /\ Len(st2) = n - 1 /\ \A i \in 1 .. n - 1 : st2[i] = st[i]
  <2>1. n - 1 \in 0 .. Len(st)
    BY <1>2
  <2>2. st2 = Prefix(st, n - 1)
    BY Zenon DEF Prefix
  <2> HIDE DEF st2, n
  <2> QED BY <1>1, <2>1, <2>2, PrefixSuffix
<1>4. DOMAIN st2 = 1 .. n - 1
    BY <1>3, LenProperties
<1>5. PoolPull(p) = p4
    BY DEF PoolPull, CountOut
<1>6. /\ p.empty_stack_size \in Int /\ p.outstanding \in Int /\ p.max_outstanding \in Int
      /\ p.empty_stack_size + 1 \in Int /\ p.outstanding + 1 \in Int /\ high \in Int
    BY DEF Pools
<1> HIDE DEF st2, high, p1, p2, p3, p4, n
<1>7. /\ p1 \in Pools(max, Elems) /\ p1.alloc_stack = st2 /\ p1.outstanding = p.outstanding
      /\ p1.allocated = p.allocated
    BY <1>3 DEF p1, Pools
<1>8. /\ p2 \in Pools(max, Elems) /\ p2.alloc_stack = st2 /\ p2.empty_stack_size = p.empty_stack_size + 1
      /\ p2.outstanding = p.outstanding /\ p2.allocated = p.allocated
    BY <1>6, <1>7 DEF p2, Pools
<1>9. /\ p3 \in Pools(max, Elems) /\ p3.alloc_stack = st2 /\ p3.empty_stack_size = p.empty_stack_size + 1
      /\ p3.outstanding = p.outstanding + 1 /\ p3.allocated = p.allocated
    BY <1>6, <1>8 DEF p3, Pools
<1>10. /\ p4 \in Pools(max, Elems) /\ p4.alloc_stack = st2 /\ p4.empty_stack_size = p.empty_stack_size + 1
       /\ p4.outstanding = p.outstanding + 1 /\ p4.allocated = p.allocated
    BY <1>6, <1>9 DEF p4, Pools
<1>11. PoolTop(p) = st[n]
    BY DEF PoolTop, n
<1> QED BY <1>2, <1>3, <1>4, <1>5, <1>10, <1>11 DEF n

(* PoolReturn puts c on top of the stack, or drops it. *)
LEMMA Returned ==
    ASSUME NEW max, NEW Elems, NEW p \in Pools(max, Elems), NEW c \in Elems
    PROVE  LET q == PoolReturned(p, c)
               n == Len(p.alloc_stack)
           IN  /\ q \in Pools(max, Elems) /\ n \in Nat /\ DOMAIN p.alloc_stack = 1 .. n
               /\ \/ q.alloc_stack = p.alloc_stack /\ p.empty_stack_size = 0
                  \/ /\ DOMAIN q.alloc_stack = 1 .. n + 1 /\ q.alloc_stack[n + 1] = c
                     /\ \A i \in 1 .. n : q.alloc_stack[i] = p.alloc_stack[i]
                     /\ q.empty_stack_size = p.empty_stack_size - 1
                     /\ q.allocated = p.allocated /\ Len(q.alloc_stack) = n + 1
               /\ q.outstanding = p.outstanding - 1
<1> DEFINE st == p.alloc_stack
           n == Len(st)
           st2 == Append(st, c)
           p1 == [p EXCEPT !.alloc_stack = st2]
           p2 == [p1 EXCEPT !.empty_stack_size = p.empty_stack_size - 1]
           p3 == [p2 EXCEPT !.outstanding = p.outstanding - 1]
           d1 == [p EXCEPT !.allocated = p.allocated - 1]
           d2 == [d1 EXCEPT !.outstanding = p.outstanding - 1]
<1>1. st \in Seq(Elems)
    BY DEF Pools
<1>2. n \in Nat /\ DOMAIN st = 1 .. n
    BY <1>1, LenProperties
<1>3. /\ st2 \in Seq(Elems) /\ Len(st2) = n + 1
      /\ \A i \in 1 .. n : st2[i] = st[i] /\ st2[n + 1] = c
    BY <1>1, AppendProperties
<1>3a. st2[n + 1] = c
    BY <1>1, AppendProperties
<1>4. DOMAIN st2 = 1 .. n + 1
    BY <1>3, LenProperties
<1>5. PoolReturned(p, c) = IF PoolDrops(p) THEN d2 ELSE p3
    BY DEF PoolReturned, PoolReturnDrop, PoolReturnPush
<1>6. /\ p.empty_stack_size \in Int /\ p.outstanding \in Int /\ p.allocated \in Int
      /\ p.empty_stack_size - 1 \in Int /\ p.outstanding - 1 \in Int /\ p.allocated - 1 \in Int
    BY DEF Pools
<1> HIDE DEF st2, p1, p2, p3, d1, d2, n
<1>7. p1 \in Pools(max, Elems) /\ p1.alloc_stack = st2 /\ p1.allocated = p.allocated
    BY <1>3 DEF p1, Pools
<1>8. /\ p2 \in Pools(max, Elems) /\ p2.alloc_stack = st2 /\ p2.empty_stack_size = p.empty_stack_size - 1
      /\ p2.allocated = p.allocated
    BY <1>6, <1>7 DEF p2, Pools
<1>9. /\ p3 \in Pools(max, Elems) /\ p3.alloc_stack = st2 /\ p3.empty_stack_size = p.empty_stack_size - 1
      /\ p3.outstanding = p.outstanding - 1 /\ p3.allocated = p.allocated
    BY <1>6, <1>8 DEF p3, Pools
<1>10. d1 \in Pools(max, Elems) /\ d1.alloc_stack = st
    BY <1>6 DEF d1, Pools
<1>11. d2 \in Pools(max, Elems) /\ d2.alloc_stack = st /\ d2.outstanding = p.outstanding - 1
    BY <1>6, <1>10 DEF d2, Pools
<1>12. CASE PoolDrops(p)
    BY <1>2, <1>5, <1>11, <1>12 DEF PoolDrops, n
<1>13. CASE ~PoolDrops(p)
    BY <1>2, <1>3, <1>3a, <1>4, <1>5, <1>9, <1>13 DEF n
<1> QED BY <1>12, <1>13

(* Nothing but c has come to the stack q. *)
OnlyNew(p, q, c) ==
    \A i \in DOMAIN q : q[i] # c => i \in DOMAIN p /\ q[i] = p[i]

LEMMA ReturnedOnlyNew ==
    ASSUME NEW max, NEW Elems, NEW p \in Pools(max, Elems), NEW c \in Elems
    PROVE  OnlyNew(p.alloc_stack, PoolReturned(p, c).alloc_stack, c)
BY Returned DEF OnlyNew
LEMMA PulledOnlyNew ==
    ASSUME NEW max, NEW Elems, NEW p \in Pools(max, Elems), PoolHasElement(p), NEW c
    PROVE  OnlyNew(p.alloc_stack, PoolPull(p).alloc_stack, c)
BY Pulled DEF OnlyNew

-----------------------------------------------------------------------------
(* The clients *)

ClientTypes(Tok) ==
    [st : {"idle", "backlog", "connected", "closed", "left"}, reqs : 0 .. Requests,
     sent : 0 .. ReqLen - 1, got : Seq(Tok)]

(* A step of a client puts tokens of its requests on its socket or turns   *)
(* the state of that; requests are counted from lo.                        *)
LEMMA ClientsMove ==
    ASSUME NEW Tok, NEW lo \in {0, 1}, NEW cuts \in SUBSET (1 .. ReqLen),
           sock \in [Fds -> Socks(Tok)], client \in [Clients -> ClientTypes(Tok)],
           \A k \in Clients, q \in lo .. Requests, i \in 1 .. ReqLen : <<k, q, i>> \in Tok,
           \A k \in Clients : client[k].sent > 0 => client[k].reqs >= lo,
           Connect \/ \E k \in Clients : SendRequest(k, cuts) \/ Disconnect(k) \/ Reset(k)
    PROVE  /\ sock' \in [Fds -> Socks(Tok)] /\ SameSockets(sock, sock')
           /\ client' \in [Clients -> ClientTypes(Tok)]
           /\ \A k \in Clients : client'[k].sent > 0 => client'[k].reqs >= lo
           /\ UNCHANGED <<el, batch, cur, pc, stop>>
<1>n. ReqLen \in Nat /\ Requests \in Nat
    BY LoopAssumption
<1>s. SameSockets(sock, sock)
    BY DEF SameSockets
<1>1. CASE Connect
  <2>1. PICK k \in Clients : client' = [client EXCEPT ![k].st = "backlog"]
    BY <1>1 DEF Connect
  <2> DEFINE x == [client[k] EXCEPT !.st = "backlog"]
  <2>2. x \in ClientTypes(Tok) /\ x.sent = client[k].sent /\ x.reqs = client[k].reqs
    BY DEF ClientTypes
  <2>3. client' = [client EXCEPT ![k] = x]
    BY <2>1, Zenon
  <2> HIDE DEF x
  <2>4. /\ client' \in [Clients -> ClientTypes(Tok)]
        /\ \A j \in Clients : client'[j].sent > 0 => client'[j].reqs >= lo
    BY <2>2, <2>3
  <2>5. UNCHANGED <<el, sock, batch, cur, pc, stop>>
    BY <1>1 DEF Connect
  <2> QED BY <1>s, <2>4, <2>5
<1>2. CASE \E k \in Clients : SendRequest(k, cuts)
  <2>1. PICK k \in Clients : SendRequest(k, cuts)
    BY <1>2
  <2> DEFINE sent == client[k].sent
             started == sent > 0
             req == IF started THEN client[k].reqs ELSE client[k].reqs + 1
             fd == SocketOf("client", k)
  <2>2. (started \/ client[k].reqs < Requests) /\ UNCHANGED <<el, batch, cur, pc, stop>>
    BY <2>1 DEF SendRequest
  <2>3. PICK n \in cuts :
           /\ n > sent
           /\ sock' = [sock EXCEPT ![fd].inq = @ \o [i \in 1 .. n - sent |-> <<k, req, sent + i>>]]
           /\ client' = [client EXCEPT ![k].reqs = req, ![k].sent = IF n = ReqLen THEN 0 ELSE n]
    BY <2>1, Zenon DEF SendRequest
  <2>4. client[k] \in ClientTypes(Tok) /\ sent \in 0 .. ReqLen - 1 /\ client[k].reqs \in 0 .. Requests
    BY DEF ClientTypes
  <2>5. req \in lo .. Requests /\ req \in 0 .. Requests
    BY <1>n, <2>2, <2>4
  <2>6. n \in 1 .. ReqLen
    OBVIOUS
  <2> DEFINE more == [i \in 1 .. n - sent |-> <<k, req, sent + i>>]
             left == IF n = ReqLen THEN 0 ELSE n
             y == [client[k] EXCEPT !.reqs = req]
             x == [y EXCEPT !.sent = left]
  <2>7. more \in Seq(Tok)
    <3>1. n - sent \in Nat
        BY <1>n, <2>3, <2>4, <2>6
    <3>2. \A i \in 1 .. n - sent : sent + i \in 1 .. ReqLen
        BY <1>n, <2>3, <2>4, <2>6
    <3> HIDE DEF req, sent
    <3>3. \A i \in 1 .. n - sent : <<k, req, sent + i>> \in Tok
        BY <2>5, <3>2
    <3> QED BY <3>1, <3>3
  <2>8. sock' = [sock EXCEPT ![fd].inq = @ \o more]
    BY <2>3, Zenon
  <2> HIDE DEF more, fd
  <2>9. sock' \in [Fds -> Socks(Tok)] /\ SameSockets(sock, sock')
    BY <2>7, <2>8, Arrives
  <2>10. client' = [client EXCEPT ![k] = x]
    BY <2>3
  <2>11. left \in 0 .. ReqLen - 1
    BY <1>n, <2>6
  <2> HIDE DEF left, req
  <2>12. y \in ClientTypes(Tok) /\ y.reqs = req
    BY <2>4, <2>5 DEF ClientTypes
  <2> HIDE DEF y
  <2>13. x \in ClientTypes(Tok) /\ x.reqs = req
    BY <2>11, <2>12 DEF ClientTypes
  <2> HIDE DEF x
  <2>14. /\ client' \in [Clients -> ClientTypes(Tok)]
         /\ \A j \in Clients : client'[j].sent > 0 => client'[j].reqs >= lo
    BY <2>5, <2>10, <2>13
  <2> QED BY <2>2, <2>9, <2>14
<1>3. CASE \E k \in Clients : Disconnect(k) \/ Reset(k)
  <2>1. PICK k \in Clients : ClientLeaves(k, "eof") \/ ClientLeaves(k, "rst")
    BY <1>3 DEF Disconnect, Reset
  <2> DEFINE fd == SocketOf("client", k)
  <2>2. /\ UNCHANGED <<el, batch, cur, pc, stop, client>>
        /\ \/ sock' = [sock EXCEPT ![fd].st = "eof"]
           \/ sock' = [sock EXCEPT ![fd].st = "rst"]
    BY <2>1 DEF ClientLeaves
  <2> HIDE DEF fd
  <2>3. sock' \in [Fds -> Socks(Tok)] /\ SameSockets(sock, sock')
    BY <2>2, Turns
  <2> QED BY <2>2, <2>3
<1> QED BY <1>1, <1>2, <1>3

-----------------------------------------------------------------------------
(* The initial state *)

LEMMA InitialLoop ==
    ASSUME NEW l, l = FileEventCreated(
              [setsize |-> SetSize, maxfd |-> -1,
               events |-> [fd \in Fds |-> EmptySlot("none", NoConn)],
               epoll |-> [fd \in Fds |-> NotMonitored]],
              ListenFd, {AE_READABLE}, "accept_tcp_handler", NoConn)
    PROVE  /\ l \in AgentLoops /\ l.setsize = SetSize /\ l.events[0].mask = {AE_READABLE}
           /\ l.events[0].rfileProc = "accept_tcp_handler"
           /\ \A fd \in Fds \ {0} : l.events[fd].mask = {} /\ l.epoll[fd] = NotMonitored
           /\ Agrees(l, 0)
<1> DEFINE events == [fd \in Fds |-> EmptySlot("none", NoConn)]
           epoll == [fd \in Fds |-> NotMonitored]
           l0 == [setsize |-> SetSize, maxfd |-> -1, events |-> events, epoll |-> epoll]
           proc == "accept_tcp_handler"
<1>1. EmptySlot("none", NoConn) \in Slots /\ NotMonitored \in Interest
    BY DEF EmptySlot, Slots, Procs, NoConn, Interest
<1>2. events \in [Fds -> Slots] /\ epoll \in [Fds -> Interest] /\ SetSize \in Nat
    BY <1>1, LoopAssumption
<1>3. \A fd \in Fds : events[fd].mask = {} /\ epoll[fd] = NotMonitored
    BY DEF EmptySlot
<1> HIDE DEF events, epoll
<1>4. l0 \in AgentLoops
    BY <1>2 DEF AgentLoops, Loops
<1>5. l0.events = events /\ l0.epoll = epoll /\ l0.setsize = SetSize
    OBVIOUS
<1>6. l = FileEventCreated(l0, 0, {AE_READABLE}, proc, 0)
    BY Zenon DEF events, epoll, ListenFd, NoConn
<1>7. 0 \in Fds /\ AE_READABLE \in ReadWrite /\ proc \in Procs
    BY Descriptors DEF ReadWrite, Procs
<1> HIDE DEF l0, proc
<1>8. Registers(l0, l, 0, AE_READABLE, proc, 0) /\ Agrees(l, 0)
    BY <1>4, <1>6, <1>7, Created
<1>9. /\ l \in AgentLoops /\ l.setsize = l0.setsize /\ l.events[0].mask = l0.events[0].mask \union {AE_READABLE}
      /\ l.events[0].rfileProc = proc
      /\ \A fd \in Fds \ {0} : l.events[fd] = l0.events[fd] /\ l.epoll[fd] = l0.epoll[fd]
    BY <1>8 DEF Registers, SameBut
<1> QED BY <1>3, <1>5, <1>7, <1>8, <1>9 DEF proc

LEMMA InitialSockets ==
    ASSUME NEW Tok, NEW kind \in {"ap", "apa"}, NEW n \in Nat, n < NumFds, LoopInit(kind, n)
    PROVE  /\ sock \in [Fds -> Socks(Tok)] /\ sock[0].kind = "listen"
           /\ \A fd \in 1 .. n : sock[fd].kind = kind /\ sock[fd].peer = fd
           /\ \A fd \in Fds : fd # 0 /\ fd \notin 1 .. n => sock[fd].kind = "free"
<1>1. NoSock \in Socks(Tok) /\ NoSock.kind = "free"
    BY NoSocket
<1>2. \A k \in Kinds, x \in Clients \union Nat :
        Sock(k, x) \in Socks(Tok) /\ Sock(k, x).kind = k /\ Sock(k, x).peer = x
    BY NewSocket
<1>3. kind \in Kinds /\ "listen" \in Kinds
    BY DEF Kinds
<1>s. sock = [fd \in Fds |-> CASE fd = ListenFd -> Sock("listen", NoConn)
                             [] fd \in 1 .. n -> Sock(kind, fd)
                             [] OTHER -> NoSock]
    BY Zenon DEF LoopInit
<1>4. \A fd \in Fds : sock[fd] = IF fd = 0 THEN Sock("listen", NoConn)
                              ELSE IF fd \in 1 .. n THEN Sock(kind, fd) ELSE NoSock
    BY <1>s DEF ListenFd
<1>5. \A fd \in 1 .. n : fd \in Fds /\ fd # 0 /\ fd \in Clients \union Nat
    BY Descriptors DEF Fds
<1>6. 0 \in Fds /\ NoConn \in Clients \union Nat
    BY Descriptors DEF NoConn
<1>7. Sock("listen", NoConn) \in Socks(Tok) /\ Sock("listen", NoConn).kind = "listen"
    BY <1>2, <1>3, <1>6
<1>8. \A fd \in 1 .. n : Sock(kind, fd) \in Socks(Tok) /\ Sock(kind, fd).kind = kind
                         /\ Sock(kind, fd).peer = fd
    BY <1>2, <1>3, <1>5
<1>9. \A fd \in Fds : sock[fd] \in Socks(Tok)
    BY <1>1, <1>4, <1>7, <1>8
<1>10. sock \in [Fds -> Socks(Tok)]
    BY <1>s, <1>9
<1> QED BY <1>1, <1>4, <1>5, <1>6, <1>7, <1>8, <1>10

-----------------------------------------------------------------------------
(* The tokens of one request or answer *)

(* The tokens lo + 1 .. hi of the client k's request q, or of its answer. *)
Run(k, q, lo, hi) == [i \in 1 .. hi - lo |-> <<k, q, lo + i>>]

RunTokens(k, q) == {k} \X {q} \X Nat

RunFacts(k, q, lo, hi) ==
    /\ Run(k, q, lo, hi) \in Seq(RunTokens(k, q))
    /\ Len(Run(k, q, lo, hi)) = hi - lo
    /\ \A i \in 1 .. hi - lo : Run(k, q, lo, hi)[i] = <<k, q, lo + i>>

LEMMA RunIs ==
    ASSUME NEW k, NEW q, NEW lo \in Nat, NEW hi \in Nat, lo <= hi
    PROVE  RunFacts(k, q, lo, hi)
<1>1. hi - lo \in Nat
    OBVIOUS
<1>2. \A i \in 1 .. hi - lo : <<k, q, lo + i>> \in RunTokens(k, q)
    BY DEF RunTokens
<1>3. Run(k, q, lo, hi) \in Seq(RunTokens(k, q))
    BY <1>1, <1>2 DEF Run
<1> QED BY <1>1, <1>3, LenProperties DEF Run, RunFacts

(* Sequences are equal when their tokens are. *)
LEMMA SameTokens ==
    ASSUME NEW T, NEW s \in Seq(T), NEW t \in Seq(T), Len(s) = Len(t),
           \A i \in 1 .. Len(s) : s[i] = t[i]
    PROVE  s = t
<1>1. /\ s = [i \in 1 .. Len(s) |-> s[i]] /\ Len(s) \in Nat
      /\ t = [i \in 1 .. Len(t) |-> t[i]] /\ Len(t) \in Nat
    BY LenProperties
<1> QED BY <1>1

LEMMA EmptyRun ==
    ASSUME NEW k, NEW q, NEW lo \in Nat, NEW hi \in Nat, lo <= hi
    PROVE  (Run(k, q, lo, hi) = <<>>) <=> (lo = hi)
<1>1. RunFacts(k, q, lo, hi)
    BY RunIs
<1> QED BY <1>1, EmptySeq DEF RunFacts

(* A run is cut into runs and runs are joined. *)
RunCut(k, q, lo, mid, hi) ==
    /\ Run(k, q, lo, mid) \o Run(k, q, mid, hi) = Run(k, q, lo, hi)
    /\ Prefix(Run(k, q, lo, hi), mid - lo) = Run(k, q, lo, mid)
    /\ Suffix(Run(k, q, lo, hi), mid - lo) = Run(k, q, mid, hi)

LEMMA RunParts ==
    ASSUME NEW k, NEW q, NEW lo \in Nat, NEW mid \in Nat, NEW hi \in Nat, lo <= mid, mid <= hi
    PROVE  RunCut(k, q, lo, mid, hi)
<1> DEFINE T == RunTokens(k, q)
           x == Run(k, q, lo, mid)
           y == Run(k, q, mid, hi)
           z == Run(k, q, lo, hi)
           n == mid - lo
<1>n. n \in 0 .. hi - lo /\ n \in Nat /\ lo <= hi /\ hi - mid = (hi - lo) - n /\ n = mid - lo
    OBVIOUS
<1>m. lo <= hi
    OBVIOUS
<1>r. RunFacts(k, q, lo, mid) /\ RunFacts(k, q, mid, hi) /\ RunFacts(k, q, lo, hi)
    BY <1>m, RunIs
<1>x. x \in Seq(T) /\ Len(x) = n /\ \A i \in 1 .. n : x[i] = <<k, q, lo + i>>
    BY <1>r, Zenon DEF RunFacts
<1>y. y \in Seq(T) /\ Len(y) = hi - mid /\ \A i \in 1 .. hi - mid : y[i] = <<k, q, mid + i>>
    BY <1>r, Zenon DEF RunFacts
<1>z. z \in Seq(T) /\ Len(z) = hi - lo /\ \A i \in 1 .. hi - lo : z[i] = <<k, q, lo + i>>
    BY <1>r, Zenon DEF RunFacts
<1> HIDE DEF x, y, z, T, n
<1>2. x \o y = z
  <2>1. /\ x \o y \in Seq(T) /\ Len(x \o y) = hi - lo
        /\ \A i \in 1 .. hi - lo : (x \o y)[i] = IF i <= n THEN x[i] ELSE y[i - n]
    <3>1. /\ x \o y \in Seq(T) /\ Len(x \o y) = Len(x) + Len(y)
          /\ \A i \in 1 .. Len(x) + Len(y) : (x \o y)[i] = IF i <= Len(x) THEN x[i] ELSE y[i - Len(x)]
        BY <1>x, <1>y, ConcatProperties
    <3>2. Len(x) = n /\ Len(x) + Len(y) = hi - lo
        BY <1>n, <1>x, <1>y
    <3> QED BY <3>1, <3>2
  <2>2. ASSUME NEW i \in 1 .. hi - lo PROVE (x \o y)[i] = z[i]
    <3>1. CASE i <= n
      <4>1. i \in 1 .. n
        BY <1>n, <3>1
      <4>2. (x \o y)[i] = x[i]
        BY <2>1, <3>1
      <4> QED BY <1>x, <1>z, <4>1, <4>2
    <3>2. CASE ~(i <= n)
      <4>1. i - n \in 1 .. hi - mid /\ mid + (i - n) = lo + i
        BY <1>n, <3>2
      <4>2. (x \o y)[i] = y[i - n]
        BY <2>1, <3>2
      <4> QED BY <1>y, <1>z, <4>1, <4>2
    <3> QED BY <3>1, <3>2
  <2>3. Len(x \o y) = Len(z) /\ \A i \in 1 .. Len(x \o y) : (x \o y)[i] = z[i]
    BY <1>z, <2>1, <2>2
  <2> QED BY <1>z, <2>1, <2>3, SameTokens
<1>3. /\ Prefix(z, n) \in Seq(T) /\ Len(Prefix(z, n)) = n
      /\ Suffix(z, n) \in Seq(T) /\ Len(Suffix(z, n)) = hi - mid
      /\ \A i \in 1 .. n : Prefix(z, n)[i] = z[i]
      /\ \A i \in 1 .. hi - mid : Suffix(z, n)[i] = z[n + i]
  <2>1. n \in 0 .. Len(z) /\ Len(z) - n = hi - mid
    BY <1>n, <1>z
  <2> QED BY <1>z, <2>1, PrefixSuffix
<1>4. Prefix(z, n) = x
  <2>1. \A i \in 1 .. n : i \in 1 .. hi - lo
    BY <1>n
  <2>2. \A i \in 1 .. n : Prefix(z, n)[i] = x[i]
    BY <1>x, <1>z, <1>3, <2>1, Zenon
  <2> QED BY <1>x, <1>3, <2>2, SameTokens
<1>5. Suffix(z, n) = y
  <2>1. ASSUME NEW i \in 1 .. hi - mid PROVE Suffix(z, n)[i] = y[i]
    <3>1. n + i \in 1 .. hi - lo /\ lo + (n + i) = mid + i
        BY <1>n
    <3>2. Suffix(z, n)[i] = z[n + i]
        BY <1>3
    <3> QED BY <1>y, <1>z, <3>1, <3>2
  <2> QED BY <1>y, <1>3, <2>1, SameTokens
<1> QED BY <1>2, <1>4, <1>5 DEF x, y, z, n, RunCut

(* Runs from the beginning of a message. *)
RunStarts(k, q, n, m) ==
    /\ Len(Run(k, q, 0, n)) = n /\ Len(Run(k, q, 0, m)) = m
    /\ Run(k, q, n, n) = <<>> /\ Run(k, q, m, m) = <<>>
    /\ Run(k, q, 0, n) \o Run(k, q, n, m) = Run(k, q, 0, m)
    /\ Prefix(Run(k, q, 0, m), n) = Run(k, q, 0, n)
    /\ Suffix(Run(k, q, 0, m), n) = Run(k, q, n, m)

LEMMA RunStart ==
    ASSUME NEW k, NEW q, NEW n \in Nat, NEW m \in Nat, n <= m
    PROVE  RunStarts(k, q, n, m)
<1>1. RunFacts(k, q, 0, n) /\ RunFacts(k, q, 0, m) /\ RunCut(k, q, 0, n, m)
    BY RunIs, RunParts
<1>2. n - 0 = n /\ m - 0 = m
    OBVIOUS
<1>3. Run(k, q, n, n) = <<>> /\ Run(k, q, m, m) = <<>>
    BY EmptyRun
<1> QED BY <1>1, <1>2, <1>3, Zenon DEF RunFacts, RunCut, RunStarts

(* A read takes part of a run from a socket, all of it if there is space. *)
ReadUpTo(s, t, fd, space, k, q, lo, mid, hi) ==
    /\ Received(s[fd], space) = Run(k, q, lo, mid) /\ t[fd].inq = Run(k, q, mid, hi)
    /\ hi - lo <= space => mid = hi
    /\ t[fd].st = s[fd].st /\ \A g \in Fds \ {fd} : t[g] = s[g]

LEMMA RunRead ==
    ASSUME NEW Tok, NEW s \in [Fds -> Socks(Tok)], NEW fd \in Fds, NEW space \in Nat, NEW t,
           NEW k, NEW q, NEW lo \in Nat, NEW hi \in Nat, lo <= hi, s[fd].inq = Run(k, q, lo, hi),
           t = AfterRead(s, fd, space)
    PROVE  \E mid \in lo .. hi : ReadUpTo(s, t, fd, space, k, q, lo, mid, hi)
<1> DEFINE n == ReadLen(s[fd], space)
           mid == lo + n
<1>1. Len(s[fd].inq) = hi - lo
  <2>1. RunFacts(k, q, lo, hi)
    BY RunIs
  <2> QED BY <2>1 DEF RunFacts
<1>2. n \in 0 .. hi - lo /\ (hi - lo <= space => n = hi - lo)
    BY <1>1 DEF ReadLen
<1>3. /\ mid \in lo .. hi /\ mid - lo = n /\ (hi - lo <= space => mid = hi)
      /\ mid \in Nat /\ lo <= mid /\ mid <= hi
    BY <1>2
<1>4. t = [s EXCEPT ![fd].inq = Suffix(s[fd].inq, n)]
    BY DEF AfterRead
<1>5. t[fd].inq = Suffix(s[fd].inq, n) /\ t[fd].st = s[fd].st /\ \A g \in Fds \ {fd} : t[g] = s[g]
    BY <1>4 DEF Socks
<1>6. Received(s[fd], space) = Prefix(s[fd].inq, n)
    BY DEF Received
<1> HIDE DEF n, mid
<1>7. RunCut(k, q, lo, mid, hi)
    BY <1>3, RunParts
<1>8. ReadUpTo(s, t, fd, space, k, q, lo, mid, hi)
    BY <1>3, <1>5, <1>6, <1>7 DEF RunCut, ReadUpTo
<1> QED BY <1>3, <1>8

(* How a read ends when there is space. *)
LEMMA ReadEnds ==
    ASSUME NEW s, NEW space \in Nat \ {0}, NEW result, result = ReadResult(s, space),
           s.st \in {"open", "eof", "rst"}
    PROVE  /\ s.inq # <<>> => result = "data"
           /\ s.inq = <<>> /\ s.st = "open" => result = "again"
           /\ result = "data" => s.inq # <<>>
           /\ result = "eof" => s.st = "eof"
           /\ result = "error" => s.st = "rst"
BY DEF ReadResult

(* The position of a token among all that a client is to receive. *)
LEMMA DueIs ==
    ASSUME NEW k, NEW q \in Nat \ {0}, NEW j \in 1 .. RespLen
    PROVE  Promise!Due(k, (q - 1) * RespLen + j) = <<k, q, j>>
<1>n. RespLen \in Nat \ {0}
    BY LoopAssumption
<1> DEFINE p == q - 1
<1>1. p \in Nat /\ j - 1 \in 0 .. RespLen - 1 /\ q = 1 + p /\ j = 1 + (j - 1)
    BY <1>n
<1> HIDE DEF p
<1>2. (p * RespLen + (j - 1)) \div RespLen = p /\ (p * RespLen + (j - 1)) % RespLen = j - 1
    BY <1>n, <1>1
<1>3. p * RespLen \in Nat
    BY <1>n, <1>1
<1>4. (p * RespLen + j) - 1 = p * RespLen + (j - 1)
    BY <1>1, <1>3
<1>5. Promise!Due(k, p * RespLen + j) = <<k, 1 + p, 1 + (j - 1)>>
    BY <1>2, <1>4 DEF Promise!Due
<1> QED BY <1>1, <1>5 DEF p

-----------------------------------------------------------------------------
(* Steps of the promise *)

(* What the promise sees of a client. *)
SeenSame(x, y) == y.reqs = x.reqs /\ y.got = x.got /\ (y.st = "left" <=> x.st = "left")

LEMMA StepsUnseen ==
    ASSUME \A k \in Clients : SeenSame(client[k], client'[k])
    PROVE  UNCHANGED Promise!fwdVars
BY DEF SeenSame, Promise!fwdVars

LEMMA StepLeaves ==
    ASSUME NEW k \in Clients, client[k].st # "left", client'[k].st = "left",
           client'[k].reqs = client[k].reqs, client'[k].got = client[k].got,
           \A j \in Clients \ {k} : SeenSame(client[j], client'[j])
    PROVE  Promise!FwdNext
<1>1. Promise!Leave(k)
    BY DEF SeenSame, Promise!Leave
<1> QED BY <1>1 DEF Promise!FwdNext

(* A client's connection is closed: it has left, or the promise stays as   *)
(* it is.                                                                  *)
LEMMA StepCloses ==
    ASSUME NEW k \in Clients, client[k].st # "left", client'[k].st \in {"closed", "left"},
           client'[k].reqs = client[k].reqs, client'[k].got = client[k].got,
           \A j \in Clients \ {k} : SeenSame(client[j], client'[j])
    PROVE  [Promise!FwdNext]_(Promise!fwdVars)
<1>1. CASE client'[k].st = "left"
    BY <1>1, StepLeaves
<1>2. CASE client'[k].st # "left"
  <2>1. \A j \in Clients : SeenSame(client[j], client'[j])
    BY <1>2 DEF SeenSame
  <2> QED BY <2>1, StepsUnseen
<1> QED BY <1>1, <1>2

LEMMA StepAsks ==
    ASSUME NEW k \in Clients, client[k].st # "left", Len(client[k].got) = client[k].reqs * RespLen,
           client'[k].reqs = client[k].reqs + 1, client'[k].got = client[k].got,
           client'[k].st # "left", \A j \in Clients \ {k} : SeenSame(client[j], client'[j])
    PROVE  Promise!FwdNext
<1>1. Promise!Ask(k)
    BY DEF SeenSame, Promise!Ask
<1> QED BY <1>1 DEF Promise!FwdNext

(* What a client that has got `got' has when it has got n tokens. *)
Grown(got, k, n) == [i \in 1 .. n |-> IF i <= Len(got) THEN got[i] ELSE Promise!Due(k, i)]

(* The tokens lo + 1 .. hi of the answer to q are what comes next. *)
ComesNext(got, k, q, lo, hi) ==
    LET n == (q - 1) * RespLen + hi
        new == got \o Run(k, q, lo, hi)
    IN  n \in Len(got) + 1 .. q * RespLen /\ Len(new) = n /\ new = Grown(got, k, n)

LEMMA SumOfParts ==
    ASSUME NEW b \in Nat, NEW m \in Nat, NEW n \in Nat
    PROVE  (b + m) + (n - m) = b + n
  OBVIOUS

LEMMA AnswerGrows ==
    ASSUME NEW Tok, NEW got \in Seq(Tok), NEW k, NEW q \in Nat \ {0},
           NEW lo \in Nat, NEW hi \in Nat, lo < hi, hi <= RespLen, Len(got) = (q - 1) * RespLen + lo
    PROVE  ComesNext(got, k, q, lo, hi)
<1> DEFINE base == (q - 1) * RespLen
           more == Run(k, q, lo, hi)
           U == Tok \union RunTokens(k, q)
<1>n. RespLen \in Nat \ {0} /\ base \in Nat /\ base + RespLen = q * RespLen /\ q * RespLen \in Nat
  <2>1. RespLen \in Nat \ {0}
    BY LoopAssumption
  <2>2. PICK m \in Nat : m = q - 1
    OBVIOUS
  <2>3. m * RespLen \in Nat
    BY <2>1
  <2>4. (m + 1) * RespLen = m * RespLen + RespLen
    BY <2>1
  <2>5. q = m + 1 /\ base = m * RespLen
    BY <2>2
  <2> QED BY <2>1, <2>3, <2>4, <2>5
<1>l. lo <= hi
    OBVIOUS
<1>1. /\ more \in Seq(RunTokens(k, q)) /\ Len(more) = hi - lo
      /\ \A i \in 1 .. hi - lo : more[i] = <<k, q, lo + i>>
  <2>1. RunFacts(k, q, lo, hi)
    BY <1>l, RunIs
  <2> QED BY <2>1 DEF RunFacts
<1>2. got \in Seq(U) /\ more \in Seq(U)
    BY <1>1
<1>3. ASSUME NEW i \in 1 .. hi - lo PROVE Promise!Due(k, base + (lo + i)) = <<k, q, lo + i>>
  <2>1. lo + i \in 1 .. RespLen
    BY <1>n
  <2> QED BY <2>1, DueIs
<1>4. Len(got) = base + lo
    OBVIOUS
<1> HIDE DEF base, more, U
<1>5. /\ got \o more \in Seq(U) /\ Len(got \o more) = base + hi
      /\ \A i \in 1 .. base + hi : (got \o more)[i] = IF i <= Len(got) THEN got[i] ELSE more[i - Len(got)]
  <2>1. /\ got \o more \in Seq(U) /\ Len(got \o more) = Len(got) + Len(more)
        /\ \A i \in 1 .. Len(got) + Len(more) :
             (got \o more)[i] = IF i <= Len(got) THEN got[i] ELSE more[i - Len(got)]
    BY <1>2, ConcatProperties
  <2>2. Len(got) + Len(more) = base + hi
    <3>1. (base + lo) + (hi - lo) = base + hi
        BY <1>n, SumOfParts, Zenon
    <3>2. Len(more) = hi - lo
        BY <1>1, Zenon
    <3> QED BY <1>4, <3>1, <3>2, Zenon
  <2> QED BY <2>1, <2>2, Zenon
<1> DEFINE n == base + hi
           f == [i \in 1 .. n |-> IF i <= Len(got) THEN got[i] ELSE Promise!Due(k, i)]
<1>6. ASSUME NEW i \in 1 .. n PROVE (got \o more)[i] = f[i]
  <2>1. CASE i <= Len(got)
    BY <1>5, <2>1
  <2>2. CASE ~(i <= Len(got))
    <3> DEFINE m == i - Len(got)
    <3>1. m \in 1 .. hi - lo /\ i = base + (lo + m)
        BY <1>n, <1>4, <2>2
    <3>2. more[m] = <<k, q, lo + m>> /\ Promise!Due(k, i) = <<k, q, lo + m>>
        BY <1>1, <1>3, <3>1
    <3>3. (got \o more)[i] = more[m]
        BY <1>5, <2>2
    <3>4. f[i] = Promise!Due(k, i)
        BY <2>2
    <3> QED BY <3>2, <3>3, <3>4
  <2> QED BY <2>1, <2>2
<1>7. got \o more = f
  <2>1. got \o more = [i \in 1 .. n |-> (got \o more)[i]]
    BY <1>5, LenProperties
  <2> HIDE DEF n
  <2> QED BY <1>6, <2>1
<1>8. n \in Len(got) + 1 .. q * RespLen
    BY <1>n, <1>4
<1> QED BY <1>5, <1>7, <1>8 DEF base, more, Grown, ComesNext

(* The tokens lo + 1 .. hi of the answer that is due are delivered. *)
LEMMA StepAnswers ==
    ASSUME NEW Tok, NEW k \in Clients, client[k].st # "left", client[k].got \in Seq(Tok),
           client[k].reqs \in Nat \ {0}, NEW lo \in Nat, NEW hi \in Nat, lo < hi, hi <= RespLen,
           Len(client[k].got) = (client[k].reqs - 1) * RespLen + lo,
           client'[k].got = client[k].got \o Run(k, client[k].reqs, lo, hi),
           client'[k].reqs = client[k].reqs, client'[k].st # "left",
           \A j \in Clients \ {k} : SeenSame(client[j], client'[j])
    PROVE  /\ Promise!FwdNext
           /\ Len(client'[k].got) = (client[k].reqs - 1) * RespLen + hi
<1> DEFINE asked == [j \in Clients |-> client[j].reqs]
           gots == [j \in Clients |-> client[j].got]
           n == (client[k].reqs - 1) * RespLen + hi
           q == client[k].reqs
           got == client[k].got
<1>1. n \in Len(got) + 1 .. q * RespLen /\ Len(client'[k].got) = n /\ client'[k].got = Grown(got, k, n)
  <2>1. /\ got \in Seq(Tok) /\ q \in Nat \ {0} /\ Len(got) = (q - 1) * RespLen + lo
        /\ n = (q - 1) * RespLen + hi /\ client'[k].got = got \o Run(k, q, lo, hi)
    OBVIOUS
  <2> HIDE DEF got, q, n
  <2>2. ComesNext(got, k, q, lo, hi)
    BY <2>1, AnswerGrows
  <2> QED BY <2>1, <2>2 DEF ComesNext
<1> HIDE DEF n
<1>2. /\ asked' = asked /\ {j \in Clients : client[j].st = "left"}' = {j \in Clients : client[j].st = "left"}
      /\ k \notin {j \in Clients : client[j].st = "left"}
    BY DEF SeenSame
<1>3. gots' = [gots EXCEPT ![k] = client'[k].got] /\ gots[k] = client[k].got /\ asked[k] = client[k].reqs
    BY DEF SeenSame
<1>4. \E m \in Len(gots[k]) + 1 .. asked[k] * RespLen :
         gots' = [gots EXCEPT ![k] = Grown(gots[k], k, m)]
  <2> HIDE DEF gots, asked
  <2> QED BY <1>1, <1>3, Zenon
<1>5. Promise!Answer(k)
    BY <1>2, <1>4 DEF Promise!Answer, Grown
<1> QED BY <1>1, <1>5 DEF Promise!FwdNext, n

(* A write takes the next part of what remains of a run. *)
RunWritten(k, q, w, n, m) ==
    /\ Len(Suffix(Run(k, q, 0, n), w)) = n - w
    /\ Prefix(Suffix(Run(k, q, 0, n), w), m) = Run(k, q, w, w + m)
    /\ Run(k, q, 0, w) \o Run(k, q, w, w + m) = Run(k, q, 0, w + m)

LEMMA RunWrite ==
    ASSUME NEW k, NEW q, NEW n \in Nat, NEW w \in 0 .. n, NEW m \in 0 .. n - w
    PROVE  RunWritten(k, q, w, n, m)
<1>1. w \in Nat /\ w <= n /\ w + m \in Nat /\ w <= w + m /\ w + m <= n /\ (w + m) - w = m
    OBVIOUS
<1>2. RunStarts(k, q, w, n) /\ RunStarts(k, q, w, w + m)
    BY <1>1, RunStart
<1>3. RunCut(k, q, w, w + m, n) /\ RunFacts(k, q, w, n)
    BY <1>1, RunParts, RunIs
<1> QED BY <1>1, <1>2, <1>3 DEF RunStarts, RunCut, RunFacts, RunWritten

(* Nothing remains of what has been written. *)
AllWritten(q) == Suffix(q, Len(q)) = <<>> /\ Prefix(<<>>, 0) = <<>> /\ <<>> \o <<>> = <<>>
LEMMA NothingRemains ==
    ASSUME NEW Tok, NEW q \in Seq(Tok)
    PROVE  AllWritten(q)
<1>l. Len(q) \in Nat /\ Len(q) \in 0 .. Len(q)
    BY LenProperties
<1>1. Suffix(q, Len(q)) \in Seq(Tok) /\ Len(Suffix(q, Len(q))) = Len(q) - Len(q)
    BY <1>l, PrefixSuffix
<1>2. Suffix(q, Len(q)) = <<>>
    BY <1>l, <1>1, EmptySeq
<1>3. <<>> \in Seq(Tok) /\ Len(<<>>) = 0
    BY EmptySeq
<1>4. Prefix(<<>>, 0) \in Seq(Tok) /\ Len(Prefix(<<>>, 0)) = 0
  <2> DEFINE e == <<>>
  <2>1. e \in Seq(Tok) /\ 0 \in 0 .. Len(e)
    BY <1>3
  <2> HIDE DEF e
  <2>2. Prefix(e, 0) \in Seq(Tok) /\ Len(Prefix(e, 0)) = 0
    BY <2>1, PrefixSuffix
  <2> QED BY <2>2 DEF e
<1>5. Prefix(<<>>, 0) = <<>>
    BY <1>4, EmptySeq
<1>6. <<>> \o <<>> = <<>>
    BY <1>3
<1> QED BY <1>2, <1>5, <1>6 DEF AllWritten

-----------------------------------------------------------------------------
(* The clients of an agent among well-behaved peers *)

(* What the client x has sent of its last request. *)
Sent(x) == IF x.sent > 0 THEN x.sent ELSE ReqLen

(* The client x waits, its socket s open, and has n tokens of the answer. *)
Unanswered(s, x, n) ==
    s.st = "open" /\ x.reqs >= 1 /\ Len(x.got) = (x.reqs - 1) * RespLen + n

(* Every accepted socket is that of one connected client. *)
ClientSockets ==
    \A fd \in Fds : sock[fd].kind = "client" =>
        /\ sock[fd].peer \in Clients /\ client[sock[fd].peer].st = "connected"
        /\ \A g \in Fds : sock[g].kind = "client" /\ sock[g].peer = sock[fd].peer => g = fd
ClientsKnown ==
    \A k \in Clients :
        /\ client[k].st = "connected" => \E fd \in Fds : sock[fd].kind = "client" /\ sock[fd].peer = k
        /\ client[k].st \in {"idle", "backlog"} =>
            client[k].reqs = 0 /\ client[k].sent = 0 /\ client[k].got = <<>>

(* A client that has sent x is at y when it has sent its request up to n. *)
SendsOn(s, x, t, y, k, n) ==
    /\ t.st = s.st /\ t.peer = s.peer /\ y.got = x.got /\ Sent(y) = n
    /\ t.inq = s.inq \o Run(k, y.reqs, x.sent, n)

=============================================================================
