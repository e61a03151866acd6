--------------------------- MODULE ConsumerProofs ---------------------------
(***************************************************************************)
(* Proofs about the consumer agent for every number of objects, endpoints, *)
(* connections, clients, descriptors and every set of faults.              *)
(*                                                                         *)
(* A connection_ca may leave its connection_apa behind with its events     *)
(* registered, serve another consumer and take another one, so that events *)
(* of several connections point to one object; after a failed registration *)
(* it may also be in its pool twice and serve two consumers.  What still   *)
(* holds rests on conn_apa: a connection_apa is referred to by at most one *)
(* object, and one that is in its pool by none and has no event (Apart,    *)
(* Idle); it leaves the pool only for the object that takes it, is closed  *)
(* only by the object that refers to it and given back only by that one    *)
(* after its events are dropped.                                           *)
(*                                                                         *)
(* The second part is about well-behaved peers.  There the loose ends do   *)
(* not arise: each object that is in use is in one stage of a conversation *)
(* that says which bytes are where (Talks), and a connection that no       *)
(* object refers to holds none (Quiet).  So the agent implements           *)
(* Forwarding, loses no connection and dereferences no NULL.               *)
(***************************************************************************)
EXTENDS ConsumerSystem, AgentLemmas, FiniteSetTheorems

Objects == [fd : Fds \union {-1}, buf_in : Seq(Bytes), nwrite_in : Nat, buf_out : Seq(Bytes),
            nwrite_out : Nat, conn_apa : Apa \union {NoConn}]
GoodContents(r) ==
    /\ r \in Objects
    /\ r.nwrite_in <= Len(r.buf_in) /\ Len(r.buf_in) <= BufIn
    /\ r.nwrite_out <= Len(r.buf_out) /\ Len(r.buf_out) <= BufOut
ClientType == ClientTypes(Bytes)
Remotes == [Apa -> [inq : Seq(Bytes), out : Seq(Bytes)]]

(* The types of all the variables the handlers read, and the fill of the   *)
(* buffers.                                                                *)
CType ==
    /\ el \in AgentLoops /\ InRange(el) /\ el.setsize = SetSize
    /\ sock \in [Fds -> Socks(Bytes)]
    /\ client \in [Clients -> ClientType]
    /\ \A k \in Clients : client[k].sent > 0 => client[k].reqs >= 1
    /\ ca \in [Ca -> Objects] /\ \A c \in Ca : GoodContents(ca[c])
    /\ caPool \in Pools(NumCa, Ca)
    /\ apaFd \in [Apa -> Fds \union {-1}]
    /\ epPool \in [Ep -> Pools(NumApa, Apa)]
    /\ remote \in Remotes
    /\ pc \in {"running", "exited", "crashed"} /\ stop \in BOOLEAN

(* A registered event is handled by the handler for its kind of socket and *)
(* points to an object, and the kernel knows of it.                        *)
HandlersMatch(l, s) ==
    \A fd \in Fds :
        /\ Agrees(l, fd)
        /\ l.events[fd].mask # {} =>
            \/ /\ s[fd].kind = "listen"
               /\ l.events[fd].mask = {AE_READABLE} /\ l.events[fd].rfileProc = "accept_tcp_handler"
            \/ /\ s[fd].kind = "client" /\ l.events[fd].clientData \in Ca
               /\ AE_READABLE \in l.events[fd].mask => l.events[fd].rfileProc = "read_from_consumer"
               /\ AE_WRITABLE \in l.events[fd].mask => l.events[fd].wfileProc = "write_to_consumer"
            \/ /\ s[fd].kind = "apa" /\ l.events[fd].clientData \in Ca
               /\ AE_READABLE \in l.events[fd].mask => l.events[fd].rfileProc = "read_from_remote_agent"
               /\ AE_WRITABLE \in l.events[fd].mask => l.events[fd].wfileProc = "write_to_remote_agent"

(* What the objects and connections refer to is open, theirs and points    *)
(* back to them.                                                           *)
ObjectsOwn(l, s, obj) ==
    \A c \in Ca : obj[c].fd # -1 =>
        s[obj[c].fd].kind = "client" /\ l.events[obj[c].fd].clientData = c
ApaOwn(s, ap) ==
    \A a \in Apa : ap[a] # -1 => ap[a] = a /\ s[ap[a]].kind = "apa" /\ s[ap[a]].peer = a

(* Two objects refer to two connections; a closed object refers to none.   *)
Apart(obj, ap) ==
    \A c \in Ca : obj[c].conn_apa # NoConn =>
        /\ obj[c].fd # -1 /\ ap[obj[c].conn_apa] # -1
        /\ \A d \in Ca : obj[d].conn_apa = obj[c].conn_apa => d = c

(* A connection in the pool of an endpoint is open, unused and there once. *)
IdleApa(l, obj, ap, a) ==
    ap[a] # -1 /\ l.events[ap[a]].mask = {} /\ \A c \in Ca : obj[c].conn_apa # a
Idle(l, obj, ap, ep) ==
    \A e \in Ep : LET stack == ep[e].alloc_stack
                  IN  \A i \in DOMAIN stack :
                        /\ EpOf(stack[i]) = e /\ IdleApa(l, obj, ap, stack[i])
                        /\ \A j \in DOMAIN stack : stack[j] = stack[i] => j = i

(* The counters of an endpoint's pool: no element is dropped, because at   *)
(* least the connections that objects refer to are outstanding.            *)
UsedOf(obj, e) == {c \in Ca : obj[c].conn_apa # NoConn /\ EpOf(obj[c].conn_apa) = e}
Counts(obj, ep) ==
    \A e \in Ep :
        /\ ep[e].allocated = NumApa /\ ep[e].empty_stack_size = ep[e].outstanding
        /\ ep[e].outstanding + Len(ep[e].alloc_stack) = NumApa
        /\ ep[e].outstanding >= Cardinality(UsedOf(obj, e))

(* While epoll_ctl does not fail and the connections of consumer_init are  *)
(* within the set size, no object is returned twice: the pool holds the    *)
(* unused objects, and every accepted socket is read for its only owner.   *)
Reliable == "epoll" \notin Faults /\ NumEp * NumApa < SetSize
Owned(l, s, obj, pool) ==
    Reliable =>
        /\ \A c \in Ca : obj[c].fd = -1 => \E i \in DOMAIN pool.alloc_stack : pool.alloc_stack[i] = c
        /\ \A i, j \in DOMAIN pool.alloc_stack :
            /\ obj[pool.alloc_stack[i]].fd = -1
            /\ pool.alloc_stack[i] = pool.alloc_stack[j] => i = j
        /\ \A fd \in Fds : s[fd].kind = "client" =>
            /\ AE_READABLE \in l.events[fd].mask
            /\ l.events[fd].clientData \in Ca /\ obj[l.events[fd].clientData].fd = fd
        /\ pool.outstanding = Cardinality({c \in Ca : obj[c].fd # -1})
        /\ pool.empty_stack_size = pool.outstanding /\ pool.allocated = NumCa

DInv(l, s, obj, pool, ap, ep) ==
    /\ HandlersMatch(l, s)
    /\ ObjectsOwn(l, s, obj)
    /\ ApaOwn(s, ap)
    /\ Apart(obj, ap)
    /\ Idle(l, obj, ap, ep)
    /\ Counts(obj, ep)
    /\ Owned(l, s, obj, pool)

IInv == CType /\ DInv(el, sock, ca, caPool, apaFd, epPool)

-----------------------------------------------------------------------------
LEMMA Numbers == /\ NumCa \in Nat \ {0} /\ Ca \in SUBSET Nat /\ NumEp \in Nat \ {0} /\ NumApa \in Nat \ {0}
                 /\ NumEp * NumApa \in Nat /\ Apa \in SUBSET Nat /\ NoConn \notin Apa
                 /\ Ep \in SUBSET Nat /\ 0 \in Ep
                 /\ BufIn \in Nat \ {0} /\ BufOut \in Nat \ {0}
                 /\ ReqLen \in Nat \ {0} /\ RespLen \in Nat \ {0} /\ Requests \in Nat \ {0}
                 /\ NumEp * NumApa < NumFds /\ SetSize \in Nat
<1>1. /\ {BufIn, BufOut, NumCa, NumEp, NumApa} \subseteq Nat \ {0} /\ NumFds > NumEp * NumApa
      /\ {Requests, ReqLen, RespLen, NumFds, SetSize} \subseteq Nat \ {0}
    BY LoopAssumption, ConsumerAssumption
<1>2. NumEp * NumApa \in Nat
    BY <1>1
<1> QED BY <1>1, <1>2 DEF Ca, Apa, Ep, NoConn

(* The connections of an endpoint are numbered consecutively. *)
LEMMA EpNumbers ==
    /\ \A a \in Apa : EpOf(a) \in Ep
    /\ \A e \in Ep, i \in 1 .. NumApa : e * NumApa + i \in Apa /\ EpOf(e * NumApa + i) = e
<1>n. NumEp \in Nat \ {0} /\ NumApa \in Nat \ {0} /\ NumEp * NumApa \in Nat
    BY Numbers
<1>1. ASSUME NEW a \in Apa PROVE EpOf(a) \in Ep
  <2> DEFINE q == (a - 1) \div NumApa
             m == (a - 1) % NumApa
  <2>0. a \in 1 .. NumEp * NumApa
    BY DEF Apa
  <2>1. a - 1 = NumApa * q + m /\ m \in 0 .. NumApa - 1 /\ q \in Int
    BY <1>n, <2>0
  <2> HIDE DEF q, m
  <2>2. q >= 0
    BY <1>n, <2>0, <2>1
  <2>3. q < NumEp
    BY <1>n, <2>0, <2>1
  <2> QED BY <1>n, <2>1, <2>2, <2>3 DEF q, EpOf, Ep
<1>2. ASSUME NEW e \in Ep, NEW i \in 1 .. NumApa
      PROVE  e * NumApa + i \in Apa /\ EpOf(e * NumApa + i) = e
  <2>0. e \in 0 .. NumEp - 1 /\ e \in Nat /\ i - 1 \in 0 .. NumApa - 1
    BY <1>n DEF Ep
  <2>1. (e + 1) * NumApa <= NumEp * NumApa /\ (e + 1) * NumApa = e * NumApa + NumApa
    BY <1>n, <2>0
  <2>2. e * NumApa \in Nat
    BY <1>n, <2>0
  <2>3. e * NumApa + i \in Apa
    BY <1>n, <2>1, <2>2 DEF Apa
  <2>4. (e * NumApa + (i - 1)) \div NumApa = e
    BY <1>n, <2>0
  <2>5. (e * NumApa + i) - 1 = e * NumApa + (i - 1)
    BY <2>0, <2>2
  <2> QED BY <2>3, <2>4, <2>5 DEF EpOf
<1> QED BY <1>1, <1>2

LEMMA ClosedType == /\ Closed \in Objects /\ GoodContents(Closed)
                    /\ Closed.fd = -1 /\ Closed.conn_apa = NoConn
<1>1. <<>> \in Seq(Bytes) /\ NoConn \in Apa \union {NoConn}
    BY EmptySeq
<1>2. Closed \in Objects
    BY <1>1 DEF Closed, Objects
<1>3. Len(Closed.buf_in) = 0 /\ Len(Closed.buf_out) = 0 /\ Closed.nwrite_in = 0 /\ Closed.nwrite_out = 0
    BY EmptySeq DEF Closed
<1>4. Closed.fd = -1 /\ Closed.conn_apa = NoConn
    BY DEF Closed
<1> QED BY <1>2, <1>3, <1>4, Numbers DEF GoodContents

(* Sets of objects, and one more or one less of them. *)
LEMMA Counted ==
    ASSUME NEW S \in SUBSET Ca, NEW T \in SUBSET Ca
    PROVE  /\ Cardinality(S) \in Nat
           /\ S \subseteq T => Cardinality(S) <= Cardinality(T)
           /\ \A c \in S : Cardinality(S) > 0 /\ Cardinality(S \ {c}) = Cardinality(S) - 1
           /\ \A c \in Ca \ S : Cardinality(S \union {c}) = Cardinality(S) + 1
<1>1. IsFiniteSet(Ca)
    BY FS_Interval, Numbers DEF Ca
<1>2. IsFiniteSet(S) /\ IsFiniteSet(T)
    BY <1>1, FS_Subset
<1>3. Cardinality(S) \in Nat
    BY <1>2, FS_CardinalityType
<1>4. S \subseteq T => Cardinality(S) <= Cardinality(T)
    BY <1>2, FS_Subset
<1>5. ASSUME NEW c \in S PROVE Cardinality(S) > 0 /\ Cardinality(S \ {c}) = Cardinality(S) - 1
  <2>1. Cardinality(S \ {c}) = Cardinality(S) - 1
    BY <1>2, FS_RemoveElement
  <2>2. Cardinality(S) # 0
    BY <1>2, FS_EmptySet
  <2> QED BY <1>3, <2>1, <2>2
<1>6. ASSUME NEW c \in Ca \ S PROVE Cardinality(S \union {c}) = Cardinality(S) + 1
    BY <1>2, FS_AddElement
<1> QED BY <1>3, <1>4, <1>5, <1>6

-----------------------------------------------------------------------------
(* DInv, operation by operation.  The event loop, the sockets, the         *)
(* objects, their pool, the connections to provider agents and the pools   *)
(* of those are l, s, obj, p, ap, ep before and l2, s2, ... after it.      *)

Typed(l, s, obj, p, ap, ep) ==
    /\ l \in AgentLoops /\ s \in [Fds -> Socks(Bytes)] /\ obj \in [Ca -> Objects]
    /\ p \in Pools(NumCa, Ca) /\ ap \in [Apa -> Fds \union {-1}]
    /\ ep \in [Ep -> Pools(NumApa, Apa)]

(* What the pools and objects refer to. *)
LEMMA Refers ==
    ASSUME NEW l, NEW s, NEW obj, NEW p, NEW ap, NEW ep, Typed(l, s, obj, p, ap, ep)
    PROVE  /\ \A c \in Ca : obj[c].fd \in Fds \union {-1} /\ obj[c].conn_apa \in Apa \union {NoConn}
           /\ \A a \in Apa : ap[a] \in Fds \union {-1}
           /\ \A e \in Ep : \A i \in DOMAIN ep[e].alloc_stack : ep[e].alloc_stack[i] \in Apa
           /\ \A i \in DOMAIN p.alloc_stack : p.alloc_stack[i] \in Ca
<1>1. \A c \in Ca : obj[c].fd \in Fds \union {-1} /\ obj[c].conn_apa \in Apa \union {NoConn}
    BY DEF Typed, Objects
<1>2. ASSUME NEW e \in Ep, NEW i \in DOMAIN ep[e].alloc_stack PROVE ep[e].alloc_stack[i] \in Apa
  <2>1. ep[e].alloc_stack \in Seq(Apa)
    BY DEF Typed, Pools
  <2> QED BY <2>1, LenProperties
<1>3. ASSUME NEW i \in DOMAIN p.alloc_stack PROVE p.alloc_stack[i] \in Ca
  <2>1. p.alloc_stack \in Seq(Ca)
    BY DEF Typed, Pools
  <2> QED BY <2>1, LenProperties
<1> QED BY <1>1, <1>2, <1>3 DEF Typed

(* The sockets' queues and states do not matter. *)
LEMMA SocketsKeep ==
    ASSUME NEW l, NEW s, NEW obj, NEW p, NEW ap, NEW ep, NEW s2,
           Typed(l, s, obj, p, ap, ep), DInv(l, s, obj, p, ap, ep), SameSockets(s, s2)
    PROVE  DInv(l, s2, obj, p, ap, ep)
<1>0. \A c \in Ca : obj[c].fd \in Fds \union {-1}
    BY Refers
<1> USE DEF Typed, DInv, SameSockets
<1>1. HandlersMatch(l, s2)
    BY DEF HandlersMatch
<1>2. ObjectsOwn(l, s2, obj)
    BY <1>0 DEF ObjectsOwn
<1>3. ApaOwn(s2, ap)
    BY DEF ApaOwn
<1>4. Owned(l, s2, obj, p)
    BY DEF Owned
<1> QED BY <1>1, <1>2, <1>3, <1>4

(* Fewer events are registered on fd, and a consumer is still read from.   *)
LEMMA FewerEventsKeep ==
    ASSUME NEW l, NEW s, NEW obj, NEW p, NEW ap, NEW ep, NEW l2, NEW fd \in Fds, NEW mask,
           Typed(l, s, obj, p, ap, ep), DInv(l, s, obj, p, ap, ep),
           SameBut(l, l2, {fd}), Masked(l, l2, fd, mask), mask \subseteq l.events[fd].mask,
           Agrees(l2, fd), Reliable /\ s[fd].kind = "client" => AE_READABLE \in mask
    PROVE  DInv(l2, s, obj, p, ap, ep)
<1>f. /\ \A c \in Ca : obj[c].fd \in Fds \union {-1}
      /\ \A a \in Apa : ap[a] \in Fds \union {-1}
      /\ \A e \in Ep : \A i \in DOMAIN ep[e].alloc_stack : ep[e].alloc_stack[i] \in Apa
    BY Refers, Zenon
<1> USE DEF Typed, DInv
<1>0. \A g \in Fds : /\ l2.events[g].mask \subseteq l.events[g].mask
                      /\ l2.events[g].rfileProc = l.events[g].rfileProc
                      /\ l2.events[g].wfileProc = l.events[g].wfileProc
                      /\ l2.events[g].clientData = l.events[g].clientData
    BY DEF SameBut, Masked
<1>e. \A g \in Fds \ {fd} : l2.events[g] = l.events[g] /\ l2.epoll[g] = l.epoll[g]
    BY DEF SameBut
<1>1. HandlersMatch(l2, s)
  <2> SUFFICES ASSUME NEW g \in Fds PROVE HandlersMatch(l2, s)!(g)
    BY DEF HandlersMatch
  <2>1. Agrees(l2, g)
    BY <1>e DEF HandlersMatch, Agrees
  <2>2. ASSUME l2.events[g].mask # {} PROVE HandlersMatch(l2, s)!(g)!2!2
    <3>1. l.events[g].mask # {} /\ HandlersMatch(l, s)!(g)!2!2
        BY <1>0, <2>2 DEF HandlersMatch
    <3> QED BY <1>0, <2>2, <3>1
  <2> QED BY <2>1, <2>2
<1>2. ObjectsOwn(l2, s, obj)
    BY <1>0, <1>f DEF ObjectsOwn
<1>3. Idle(l2, obj, ap, ep)
  <2>1. \A a \in Apa : IdleApa(l, obj, ap, a) => IdleApa(l2, obj, ap, a)
    BY <1>0, <1>f DEF IdleApa
  <2> QED BY <1>f, <2>1 DEF Idle
<1>4. Owned(l2, s, obj, p)
  <2>1. ASSUME Reliable, NEW g \in Fds, s[g].kind = "client"
        PROVE  /\ AE_READABLE \in l2.events[g].mask
               /\ l2.events[g].clientData \in Ca /\ obj[l2.events[g].clientData].fd = g
    <3>1. /\ AE_READABLE \in l.events[g].mask
          /\ l.events[g].clientData \in Ca /\ obj[l.events[g].clientData].fd = g
        BY <2>1 DEF Owned
    <3>2. CASE g = fd
        BY <1>0, <2>1, <3>1, <3>2 DEF Masked
    <3>3. CASE g # fd
        BY <1>e, <3>1, <3>3
    <3> QED BY <3>2, <3>3
  <2> QED BY <2>1 DEF Owned
<1> QED BY <1>1, <1>2, <1>3, <1>4

(* The object c gets other contents for the same two descriptors. *)
LEMMA ContentsKeep ==
    ASSUME NEW l, NEW s, NEW obj, NEW p, NEW ap, NEW ep, NEW c \in Ca, NEW r \in Objects, NEW obj2,
           Typed(l, s, obj, p, ap, ep), DInv(l, s, obj, p, ap, ep),
           r.fd = obj[c].fd, r.conn_apa = obj[c].conn_apa, obj2 = [obj EXCEPT ![c] = r]
    PROVE  DInv(l, s, obj2, p, ap, ep)
<1>s. \A i \in DOMAIN p.alloc_stack : p.alloc_stack[i] \in Ca
    BY Refers, Zenon
<1> USE DEF Typed, DInv
<1>0. \A d \in Ca : obj2[d].fd = obj[d].fd /\ obj2[d].conn_apa = obj[d].conn_apa
    OBVIOUS
<1>1. ObjectsOwn(l, s, obj2)
    BY <1>0 DEF ObjectsOwn
<1>2. Apart(obj2, ap)
    BY <1>0 DEF Apart
<1>3. Idle(l, obj2, ap, ep)
  <2>1. \A a : IdleApa(l, obj, ap, a) => IdleApa(l, obj2, ap, a)
    BY <1>0 DEF IdleApa
  <2> QED BY <2>1 DEF Idle
<1>4. Counts(obj2, ep)
  <2>1. \A e \in Ep : UsedOf(obj2, e) = UsedOf(obj, e)
    BY <1>0 DEF UsedOf
  <2> QED BY <2>1 DEF Counts
<1>5. Owned(l, s, obj2, p)
  <2>1. {d \in Ca : obj2[d].fd # -1} = {d \in Ca : obj[d].fd # -1}
    BY <1>0
  <2> QED BY <1>0, <1>s, <2>1 DEF Owned
<1> QED BY <1>1, <1>2, <1>3, <1>4, <1>5

(* The object c takes the connection on top of the pool of the endpoint e. *)
Takes(obj, obj2, ep, ep2, c, r, e, a) ==
    /\ PoolHasElement(ep[e]) /\ a = PoolTop(ep[e]) /\ ep2 = [ep EXCEPT ![e] = PoolPull(ep[e])]
    /\ obj[c].fd # -1 /\ obj[c].conn_apa = NoConn
    /\ r.fd = obj[c].fd /\ r.conn_apa = a /\ obj2 = [obj EXCEPT ![c] = r]

LEMMA TakeKeeps ==
    ASSUME NEW l, NEW s, NEW obj, NEW p, NEW ap, NEW ep, NEW obj2, NEW ep2,
           NEW c \in Ca, NEW r \in Objects, NEW e \in Ep, NEW a,
           Typed(l, s, obj, p, ap, ep), DInv(l, s, obj, p, ap, ep),
           Takes(obj, obj2, ep, ep2, c, r, e, a)
    PROVE  /\ DInv(l, s, obj2, p, ap, ep2) /\ a \in Apa
           /\ ep2 \in [Ep -> Pools(NumApa, Apa)] /\ obj2 \in [Ca -> Objects]
<1>f. /\ \A d \in Ca : obj[d].fd \in Fds \union {-1} /\ obj[d].conn_apa \in Apa \union {NoConn}
      /\ \A i \in DOMAIN p.alloc_stack : p.alloc_stack[i] \in Ca
    BY Refers, Zenon
<1> USE DEF Typed, DInv, Takes
<1> DEFINE q == ep[e]
           q2 == PoolPull(q)
           n == Len(q.alloc_stack)
<1>q. q \in Pools(NumApa, Apa) /\ PoolHasElement(q)
    OBVIOUS
<1>p. /\ q2 \in Pools(NumApa, Apa) /\ n \in Nat \ {0} /\ a \in Apa /\ a = q.alloc_stack[n]
      /\ DOMAIN q.alloc_stack = 1 .. n /\ DOMAIN q2.alloc_stack = 1 .. n - 1
      /\ \A i \in 1 .. n - 1 : q2.alloc_stack[i] = q.alloc_stack[i]
      /\ q2.outstanding = q.outstanding + 1 /\ q2.allocated = q.allocated
      /\ q2.empty_stack_size = q.empty_stack_size + 1 /\ Len(q2.alloc_stack) = n - 1
    BY <1>q, Pulled
<1>o. q.outstanding \in Int /\ q.empty_stack_size \in Int
    BY <1>q DEF Pools
<1>e. ep2[e] = q2 /\ \A e2 \in Ep \ {e} : ep2[e2] = ep[e2]
    OBVIOUS
<1>0. /\ obj2[c] = r /\ \A d \in Ca \ {c} : obj2[d] = obj[d]
      /\ \A d \in Ca : obj2[d].fd = obj[d].fd
    OBVIOUS
<1>t. ep2 \in [Ep -> Pools(NumApa, Apa)] /\ obj2 \in [Ca -> Objects]
    BY <1>p
<1>i. /\ EpOf(a) = e /\ IdleApa(l, obj, ap, a)
      /\ \A j \in 1 .. n : q.alloc_stack[j] = a => j = n
  <2>1. n \in DOMAIN q.alloc_stack
    BY <1>p
  <2>2. EpOf(q.alloc_stack[n]) = e /\ IdleApa(l, obj, ap, q.alloc_stack[n])
        /\ \A j \in DOMAIN q.alloc_stack : q.alloc_stack[j] = q.alloc_stack[n] => j = n
    BY <2>1 DEF Idle
  <2> QED BY <1>p, <2>2
<1> HIDE DEF q, q2, n
<1>a. a # NoConn
    BY <1>p, Numbers
<1>1. ObjectsOwn(l, s, obj2)
    BY <1>0 DEF ObjectsOwn
<1>2. Apart(obj2, ap)
  <2> SUFFICES ASSUME NEW d \in Ca, obj2[d].conn_apa # NoConn
               PROVE  /\ obj2[d].fd # -1 /\ ap[obj2[d].conn_apa] # -1
                      /\ \A d2 \in Ca : obj2[d2].conn_apa = obj2[d].conn_apa => d2 = d
    BY DEF Apart
  <2>1. \A d2 \in Ca : obj[d2].conn_apa # a
    BY <1>i DEF IdleApa
  <2>2. CASE d = c
    BY <1>0, <1>i, <2>1, <2>2 DEF IdleApa
  <2>3. CASE d # c
    <3>1. obj[d].conn_apa # NoConn /\ obj2[d] = obj[d]
        BY <1>0, <2>3
    <3> QED BY <1>0, <2>1, <3>1 DEF Apart
  <2> QED BY <2>2, <2>3
<1>3. Idle(l, obj2, ap, ep2)
  <2>1. \A b : IdleApa(l, obj, ap, b) /\ b # a => IdleApa(l, obj2, ap, b)
    BY <1>0 DEF IdleApa
  <2> SUFFICES ASSUME NEW e2 \in Ep, NEW i \in DOMAIN ep2[e2].alloc_stack
               PROVE  LET stack == ep2[e2].alloc_stack
                      IN  /\ EpOf(stack[i]) = e2 /\ IdleApa(l, obj2, ap, stack[i])
                          /\ \A j \in DOMAIN stack : stack[j] = stack[i] => j = i
    BY DEF Idle
  <2>2. CASE e2 = e
    <3>1. /\ DOMAIN ep2[e2].alloc_stack = 1 .. n - 1 /\ i \in 1 .. n /\ i # n
          /\ \A j \in 1 .. n - 1 : ep2[e2].alloc_stack[j] = q.alloc_stack[j]
        BY <1>e, <1>p, <2>2
    <3>2. /\ EpOf(q.alloc_stack[i]) = e /\ IdleApa(l, obj, ap, q.alloc_stack[i])
          /\ \A j \in DOMAIN q.alloc_stack : q.alloc_stack[j] = q.alloc_stack[i] => j = i
        BY <1>p, <3>1 DEF Idle, q
    <3>3. q.alloc_stack[i] # a
        BY <1>i, <3>1
    <3>4. i \in 1 .. n - 1 /\ ep2[e2].alloc_stack[i] = q.alloc_stack[i]
        BY <3>1
    <3>5. ASSUME NEW j \in DOMAIN ep2[e2].alloc_stack, ep2[e2].alloc_stack[j] = ep2[e2].alloc_stack[i]
          PROVE  j = i
      <4>1. j \in 1 .. n /\ ep2[e2].alloc_stack[j] = q.alloc_stack[j]
        BY <1>p, <3>1
      <4> QED BY <1>p, <3>2, <3>4, <3>5, <4>1
    <3>6. EpOf(ep2[e2].alloc_stack[i]) = e2 /\ IdleApa(l, obj2, ap, ep2[e2].alloc_stack[i])
        BY <2>1, <2>2, <3>2, <3>3, <3>4, Zenon
    <3> QED BY <3>5, <3>6, Zenon
  <2>3. CASE e2 # e
    <3>1. /\ EpOf(ep[e2].alloc_stack[i]) = e2 /\ IdleApa(l, obj, ap, ep[e2].alloc_stack[i])
          /\ \A j \in DOMAIN ep[e2].alloc_stack : ep[e2].alloc_stack[j] = ep[e2].alloc_stack[i] => j = i
        BY <1>e, <2>3 DEF Idle
    <3>2. ep[e2].alloc_stack[i] # a
        BY <1>i, <2>3, <3>1
    <3> QED BY <1>e, <2>1, <2>3, <3>1, <3>2
  <2> QED BY <2>2, <2>3
<1>4. Counts(obj2, ep2)
  <2> SUFFICES ASSUME NEW e2 \in Ep PROVE Counts(obj2, ep2)!(e2)
    BY DEF Counts
  <2>1. Counts(obj, ep)!(e2)
    BY DEF Counts
  <2>2. CASE e2 = e
    <3>1. UsedOf(obj2, e) = UsedOf(obj, e) \union {c} /\ UsedOf(obj, e) \in SUBSET Ca /\ c \notin UsedOf(obj, e)
        BY <1>0, <1>i, <1>a DEF UsedOf
    <3>2. Cardinality(UsedOf(obj2, e)) = Cardinality(UsedOf(obj, e)) + 1 /\ Cardinality(UsedOf(obj, e)) \in Nat
        BY <3>1, Counted
    <3>3. q.allocated = NumApa /\ q.empty_stack_size = q.outstanding
          /\ q.outstanding + n = NumApa /\ q.outstanding >= Cardinality(UsedOf(obj, e))
        BY <2>1, <2>2 DEF q, n
    <3>a. q2.allocated = NumApa /\ q2.empty_stack_size = q2.outstanding
        BY <1>p, <1>o, <3>3
    <3>b. q2.outstanding + (n - 1) = NumApa
        BY <1>p, <1>o, <3>3
    <3>c. q2.outstanding >= Cardinality(UsedOf(obj2, e))
        BY <1>p, <1>o, <3>2, <3>3
    <3>4. q2.allocated = NumApa /\ q2.empty_stack_size = q2.outstanding
          /\ q2.outstanding + (n - 1) = NumApa /\ q2.outstanding >= Cardinality(UsedOf(obj2, e))
        BY <3>a, <3>b, <3>c, Zenon
    <3>5. ep2[e2] = q2 /\ e2 = e /\ Len(q2.alloc_stack) = n - 1
        BY <1>e, <1>p, <2>2
    <3> QED BY <3>4, <3>5, Zenon
  <2>3. CASE e2 # e
    <3>1. UsedOf(obj2, e2) = UsedOf(obj, e2)
        BY <1>0, <1>i, <2>3 DEF UsedOf
    <3> QED BY <1>e, <2>1, <2>3, <3>1
  <2> QED BY <2>2, <2>3
<1>5. Owned(l, s, obj2, p)
  <2>1. {d \in Ca : obj2[d].fd # -1} = {d \in Ca : obj[d].fd # -1}
    BY <1>0
  <2> QED BY <1>0, <1>f, <2>1 DEF Owned
<1> QED BY <1>1, <1>2, <1>3, <1>4, <1>5, <1>t, <1>p

(* An event is registered for the connection that c refers to. *)
LEMMA ApaEventKeeps ==
    ASSUME NEW l, NEW s, NEW obj, NEW p, NEW ap, NEW ep, NEW l2, NEW c \in Ca, NEW ev \in ReadWrite,
           NEW g \in Fds, NEW proc,
           Typed(l, s, obj, p, ap, ep), DInv(l, s, obj, p, ap, ep),
           obj[c].conn_apa # NoConn, g = ap[obj[c].conn_apa],
           proc = (IF ev = AE_READABLE THEN "read_from_remote_agent" ELSE "write_to_remote_agent"),
           Registers(l, l2, g, ev, proc, c), Agrees(l2, g)
    PROVE  DInv(l2, s, obj, p, ap, ep)
<1>f. /\ \A d \in Ca : obj[d].fd \in Fds \union {-1} /\ obj[d].conn_apa \in Apa \union {NoConn}
      /\ \A a \in Apa : ap[a] \in Fds \union {-1}
      /\ \A e \in Ep : \A i \in DOMAIN ep[e].alloc_stack : ep[e].alloc_stack[i] \in Apa
    BY Refers, Zenon
<1> USE DEF Typed, DInv
<1> DEFINE b == obj[c].conn_apa
<1>0. b \in Apa /\ s[g].kind = "apa" /\ g = b /\ g # -1
    BY <1>f, Descriptors DEF ApaOwn
<1>1. /\ l2.events[g].mask = l.events[g].mask \union {ev}
      /\ l2.events[g].rfileProc = (IF ev = AE_READABLE THEN proc ELSE l.events[g].rfileProc)
      /\ l2.events[g].wfileProc = (IF ev = AE_WRITABLE THEN proc ELSE l.events[g].wfileProc)
      /\ l2.events[g].clientData = c
    BY DEF Registers
<1>2. \A h \in Fds \ {g} : l2.events[h] = l.events[h] /\ l2.epoll[h] = l.epoll[h]
    BY DEF Registers, SameBut
<1>3. HandlersMatch(l2, s)
  <2> SUFFICES ASSUME NEW h \in Fds PROVE HandlersMatch(l2, s)!(h)
    BY DEF HandlersMatch
  <2>1. CASE h # g
    BY <1>2, <2>1 DEF HandlersMatch, Agrees
  <2>2. CASE h = g
    <3>1. AE_READABLE \in l.events[g].mask => l.events[g].rfileProc = "read_from_remote_agent"
        BY <1>0 DEF HandlersMatch
    <3>2. AE_WRITABLE \in l.events[g].mask => l.events[g].wfileProc = "write_to_remote_agent"
        BY <1>0 DEF HandlersMatch
    <3> QED BY <1>0, <1>1, <2>2, <3>1, <3>2 DEF ReadWrite, AE_READABLE, AE_WRITABLE
  <2> QED BY <2>1, <2>2
<1>4. ObjectsOwn(l2, s, obj)
  <2>1. \A d \in Ca : obj[d].fd # g
    BY <1>0 DEF ObjectsOwn
  <2> QED BY <1>2, <1>f, <2>1 DEF ObjectsOwn
<1>5. Idle(l2, obj, ap, ep)
  <2>1. ASSUME NEW a \in Apa, IdleApa(l, obj, ap, a) PROVE IdleApa(l2, obj, ap, a)
    <3>1. a # b /\ ap[a] = a /\ ap[a] \in Fds
        BY <1>f, <2>1 DEF IdleApa, ApaOwn
    <3>2. l2.events[ap[a]] = l.events[ap[a]]
        BY <1>0, <1>2, <3>1
    <3> QED BY <2>1, <3>2 DEF IdleApa
  <2> QED BY <1>f, <2>1 DEF Idle
<1>6. Owned(l2, s, obj, p)
    BY <1>0, <1>2 DEF Owned
<1> QED BY <1>3, <1>4, <1>5, <1>6

(* The writable event of a consumer is registered. *)
LEMMA ClientEventKeeps ==
    ASSUME NEW l, NEW s, NEW obj, NEW p, NEW ap, NEW ep, NEW l2, NEW c \in Ca, NEW f \in Fds, NEW proc,
           Typed(l, s, obj, p, ap, ep), DInv(l, s, obj, p, ap, ep), obj[c].fd = f,
           proc = "write_to_consumer", Registers(l, l2, f, AE_WRITABLE, proc, c), Agrees(l2, f)
    PROVE  DInv(l2, s, obj, p, ap, ep)
<1>f. /\ \A d \in Ca : obj[d].fd \in Fds \union {-1} /\ obj[d].conn_apa \in Apa \union {NoConn}
      /\ \A a \in Apa : ap[a] \in Fds \union {-1}
      /\ \A e \in Ep : \A i \in DOMAIN ep[e].alloc_stack : ep[e].alloc_stack[i] \in Apa
    BY Refers, Zenon
<1> USE DEF Typed, DInv
<1>0. s[f].kind = "client" /\ l.events[f].clientData = c /\ f # -1
    BY Descriptors DEF ObjectsOwn
<1>1. /\ l2.events[f].mask = l.events[f].mask \union {AE_WRITABLE}
      /\ l2.events[f].rfileProc = l.events[f].rfileProc
      /\ l2.events[f].wfileProc = proc
      /\ l2.events[f].clientData = c
    BY DEF Registers, AE_READABLE, AE_WRITABLE
<1>2. \A h \in Fds \ {f} : l2.events[h] = l.events[h] /\ l2.epoll[h] = l.epoll[h]
    BY DEF Registers, SameBut
<1>3. HandlersMatch(l2, s)
  <2> SUFFICES ASSUME NEW h \in Fds PROVE HandlersMatch(l2, s)!(h)
    BY DEF HandlersMatch
  <2>1. CASE h # f
    BY <1>2, <2>1 DEF HandlersMatch, Agrees
  <2>2. CASE h = f
    <3>1. AE_READABLE \in l.events[f].mask => l.events[f].rfileProc = "read_from_consumer"
        BY <1>0 DEF HandlersMatch
    <3> QED BY <1>0, <1>1, <2>2, <3>1 DEF AE_READABLE, AE_WRITABLE
  <2> QED BY <2>1, <2>2
<1>4. ObjectsOwn(l2, s, obj)
    BY <1>0, <1>1, <1>2, <1>f DEF ObjectsOwn
<1>5. Idle(l2, obj, ap, ep)
  <2>1. ASSUME NEW a \in Apa, IdleApa(l, obj, ap, a) PROVE IdleApa(l2, obj, ap, a)
    <3>1. ap[a] \in Fds /\ ap[a] # f
        BY <1>0, <1>f, <2>1 DEF IdleApa, ApaOwn
    <3> QED BY <1>2, <2>1, <3>1 DEF IdleApa
  <2> QED BY <1>f, <2>1 DEF Idle
<1>6. Owned(l2, s, obj, p)
  <2>1. ASSUME Reliable, NEW h \in Fds, s[h].kind = "client"
        PROVE  /\ AE_READABLE \in l2.events[h].mask
               /\ l2.events[h].clientData \in Ca /\ obj[l2.events[h].clientData].fd = h
    <3>1. /\ AE_READABLE \in l.events[h].mask
          /\ l.events[h].clientData \in Ca /\ obj[l.events[h].clientData].fd = h
        BY <2>1 DEF Owned
    <3>2. CASE h = f
        BY <1>0, <1>1, <3>1, <3>2
    <3>3. CASE h # f
        BY <1>2, <3>1, <3>3
    <3> QED BY <3>2, <3>3
  <2> QED BY <2>1 DEF Owned
<1> QED BY <1>3, <1>4, <1>5, <1>6

(* The object c gives the connection a, whose events are dropped, back. *)
GivesBack(l, obj, obj2, ap, ep, ep2, c, r, e, a) ==
    /\ a = obj[c].conn_apa /\ a # NoConn /\ e = EpOf(a) /\ l.events[ap[a]].mask = {}
    /\ r.fd = obj[c].fd /\ r.conn_apa = NoConn /\ obj2 = [obj EXCEPT ![c] = r]
    /\ ep2 = [ep EXCEPT ![e] = PoolReturned(ep[e], a)]

LEMMA ReturnKeeps ==
    ASSUME NEW l, NEW s, NEW obj, NEW p, NEW ap, NEW ep, NEW obj2, NEW ep2,
           NEW c \in Ca, NEW r \in Objects, NEW e, NEW a,
           Typed(l, s, obj, p, ap, ep), DInv(l, s, obj, p, ap, ep),
           GivesBack(l, obj, obj2, ap, ep, ep2, c, r, e, a)
    PROVE  DInv(l, s, obj2, p, ap, ep2) /\ ep2 \in [Ep -> Pools(NumApa, Apa)]
<1>f. /\ \A d \in Ca : obj[d].fd \in Fds \union {-1} /\ obj[d].conn_apa \in Apa \union {NoConn}
      /\ \A e2 \in Ep : \A i \in DOMAIN ep[e2].alloc_stack : ep[e2].alloc_stack[i] \in Apa
      /\ \A i \in DOMAIN p.alloc_stack : p.alloc_stack[i] \in Ca
    BY Refers, Zenon
<1> USE DEF Typed, DInv, GivesBack
<1>a. a \in Apa /\ e \in Ep
    BY <1>f, EpNumbers
<1> DEFINE q == ep[e]
           q2 == PoolReturned(q, a)
           n == Len(q.alloc_stack)
<1>q. q \in Pools(NumApa, Apa)
    BY <1>a
<1>o. q.outstanding \in Int /\ q.empty_stack_size \in Int
    BY <1>q DEF Pools
<1>0. /\ obj2[c] = r /\ \A d \in Ca \ {c} : obj2[d] = obj[d]
      /\ \A d \in Ca : obj2[d].fd = obj[d].fd
    OBVIOUS
<1>u. /\ UsedOf(obj2, e) = UsedOf(obj, e) \ {c} /\ UsedOf(obj, e) \in SUBSET Ca /\ c \in UsedOf(obj, e)
      /\ \A e2 \in Ep \ {e} : UsedOf(obj2, e2) = UsedOf(obj, e2)
    BY <1>0 DEF UsedOf
<1>k. /\ Cardinality(UsedOf(obj, e)) > 0 /\ Cardinality(UsedOf(obj, e)) \in Nat
      /\ Cardinality(UsedOf(obj2, e)) = Cardinality(UsedOf(obj, e)) - 1
  <2> DEFINE A == UsedOf(obj, e)
  <2>1. A \in SUBSET Ca /\ c \in A /\ UsedOf(obj2, e) = A \ {c}
    BY <1>u
  <2> HIDE DEF A, GivesBack, DInv, Typed
  <2>2. Cardinality(A) > 0 /\ Cardinality(A) \in Nat /\ Cardinality(A \ {c}) = Cardinality(A) - 1
    BY <2>1, Counted
  <2> QED BY <2>1, <2>2 DEF A
<1>c. q.allocated = NumApa /\ q.empty_stack_size = q.outstanding
      /\ q.outstanding + n = NumApa /\ q.outstanding >= Cardinality(UsedOf(obj, e))
    BY <1>a DEF Counts
<1>d. q.empty_stack_size # 0
    BY <1>k, <1>c, <1>o
<1>p. /\ q2 \in Pools(NumApa, Apa) /\ n \in Nat
      /\ DOMAIN q.alloc_stack = 1 .. n /\ DOMAIN q2.alloc_stack = 1 .. n + 1
      /\ q2.alloc_stack[n + 1] = a
      /\ \A i \in 1 .. n : q2.alloc_stack[i] = q.alloc_stack[i]
      /\ q2.outstanding = q.outstanding - 1 /\ q2.allocated = q.allocated
      /\ q2.empty_stack_size = q.empty_stack_size - 1 /\ Len(q2.alloc_stack) = n + 1
  <2> HIDE DEF q, GivesBack
  <2> QED BY <1>a, <1>q, <1>d, Returned
<1>e. ep2[e] = q2 /\ \A e2 \in Ep \ {e} : ep2[e2] = ep[e2]
    BY <1>a
<1>t. ep2 \in [Ep -> Pools(NumApa, Apa)]
    BY <1>p
<1> HIDE DEF q, q2, n
<1>1. ObjectsOwn(l, s, obj2)
    BY <1>0 DEF ObjectsOwn
<1>2. Apart(obj2, ap)
    BY <1>0 DEF Apart
<1>3. Idle(l, obj2, ap, ep2)
  <2>1. ASSUME NEW b \in Apa, IdleApa(l, obj, ap, b) PROVE b # a /\ IdleApa(l, obj2, ap, b)
    <3>1. b # a /\ b # NoConn
        BY <2>1, Numbers DEF IdleApa
    <3>2. \A d \in Ca : obj2[d].conn_apa # b
        BY <1>0, <2>1, <3>1 DEF IdleApa
    <3> QED BY <2>1, <3>1, <3>2 DEF IdleApa
  <2>2. IdleApa(l, obj2, ap, a)
    <3>1. ap[a] # -1 /\ \A d \in Ca \ {c} : obj[d].conn_apa # a
        BY DEF Apart
    <3>2. \A d \in Ca : obj2[d].conn_apa # a
        BY <1>0, <3>1
    <3> QED BY <3>1, <3>2 DEF IdleApa
  <2> SUFFICES ASSUME NEW e2 \in Ep, NEW i \in DOMAIN ep2[e2].alloc_stack
               PROVE  LET stack == ep2[e2].alloc_stack
                      IN  /\ EpOf(stack[i]) = e2 /\ IdleApa(l, obj2, ap, stack[i])
                          /\ \A j \in DOMAIN stack : stack[j] = stack[i] => j = i
    BY DEF Idle
  <2>3. CASE e2 # e
    BY <1>e, <1>f, <2>1, <2>3 DEF Idle
  <2>4. CASE e2 = e
    <3> DEFINE st == q.alloc_stack
               st2 == ep2[e2].alloc_stack
    <3>1. /\ DOMAIN st = 1 .. n /\ DOMAIN st2 = 1 .. n + 1 /\ n \in Nat /\ st2[n + 1] = a
          /\ \A j \in 1 .. n : st2[j] = st[j]
        BY <1>e, <1>p, <2>4
    <3>2. \A k \in 1 .. n : /\ EpOf(st[k]) = e /\ IdleApa(l, obj, ap, st[k]) /\ st[k] \in Apa
                             /\ \A j \in 1 .. n : st[j] = st[k] => j = k
        BY <1>a, <1>f, <3>1 DEF Idle, q
    <3> HIDE DEF st, st2
    <3>3. \A k \in 1 .. n : st[k] # a /\ IdleApa(l, obj2, ap, st[k])
        BY <2>1, <3>2
    <3>4. i = n + 1 \/ i \in 1 .. n
        BY <3>1 DEF st2
    <3>5. EpOf(st2[i]) = e /\ IdleApa(l, obj2, ap, st2[i])
      <4>1. CASE i = n + 1
        BY <2>2, <3>1, <4>1
      <4>2. CASE i \in 1 .. n
        <5>1. st2[i] = st[i]
            BY <3>1, <4>2
        <5>2. EpOf(st[i]) = e /\ IdleApa(l, obj2, ap, st[i])
            BY <3>2, <3>3, <4>2, Zenon
        <5> QED BY <5>1, <5>2, Zenon
      <4> QED BY <3>4, <4>1, <4>2
    <3>6. ASSUME NEW j \in DOMAIN st2, st2[j] = st2[i] PROVE j = i
      <4>1. j = n + 1 \/ j \in 1 .. n
        BY <3>1
      <4> QED BY <3>1, <3>2, <3>3, <3>4, <3>6, <4>1
    <3> QED BY <2>4, <3>5, <3>6 DEF st2
  <2> QED BY <2>3, <2>4
<1>4. Counts(obj2, ep2)
  <2> SUFFICES ASSUME NEW e2 \in Ep PROVE Counts(obj2, ep2)!(e2)
    BY DEF Counts
  <2>1. Counts(obj, ep)!(e2)
    BY DEF Counts
  <2>2. CASE e2 = e
    <3>1. q2.allocated = NumApa /\ q2.empty_stack_size = q2.outstanding
        BY <1>p, <1>o, <1>c
    <3>2. q2.outstanding + (n + 1) = NumApa
      <4> HIDE DEF GivesBack, DInv, Typed
      <4>1. n \in Nat /\ q2.outstanding = q.outstanding - 1
        BY <1>p
      <4> QED BY <4>1, <1>o, <1>c
    <3>3. q2.outstanding >= Cardinality(UsedOf(obj2, e))
        BY <1>p, <1>o, <1>c, <1>k
    <3>4. ep2[e2] = q2 /\ e2 = e /\ Len(q2.alloc_stack) = n + 1
        BY <1>e, <1>p, <2>2
    <3> QED BY <3>1, <3>2, <3>3, <3>4, Zenon
  <2>3. CASE e2 # e
    BY <1>e, <1>u, <2>1, <2>3
  <2> QED BY <2>2, <2>3
<1>5. Owned(l, s, obj2, p)
  <2>1. {d \in Ca : obj2[d].fd # -1} = {d \in Ca : obj[d].fd # -1}
    BY <1>0
  <2>2. Owned(l, s, obj, p) /\ \A d \in Ca : obj2[d].fd = obj[d].fd
    BY <1>0
  <2> HIDE DEF Typed, DInv, GivesBack
  <2> QED BY <1>f, <2>1, <2>2, ZenonT(40) DEF Owned
<1> QED BY <1>1, <1>2, <1>3, <1>4, <1>5, <1>t

(* The objects in use, and one more or one less of them. *)
InUse(obj) == {c \in Ca : obj[c].fd # -1}

(* The object c is closed: the socket f and, unless b is NoConn, the       *)
(* connection b that c refers to are dropped from the loop and closed.     *)
Closes2(l, l2, s, s2, f, g) ==
    /\ SameBut(l, l2, {f, g})
    /\ \A h \in Fds \cap {f, g} : l2.events[h].mask = {} /\ Agrees(l2, h) /\ s2[h].kind = "free"
    /\ \A h \in Fds \ {f, g} : s2[h].kind = s[h].kind /\ s2[h].peer = s[h].peer
Leaves(l, s, obj, obj2, ap, ap2, c, f, g, b) ==
    /\ s[f].kind = "client" /\ l.events[f].clientData = c /\ obj[c].fd # -1
    /\ b \in {NoConn, obj[c].conn_apa} /\ g = (IF b = NoConn THEN -1 ELSE ap[b])
    /\ obj2 = [obj EXCEPT ![c] = Closed]
    /\ ap2 = [a \in Apa |-> IF a = b THEN -1 ELSE ap[a]]

LEMMA CloseKeeps ==
    ASSUME NEW l, NEW s, NEW obj, NEW p, NEW ap, NEW ep, NEW l2, NEW s2, NEW obj2, NEW p2, NEW ap2,
           NEW c \in Ca, NEW f \in Fds, NEW g, NEW b,
           Typed(l, s, obj, p, ap, ep), DInv(l, s, obj, p, ap, ep),
           Leaves(l, s, obj, obj2, ap, ap2, c, f, g, b), Closes2(l, l2, s, s2, f, g),
           Reliable => p2 = PoolReturned(p, c)
    PROVE  DInv(l2, s2, obj2, p2, ap2, ep)
<1>f. /\ \A d \in Ca : obj[d].fd \in Fds \union {-1} /\ obj[d].conn_apa \in Apa \union {NoConn}
      /\ \A a \in Apa : ap[a] \in Fds \union {-1}
      /\ \A e \in Ep : \A i \in DOMAIN ep[e].alloc_stack : ep[e].alloc_stack[i] \in Apa
      /\ \A i \in DOMAIN p.alloc_stack : p.alloc_stack[i] \in Ca
    BY Refers, Zenon
<1> USE DEF Typed, DInv, Leaves, Closes2
<1>0. /\ obj2[c].fd = -1 /\ obj2[c].conn_apa = NoConn /\ \A d \in Ca \ {c} : obj2[d] = obj[d]
    BY ClosedType
<1>1. \A a \in Apa : ap2[a] = IF a = b THEN -1 ELSE ap[a]
    OBVIOUS
<1>b. b # NoConn => b \in Apa /\ b = obj[c].conn_apa /\ ap[b] # -1 /\ g = b /\ s[g].kind = "apa"
    BY <1>f DEF Apart, ApaOwn
<1>2. \A h \in Fds \ {f, g} : l2.events[h] = l.events[h] /\ l2.epoll[h] = l.epoll[h]
    BY DEF SameBut
<1>3. \A d \in Ca \ {c} : obj[d].fd # -1 => obj[d].fd \in Fds /\ obj[d].fd # f /\ obj[d].fd # g
    BY <1>f, <1>b DEF ObjectsOwn
<1>4. \A a \in Apa : a # b /\ ap[a] # -1 => ap[a] \in Fds /\ ap[a] = a /\ ap[a] # f /\ ap[a] # g
  <2> SUFFICES ASSUME NEW a \in Apa, a # b, ap[a] # -1
               PROVE  ap[a] \in Fds /\ ap[a] = a /\ ap[a] # f /\ ap[a] # g
    OBVIOUS
  <2>1. ap[a] \in Fds /\ ap[a] = a /\ s[ap[a]].kind = "apa"
    BY <1>f DEF ApaOwn
  <2>2. ap[a] # f
    BY <2>1
  <2>3. ap[a] # g
    BY <1>b, <2>1
  <2> QED BY <2>1, <2>2, <2>3
<1>5. HandlersMatch(l2, s2)
  <2> SUFFICES ASSUME NEW h \in Fds PROVE HandlersMatch(l2, s2)!(h)
    BY DEF HandlersMatch
  <2>1. CASE h \in {f, g}
    BY <2>1
  <2>2. CASE h \notin {f, g}
    BY <1>2, <2>2 DEF HandlersMatch, Agrees
  <2> QED BY <2>1, <2>2
<1>6. ObjectsOwn(l2, s2, obj2)
    BY <1>0, <1>2, <1>3 DEF ObjectsOwn
<1>7. ApaOwn(s2, ap2)
    BY <1>1, <1>4 DEF ApaOwn
<1>8. Apart(obj2, ap2)
  <2> SUFFICES ASSUME NEW d \in Ca, obj2[d].conn_apa # NoConn
               PROVE  /\ obj2[d].fd # -1 /\ ap2[obj2[d].conn_apa] # -1
                      /\ \A d2 \in Ca : obj2[d2].conn_apa = obj2[d].conn_apa => d2 = d
    BY DEF Apart
  <2>1. d # c /\ obj2[d] = obj[d] /\ obj[d].conn_apa # NoConn /\ obj[d].conn_apa \in Apa
    BY <1>0, <1>f
  <2>2. /\ obj[d].fd # -1 /\ ap[obj[d].conn_apa] # -1
        /\ \A d2 \in Ca : obj[d2].conn_apa = obj[d].conn_apa => d2 = d
    BY <2>1 DEF Apart
  <2>3. obj[d].conn_apa # b
    BY <2>1, <2>2
  <2> QED BY <1>0, <1>1, <2>1, <2>2, <2>3
<1>9. Idle(l2, obj2, ap2, ep)
  <2>1. ASSUME NEW a \in Apa, IdleApa(l, obj, ap, a) PROVE IdleApa(l2, obj2, ap2, a)
    <3>1. a # b /\ ap[a] # -1 /\ a # NoConn
        BY <2>1, Numbers DEF IdleApa
    <3>2. ap2[a] = ap[a] /\ l2.events[ap[a]] = l.events[ap[a]]
        BY <1>1, <1>2, <1>4, <3>1
    <3>3. \A d \in Ca : obj2[d].conn_apa # a
        BY <1>0, <2>1, <3>1 DEF IdleApa
    <3> QED BY <2>1, <3>1, <3>2, <3>3 DEF IdleApa
  <2> QED BY <1>f, <2>1 DEF Idle
<1>10. Counts(obj2, ep)
  <2> SUFFICES ASSUME NEW e \in Ep PROVE Counts(obj2, ep)!(e)
    BY DEF Counts
  <2>1. Counts(obj, ep)!(e) /\ ep[e].outstanding \in Int
    BY DEF Counts, Pools
  <2>2. UsedOf(obj2, e) \subseteq UsedOf(obj, e) /\ UsedOf(obj, e) \in SUBSET Ca /\ UsedOf(obj2, e) \in SUBSET Ca
    BY <1>0 DEF UsedOf
  <2>3. Cardinality(UsedOf(obj2, e)) <= Cardinality(UsedOf(obj, e))
        /\ Cardinality(UsedOf(obj2, e)) \in Nat /\ Cardinality(UsedOf(obj, e)) \in Nat
    BY <2>2, Counted
  <2>4. ep[e].outstanding >= Cardinality(UsedOf(obj2, e))
    BY <2>1, <2>3
  <2> QED BY <2>1, <2>4, Zenon
<1>11. Owned(l2, s2, obj2, p2)
  <2> SUFFICES ASSUME Reliable PROVE Owned(l2, s2, obj2, p2)!2
    BY DEF Owned
  <2> DEFINE st == p.alloc_stack
             st2 == p2.alloc_stack
             n == Len(st)
  <2>1. Owned(l, s, obj, p)!2
    BY DEF Owned
  <2>2. obj[c].fd = f
    BY <2>1
  <2>p. p2 = PoolReturned(p, c) /\ p \in Pools(NumCa, Ca) /\ p.outstanding \in Int
    BY DEF Pools
  <2>u. /\ InUse(obj) \in SUBSET Ca /\ c \in InUse(obj) /\ InUse(obj2) = InUse(obj) \ {c}
        /\ InUse(obj) = {d \in Ca : obj[d].fd # -1} /\ InUse(obj2) = {d \in Ca : obj2[d].fd # -1}
    BY <1>0 DEF InUse
  <2>k. /\ Cardinality(InUse(obj)) > 0 /\ Cardinality(InUse(obj)) \in Nat
        /\ Cardinality(InUse(obj2)) = Cardinality(InUse(obj)) - 1
    <3> HIDE DEF Typed, DInv, Leaves, Closes2
    <3> QED BY <2>u, Counted, ZenonT(30)
  <2>o. p.outstanding = Cardinality(InUse(obj)) /\ p.empty_stack_size = p.outstanding /\ p.allocated = NumCa
    BY <2>1, <2>u
  <2>d. p.empty_stack_size # 0
    BY <2>k, <2>o
  <2>r. /\ n \in Nat /\ DOMAIN st = 1 .. n /\ DOMAIN st2 = 1 .. n + 1 /\ st2[n + 1] = c
        /\ \A i \in 1 .. n : st2[i] = st[i]
        /\ p2.outstanding = p.outstanding - 1 /\ p2.allocated = p.allocated
        /\ p2.empty_stack_size = p.empty_stack_size - 1
    BY <2>p, <2>d, Returned
  <2>3. p2.outstanding = Cardinality(InUse(obj2)) /\ p2.empty_stack_size = p2.outstanding /\ p2.allocated = NumCa
    BY <2>r, <2>o, <2>k
  <2>s. \A i \in 1 .. n : /\ st[i] \in Ca /\ obj[st[i]].fd = -1 /\ st[i] # c
                          /\ \A j \in 1 .. n : st[i] = st[j] => i = j
    <3>1. \A i, j \in DOMAIN st : obj[st[i]].fd = -1 /\ (st[i] = st[j] => i = j)
        BY <2>1
    <3>2. \A i \in DOMAIN st : st[i] \in Ca
        BY <1>f
    <3>3. DOMAIN st = 1 .. n
        BY <2>r
    <3> HIDE DEF st, n
    <3> QED BY <2>2, <3>1, <3>2, <3>3, Descriptors
  <2>4. ASSUME NEW i \in DOMAIN st2, NEW j \in DOMAIN st2
        PROVE  obj2[st2[i]].fd = -1 /\ (st2[i] = st2[j] => i = j)
    <3> HIDE DEF st, st2, n
    <3>1. (i = n + 1 \/ i \in 1 .. n) /\ (j = n + 1 \/ j \in 1 .. n)
        BY <2>r
    <3>2. obj2[st2[i]].fd = -1
        BY <1>0, <2>r, <2>s, <3>1
    <3>3. st2[i] = st2[j] => i = j
        BY <2>r, <2>s, <3>1
    <3> QED BY <3>2, <3>3
  <2>5. ASSUME NEW d \in Ca, obj2[d].fd = -1 PROVE \E i \in DOMAIN st2 : st2[i] = d
    <3> HIDE DEF st2, n
    <3>1. CASE d = c
        BY <2>r, <3>1
    <3>2. CASE d # c
      <4>1. PICK i \in DOMAIN st : st[i] = d
        BY <1>0, <2>1, <2>5, <3>2
      <4> QED BY <2>r, <4>1
    <3> QED BY <3>1, <3>2
  <2>6. ASSUME NEW h \in Fds, s2[h].kind = "client"
        PROVE  /\ AE_READABLE \in l2.events[h].mask
               /\ l2.events[h].clientData \in Ca /\ obj2[l2.events[h].clientData].fd = h
    <3>1. h \notin {f, g} /\ s[h].kind = "client"
        BY <2>6
    <3>2. /\ AE_READABLE \in l.events[h].mask
          /\ l.events[h].clientData \in Ca /\ obj[l.events[h].clientData].fd = h
        BY <2>1, <3>1
    <3>3. l.events[h].clientData # c
        BY <2>2, <3>1, <3>2
    <3> QED BY <1>0, <1>2, <3>1, <3>2, <3>3
  <2> QED BY <2>u, <2>3, <2>4, <2>5, <2>6
<1> QED BY <1>5, <1>6, <1>7, <1>8, <1>9, <1>10, <1>11

(* A connection is accepted on fd, which was free, for the object on top   *)
(* of the pool.                                                            *)
Accepts(s, s2, obj, obj2, p, p2, c, fd, r) ==
    /\ PoolHasElement(p) /\ c = PoolTop(p) /\ p2 = PoolPull(p)
    /\ r.fd = fd /\ r.conn_apa = NoConn /\ obj2 = [obj EXCEPT ![c] = r]
    /\ s[fd].kind = "free" /\ s2[fd].kind = "client"
    /\ \A h \in Fds \ {fd} : s2[h] = s[h]

LEMMA AcceptKeeps ==
    ASSUME NEW l, NEW s, NEW obj, NEW p, NEW ap, NEW ep, NEW l2, NEW s2, NEW p2, NEW obj2,
           NEW c \in Ca, NEW fd \in Fds, NEW r \in Objects,
           Typed(l, s, obj, p, ap, ep), DInv(l, s, obj, p, ap, ep),
           Accepts(s, s2, obj, obj2, p, p2, c, fd, r),
           Registers(l, l2, fd, AE_READABLE, "read_from_consumer", c), Agrees(l2, fd)
    PROVE  DInv(l2, s2, obj2, p2, ap, ep)
<1>f. /\ \A d \in Ca : obj[d].fd \in Fds \union {-1} /\ obj[d].conn_apa \in Apa \union {NoConn}
      /\ \A a \in Apa : ap[a] \in Fds \union {-1}
      /\ \A e \in Ep : \A i \in DOMAIN ep[e].alloc_stack : ep[e].alloc_stack[i] \in Apa
      /\ \A i \in DOMAIN p.alloc_stack : p.alloc_stack[i] \in Ca
    BY Refers, Zenon
<1> USE DEF Typed, DInv, Accepts
<1> DEFINE proc == "read_from_consumer"
<1>1. obj2[c] = r /\ fd # -1 /\ \A d \in Ca \ {c} : obj2[d] = obj[d]
    BY Descriptors
<1>m. l.events[fd].mask = {}
    BY DEF HandlersMatch
<1>2. /\ l2.events[fd].mask = {AE_READABLE} /\ l2.events[fd].rfileProc = proc
      /\ l2.events[fd].clientData = c
      /\ \A h \in Fds \ {fd} : l2.events[h] = l.events[h] /\ l2.epoll[h] = l.epoll[h]
    BY <1>m DEF Registers, SameBut
<1>w. AE_WRITABLE \notin {AE_READABLE}
    BY DEF AE_READABLE, AE_WRITABLE
<1>3. \A d \in Ca : obj[d].fd # fd
    BY <1>1 DEF ObjectsOwn
<1>4. \A a \in Apa : ap[a] # fd
    BY <1>1 DEF ApaOwn
<1>5. HandlersMatch(l2, s2)
  <2> SUFFICES ASSUME NEW h \in Fds PROVE HandlersMatch(l2, s2)!(h)
    BY DEF HandlersMatch
  <2>1. CASE h # fd
    BY <1>2, <2>1 DEF HandlersMatch, Agrees
  <2>2. CASE h = fd
    BY <1>2, <1>w, <2>2
  <2> QED BY <2>1, <2>2
<1>6. ObjectsOwn(l2, s2, obj2)
  <2> SUFFICES ASSUME NEW d \in Ca, obj2[d].fd # -1
               PROVE  s2[obj2[d].fd].kind = "client" /\ l2.events[obj2[d].fd].clientData = d
    BY DEF ObjectsOwn
  <2>1. CASE d = c
    BY <1>1, <1>2, <2>1
  <2>2. CASE d # c
    BY <1>1, <1>2, <1>3, <1>f, <2>2 DEF ObjectsOwn
  <2> QED BY <2>1, <2>2
<1>7. ApaOwn(s2, ap)
    BY <1>4, <1>f DEF ApaOwn
<1>8. Apart(obj2, ap)
    BY <1>1 DEF Apart
<1>9. Idle(l2, obj2, ap, ep)
  <2>1. ASSUME NEW a \in Apa, IdleApa(l, obj, ap, a) PROVE IdleApa(l2, obj2, ap, a)
    <3>1. a # NoConn /\ ap[a] \in Fds /\ ap[a] # fd
        BY <1>4, <1>f, <2>1, Numbers DEF IdleApa
    <3>2. \A d \in Ca : obj2[d].conn_apa # a
        BY <1>1, <2>1, <3>1 DEF IdleApa
    <3> QED BY <1>2, <2>1, <3>1, <3>2 DEF IdleApa
  <2> QED BY <1>f, <2>1 DEF Idle
<1>10. Counts(obj2, ep)
  <2> SUFFICES ASSUME NEW e \in Ep PROVE Counts(obj2, ep)!(e)
    BY DEF Counts
  <2>1. Counts(obj, ep)!(e) /\ ep[e].outstanding \in Int
    BY DEF Counts, Pools
  <2>2. UsedOf(obj2, e) \subseteq UsedOf(obj, e) /\ UsedOf(obj, e) \in SUBSET Ca /\ UsedOf(obj2, e) \in SUBSET Ca
    BY <1>1 DEF UsedOf
  <2>3. Cardinality(UsedOf(obj2, e)) <= Cardinality(UsedOf(obj, e))
        /\ Cardinality(UsedOf(obj2, e)) \in Nat /\ Cardinality(UsedOf(obj, e)) \in Nat
    BY <2>2, Counted
  <2>4. ep[e].outstanding >= Cardinality(UsedOf(obj2, e))
    BY <2>1, <2>3
  <2> QED BY <2>1, <2>4, Zenon
<1>11. Owned(l2, s2, obj2, p2)
  <2> SUFFICES ASSUME Reliable PROVE Owned(l2, s2, obj2, p2)!2
    BY DEF Owned
  <2> DEFINE st == p.alloc_stack
             st2 == p2.alloc_stack
             n == Len(st)
  <2>1. Owned(l, s, obj, p)!2
    BY DEF Owned
  <2>r. /\ n \in Nat \ {0} /\ DOMAIN st = 1 .. n /\ DOMAIN st2 = 1 .. n - 1 /\ c = st[n]
        /\ \A i \in 1 .. n - 1 : st2[i] = st[i]
        /\ p2.outstanding = p.outstanding + 1 /\ p2.allocated = p.allocated
        /\ p2.empty_stack_size = p.empty_stack_size + 1
    BY Pulled
  <2>s. \A i \in 1 .. n : /\ st[i] \in Ca /\ obj[st[i]].fd = -1
                          /\ \A j \in 1 .. n : st[i] = st[j] => i = j
    <3>1. \A i, j \in DOMAIN st : obj[st[i]].fd = -1 /\ (st[i] = st[j] => i = j)
        BY <2>1
    <3>2. \A i \in DOMAIN st : st[i] \in Ca
        BY <1>f
    <3>3. DOMAIN st = 1 .. n
        BY <2>r
    <3> HIDE DEF st, n
    <3> QED BY <3>1, <3>2, <3>3
  <2>2. obj[c].fd = -1 /\ \A i \in 1 .. n - 1 : st[i] # c
    <3> HIDE DEF st, n
    <3>1. n \in 1 .. n /\ \A i \in 1 .. n - 1 : i \in 1 .. n /\ i # n
        BY <2>r
    <3> QED BY <2>r, <2>s, <3>1
  <2>u. /\ InUse(obj) \in SUBSET Ca /\ c \in Ca \ InUse(obj) /\ InUse(obj2) = InUse(obj) \union {c}
        /\ InUse(obj) = {d \in Ca : obj[d].fd # -1} /\ InUse(obj2) = {d \in Ca : obj2[d].fd # -1}
    BY <1>1, <2>2 DEF InUse
  <2>k. Cardinality(InUse(obj)) \in Nat /\ Cardinality(InUse(obj2)) = Cardinality(InUse(obj)) + 1
    BY <2>u, Counted
  <2>o. p.outstanding = Cardinality(InUse(obj)) /\ p.empty_stack_size = p.outstanding /\ p.allocated = NumCa
    BY <2>1, <2>u
  <2>3. p2.outstanding = Cardinality(InUse(obj2)) /\ p2.empty_stack_size = p2.outstanding /\ p2.allocated = NumCa
    BY <2>r, <2>o, <2>k
  <2>4. ASSUME NEW i \in DOMAIN st2, NEW j \in DOMAIN st2
        PROVE  obj2[st2[i]].fd = -1 /\ (st2[i] = st2[j] => i = j)
    <3> HIDE DEF st, st2, n
    <3>1. i \in 1 .. n - 1 /\ j \in 1 .. n - 1 /\ i \in 1 .. n /\ j \in 1 .. n
        BY <2>r
    <3>2. st2[i] = st[i] /\ st2[j] = st[j] /\ st[i] # c /\ st[i] \in Ca
        BY <2>2, <2>r, <2>s, <3>1
    <3> QED BY <1>1, <2>s, <3>1, <3>2
  <2>5. ASSUME NEW d \in Ca, obj2[d].fd = -1 PROVE \E i \in DOMAIN st2 : st2[i] = d
    <3>1. d # c /\ obj[d].fd = -1
        BY <1>1, <2>5
    <3>2. PICK i \in DOMAIN st : st[i] = d
        BY <2>1, <3>1
    <3> HIDE DEF st, st2, n
    <3>3. i \in 1 .. n - 1
        BY <2>r, <3>1, <3>2
    <3> QED BY <2>r, <3>2, <3>3
  <2>6. ASSUME NEW h \in Fds, s2[h].kind = "client"
        PROVE  /\ AE_READABLE \in l2.events[h].mask
               /\ l2.events[h].clientData \in Ca /\ obj2[l2.events[h].clientData].fd = h
    <3>1. CASE h = fd
        BY <1>1, <1>2, <3>1
    <3>2. CASE h # fd
      <4>1. /\ AE_READABLE \in l.events[h].mask
            /\ l.events[h].clientData \in Ca /\ obj[l.events[h].clientData].fd = h
        BY <2>1, <2>6, <3>2
      <4>2. l.events[h].clientData # c
        BY <2>2, <4>1, Descriptors
      <4> QED BY <1>1, <1>2, <3>2, <4>1, <4>2
    <3> QED BY <3>1, <3>2
  <2> QED BY <2>u, <2>3, <2>4, <2>5, <2>6
<1> QED BY <1>5, <1>6, <1>7, <1>8, <1>9, <1>10, <1>11

-----------------------------------------------------------------------------
(* The initial state *)

LEMMA FilledPool ==
    ASSUME NEW Elems, NEW st \in Seq(Elems), NEW n, n = Len(st), NEW p, p = FullPool(st)
    PROVE  /\ p \in Pools(n, Elems) /\ p.alloc_stack = st
           /\ p.outstanding = 0 /\ p.empty_stack_size = 0 /\ p.allocated = n
<1> DEFINE p0 == [max_buckets |-> n, alloc_stack |-> <<>>, empty_stack_size |-> n,
                  allocated |-> 0, outstanding |-> 0, max_outstanding |-> 0]
           p1 == [p0 EXCEPT !.alloc_stack = st]
           p2 == [p1 EXCEPT !.empty_stack_size = 0]
           p3 == [p2 EXCEPT !.allocated = n]
<1>1. p = [p0 EXCEPT !.alloc_stack = st, !.empty_stack_size = 0, !.allocated = n]
    BY Zenon DEF FullPool, PoolSetup
<1>2. [p0 EXCEPT !.alloc_stack = st, !.empty_stack_size = 0, !.allocated = n] = p3
  <2> HIDE DEF p0
  <2> QED OBVIOUS
<1>3. p1 = [max_buckets |-> n, alloc_stack |-> st, empty_stack_size |-> n,
            allocated |-> 0, outstanding |-> 0, max_outstanding |-> 0]
    OBVIOUS
<1> HIDE DEF p1
<1>4. p2 = [max_buckets |-> n, alloc_stack |-> st, empty_stack_size |-> 0,
            allocated |-> 0, outstanding |-> 0, max_outstanding |-> 0]
    BY <1>3
<1> HIDE DEF p2
<1>5. p3 = [max_buckets |-> n, alloc_stack |-> st, empty_stack_size |-> 0,
            allocated |-> n, outstanding |-> 0, max_outstanding |-> 0]
    BY <1>4
<1> HIDE DEF p3
<1>6. n \in Int
    OBVIOUS
<1>7. p = p3
    BY <1>1, <1>2, Zenon
<1>8. p3 \in Pools(n, Elems)
    BY <1>5, <1>6 DEF Pools
<1>9. p3.alloc_stack = st /\ p3.outstanding = 0 /\ p3.empty_stack_size = 0 /\ p3.allocated = n
    BY <1>5
<1> QED BY <1>7, <1>8, <1>9

LEMMA InitialPools ==
    ASSUME Init
    PROVE  /\ caPool \in Pools(NumCa, Ca) /\ DOMAIN caPool.alloc_stack = Ca
           /\ \A i \in Ca : caPool.alloc_stack[i] = i
           /\ caPool.outstanding = 0 /\ caPool.empty_stack_size = 0 /\ caPool.allocated = NumCa
           /\ epPool \in [Ep -> Pools(NumApa, Apa)]
           /\ \A e \in Ep :
                /\ DOMAIN epPool[e].alloc_stack = 1 .. NumApa /\ Len(epPool[e].alloc_stack) = NumApa
                /\ \A i \in 1 .. NumApa : epPool[e].alloc_stack[i] = e * NumApa + i
                /\ epPool[e].outstanding = 0 /\ epPool[e].empty_stack_size = 0
                /\ epPool[e].allocated = NumApa
<1>n. NumCa \in Nat /\ NumApa \in Nat /\ Ca = 1 .. NumCa
    BY Numbers DEF Ca
<1>1. /\ caPool \in Pools(NumCa, Ca) /\ DOMAIN caPool.alloc_stack = Ca
      /\ \A i \in Ca : caPool.alloc_stack[i] = i
      /\ caPool.outstanding = 0 /\ caPool.empty_stack_size = 0 /\ caPool.allocated = NumCa
  <2> DEFINE st == [i \in 1 .. NumCa |-> i]
  <2>1. st \in [1 .. NumCa -> Ca] /\ DOMAIN st = Ca /\ \A i \in Ca : st[i] = i
    BY <1>n
  <2>2. caPool = FullPool(st)
    BY Zenon DEF Init
  <2> HIDE DEF st
  <2>3. st \in Seq(Ca) /\ NumCa = Len(st)
    BY <1>n, <2>1
  <2>4. /\ caPool \in Pools(NumCa, Ca) /\ caPool.alloc_stack = st
        /\ caPool.outstanding = 0 /\ caPool.empty_stack_size = 0 /\ caPool.allocated = NumCa
    BY <2>2, <2>3, FilledPool
  <2> QED BY <2>1, <2>4
<1>2. DOMAIN epPool = Ep /\ epPool = [e \in Ep |-> epPool[e]]
    BY DEF Init
<1>3. ASSUME NEW e \in Ep
      PROVE  /\ epPool[e] \in Pools(NumApa, Apa)
             /\ DOMAIN epPool[e].alloc_stack = 1 .. NumApa /\ Len(epPool[e].alloc_stack) = NumApa
             /\ \A i \in 1 .. NumApa : epPool[e].alloc_stack[i] = e * NumApa + i
             /\ epPool[e].outstanding = 0 /\ epPool[e].empty_stack_size = 0
             /\ epPool[e].allocated = NumApa
  <2> DEFINE st == [i \in 1 .. NumApa |-> e * NumApa + i]
             q == epPool[e]
  <2>1. st \in [1 .. NumApa -> Apa]
    BY EpNumbers
  <2>2. DOMAIN st = 1 .. NumApa /\ \A i \in 1 .. NumApa : st[i] = e * NumApa + i
    OBVIOUS
  <2>3. q = FullPool(st)
    BY DEF Init
  <2> HIDE DEF st, q
  <2>4. st \in Seq(Apa) /\ NumApa = Len(st)
    BY <1>n, <2>1
  <2>5. /\ q \in Pools(NumApa, Apa) /\ q.alloc_stack = st
        /\ q.outstanding = 0 /\ q.empty_stack_size = 0 /\ q.allocated = NumApa
    BY <2>3, <2>4, FilledPool
  <2> QED BY <2>2, <2>4, <2>5 DEF q
<1>4. epPool \in [Ep -> Pools(NumApa, Apa)]
    BY <1>2, <1>3
<1> QED BY <1>1, <1>3, <1>4, Zenon

LEMMA InitOK == Init => IInv
<1> SUFFICES ASSUME Init PROVE IInv
    OBVIOUS
<1>1. /\ el \in AgentLoops /\ el.setsize = SetSize /\ el.events[0].mask = {AE_READABLE}
      /\ el.events[0].rfileProc = "accept_tcp_handler"
      /\ \A fd \in Fds \ {0} : el.events[fd].mask = {} /\ el.epoll[fd] = NotMonitored
    BY InitialLoop DEF Init, LoopInit
<1>a. Agrees(el, 0)
  <2> DEFINE l0 == [setsize |-> SetSize, maxfd |-> -1,
               events |-> [fd \in Fds |-> EmptySlot("none", NoConn)],
               epoll |-> [fd \in Fds |-> NotMonitored]]
  <2>1. EmptySlot("none", NoConn) \in Slots /\ NotMonitored \in Interest /\ SetSize \in Nat
    BY Numbers DEF EmptySlot, Slots, Procs, NoConn, Interest
  <2>2. l0 \in AgentLoops
    BY <2>1 DEF AgentLoops, Loops
  <2>3. el = FileEventCreated(l0, 0, {AE_READABLE}, "accept_tcp_handler", 0)
    BY Zenon DEF Init, LoopInit, ListenFd, NoConn
  <2> HIDE DEF l0
  <2>4. 0 \in Fds /\ AE_READABLE \in ReadWrite /\ "accept_tcp_handler" \in Procs
    BY Descriptors DEF ReadWrite, Procs
  <2> QED BY <2>2, <2>3, <2>4, Created
<1>2. /\ sock \in [Fds -> Socks(Bytes)] /\ sock[0].kind = "listen"
      /\ \A fd \in 1 .. NumEp * NumApa : sock[fd].kind = "apa" /\ sock[fd].peer = fd
      /\ \A fd \in Fds : fd # 0 /\ fd \notin 1 .. NumEp * NumApa => sock[fd].kind = "free"
  <2> DEFINE n == NumEp * NumApa
  <2>1. n \in Nat /\ n < NumFds /\ "apa" \in {"ap", "apa"}
    BY Numbers
  <2>2. LoopInit("apa", n)
    BY DEF Init
  <2> HIDE DEF n
  <2>3. /\ sock \in [Fds -> Socks(Bytes)] /\ sock[0].kind = "listen"
        /\ \A fd \in 1 .. n : sock[fd].kind = "apa" /\ sock[fd].peer = fd
        /\ \A fd \in Fds : fd # 0 /\ fd \notin 1 .. n => sock[fd].kind = "free"
    BY <2>1, <2>2, InitialSockets
  <2> QED BY <2>3, Zenon DEF n
<1>3. client \in [Clients -> ClientType] /\ \A k \in Clients : client[k].sent = 0
  <2>1. <<>> \in Seq(Bytes) /\ 0 \in 0 .. Requests /\ 0 \in 0 .. ReqLen - 1
    BY EmptySeq, Numbers
  <2>2. [st |-> "idle", reqs |-> 0, sent |-> 0, got |-> <<>>] \in ClientType
    BY <2>1 DEF ClientType, ClientTypes
  <2> QED BY <2>2 DEF Init, LoopInit
<1>4. ca \in [Ca -> Objects] /\ \A c \in Ca : GoodContents(ca[c]) /\ ca[c].fd = -1 /\ ca[c].conn_apa = NoConn
    BY ClosedType DEF Init
<1>5. /\ caPool \in Pools(NumCa, Ca) /\ DOMAIN caPool.alloc_stack = Ca
      /\ \A i \in Ca : caPool.alloc_stack[i] = i
      /\ caPool.outstanding = 0 /\ caPool.empty_stack_size = 0 /\ caPool.allocated = NumCa
    BY InitialPools
<1>6. apaFd \in [Apa -> Fds \union {-1}] /\ \A a \in Apa : apaFd[a] = a /\ a \in Fds /\ a # 0
  <2>1. \A a \in Apa : a \in Fds /\ a # 0
    BY Numbers, Descriptors DEF Apa, Fds
  <2> QED BY <2>1 DEF Init
<1>7. /\ epPool \in [Ep -> Pools(NumApa, Apa)]
      /\ \A e \in Ep :
            /\ DOMAIN epPool[e].alloc_stack = 1 .. NumApa /\ Len(epPool[e].alloc_stack) = NumApa
            /\ \A i \in 1 .. NumApa : epPool[e].alloc_stack[i] = e * NumApa + i
            /\ epPool[e].outstanding = 0 /\ epPool[e].empty_stack_size = 0
            /\ epPool[e].allocated = NumApa
    BY InitialPools, Zenon
<1>8. remote \in Remotes
  <2>1. <<>> \in Seq(Bytes)
    BY EmptySeq
  <2>2. [inq |-> <<>>, out |-> <<>>] \in [inq : Seq(Bytes), out : Seq(Bytes)]
    BY <2>1
  <2> QED BY <2>2 DEF Init, Remotes
<1>9. CType
  <2>1. InRange(el)
    BY <1>1, LoopAssumption DEF InRange
  <2>2. \A k \in Clients : client[k].sent > 0 => client[k].reqs >= 1
    BY <1>3
  <2>3. pc \in {"running", "exited", "crashed"} /\ stop \in BOOLEAN
    BY DEF Init, LoopInit
  <2> QED BY <1>1, <1>2, <1>3, <1>4, <1>5, <1>6, <1>7, <1>8, <2>1, <2>2, <2>3, Zenon DEF CType
<1>10. HandlersMatch(el, sock)
  <2> SUFFICES ASSUME NEW h \in Fds PROVE HandlersMatch(el, sock)!(h)
    BY DEF HandlersMatch
  <2>1. CASE h = 0
    BY <1>1, <1>2, <1>a, <2>1
  <2>2. CASE h # 0
    BY <1>1, <2>2 DEF Agrees
  <2> QED BY <2>1, <2>2
<1>11. ObjectsOwn(el, sock, ca) /\ Apart(ca, apaFd)
    BY <1>4 DEF ObjectsOwn, Apart
<1>12. ApaOwn(sock, apaFd)
    BY <1>2, <1>6 DEF ApaOwn, Apa
<1>13. Idle(el, ca, apaFd, epPool)
  <2>1. \A a \in Apa : IdleApa(el, ca, apaFd, a)
    <3>1. \A a \in Apa : apaFd[a] # -1 /\ el.events[apaFd[a]].mask = {}
        BY <1>1, <1>6, Descriptors
    <3>2. \A a \in Apa, c \in Ca : ca[c].conn_apa # a
        BY <1>4, Numbers
    <3> QED BY <3>1, <3>2 DEF IdleApa
  <2> SUFFICES ASSUME NEW e \in Ep, NEW i \in DOMAIN epPool[e].alloc_stack
               PROVE  LET stack == epPool[e].alloc_stack
                      IN  /\ EpOf(stack[i]) = e /\ IdleApa(el, ca, apaFd, stack[i])
                          /\ \A j \in DOMAIN stack : stack[j] = stack[i] => j = i
    BY DEF Idle
  <2> DEFINE stack == epPool[e].alloc_stack
  <2>2. DOMAIN stack = 1 .. NumApa /\ \A j \in 1 .. NumApa : stack[j] = e * NumApa + j
    BY <1>7
  <2>3. e * NumApa + i \in Apa /\ EpOf(e * NumApa + i) = e
    BY <2>2, EpNumbers
  <2>4. e * NumApa \in Int
    BY Numbers
  <2> HIDE DEF stack
  <2>5. \A j \in DOMAIN stack : stack[j] = stack[i] => j = i
    BY <2>2, <2>4 DEF stack
  <2>6. stack[i] = e * NumApa + i
    BY <2>2 DEF stack
  <2> QED BY <2>1, <2>3, <2>5, <2>6, Zenon DEF stack
<1>14. Counts(ca, epPool)
  <2> SUFFICES ASSUME NEW e \in Ep PROVE Counts(ca, epPool)!(e)
    BY DEF Counts
  <2>1. UsedOf(ca, e) = {}
    BY <1>4 DEF UsedOf
  <2>2. Cardinality(UsedOf(ca, e)) = 0
    BY <2>1, FS_EmptySet
  <2> QED BY <1>7, <2>2, Numbers
<1>15. Owned(el, sock, ca, caPool)
  <2>1. {c \in Ca : ca[c].fd # -1} = {}
    BY <1>4
  <2>2. Cardinality({c \in Ca : ca[c].fd # -1}) = 0
    BY <2>1, FS_EmptySet
  <2>3. \A fd \in Fds : sock[fd].kind # "client"
    BY <1>2
  <2> QED BY <1>4, <1>5, <2>2, <2>3 DEF Owned
<1> QED BY <1>9, <1>10, <1>11, <1>12, <1>13, <1>14, <1>15 DEF IInv, DInv

-----------------------------------------------------------------------------
(* The steps.  CType and the values of the variables they change give      *)
(* IInv in the next state.                                                 *)

ClientsTyped(x) ==
    x \in [Clients -> ClientType] /\ \A k \in Clients : x[k].sent > 0 => x[k].reqs >= 1

(* What most handlers leave alone. *)
RestTyped == remote' \in Remotes /\ pc' \in {"running", "exited", "crashed"} /\ stop' \in BOOLEAN

LEMMA TypedState ==
    ASSUME IInv
    PROVE  /\ CType /\ DInv(el, sock, ca, caPool, apaFd, epPool)
           /\ Typed(el, sock, ca, caPool, apaFd, epPool)
BY DEF IInv, CType, Typed

(* What has to be shown of a handler that leaves the object c as r. *)
LEMMA StepDone ==
    ASSUME CType, NEW c \in Ca, NEW r, GoodContents(r), ca' = [ca EXCEPT ![c] = r],
           el' \in AgentLoops, InRange(el'), el'.setsize = el.setsize, ClientsTyped(client'),
           Typed(el', sock', ca', caPool', apaFd', epPool'),
           DInv(el', sock', ca', caPool', apaFd', epPool'), RestTyped
    PROVE  IInv'
<1>1. \A d \in Ca : GoodContents(ca'[d])
  <2>1. \A d \in Ca : ca'[d] = r \/ ca'[d] = ca[d]
    BY DEF CType
  <2> QED BY <2>1 DEF CType
<1>2. (\A d \in Ca : GoodContents(ca[d]))'
    BY <1>1 DEF GoodContents
<1>3. el'.setsize = SetSize
    BY DEF CType
<1>4. CType'
    BY <1>2, <1>3, Zenon DEF CType, Typed, RestTyped, ClientsTyped
<1> QED BY <1>4 DEF IInv

LEMMA DisconnectedType ==
    ASSUME CType, NEW s, NEW fd
    PROVE  ClientsTyped(Disconnected(s, fd))
<1>1. \A k \in Clients, st \in {"closed", "left"} :
        LET x == [client[k] EXCEPT !.st = st]
        IN  client[k] \in ClientType /\ x \in ClientType /\ x.sent = client[k].sent /\ x.reqs = client[k].reqs
    BY DEF CType, ClientType, ClientTypes
<1>2. \A k \in Clients : client[k].sent > 0 => client[k].reqs >= 1
    BY DEF CType
<1>3. \A k \in Clients : \/ \E st \in {"closed", "left"} : Disconnected(s, fd)[k] = [client[k] EXCEPT !.st = st]
                         \/ Disconnected(s, fd)[k] = client[k]
    BY DEF Disconnected
<1>4. Disconnected(s, fd) \in [Clients -> ClientType]
    BY <1>1 DEF Disconnected
<1> HIDE DEF Disconnected
<1> QED BY <1>1, <1>2, <1>3, <1>4 DEF ClientsTyped

(* abort_connection_ca, for an object c that is in the state obj and whose *)
(* socket may or may not be registered yet.                                *)
LEMMA AbortStep ==
    ASSUME CType, NEW c \in Ca, NEW r, NEW s, NEW pool, NEW times, NEW l, NEW obj,
           abort_connection_ca(c, r, s, pool, times), SameBut(el, l, {r.fd}),
           Typed(l, s, obj, pool, apaFd, epPool'), DInv(l, s, obj, pool, apaFd, epPool'),
           obj = [ca EXCEPT ![c] = r], r.fd # -1, Reliable => times = 1, RestTyped
    PROVE  IInv'
<1> DEFINE f == r.fd
           b == r.conn_apa
           g == ApaFdOf(r)
           fds == {f, g} \cap Fds
<1>o. obj[c] = r /\ ca \in [Ca -> Objects]
    BY DEF CType
<1>0. f \in Fds /\ b \in Apa \union {NoConn}
  <2>1. obj[c].fd \in Fds \union {-1} /\ obj[c].conn_apa \in Apa \union {NoConn}
    BY Refers, Zenon
  <2> QED BY <1>o, <2>1
<1>g. g = (IF b = NoConn THEN -1 ELSE apaFd[b]) /\ g \in Fds \union {-1}
    BY <1>0 DEF ApaFdOf, CType
<1>1. /\ el' = KernelForgets(DropEvents(DropEvents(el, f), g), fds)
      /\ sock' = CloseFds(s, fds)
      /\ client' = Disconnected(s, f)
      /\ ca' = [ca EXCEPT ![c] = Closed]
      /\ apaFd' = [a \in Apa |-> IF a = b THEN -1 ELSE apaFd[a]]
      /\ caPool' = IF times = 1 THEN PoolReturned(pool, c)
                                ELSE PoolReturned(PoolReturned(pool, c), c)
    BY DEF abort_connection_ca
<1> HIDE DEF f, g, b
<1>e. el \in AgentLoops /\ InRange(el)
    BY DEF CType
<1>2. /\ SameBut(el, el', {f, g})
      /\ \A h \in Fds \cap {f, g} : Masked(el, el', h, {}) /\ el'.epoll[h] = NotMonitored
  <2>1. f \in Fds \union {-1} /\ g \in Fds \union {-1}
    BY <1>0, <1>g
  <2>2. el' = KernelForgets(DropEvents(DropEvents(el, f), g), {f, g} \cap Fds)
    BY <1>1
  <2> QED BY <1>e, <2>1, <2>2, AbortDrops
<1>3. sock' \in [Fds -> Socks(Bytes)] /\ \A h \in Fds : sock'[h] = IF h \in fds THEN NoSock ELSE s[h]
  <2>1. s \in [Fds -> Socks(Bytes)]
    BY DEF Typed
  <2> QED BY <1>1, <2>1, Closes
<1>4. Closes2(l, el', s, sock', f, g)
  <2>1. SameBut(l, el', {f, g})
    BY <1>2 DEF SameBut, f
  <2>2. \A h \in Fds \cap {f, g} : el'.events[h].mask = {} /\ Agrees(el', h) /\ sock'[h].kind = "free"
    BY <1>2, <1>3, NoSocket DEF Masked, Agrees
  <2>3. \A h \in Fds \ {f, g} : sock'[h].kind = s[h].kind /\ sock'[h].peer = s[h].peer
    BY <1>3
  <2> QED BY <2>1, <2>2, <2>3 DEF Closes2
<1>5. caPool' \in Pools(NumCa, Ca)
  <2> DEFINE p1 == PoolReturned(pool, c)
             p2 == PoolReturned(p1, c)
  <2>0. pool \in Pools(NumCa, Ca)
    BY DEF Typed
  <2>1. p1 \in Pools(NumCa, Ca)
    BY <2>0, Returned
  <2>2. caPool' = p1 \/ caPool' = p2
    BY <1>1
  <2> HIDE DEF p1
  <2>3. p2 \in Pools(NumCa, Ca)
    BY <2>1, Returned
  <2> HIDE DEF p2
  <2> QED BY <2>1, <2>2, <2>3
<1>6. DInv(el', sock', ca', caPool', apaFd', epPool')
  <2>1. Leaves(l, s, obj, ca', apaFd, apaFd', c, f, g, b)
    <3>1. s[f].kind = "client" /\ l.events[f].clientData = c /\ obj[c].fd = f
        BY <1>o DEF DInv, ObjectsOwn, f
    <3>2. ca' = [obj EXCEPT ![c] = Closed]
        BY <1>1, <1>o
    <3>3. b \in {NoConn, obj[c].conn_apa} /\ obj[c].fd # -1
        BY <1>o DEF b
    <3> QED BY <1>1, <1>g, <3>1, <3>2, <3>3, Zenon DEF Leaves
  <2>2. Reliable => caPool' = PoolReturned(pool, c)
    BY <1>1
  <2> QED BY <1>0, <1>4, <2>1, <2>2, CloseKeeps, Zenon
<1>7. ca' \in [Ca -> Objects] /\ apaFd' \in [Apa -> Fds \union {-1}]
    BY <1>1, <1>o, ClosedType DEF CType
<1>8. el' \in AgentLoops /\ InRange(el') /\ el'.setsize = el.setsize
  <2>1. el' \in AgentLoops /\ el'.setsize = el.setsize
    BY <1>2 DEF SameBut
  <2>2. InRange(el')
    BY <1>2, <1>e DEF InRange, SameBut, Masked
  <2> QED BY <2>1, <2>2
<1>9. Typed(el', sock', ca', caPool', apaFd', epPool')
    BY <1>3, <1>5, <1>7, <1>8 DEF Typed
<1>10. ClientsTyped(client')
    BY <1>1, DisconnectedType
<1> QED BY <1>1, <1>6, <1>8, <1>9, <1>10, ClosedType, StepDone, Zenon

LEMMA NothingStep ==
    ASSUME IInv, UNCHANGED <<el, sock, client, ca, caPool, apaFd, epPool, remote>>,
           pc' \in {"running", "exited", "crashed"}, stop' \in BOOLEAN
    PROVE  IInv'
<1>1. (\A d \in Ca : GoodContents(ca[d]))'
    BY DEF IInv, CType, GoodContents
<1>2. CType'
    BY <1>1, Zenon DEF IInv, CType
<1>3. DInv(el', sock', ca', caPool', apaFd', epPool')
    BY Zenon DEF IInv
<1> QED BY <1>2, <1>3 DEF IInv

(* aeDeleteFileEvent for fd, which is not a socket the agent must go on    *)
(* reading from.                                                           *)
LEMMA DeleteKeeps ==
    ASSUME NEW s, NEW obj, NEW p, NEW ap, NEW ep, NEW l, NEW l2, NEW fd \in Fds, NEW mask \in SUBSET ReadWrite,
           Typed(l, s, obj, p, ap, ep), DInv(l, s, obj, p, ap, ep), InRange(l),
           l2 = FileEventDeleted(l, fd, mask),
           Reliable /\ s[fd].kind = "client" => AE_READABLE \notin mask
    PROVE  /\ DInv(l2, s, obj, p, ap, ep) /\ SameBut(l, l2, {fd}) /\ InRange(l2)
           /\ Masked(l, l2, fd, l.events[fd].mask \ mask)
           /\ Typed(l2, s, obj, p, ap, ep)
<1> DEFINE left == l.events[fd].mask \ mask
<1>1. l \in AgentLoops
    BY DEF Typed
<1>2. SameBut(l, l2, {fd}) /\ Masked(l, l2, fd, left) /\ (Agrees(l, fd) => Agrees(l2, fd))
    BY <1>1, Deleted
<1>3. Agrees(l, fd) /\ left \subseteq l.events[fd].mask
    BY DEF DInv, HandlersMatch
<1>4. ASSUME Reliable /\ s[fd].kind = "client" PROVE AE_READABLE \in left
  <2>1. AE_READABLE \in l.events[fd].mask
    BY <1>4 DEF DInv, Owned
  <2> QED BY <1>4, <2>1
<1> HIDE DEF left
<1>5. DInv(l2, s, obj, p, ap, ep)
    BY <1>2, <1>3, <1>4, FewerEventsKeep, Zenon
<1>6. InRange(l2)
    BY <1>2, <1>3 DEF SameBut, Masked, InRange
<1>7. Typed(l2, s, obj, p, ap, ep)
    BY <1>2 DEF Typed, SameBut
<1> QED BY <1>2, <1>5, <1>6, <1>7 DEF left

(* "Connection closed for socket, ignore" *)
LEMMA IgnoreStep ==
    ASSUME IInv, NEW fd \in Fds, Ignore(fd), ~(Reliable /\ sock[fd].kind = "client")
    PROVE  IInv'
<1>t. /\ CType /\ DInv(el, sock, ca, caPool, apaFd, epPool)
      /\ Typed(el, sock, ca, caPool, apaFd, epPool)
    BY TypedState
<1>1. /\ el' = FileEventDeleted(el, fd, ReadWrite)
      /\ UNCHANGED <<ca, caPool, apaFd, epPool, remote, sock, pc, stop, client>>
    BY DEF Ignore, ownVars
<1>2. InRange(el) /\ ReadWrite \in SUBSET ReadWrite
    BY <1>t DEF CType
<1>3. DInv(el', sock, ca, caPool, apaFd, epPool) /\ SameBut(el, el', {fd}) /\ InRange(el')
    BY <1>t, <1>1, <1>2, DeleteKeeps, Zenon
<1>4. el' \in AgentLoops /\ el'.setsize = SetSize
    BY <1>t, <1>3 DEF SameBut, CType
<1>5. (\A d \in Ca : GoodContents(ca[d]))'
    BY <1>1, <1>t DEF CType, GoodContents
<1>6. CType'
    BY <1>1, <1>3, <1>4, <1>5, <1>t, Zenon DEF CType
<1>7. DInv(el', sock', ca', caPool', apaFd', epPool')
    BY <1>1, <1>3, Zenon
<1> QED BY <1>6, <1>7 DEF IInv

(* accept_tcp_handler *)
LEMMA AcceptStep ==
    ASSUME IInv, accept_tcp_handler
    PROVE  IInv'
<1>t. /\ CType /\ DInv(el, sock, ca, caPool, apaFd, epPool)
      /\ Typed(el, sock, ca, caPool, apaFd, epPool)
    BY TypedState
<1>p. /\ pc \in {"running", "exited", "crashed"} /\ stop \in BOOLEAN /\ remote \in Remotes
      /\ el \in AgentLoops /\ InRange(el) /\ ca \in [Ca -> Objects]
      /\ sock \in [Fds -> Socks(Bytes)] /\ caPool \in Pools(NumCa, Ca)
      /\ epPool \in [Ep -> Pools(NumApa, Apa)] /\ apaFd \in [Apa -> Fds \union {-1}]
      /\ client \in [Clients -> ClientType] /\ ClientsTyped(client)
    BY <1>t DEF CType, ClientsTyped
<1>1. CASE ~CanAccept
  <2>1. UNCHANGED <<el, sock, client, ca, caPool, apaFd, epPool, remote, pc, stop>>
    BY <1>1 DEF accept_tcp_handler, ReturnOnly, ownVars
  <2> QED BY <1>p, <2>1, NothingStep
<1>2. CASE CanAccept
  <2> DEFINE fd == NewFd(sock)
             c == PoolTop(caPool)
             r == [Closed EXCEPT !.fd = fd]
             proc == "read_from_consumer"
             l == FileEventCreated(el, fd, {AE_READABLE}, proc, c)
             obj == [ca EXCEPT ![c] = r]
             pool == PoolPull(caPool)
  <2>1. fd \in Fds /\ sock[fd].kind = "free"
    BY <1>p, <1>2, NewDescriptor DEF CanAccept
  <2>2. PICK k \in Backlog :
          LET s == [sock EXCEPT ![fd] = Sock("client", k)]
          IN /\ \/ /\ PoolExhausted(caPool)
                   /\ client' = [client EXCEPT ![k].st = "closed"]
                   /\ UNCHANGED <<ca, caPool, apaFd, epPool, num_reqs, el, sock>>
                \/ /\ PoolHasElement(caPool) /\ CreateOk(fd)
                   /\ client' = [client EXCEPT ![k].st = "connected"]
                   /\ sock' = s
                   /\ caPool' = pool
                   /\ ca' = obj
                   /\ el' = l
                   /\ UNCHANGED <<apaFd, epPool, num_reqs>>
                \/ /\ PoolHasElement(caPool) /\ CreateErr(fd)
                   /\ abort_connection_ca(c, r, s, pool, 1)
                   /\ UNCHANGED <<epPool, num_reqs>>
             /\ UNCHANGED <<pc, stop, remote>>
    BY <1>2, Zenon DEF accept_tcp_handler
  <2> DEFINE s == [sock EXCEPT ![fd] = Sock("client", k)]
  <2>k. k \in Clients
    BY DEF Backlog
  <2>c. ASSUME NEW st \in {"closed", "connected"}
        PROVE  ClientsTyped([client EXCEPT ![k].st = st])
    <3> DEFINE x == [client[k] EXCEPT !.st = st]
               y == [client EXCEPT ![k].st = st]
    <3>1. x \in ClientType /\ x.sent = client[k].sent /\ x.reqs = client[k].reqs
        BY <1>p, <2>k DEF ClientType, ClientTypes
    <3>2. y = [client EXCEPT ![k] = x]
        BY Zenon
    <3> HIDE DEF x, y
    <3>3. \A j \in Clients : (y[j] = x /\ j = k) \/ y[j] = client[j]
        BY <1>p, <3>2
    <3>4. y \in [Clients -> ClientType]
        BY <1>p, <3>1, <3>2
    <3>5. ClientsTyped(y)
        BY <1>p, <3>1, <3>3, <3>4 DEF ClientsTyped
    <3> QED BY <3>5 DEF y
  <2>s. /\ s \in [Fds -> Socks(Bytes)] /\ s[fd].kind = "client"
        /\ \A h \in Fds \ {fd} : s[h] = sock[h]
    <3>1. Sock("client", k) \in Socks(Bytes) /\ Sock("client", k).kind = "client"
        BY <2>k, NewSocket DEF Kinds
    <3> QED BY <1>p, <2>1, <3>1
  <2>r. GoodContents(r) /\ r \in Objects /\ r.fd = fd /\ r.conn_apa = NoConn
    <3> HIDE DEF fd
    <3>1. /\ r \in Objects /\ r.fd = fd /\ r.conn_apa = NoConn
          /\ r.buf_in = Closed.buf_in /\ r.buf_out = Closed.buf_out
          /\ r.nwrite_in = Closed.nwrite_in /\ r.nwrite_out = Closed.nwrite_out
        BY <2>1, ClosedType DEF Objects
    <3> HIDE DEF r
    <3> QED BY <3>1, ClosedType DEF GoodContents
  <2> HIDE DEF s, fd, r, c, l, obj, pool
  <2>3. CASE /\ PoolExhausted(caPool)
             /\ client' = [client EXCEPT ![k].st = "closed"]
             /\ UNCHANGED <<ca, caPool, apaFd, epPool, num_reqs, el, sock>>
    <3>1. UNCHANGED <<ca, caPool, apaFd, epPool, el, sock, remote, pc, stop>>
        BY <2>2, <2>3
    <3>2. ClientsTyped(client')
        BY <2>3, <2>c
    <3>3. (\A d \in Ca : GoodContents(ca[d]))'
        BY <1>t, <3>1 DEF CType, GoodContents
    <3>4. CType' /\ DInv(el', sock', ca', caPool', apaFd', epPool')
        BY <1>t, <3>1, <3>2, <3>3, Zenon DEF CType, ClientsTyped
    <3> QED BY <3>4 DEF IInv
  <2>4. ASSUME PoolHasElement(caPool)
        PROVE  /\ c \in Ca /\ Typed(l, s, obj, pool, apaFd, epPool)
               /\ DInv(l, s, obj, pool, apaFd, epPool) /\ Registers(el, l, fd, AE_READABLE, proc, c)
    <3>1. c \in Ca /\ pool \in Pools(NumCa, Ca)
        BY <1>p, <2>4, Pulled DEF c, pool
    <3>2. Registers(el, l, fd, AE_READABLE, proc, c) /\ Agrees(l, fd)
      <4>1. AE_READABLE \in ReadWrite /\ proc \in Procs /\ c \in Nat
        BY <3>1, Numbers DEF ReadWrite, Procs
      <4> QED BY <1>p, <2>1, <4>1, Created DEF l
    <3>3. Accepts(sock, s, ca, obj, caPool, pool, c, fd, r)
        BY <2>1, <2>r, <2>s, <2>4 DEF Accepts, c, obj, pool
    <3>4. DInv(l, s, obj, pool, apaFd, epPool)
        BY <1>t, <2>1, <2>r, <3>1, <3>2, <3>3, AcceptKeeps, Zenon
    <3>5. obj \in [Ca -> Objects] /\ l \in AgentLoops
        BY <1>p, <2>r, <3>1, <3>2 DEF obj, Registers, SameBut
    <3>6. Typed(l, s, obj, pool, apaFd, epPool)
        BY <1>p, <2>s, <3>1, <3>5 DEF Typed
    <3> QED BY <3>1, <3>2, <3>4, <3>6
  <2>5. CASE /\ PoolHasElement(caPool) /\ CreateOk(fd)
             /\ client' = [client EXCEPT ![k].st = "connected"]
             /\ sock' = s /\ caPool' = pool /\ ca' = obj /\ el' = l
             /\ UNCHANGED <<apaFd, epPool, num_reqs>>
    <3>1. /\ c \in Ca /\ Typed(el', sock', ca', caPool', apaFd', epPool')
          /\ DInv(el', sock', ca', caPool', apaFd', epPool')
          /\ Registers(el, el', fd, AE_READABLE, proc, c)
        BY <2>4, <2>5, Zenon
    <3>2. el' \in AgentLoops /\ InRange(el') /\ el'.setsize = el.setsize
      <4>1. fd < el.setsize
        BY <2>5 DEF CreateOk, CreateAccepted
      <4> QED BY <1>p, <3>1, <4>1 DEF Registers, SameBut, InRange
    <3>3. ClientsTyped(client') /\ RestTyped
        BY <1>p, <2>2, <2>5, <2>c DEF RestTyped
    <3>4. ca' = [ca EXCEPT ![c] = r]
        BY <2>5 DEF obj
    <3> QED BY <1>t, <2>r, <3>1, <3>2, <3>3, <3>4, StepDone, Zenon
  <2>6. CASE /\ PoolHasElement(caPool)
             /\ abort_connection_ca(c, r, s, pool, 1)
             /\ UNCHANGED <<epPool, num_reqs>>
    <3>1. /\ c \in Ca /\ Typed(l, s, obj, pool, apaFd, epPool')
          /\ DInv(l, s, obj, pool, apaFd, epPool') /\ SameBut(el, l, {r.fd})
        BY <2>4, <2>6, <2>r DEF Registers
    <3>2. obj = [ca EXCEPT ![c] = r] /\ r.fd # -1
        BY <2>1, <2>r, Descriptors DEF obj
    <3>3. RestTyped
        BY <1>p, <2>2 DEF RestTyped
    <3>4. abort_connection_ca(c, r, s, pool, 1) /\ (Reliable => 1 = 1)
        BY <2>6
    <3> QED BY <1>t, <3>1, <3>2, <3>3, <3>4, AbortStep, Zenon
  <2> QED BY <2>2, <2>3, <2>5, <2>6 DEF s
<1> QED BY <1>1, <1>2

-----------------------------------------------------------------------------
(* The choice of an endpoint *)

(* The scan finds an entry, and none is smaller. *)
LEMMA FirstMinFinds ==
    ASSUME NEW f \in [Ep -> Nat]
    PROVE  FirstMin(f) \in Ep /\ \A j \in Ep : f[FirstMin(f)] <= f[j]
<1> DEFINE V == {f[i] : i \in Ep}
<1>1. V \in SUBSET Nat /\ V # {}
    BY Numbers
<1>2. PICK v \in V : \A w \in V : v <= w
    BY <1>1, LeastNatural
<1> DEFINE I == {i \in Ep : f[i] = v}
<1>3. I \in SUBSET Nat /\ I # {}
    BY Numbers
<1>4. PICK i \in I : \A j \in I : i <= j
    BY <1>3, LeastNatural
<1>5. \A j \in Ep : f[j] \in Nat /\ v <= f[j] /\ (f[j] = v => i <= j)
    BY <1>2, <1>4
<1>6. i \in Ep /\ f[i] = v /\ DOMAIN f = Ep
    OBVIOUS
<1> HIDE DEF I, V
<1>7. \A j \in DOMAIN f : f[i] < f[j] \/ (f[i] = f[j] /\ i <= j)
    BY <1>5, <1>6
<1> DEFINE m == FirstMin(f)
<1>8. m \in DOMAIN f /\ \A j \in DOMAIN f : f[m] < f[j] \/ (f[m] = f[j] /\ m <= j)
    BY <1>6, <1>7 DEF FirstMin
<1> HIDE DEF m
<1>9. \A j \in Ep : f[m] <= f[j]
  <2>1. \A j \in Ep : f[j] \in Nat /\ f[m] \in Nat
    BY <1>6, <1>8
  <2> QED BY <1>6, <1>8, <2>1
<1> QED BY <1>6, <1>8, <1>9 DEF m

(* The counters of the endpoints' pools *)
LEMMA OutstandingType ==
    ASSUME IInv
    PROVE  Outstanding \in [Ep -> Nat] /\ \A e \in Ep : Outstanding[e] = epPool[e].outstanding
<1>1. ASSUME NEW e \in Ep PROVE epPool[e].outstanding \in Nat
  <2>1. epPool[e].outstanding \in Int /\ epPool[e].outstanding >= Cardinality(UsedOf(ca, e))
    BY DEF IInv, CType, Pools, DInv, Counts
  <2>2. UsedOf(ca, e) \in SUBSET Ca
    BY DEF UsedOf
  <2>3. Cardinality(UsedOf(ca, e)) \in Nat
    BY <2>2, Counted
  <2> QED BY <2>1, <2>3
<1> QED BY <1>1 DEF Outstanding

(* The endpoint chosen has the fewest connections in use, or fewer than    *)
(* LOAD_PROTECT_THRESHOLD.                                                 *)
LEMMA ChoicesAre ==
    ASSUME IInv, NEW e \in Choices
    PROVE  /\ e \in Ep
           /\ \/ \A d \in Ep : epPool[e].outstanding <= epPool[d].outstanding
              \/ epPool[e].outstanding < Protect
<1>1. Outstanding \in [Ep -> Nat] /\ \A d \in Ep : Outstanding[d] = epPool[d].outstanding
    BY OutstandingType
<1>2. PICK lat \in [Ep -> Latencies] :
        e = get_endpoint_min_latency(num_reqs, lat, Outstanding, Balance, Protect)
    BY DEF Choices
<1>3. lat \in [Ep -> Nat] /\ Protect \in Nat
    BY ConsumerAssumption
<1> DEFINE least == FirstMin(Outstanding)
           fastest == FirstMin(lat)
<1>4. e = least \/ (e = fastest /\ ~(Outstanding[fastest] >= Protect))
    BY <1>2 DEF get_endpoint_min_latency, get_endpoint_least_loaded
<1>5. least \in Ep /\ \A d \in Ep : Outstanding[least] <= Outstanding[d]
    BY <1>1, FirstMinFinds
<1>6. fastest \in Ep
    BY <1>3, FirstMinFinds
<1> HIDE DEF least, fastest
<1>7. CASE e = least
    BY <1>1, <1>5, <1>7
<1>8. CASE e = fastest /\ ~(Outstanding[fastest] >= Protect)
  <2>1. Outstanding[e] \in Nat /\ Outstanding[e] = epPool[e].outstanding
    BY <1>1, <1>6, <1>8
  <2> QED BY <1>3, <1>6, <1>8, <2>1
<1> QED BY <1>4, <1>7, <1>8

-----------------------------------------------------------------------------
(* Under Reliable no registration for a connection of consumer_init fails. *)
LEMMA CreateSucceeds ==
    ASSUME CType, NEW s, NEW obj, NEW ep, DInv(el, s, obj, caPool, apaFd, ep), Reliable,
           NEW a \in Apa, apaFd[a] # -1
    PROVE  ~CreateErr(apaFd[a])
<1> DEFINE g == apaFd[a]
<1>1. g = a /\ g \in Fds /\ g \in Nat
    BY Numbers DEF DInv, ApaOwn, CType
<1>2. a <= NumEp * NumApa /\ NumEp * NumApa < SetSize /\ SetSize \in Nat /\ NumEp * NumApa \in Nat
    BY Numbers DEF Apa, Reliable
<1>3. g < el.setsize
    BY <1>1, <1>2 DEF CType
<1>4. Agrees(el, g)
    BY <1>1 DEF DInv, HandlersMatch
<1> HIDE DEF g
<1>5. CreateOk(g)
    BY <1>1, <1>3, <1>4 DEF CreateOk, CreateAccepted, EpollCtlOk, Agrees
<1> QED BY <1>5 DEF CreateErr, Reliable, g

(* The second half of read_from_consumer, for an object in the state obj. *)
LEMMA ForwardStep ==
    ASSUME CType, NEW c \in Ca, NEW r, GoodContents(r), NEW s, NEW obj, obj = [ca EXCEPT ![c] = r],
           Typed(el, s, obj, caPool, apaFd, epPool'), DInv(el, s, obj, caPool, apaFd, epPool'),
           r.conn_apa # NoConn, ForwardRequest(c, r, s), RestTyped
    PROVE  IInv'
<1> DEFINE a == r.conn_apa
           afd == apaFd[a]
           wproc == "write_to_remote_agent"
           rproc == "read_from_remote_agent"
           withW == FileEventCreated(el, afd, {AE_WRITABLE}, wproc, c)
<1>o. obj[c] = r /\ obj[c].conn_apa = a /\ el \in AgentLoops /\ InRange(el)
    BY DEF CType
<1>0. a \in Apa /\ afd \in Fds /\ afd # -1 /\ r.fd # -1
  <2>1. obj[c].conn_apa \in Apa \union {NoConn}
    BY Refers, Zenon
  <2>2. r.fd # -1 /\ afd # -1
    BY <1>o DEF DInv, Apart
  <2> QED BY <1>o, <2>1, <2>2 DEF CType
<1>1. CASE /\ CreateOk(afd)
           /\ ca' = [ca EXCEPT ![c] = r]
           /\ sock' = s
           /\ el' = FileEventCreated(withW, afd, {AE_READABLE}, rproc, c)
           /\ UNCHANGED <<caPool, apaFd, client>>
  <2>1. afd < el.setsize
    BY <1>1 DEF CreateOk, CreateAccepted
  <2>2. /\ c \in Nat /\ AE_READABLE \in ReadWrite /\ AE_WRITABLE \in ReadWrite
        /\ AE_READABLE # AE_WRITABLE /\ wproc \in Procs /\ rproc \in Procs
    BY Numbers DEF ReadWrite, AE_READABLE, AE_WRITABLE, Procs
  <2>a. afd = apaFd[obj[c].conn_apa] /\ obj[c].conn_apa # NoConn
    BY <1>o
  <2>b. /\ wproc = (IF AE_WRITABLE = AE_READABLE THEN rproc ELSE "write_to_remote_agent")
        /\ rproc = (IF AE_READABLE = AE_READABLE THEN "read_from_remote_agent" ELSE wproc)
    BY <2>2
  <2> HIDE DEF afd
  <2>4. Registers(el, withW, afd, AE_WRITABLE, wproc, c) /\ Agrees(withW, afd)
    BY <1>o, <1>0, <2>2, Created
  <2>5. withW \in AgentLoops
    BY <2>4 DEF Registers, SameBut
  <2> HIDE DEF withW
  <2>6. Registers(withW, el', afd, AE_READABLE, rproc, c) /\ Agrees(el', afd)
    BY <1>0, <1>1, <2>2, <2>5, Created
  <2>7. Typed(withW, s, obj, caPool, apaFd, epPool')
    BY <2>5 DEF Typed
  <2>8. DInv(withW, s, obj, caPool, apaFd, epPool')
    BY <1>0, <2>2, <2>4, <2>a, <2>b, ApaEventKeeps, Zenon
  <2>9. DInv(el', s, obj, caPool, apaFd, epPool')
    BY <1>0, <2>2, <2>6, <2>7, <2>8, <2>a, <2>b, ApaEventKeeps, Zenon
  <2>10. el' \in AgentLoops /\ InRange(el') /\ el'.setsize = el.setsize
    BY <1>o, <1>0, <2>1, <2>4, <2>6 DEF Registers, SameBut, InRange
  <2>11. ClientsTyped(client')
    BY <1>1 DEF CType, ClientsTyped
  <2>12. Typed(el', sock', ca', caPool', apaFd', epPool')
    BY <1>1, <2>10 DEF Typed
  <2>13. DInv(el', sock', ca', caPool', apaFd', epPool')
    BY <1>1, <2>9, Zenon
  <2> QED BY <1>1, <2>10, <2>11, <2>12, <2>13, StepDone, Zenon
<1>2. ASSUME CreateErr(afd), NEW times, abort_connection_ca(c, r, s, caPool, times)
      PROVE  IInv'
  <2>1. ~Reliable
    BY <1>0, <1>2, CreateSucceeds
  <2>2. SameBut(el, el, {r.fd})
    BY <1>o DEF SameBut
  <2> QED BY <1>0, <1>2, <2>1, <2>2, AbortStep, Zenon
<1> QED BY <1>1, <1>2 DEF ForwardRequest

(* abort_connection_ca for an object whose contents are r, before or after *)
(* a read has changed them.                                                *)
LEMMA AbortContents ==
    ASSUME IInv, NEW c \in Ca, NEW r \in Objects, r.fd = ca[c].fd, r.conn_apa = ca[c].conn_apa, r.fd # -1,
           NEW s \in [Fds -> Socks(Bytes)], SameSockets(sock, s),
           abort_connection_ca(c, r, s, caPool, 1), epPool' = epPool, RestTyped
    PROVE  IInv'
<1>t. /\ CType /\ DInv(el, sock, ca, caPool, apaFd, epPool)
      /\ Typed(el, sock, ca, caPool, apaFd, epPool)
    BY TypedState
<1> DEFINE obj == [ca EXCEPT ![c] = r]
<1>1. obj \in [Ca -> Objects]
    BY <1>t DEF CType
<1>2. DInv(el, sock, obj, caPool, apaFd, epPool)
    BY <1>t, ContentsKeep, Zenon
<1>3. /\ Typed(el, sock, obj, caPool, apaFd, epPool) /\ Typed(el, s, obj, caPool, apaFd, epPool)
      /\ Typed(el, s, obj, caPool, apaFd, epPool')
    BY <1>t, <1>1 DEF Typed
<1> HIDE DEF obj
<1>4. DInv(el, s, obj, caPool, apaFd, epPool)
    BY <1>2, <1>3, SocketsKeep, Zenon
<1>5. DInv(el, s, obj, caPool, apaFd, epPool')
    BY <1>4
<1>6. SameBut(el, el, {r.fd})
    BY <1>t DEF SameBut, CType
<1>7. obj = [ca EXCEPT ![c] = r] /\ (Reliable => 1 = 1)
    BY DEF obj
<1> QED BY <1>t, <1>3, <1>5, <1>6, <1>7, AbortStep, Zenon

LEMMA AbortAndReturnStep ==
    ASSUME IInv, NEW c \in Ca, ca[c].fd # -1, AbortAndReturn(c), stop' \in BOOLEAN
    PROVE  IInv'
<1>1. /\ ca[c] \in Objects /\ sock \in [Fds -> Socks(Bytes)] /\ SameSockets(sock, sock)
    BY DEF IInv, CType, SameSockets
<1>2. abort_connection_ca(c, ca[c], sock, caPool, 1) /\ epPool' = epPool
    BY DEF AbortAndReturn
<1>3. RestTyped
    BY DEF AbortAndReturn, RestTyped, IInv, CType
<1> QED BY <1>1, <1>2, <1>3, AbortContents, Zenon

-----------------------------------------------------------------------------
(* read_from_consumer *)

(* y is what the object x may become when it refers to the connection a. *)
Becomes(x, y, a) == GoodContents(y) /\ y.fd = x.fd /\ y.conn_apa = a

LEMMA ReadInContents ==
    ASSUME NEW x, GoodContents(x), NEW got \in Seq(Bytes), Len(got) <= BufIn - Len(x.buf_in),
           NEW r, r = ResetOut([x EXCEPT !.buf_in = @ \o got])
    PROVE  Becomes(x, r, x.conn_apa) /\ \A a \in Apa : Becomes(x, [r EXCEPT !.conn_apa = a], a)
<1> DEFINE both == x.buf_in \o got
           r1 == [x EXCEPT !.buf_in = both]
           r2 == [r1 EXCEPT !.buf_out = <<>>]
           r3 == [r2 EXCEPT !.nwrite_out = 0]
<1>o. x \in Objects /\ x.nwrite_in <= Len(x.buf_in)
    BY Zenon DEF GoodContents
<1>t. x.buf_in \in Seq(Bytes) /\ x.nwrite_in \in Nat
    BY <1>o DEF Objects
<1>l. Len(x.buf_in) \in Nat /\ Len(got) \in Nat
    BY <1>t, LenProperties
<1>1. /\ x \in Objects /\ x.buf_in \in Seq(Bytes) /\ Len(x.buf_in) \in Nat /\ Len(got) \in Nat
      /\ x.nwrite_in \in Nat /\ x.nwrite_in <= Len(x.buf_in) /\ BufIn \in Nat /\ BufOut \in Nat
    BY <1>o, <1>t, <1>l, Numbers, Zenon
<1>2. both \in Seq(Bytes) /\ Len(both) = Len(x.buf_in) + Len(got)
    BY <1>1
<1>3. r = r3
    BY DEF ResetOut
<1>e. <<>> \in Seq(Bytes) /\ Len(<<>>) = 0
    BY EmptySeq
<1> HIDE DEF both, r1, r2, r3
<1>4. /\ r1 \in Objects /\ r1.buf_in = both /\ r1.nwrite_in = x.nwrite_in
      /\ r1.fd = x.fd /\ r1.conn_apa = x.conn_apa
    BY <1>1, <1>2 DEF r1, Objects
<1>5. /\ r2 \in Objects /\ r2.buf_in = both /\ r2.nwrite_in = x.nwrite_in
      /\ r2.fd = x.fd /\ r2.conn_apa = x.conn_apa /\ r2.buf_out = <<>>
    BY <1>4, <1>e DEF r2, Objects
<1>6. /\ r \in Objects /\ r.buf_in = both /\ r.nwrite_in = x.nwrite_in
      /\ r.fd = x.fd /\ r.conn_apa = x.conn_apa /\ r.buf_out = <<>> /\ r.nwrite_out = 0
  <2>1. /\ r3 \in Objects /\ r3.buf_in = both /\ r3.nwrite_in = x.nwrite_in
        /\ r3.fd = x.fd /\ r3.conn_apa = x.conn_apa /\ r3.buf_out = <<>> /\ r3.nwrite_out = 0
    BY <1>5 DEF r3, Objects
  <2> QED BY <1>3, <2>1, Zenon
<1>7. x.nwrite_in <= Len(both) /\ Len(both) <= BufIn
    BY <1>1, <1>2
<1>8. GoodContents(r)
    BY <1>1, <1>6, <1>7, <1>e DEF GoodContents
<1>9. ASSUME NEW a \in Apa
      PROVE  Becomes(x, [r EXCEPT !.conn_apa = a], a)
  <2> DEFINE y == [r EXCEPT !.conn_apa = a]
  <2>1. /\ y \in Objects /\ y.buf_in = both /\ y.nwrite_in = x.nwrite_in
        /\ y.fd = x.fd /\ y.conn_apa = a /\ y.buf_out = <<>> /\ y.nwrite_out = 0
    BY <1>6 DEF Objects
  <2> HIDE DEF y
  <2>2. GoodContents(y)
    BY <1>1, <1>7, <1>e, <2>1 DEF GoodContents
  <2>3. Becomes(x, y, a)
    BY <2>1, <2>2 DEF Becomes
  <2> QED BY <2>3 DEF y
<1> QED BY <1>6, <1>8, <1>9 DEF Becomes

(* "eof": the consumer's socket is closed, conn_apa is left as it is. *)
ConsumerClosed(fd, c) ==
    /\ el' = KernelForgets(FileEventDeleted(el, fd, ReadWrite), {fd})
    /\ caPool' = PoolReturned(caPool, c)
    /\ ca' = [ca EXCEPT ![c] = Closed]
    /\ sock' = CloseFds(sock, {fd})
    /\ client' = Disconnected(sock, fd)
    /\ UNCHANGED <<apaFd, epPool, num_reqs, pc, stop, remote>>

LEMMA ConsumerClosedStep ==
    ASSUME IInv, NEW fd \in Fds, NEW c \in Ca, sock[fd].kind = "client",
           el.events[fd].clientData = c, ca[c].fd # -1, ConsumerClosed(fd, c)
    PROVE  IInv'
<1>t. /\ CType /\ DInv(el, sock, ca, caPool, apaFd, epPool)
      /\ Typed(el, sock, ca, caPool, apaFd, epPool)
    BY TypedState
<1> DEFINE d == FileEventDeleted(el, fd, ReadWrite)
<1>1. el \in AgentLoops /\ InRange(el) /\ ReadWrite \in SUBSET ReadWrite
    BY <1>t DEF CType
<1>2. el.events[fd].mask \ ReadWrite = {}
    BY <1>1 DEF AgentLoops, Loops, Slots
<1>3. SameBut(el, d, {fd}) /\ Masked(el, d, fd, {})
    BY <1>1, <1>2, Deleted
<1>4. d \in AgentLoops
    BY <1>3 DEF SameBut
<1>c. /\ el' = KernelForgets(d, {fd}) /\ caPool' = PoolReturned(caPool, c)
      /\ ca' = [ca EXCEPT ![c] = Closed] /\ sock' = CloseFds(sock, {fd})
      /\ client' = Disconnected(sock, fd) /\ UNCHANGED <<apaFd, epPool, remote, pc, stop>>
    BY DEF ConsumerClosed
<1> HIDE DEF d
<1>5. /\ el' \in AgentLoops /\ el'.setsize = d.setsize /\ el'.events = d.events
      /\ \A h \in Fds : el'.epoll[h] = IF h \in {fd} THEN NotMonitored ELSE d.epoll[h]
    BY <1>4, <1>c, Forgotten
<1>6. /\ el' \in AgentLoops /\ el'.setsize = el.setsize /\ el'.events[fd].mask = {}
      /\ Agrees(el', fd) /\ InRange(el') /\ SameBut(el, el', {fd})
  <2>1. SameBut(el, el', {fd}) /\ el'.setsize = el.setsize
    BY <1>3, <1>5 DEF SameBut
  <2>2. el'.events[fd].mask = {} /\ Agrees(el', fd)
    BY <1>3, <1>5 DEF Masked, Agrees
  <2>3. InRange(el')
    BY <1>1, <2>1, <2>2 DEF InRange, SameBut
  <2> QED BY <1>5, <2>1, <2>2, <2>3
<1>7. /\ sock' \in [Fds -> Socks(Bytes)]
      /\ \A h \in Fds : sock'[h] = IF h \in {fd} THEN NoSock ELSE sock[h]
    BY <1>t, <1>c, Closes DEF CType
<1>8. Closes2(el, el', sock, sock', fd, -1)
  <2>1. SameBut(el, el', {fd, -1})
    BY <1>6 DEF SameBut
  <2> QED BY <1>6, <1>7, <2>1, NoSocket, Descriptors DEF Closes2
<1>9. Leaves(el, sock, ca, ca', apaFd, apaFd', c, fd, -1, NoConn)
  <2>1. apaFd' = [a \in Apa |-> IF a = NoConn THEN -1 ELSE apaFd[a]]
    BY <1>t, <1>c, Numbers DEF CType
  <2> QED BY <1>c, <2>1 DEF Leaves
<1>10. DInv(el', sock', ca', caPool', apaFd', epPool)
  <2>1. Reliable => caPool' = PoolReturned(caPool, c)
    BY <1>c
  <2>2. Typed(el, sock, ca, caPool, apaFd, epPool) /\ DInv(el, sock, ca, caPool, apaFd, epPool)
    BY <1>t
  <2> QED BY <1>8, <1>9, <2>1, <2>2, CloseKeeps, ZenonT(60)
<1>11. caPool' \in Pools(NumCa, Ca)
    BY <1>t, <1>c, Returned DEF CType
<1>12. ca' \in [Ca -> Objects]
    BY <1>t, <1>c, ClosedType DEF CType
<1>13. Typed(el', sock', ca', caPool', apaFd', epPool')
    BY <1>t, <1>c, <1>5, <1>7, <1>11, <1>12 DEF Typed
<1>14. DInv(el', sock', ca', caPool', apaFd', epPool')
    BY <1>c, <1>10
<1>15. ClientsTyped(client') /\ RestTyped
    BY <1>t, <1>c, DisconnectedType DEF RestTyped, CType
<1> QED BY <1>t, <1>c, <1>6, <1>13, <1>14, <1>15, ClosedType, StepDone, Zenon

LEMMA ReadConsumerStep ==
    ASSUME IInv, NEW fd \in Fds, NEW c \in Ca, sock[fd].kind = "client",
           el.events[fd].clientData = c, read_from_consumer(fd, c)
    PROVE  IInv'
<1>t. /\ CType /\ DInv(el, sock, ca, caPool, apaFd, epPool)
      /\ Typed(el, sock, ca, caPool, apaFd, epPool)
    BY TypedState
<1>p. /\ pc \in {"running", "exited", "crashed"} /\ stop \in BOOLEAN /\ GoodContents(ca[c])
      /\ sock \in [Fds -> Socks(Bytes)] /\ remote \in Remotes /\ ca \in [Ca -> Objects]
      /\ epPool \in [Ep -> Pools(NumApa, Apa)]
    BY <1>t DEF CType
<1> DEFINE space == BufIn - Len(ca[c].buf_in)
           result == ReadResult(sock[fd], space)
           got == Received(sock[fd], space)
           r == ResetOut([ca[c] EXCEPT !.buf_in = @ \o got])
           s == AfterRead(sock, fd, space)
<1>1. CASE ca[c].fd < 0
  <2>1. Ignore(fd)
    BY <1>1, Zenon DEF read_from_consumer
  <2>2. ~(Reliable /\ sock[fd].kind = "client")
    <3>1. Reliable => ca[c].fd = fd
        BY <1>t DEF DInv, Owned
    <3> QED BY <1>1, <3>1, Descriptors
  <2> QED BY <2>1, <2>2, IgnoreStep
<1>2. CASE ~(ca[c].fd < 0)
  <2>f. ca[c].fd # -1
    BY <1>2
  <2>c. \/ /\ r.conn_apa # NoConn /\ ForwardRequest(c, r, s)
           /\ UNCHANGED <<epPool, num_reqs, pc, stop, remote>>
        \/ /\ r.conn_apa = NoConn
           /\ \E e \in Choices :
                IF PoolHasElement(epPool[e])
                THEN /\ ForwardRequest(c, [r EXCEPT !.conn_apa = PoolTop(epPool[e])], s)
                     /\ epPool' = [epPool EXCEPT ![e] = PoolPull(@)]
                ELSE /\ abort_connection_ca(c, r, s, caPool, 1)
                     /\ UNCHANGED epPool
           /\ UNCHANGED <<num_reqs, pc, stop, remote>>
        \/ ReturnOnly
        \/ AbortAndReturn(c) /\ UNCHANGED stop
        \/ ConsumerClosed(fd, c)
    BY <1>2, Zenon DEF read_from_consumer, ConsumerClosed
  <2>s. space \in Nat
    BY <1>p, Numbers DEF GoodContents, Objects
  <2>b. space = BufIn - Len(ca[c].buf_in)
    OBVIOUS
  <2> HIDE DEF space
  <2>r. /\ got \in Seq(Bytes) /\ Len(got) <= space
        /\ s \in [Fds -> Socks(Bytes)] /\ SameSockets(sock, s)
    BY <1>p, <2>s, ReadTakes
  <2> HIDE DEF got, s
  <2>h. Becomes(ca[c], r, ca[c].conn_apa) /\ \A a \in Apa : Becomes(ca[c], [r EXCEPT !.conn_apa = a], a)
    <3>1. Len(got) <= BufIn - Len(ca[c].buf_in)
        BY <2>r, <2>b
    <3>2. r = ResetOut([ca[c] EXCEPT !.buf_in = @ \o got])
        OBVIOUS
    <3> HIDE DEF r
    <3> QED BY <1>p, <2>r, <3>1, <3>2, ReadInContents, Zenon
  <2> HIDE DEF r
  <2>g. GoodContents(r) /\ r.fd = ca[c].fd /\ r.conn_apa = ca[c].conn_apa
    BY <2>h DEF Becomes
  <2>o. r \in Objects
    BY <2>g DEF GoodContents
  <2>1. CASE /\ r.conn_apa # NoConn /\ ForwardRequest(c, r, s)
             /\ UNCHANGED <<epPool, num_reqs, pc, stop, remote>>
    <3> DEFINE obj == [ca EXCEPT ![c] = r]
    <3>1. obj \in [Ca -> Objects]
        BY <1>p, <2>o
    <3>2. DInv(el, sock, obj, caPool, apaFd, epPool)
        BY <1>t, <2>o, <2>g, ContentsKeep, Zenon
    <3>3. obj = [ca EXCEPT ![c] = r]
        OBVIOUS
    <3> HIDE DEF obj
    <3>4. Typed(el, sock, obj, caPool, apaFd, epPool) /\ Typed(el, s, obj, caPool, apaFd, epPool)
        BY <1>t, <2>r, <3>1 DEF Typed
    <3>5. DInv(el, s, obj, caPool, apaFd, epPool)
        BY <2>r, <3>2, <3>4, SocketsKeep, Zenon
    <3>6. Typed(el, s, obj, caPool, apaFd, epPool') /\ DInv(el, s, obj, caPool, apaFd, epPool')
        BY <2>1, <3>4, <3>5
    <3>7. RestTyped
        BY <1>p, <2>1 DEF RestTyped
    <3> QED BY <1>t, <2>1, <2>g, <3>3, <3>6, <3>7, ForwardStep, Zenon
  <2>2. ASSUME r.conn_apa = NoConn, NEW e \in Choices, UNCHANGED <<num_reqs, pc, stop, remote>>,
               IF PoolHasElement(epPool[e])
               THEN /\ ForwardRequest(c, [r EXCEPT !.conn_apa = PoolTop(epPool[e])], s)
                    /\ epPool' = [epPool EXCEPT ![e] = PoolPull(@)]
               ELSE /\ abort_connection_ca(c, r, s, caPool, 1)
                    /\ UNCHANGED epPool
        PROVE  IInv'
    <3>e. e \in Ep
        BY ChoicesAre
    <3>q. RestTyped
        BY <1>p, <2>2 DEF RestTyped
    <3>1. CASE ~PoolHasElement(epPool[e])
      <4>1. abort_connection_ca(c, r, s, caPool, 1) /\ epPool' = epPool /\ r.fd # -1
        BY <2>2, <2>f, <2>g, <3>1
      <4> QED BY <2>g, <2>o, <2>r, <3>q, <4>1, AbortContents, Zenon
    <3>2. CASE PoolHasElement(epPool[e])
      <4> DEFINE a == PoolTop(epPool[e])
                 y == [r EXCEPT !.conn_apa = a]
                 obj == [ca EXCEPT ![c] = y]
      <4>1. a \in Apa
        BY <1>p, <3>e, <3>2, Pulled
      <4>2. ForwardRequest(c, y, s) /\ epPool' = [epPool EXCEPT ![e] = PoolPull(epPool[e])]
        BY <2>2, <3>2, Zenon
      <4>3. GoodContents(y) /\ y.fd = ca[c].fd /\ y.conn_apa = a
        BY <2>h, <4>1, Zenon DEF Becomes
      <4>a. a = PoolTop(epPool[e])
        OBVIOUS
      <4> HIDE DEF y, a
      <4>4. y \in Objects /\ y.conn_apa # NoConn
        BY <4>1, <4>3, Numbers DEF GoodContents
      <4>5. Takes(ca, obj, epPool, epPool', c, y, e, a)
        BY <2>2, <2>f, <2>g, <3>2, <4>2, <4>3, <4>a DEF Takes
      <4>6. obj = [ca EXCEPT ![c] = y]
        OBVIOUS
      <4> HIDE DEF obj
      <4>7. /\ DInv(el, sock, obj, caPool, apaFd, epPool') /\ obj \in [Ca -> Objects]
            /\ epPool' \in [Ep -> Pools(NumApa, Apa)]
        <5>1. /\ Typed(el, sock, ca, caPool, apaFd, epPool) /\ DInv(el, sock, ca, caPool, apaFd, epPool)
              /\ y \in Objects
            BY <1>t, <4>4
        <5> QED BY <3>e, <4>5, <5>1, TakeKeeps
      <4>8. Typed(el, sock, obj, caPool, apaFd, epPool') /\ Typed(el, s, obj, caPool, apaFd, epPool')
        BY <1>t, <2>r, <4>7 DEF Typed
      <4>9. DInv(el, s, obj, caPool, apaFd, epPool')
        BY <2>r, <4>7, <4>8, SocketsKeep, Zenon
      <4> QED BY <1>t, <3>q, <4>2, <4>3, <4>4, <4>6, <4>8, <4>9, ForwardStep, Zenon
    <3> QED BY <3>1, <3>2
  <2>3. CASE ReturnOnly
    BY <1>p, <2>3, NothingStep DEF ReturnOnly, ownVars
  <2>4. CASE AbortAndReturn(c) /\ UNCHANGED stop
    BY <1>p, <2>f, <2>4, AbortAndReturnStep
  <2>5. CASE ConsumerClosed(fd, c)
    BY <2>f, <2>5, ConsumerClosedStep
  <2> QED BY <2>c, <2>1, <2>2, <2>3, <2>4, <2>5
<1> QED BY <1>1, <1>2

-----------------------------------------------------------------------------
(* The other handlers *)

(* A step that changes events, then the contents of one object, and at     *)
(* most the queues and states of the sockets.                              *)
LEMMA QuietStep ==
    ASSUME CType, NEW c \in Ca, NEW r, Becomes(ca[c], r, ca[c].conn_apa), ca' = [ca EXCEPT ![c] = r],
           Typed(el', sock, ca, caPool, apaFd, epPool), DInv(el', sock, ca, caPool, apaFd, epPool),
           InRange(el'), el'.setsize = el.setsize,
           sock' \in [Fds -> Socks(Bytes)], SameSockets(sock, sock'), ClientsTyped(client'),
           UNCHANGED <<caPool, apaFd, epPool>>, RestTyped
    PROVE  IInv'
<1>1. GoodContents(r) /\ r \in Objects /\ r.fd = ca[c].fd /\ r.conn_apa = ca[c].conn_apa
    BY DEF Becomes, GoodContents
<1>2. ca' \in [Ca -> Objects]
    BY <1>1 DEF CType
<1>3. DInv(el', sock, ca', caPool, apaFd, epPool)
    BY <1>1, ContentsKeep, Zenon
<1>4. Typed(el', sock, ca', caPool, apaFd, epPool) /\ Typed(el', sock', ca', caPool', apaFd', epPool')
    BY <1>2 DEF Typed
<1>5. DInv(el', sock', ca', caPool, apaFd, epPool)
    BY <1>3, <1>4, SocketsKeep, Zenon
<1>6. DInv(el', sock', ca', caPool', apaFd', epPool')
    BY <1>5
<1>7. el' \in AgentLoops
    BY DEF Typed
<1> QED BY <1>1, <1>4, <1>6, <1>7, StepDone, Zenon

(* How much one write takes. *)
LEMMA WriteTakes ==
    ASSUME NEW rest \in Seq(Bytes), NEW n \in Writes(rest)
    PROVE  n \in 0 .. Len(rest)
BY LenProperties DEF Writes

LEMMA WrittenContents ==
    ASSUME NEW x, GoodContents(x)
    PROVE  /\ \A n \in 0 .. Len(Suffix(x.buf_in, x.nwrite_in)) :
                Becomes(x, [x EXCEPT !.nwrite_in = x.nwrite_in + n], x.conn_apa)
           /\ \A n \in 0 .. Len(Suffix(x.buf_out, x.nwrite_out)) :
                Becomes(x, [x EXCEPT !.nwrite_out = x.nwrite_out + n], x.conn_apa)
           /\ Suffix(x.buf_in, x.nwrite_in) \in Seq(Bytes)
           /\ Suffix(x.buf_out, x.nwrite_out) \in Seq(Bytes)
<1>o. /\ x \in Objects /\ x.nwrite_in <= Len(x.buf_in) /\ Len(x.buf_in) <= BufIn
      /\ x.nwrite_out <= Len(x.buf_out) /\ Len(x.buf_out) <= BufOut
    BY Zenon DEF GoodContents
<1>t. /\ x.buf_in \in Seq(Bytes) /\ x.nwrite_in \in Nat /\ x.buf_out \in Seq(Bytes) /\ x.nwrite_out \in Nat
    BY <1>o DEF Objects
<1>l. Len(x.buf_in) \in Nat /\ Len(x.buf_out) \in Nat
    BY <1>t, LenProperties
<1>n. x.nwrite_in \in 0 .. Len(x.buf_in) /\ x.nwrite_out \in 0 .. Len(x.buf_out)
    BY <1>o, <1>t, <1>l
<1> DEFINE u == Suffix(x.buf_in, x.nwrite_in)
           v == Suffix(x.buf_out, x.nwrite_out)
<1>p. ASSUME NEW b \in Seq(Bytes), NEW w \in 0 .. Len(b)
      PROVE  Suffix(b, w) \in Seq(Bytes) /\ Len(Suffix(b, w)) = Len(b) - w
    BY PrefixSuffix
<1>1. u \in Seq(Bytes) /\ Len(u) = Len(x.buf_in) - x.nwrite_in
    BY <1>t, <1>n, <1>p
<1>2. v \in Seq(Bytes) /\ Len(v) = Len(x.buf_out) - x.nwrite_out
    BY <1>t, <1>n, <1>p
<1> HIDE DEF u, v
<1>3. ASSUME NEW n \in 0 .. Len(u) PROVE Becomes(x, [x EXCEPT !.nwrite_in = x.nwrite_in + n], x.conn_apa)
  <2> DEFINE m == x.nwrite_in + n
             y == [x EXCEPT !.nwrite_in = m]
  <2>1. m \in Nat /\ m <= Len(x.buf_in)
    BY <1>t, <1>l, <1>n, <1>1
  <2> HIDE DEF m
  <2>2. /\ y \in Objects /\ y.nwrite_in = m /\ y.buf_in = x.buf_in /\ y.buf_out = x.buf_out
        /\ y.nwrite_out = x.nwrite_out /\ y.fd = x.fd /\ y.conn_apa = x.conn_apa
    BY <1>o, <2>1 DEF Objects
  <2> HIDE DEF y
  <2>3. Becomes(x, y, x.conn_apa)
    BY <1>o, <2>1, <2>2 DEF Becomes, GoodContents
  <2> QED BY <2>3 DEF y, m
<1>4. ASSUME NEW n \in 0 .. Len(v) PROVE Becomes(x, [x EXCEPT !.nwrite_out = x.nwrite_out + n], x.conn_apa)
  <2> DEFINE m == x.nwrite_out + n
             y == [x EXCEPT !.nwrite_out = m]
  <2>1. m \in Nat /\ m <= Len(x.buf_out)
    BY <1>t, <1>l, <1>n, <1>2
  <2> HIDE DEF m
  <2>2. /\ y \in Objects /\ y.nwrite_out = m /\ y.buf_in = x.buf_in /\ y.buf_out = x.buf_out
        /\ y.nwrite_in = x.nwrite_in /\ y.fd = x.fd /\ y.conn_apa = x.conn_apa
    BY <1>o, <2>1 DEF Objects
  <2> HIDE DEF y
  <2>3. Becomes(x, y, x.conn_apa)
    BY <1>o, <2>1, <2>2 DEF Becomes, GoodContents
  <2> QED BY <2>3 DEF y, m
<1> QED BY <1>1, <1>2, <1>3, <1>4 DEF u, v

LEMMA WriteRemoteStep ==
    ASSUME IInv, NEW fd \in Fds, NEW c \in Ca, sock[fd].kind = "apa", write_to_remote_agent(fd, c)
    PROVE  IInv'
<1>t. /\ CType /\ DInv(el, sock, ca, caPool, apaFd, epPool)
      /\ Typed(el, sock, ca, caPool, apaFd, epPool)
    BY TypedState
<1>p. /\ pc \in {"running", "exited", "crashed"} /\ stop \in BOOLEAN /\ GoodContents(ca[c])
      /\ sock \in [Fds -> Socks(Bytes)] /\ remote \in Remotes /\ ClientsTyped(client) /\ InRange(el)
    BY <1>t DEF CType, ClientsTyped
<1>1. CASE ca[c].fd < 0
  <2>1. ReturnOnly
    BY <1>1, Zenon DEF write_to_remote_agent
  <2> QED BY <1>p, <2>1, NothingStep DEF ReturnOnly, ownVars
<1>2. CASE ~(ca[c].fd < 0)
  <2> DEFINE rest == Suffix(ca[c].buf_in, ca[c].nwrite_in)
  <2>c. \/ \E n \in Writes(rest) :
            /\ sock' = AfterWrite(sock, fd, n)
            /\ remote' = IF sock[fd].st = "open"
                         THEN [remote EXCEPT ![sock[fd].peer].inq = @ \o Prefix(rest, n)]
                         ELSE remote
            /\ ca' = [ca EXCEPT ![c] = RequestWritten(@, n)]
            /\ IF ca'[c].nwrite_in = Len(ca[c].buf_in)
               THEN /\ el' = FileEventDeleted(el, fd, {AE_WRITABLE})
                    /\ pc' = IF ca[c].conn_apa = NoConn THEN "crashed" ELSE pc
               ELSE UNCHANGED <<el, pc>>
            /\ UNCHANGED <<caPool, apaFd, epPool, num_reqs, stop, client>>
        \/ AbortAndReturn(c) /\ MaySigpipe
    BY <1>2, Zenon DEF write_to_remote_agent
  <2>1. CASE AbortAndReturn(c) /\ MaySigpipe
    <3>1. ca[c].fd # -1
        BY <1>2
    <3>2. stop' \in BOOLEAN
        BY <1>p, <2>1, Zenon DEF MaySigpipe
    <3> QED BY <2>1, <3>1, <3>2, AbortAndReturnStep
  <2>2. ASSUME NEW n \in Writes(rest), sock' = AfterWrite(sock, fd, n),
               remote' = (IF sock[fd].st = "open"
                          THEN [remote EXCEPT ![sock[fd].peer].inq = @ \o Prefix(rest, n)] ELSE remote),
               ca' = [ca EXCEPT ![c] = RequestWritten(@, n)],
               el' = el \/ el' = FileEventDeleted(el, fd, {AE_WRITABLE}),
               pc' = pc \/ pc' = "crashed",
               UNCHANGED <<caPool, apaFd, epPool, num_reqs, stop, client>>
        PROVE  IInv'
    <3> DEFINE r == [ca[c] EXCEPT !.nwrite_in = ca[c].nwrite_in + n]
    <3>1. ca' = [ca EXCEPT ![c] = r]
        BY <2>2, Zenon DEF RequestWritten
    <3>2. rest \in Seq(Bytes)
        BY <1>p, WrittenContents
    <3>3. n \in 0 .. Len(rest)
        BY <2>2, <3>2, WriteTakes
    <3>4. Becomes(ca[c], r, ca[c].conn_apa)
        BY <1>p, <3>3, WrittenContents
    <3> HIDE DEF r, rest
    <3>5. /\ InRange(el') /\ el'.setsize = el.setsize /\ Typed(el', sock, ca, caPool, apaFd, epPool)
          /\ DInv(el', sock, ca, caPool, apaFd, epPool)
      <4>1. CASE el' = el
        BY <1>t, <1>p, <4>1
      <4>2. CASE el' = FileEventDeleted(el, fd, {AE_WRITABLE})
        <5>1. {AE_WRITABLE} \in SUBSET ReadWrite /\ ~(Reliable /\ sock[fd].kind = "client")
            BY DEF ReadWrite
        <5>2. /\ InRange(el') /\ SameBut(el, el', {fd}) /\ Typed(el', sock, ca, caPool, apaFd, epPool)
              /\ DInv(el', sock, ca, caPool, apaFd, epPool)
            BY <1>t, <1>p, <4>2, <5>1, DeleteKeeps, Zenon
        <5> QED BY <5>2 DEF SameBut
      <4> QED BY <2>2, <4>1, <4>2
    <3>6. sock' \in [Fds -> Socks(Bytes)] /\ SameSockets(sock, sock')
        BY <1>p, <2>2, WriteTurns
    <3>7. remote' \in Remotes
      <4> DEFINE part == Prefix(rest, n)
                 k == sock[fd].peer
      <4>1. part \in Seq(Bytes)
        BY <3>2, <3>3, PrefixSuffix
      <4>2. remote' = remote \/ remote' = [remote EXCEPT ![k].inq = @ \o part]
        BY <2>2
      <4> HIDE DEF part, k
      <4>3. CASE k \in Apa /\ remote' = [remote EXCEPT ![k].inq = @ \o part]
        <5> DEFINE q == remote[k].inq \o part
                   x == [remote[k] EXCEPT !.inq = q]
        <5>1. remote[k] \in [inq : Seq(Bytes), out : Seq(Bytes)] /\ q \in Seq(Bytes)
            BY <1>p, <4>1, <4>3 DEF Remotes
        <5> HIDE DEF q
        <5>2. x \in [inq : Seq(Bytes), out : Seq(Bytes)]
            BY <5>1
        <5>3. remote' = [remote EXCEPT ![k] = x]
            BY <4>3, Zenon DEF q
        <5> HIDE DEF x
        <5> QED BY <1>p, <5>2, <5>3 DEF Remotes
      <4>4. CASE k \notin Apa /\ remote' = [remote EXCEPT ![k].inq = @ \o part]
        <5>1. remote' = remote
            BY <1>p, <4>4 DEF Remotes
        <5> QED BY <1>p, <5>1
      <4> QED BY <1>p, <4>2, <4>3, <4>4
    <3>8. RestTyped /\ ClientsTyped(client')
        BY <1>p, <2>2, <3>7 DEF RestTyped
    <3>9. UNCHANGED <<caPool, apaFd, epPool>>
        BY <2>2
    <3> QED BY <1>t, <3>1, <3>4, <3>5, <3>6, <3>8, <3>9, QuietStep, Zenon
  <2>3. ASSUME NEW n \in Writes(rest), sock' = AfterWrite(sock, fd, n),
               remote' = (IF sock[fd].st = "open"
                          THEN [remote EXCEPT ![sock[fd].peer].inq = @ \o Prefix(rest, n)] ELSE remote),
               ca' = [ca EXCEPT ![c] = RequestWritten(@, n)],
               IF ca'[c].nwrite_in = Len(ca[c].buf_in)
               THEN /\ el' = FileEventDeleted(el, fd, {AE_WRITABLE})
                    /\ pc' = IF ca[c].conn_apa = NoConn THEN "crashed" ELSE pc
               ELSE UNCHANGED <<el, pc>>,
               UNCHANGED <<caPool, apaFd, epPool, num_reqs, stop, client>>
        PROVE  IInv'
    <3>1. (el' = el \/ el' = FileEventDeleted(el, fd, {AE_WRITABLE})) /\ (pc' = pc \/ pc' = "crashed")
        BY <2>3
    <3> HIDE DEF rest
    <3> QED BY <2>2, <2>3, <3>1, Zenon
  <2> QED BY <2>c, <2>1, <2>3, Zenon
<1> QED BY <1>1, <1>2

LEMMA ReadOutContents ==
    ASSUME NEW x, GoodContents(x), NEW got \in Seq(Bytes), Len(got) <= BufOut - Len(x.buf_out),
           NEW r, r = ResetIn([x EXCEPT !.buf_out = @ \o got])
    PROVE  Becomes(x, r, x.conn_apa)
<1> DEFINE both == x.buf_out \o got
           r1 == [x EXCEPT !.buf_out = both]
           r2 == [r1 EXCEPT !.buf_in = <<>>]
           r3 == [r2 EXCEPT !.nwrite_in = 0]
<1>o. x \in Objects /\ x.nwrite_out <= Len(x.buf_out)
    BY Zenon DEF GoodContents
<1>t. x.buf_out \in Seq(Bytes) /\ x.nwrite_out \in Nat
    BY <1>o DEF Objects
<1>l. Len(x.buf_out) \in Nat /\ Len(got) \in Nat /\ BufIn \in Nat /\ BufOut \in Nat
    BY <1>t, LenProperties, Numbers
<1>2. both \in Seq(Bytes) /\ Len(both) = Len(x.buf_out) + Len(got)
    BY <1>t
<1>3. r = r3
    BY DEF ResetIn
<1>e. <<>> \in Seq(Bytes) /\ Len(<<>>) = 0
    BY EmptySeq
<1> HIDE DEF both, r1, r2, r3
<1>4. /\ r1 \in Objects /\ r1.buf_out = both /\ r1.nwrite_out = x.nwrite_out
      /\ r1.fd = x.fd /\ r1.conn_apa = x.conn_apa
    BY <1>o, <1>2 DEF r1, Objects
<1>5. /\ r2 \in Objects /\ r2.buf_out = both /\ r2.nwrite_out = x.nwrite_out
      /\ r2.fd = x.fd /\ r2.conn_apa = x.conn_apa /\ r2.buf_in = <<>>
    BY <1>4, <1>e DEF r2, Objects
<1>6. /\ r3 \in Objects /\ r3.buf_out = both /\ r3.nwrite_out = x.nwrite_out
      /\ r3.fd = x.fd /\ r3.conn_apa = x.conn_apa /\ r3.buf_in = <<>> /\ r3.nwrite_in = 0
    BY <1>5 DEF r3, Objects
<1>7. x.nwrite_out <= Len(both) /\ Len(both) <= BufOut
    BY <1>o, <1>t, <1>l, <1>2
<1>8. Becomes(x, r3, x.conn_apa)
    BY <1>l, <1>6, <1>7, <1>e DEF Becomes, GoodContents
<1> QED BY <1>3, <1>8, Zenon

LEMMA ReadRemoteStep ==
    ASSUME IInv, NEW fd \in Fds, NEW c \in Ca, sock[fd].kind = "apa", read_from_remote_agent(fd, c)
    PROVE  IInv'
<1>t. /\ CType /\ DInv(el, sock, ca, caPool, apaFd, epPool)
      /\ Typed(el, sock, ca, caPool, apaFd, epPool)
    BY TypedState
<1>p. /\ pc \in {"running", "exited", "crashed"} /\ stop \in BOOLEAN /\ GoodContents(ca[c])
      /\ sock \in [Fds -> Socks(Bytes)] /\ remote \in Remotes /\ ClientsTyped(client) /\ InRange(el)
      /\ el \in AgentLoops
    BY <1>t DEF CType, ClientsTyped
<1> DEFINE space == BufOut - Len(ca[c].buf_out)
           result == ReadResult(sock[fd], space)
           got == Received(sock[fd], space)
           r == ResetIn([ca[c] EXCEPT !.buf_out = @ \o got])
           s == AfterRead(sock, fd, space)
           proc == "write_to_consumer"
<1>1. CASE ca[c].fd < 0
  <2>1. Ignore(fd)
    BY <1>1, Zenon DEF read_from_remote_agent
  <2>2. ~(Reliable /\ sock[fd].kind = "client")
    OBVIOUS
  <2> QED BY <2>1, <2>2, IgnoreStep
<1>2. CASE ~(ca[c].fd < 0)
  <2>c. \/ Crash
        \/ /\ CreateOk(r.fd) /\ ca' = [ca EXCEPT ![c] = r] /\ sock' = s
           /\ el' = FileEventCreated(el, r.fd, {AE_WRITABLE}, proc, c)
           /\ UNCHANGED <<caPool, apaFd, client>> /\ UNCHANGED <<epPool, pc, stop, remote>>
        \/ /\ abort_connection_ca(c, r, s, caPool, 1)
           /\ UNCHANGED <<epPool, pc, stop, remote>>
        \/ ReturnOnly
        \/ AbortAndReturn(c) /\ UNCHANGED stop
    BY <1>2, Zenon DEF read_from_remote_agent
  <2>f. ca[c].fd # -1
    BY <1>2
  <2>s. space \in Nat
    BY <1>p, Numbers DEF GoodContents, Objects
  <2>b. space = BufOut - Len(ca[c].buf_out)
    OBVIOUS
  <2> HIDE DEF space
  <2>r. /\ got \in Seq(Bytes) /\ Len(got) <= space
        /\ s \in [Fds -> Socks(Bytes)] /\ SameSockets(sock, s)
    BY <1>p, <2>s, ReadTakes
  <2> HIDE DEF got, s
  <2>h. Becomes(ca[c], r, ca[c].conn_apa)
    <3>1. Len(got) <= BufOut - Len(ca[c].buf_out)
        BY <2>r, <2>b
    <3>2. r = ResetIn([ca[c] EXCEPT !.buf_out = @ \o got])
        OBVIOUS
    <3> HIDE DEF r
    <3> QED BY <1>p, <2>r, <3>1, <3>2, ReadOutContents, Zenon
  <2> HIDE DEF r
  <2>g. r \in Objects /\ r.fd = ca[c].fd /\ r.conn_apa = ca[c].conn_apa
    BY <2>h DEF Becomes, GoodContents
  <2>1. CASE Crash
    BY <1>p, <2>1, NothingStep DEF Crash, Segfault, ownVars
  <2>2. CASE /\ CreateOk(r.fd) /\ ca' = [ca EXCEPT ![c] = r] /\ sock' = s
             /\ el' = FileEventCreated(el, r.fd, {AE_WRITABLE}, proc, c)
             /\ UNCHANGED <<caPool, apaFd, client>> /\ UNCHANGED <<epPool, pc, stop, remote>>
    <3> DEFINE f == r.fd
    <3>1. f \in Fds /\ ca[c].fd = f /\ f < el.setsize /\ c \in Nat
      <4>1. f < el.setsize
        BY <2>2 DEF CreateOk, CreateAccepted
      <4> QED BY <2>f, <2>g, <4>1, Numbers DEF Objects
    <3>2. AE_WRITABLE \in ReadWrite /\ proc \in Procs /\ proc = "write_to_consumer"
        BY DEF ReadWrite, Procs
    <3>3. el' = FileEventCreated(el, f, {AE_WRITABLE}, proc, c)
        BY <2>2
    <3> HIDE DEF f
    <3>4. Registers(el, el', f, AE_WRITABLE, proc, c) /\ Agrees(el', f)
        BY <1>p, <3>1, <3>2, <3>3, Created
    <3>5. DInv(el', sock, ca, caPool, apaFd, epPool)
        BY <1>t, <3>1, <3>2, <3>4, ClientEventKeeps, Zenon
    <3>6. /\ InRange(el') /\ el'.setsize = el.setsize /\ Typed(el', sock, ca, caPool, apaFd, epPool)
        BY <1>t, <1>p, <3>1, <3>4 DEF Registers, SameBut, InRange, Typed
    <3>7. RestTyped /\ ClientsTyped(client') /\ UNCHANGED <<caPool, apaFd, epPool>>
        BY <1>p, <2>2 DEF RestTyped
    <3>8. sock' \in [Fds -> Socks(Bytes)] /\ SameSockets(sock, sock') /\ ca' = [ca EXCEPT ![c] = r]
        BY <2>2, <2>r
    <3> QED BY <1>t, <2>h, <3>5, <3>6, <3>7, <3>8, QuietStep, Zenon
  <2>3. CASE abort_connection_ca(c, r, s, caPool, 1) /\ UNCHANGED <<epPool, pc, stop, remote>>
    <3>1. RestTyped /\ epPool' = epPool /\ r.fd # -1
        BY <1>p, <2>3, <2>f, <2>g DEF RestTyped
    <3> QED BY <2>3, <2>g, <2>r, <3>1, AbortContents, Zenon
  <2>4. CASE ReturnOnly
    BY <1>p, <2>4, NothingStep DEF ReturnOnly, ownVars
  <2>5. CASE AbortAndReturn(c) /\ UNCHANGED stop
    BY <1>p, <2>f, <2>5, AbortAndReturnStep
  <2> QED BY <2>c, <2>1, <2>2, <2>3, <2>4, <2>5, Zenon
<1> QED BY <1>1, <1>2

-----------------------------------------------------------------------------
(* write_to_consumer *)

LEMMA DeliveredType ==
    ASSUME CType, NEW fd \in Fds, NEW part \in Seq(Bytes)
    PROVE  ClientsTyped(DeliverToClient(fd, part))
<1> DEFINE k == sock[fd].peer
           q == client[k].got \o part
           x == [client[k] EXCEPT !.got = q]
           to == DeliverToClient(fd, part)
<1>1. client \in [Clients -> ClientType] /\ \A j \in Clients : client[j].sent > 0 => client[j].reqs >= 1
    BY DEF CType
<1>2. to = client \/ to = [client EXCEPT ![k] = x]
    BY Zenon DEF DeliverToClient
<1> HIDE DEF k, to
<1>3. CASE k \in Clients
  <2>1. client[k] \in ClientType /\ q \in Seq(Bytes)
    BY <1>1, <1>3 DEF ClientType, ClientTypes
  <2> HIDE DEF q
  <2>2. x \in ClientType /\ x.sent = client[k].sent /\ x.reqs = client[k].reqs
    BY <2>1 DEF ClientType, ClientTypes
  <2> HIDE DEF x
  <2>3. to \in [Clients -> ClientType] /\ \A j \in Clients : to[j] = client[j] \/ (j = k /\ to[j] = x)
    BY <1>1, <1>2, <1>3, <2>2
  <2>4. \A j \in Clients : to[j].sent > 0 => to[j].reqs >= 1
    BY <1>1, <2>2, <2>3
  <2> QED BY <2>3, <2>4 DEF ClientsTyped, to
<1>4. CASE k \notin Clients
  <2>1. to = client
    BY <1>1, <1>2, <1>4
  <2> QED BY <1>1, <2>1 DEF ClientsTyped, to
<1> QED BY <1>3, <1>4

(* The object whose answer has been written and whose connection is        *)
(* released.                                                               *)
LEMMA AnsweredContents ==
    ASSUME NEW x, NEW r, Becomes(x, r, x.conn_apa), NEW y, y = [r EXCEPT !.conn_apa = NoConn]
    PROVE  Becomes(x, y, NoConn)
<1>1. r \in Objects /\ r.fd = x.fd
    BY Zenon DEF Becomes, GoodContents
<1>2. /\ y \in Objects /\ y.fd = r.fd /\ y.conn_apa = NoConn /\ y.buf_in = r.buf_in
      /\ y.nwrite_in = r.nwrite_in /\ y.buf_out = r.buf_out /\ y.nwrite_out = r.nwrite_out
    BY <1>1 DEF Objects
<1>3. GoodContents(y)
    BY <1>2 DEF Becomes, GoodContents
<1> QED BY <1>1, <1>2, <1>3 DEF Becomes

(* The last write of an answer over the connection a, which is released. *)
LEMMA AnsweredStep ==
    ASSUME IInv, NEW c \in Ca, ca[c].fd # -1, ca[c].conn_apa # NoConn,
           NEW y, Becomes(ca[c], y, NoConn), ca' = [ca EXCEPT ![c] = y],
           el' = Released(el, ca[c]), epPool' = ApaReturned(ca[c].conn_apa),
           sock' \in [Fds -> Socks(Bytes)], SameSockets(sock, sock'), ClientsTyped(client'),
           UNCHANGED <<caPool, apaFd>>, RestTyped
    PROVE  IInv'
<1>t. /\ CType /\ DInv(el, sock, ca, caPool, apaFd, epPool)
      /\ Typed(el, sock, ca, caPool, apaFd, epPool)
    BY TypedState
<1> DEFINE a == ca[c].conn_apa
           f == ca[c].fd
           g == apaFd[a]
           l == FileEventDeleted(el, f, {AE_WRITABLE})
           e == EpOf(a)
<1>f. ca[c].fd \in Fds \union {-1} /\ a \in Apa \union {NoConn}
    BY <1>t, Refers, Zenon
<1>1. f \in Fds /\ a \in Apa /\ a # NoConn
    BY <1>f
<1>2. g # -1
    BY <1>t DEF DInv, Apart
<1>3. g \in Fds /\ sock[g].kind = "apa"
    BY <1>t, <1>1, <1>2 DEF DInv, ApaOwn, CType
<1>4. el' = FileEventDeleted(l, g, ReadWrite)
  <2>1. ApaFdOf(ca[c]) = g
    BY DEF ApaFdOf
  <2> HIDE DEF g
  <2>2. ~(g < 0)
    <3>1. g \in Nat
        BY <1>3, Descriptors
    <3> QED BY <3>1
  <2> QED BY <2>1, <2>2, Zenon DEF Released, DropEvents
<1>5. epPool' = [epPool EXCEPT ![e] = PoolReturned(epPool[e], a)]
    BY Zenon DEF ApaReturned
<1>m. {AE_WRITABLE} \in SUBSET ReadWrite /\ AE_READABLE \notin {AE_WRITABLE} /\ ReadWrite \in SUBSET ReadWrite
    BY DEF ReadWrite, AE_READABLE, AE_WRITABLE
<1>a. a = ca[c].conn_apa /\ g = apaFd[a] /\ l = FileEventDeleted(el, f, {AE_WRITABLE}) /\ e = EpOf(a)
    OBVIOUS
<1> HIDE DEF a, f, g, l, e
<1>r. InRange(el)
    BY <1>t DEF CType
<1>6. /\ DInv(l, sock, ca, caPool, apaFd, epPool) /\ InRange(l) /\ SameBut(el, l, {f})
      /\ Typed(l, sock, ca, caPool, apaFd, epPool)
    BY <1>t, <1>r, <1>a, <1>m, <1>1, DeleteKeeps, Zenon
<1>k. ~(Reliable /\ sock[g].kind = "client")
    BY <1>3
<1>7. /\ DInv(el', sock, ca, caPool, apaFd, epPool) /\ InRange(el') /\ SameBut(l, el', {g})
      /\ Typed(el', sock, ca, caPool, apaFd, epPool) /\ Masked(l, el', g, l.events[g].mask \ ReadWrite)
    BY <1>6, <1>3, <1>4, <1>k, <1>m, DeleteKeeps, Zenon
<1>8. el'.events[g].mask = {}
  <2>1. l.events[g].mask \in SUBSET ReadWrite
    BY <1>6, <1>3 DEF SameBut, AgentLoops, Loops, Slots
  <2> QED BY <1>7, <2>1 DEF Masked
<1>9. el' \in AgentLoops /\ el'.setsize = el.setsize
    BY <1>6, <1>7 DEF SameBut
<1>10. y \in Objects /\ y.fd = ca[c].fd /\ y.conn_apa = NoConn /\ GoodContents(y)
    BY DEF Becomes, GoodContents
<1>11. GivesBack(el', ca, ca', apaFd, epPool, epPool', c, y, e, a)
  <2>1. el'.events[apaFd[a]].mask = {}
    BY <1>8, <1>a
  <2> QED BY <1>1, <1>5, <1>10, <1>a, <2>1, Zenon DEF GivesBack
<1>12. DInv(el', sock, ca', caPool, apaFd, epPool') /\ epPool' \in [Ep -> Pools(NumApa, Apa)]
  <2>1. /\ Typed(el', sock, ca, caPool, apaFd, epPool) /\ DInv(el', sock, ca, caPool, apaFd, epPool)
        /\ y \in Objects
    BY <1>7, <1>10
  <2> QED BY <1>11, <2>1, ReturnKeeps
<1>13. ca' \in [Ca -> Objects]
    BY <1>t, <1>10 DEF CType
<1>14. /\ Typed(el', sock, ca', caPool, apaFd, epPool')
       /\ Typed(el', sock', ca', caPool', apaFd', epPool')
    BY <1>7, <1>12, <1>13 DEF Typed
<1>15. DInv(el', sock', ca', caPool, apaFd, epPool')
    BY <1>12, <1>14, SocketsKeep, Zenon
<1>16. DInv(el', sock', ca', caPool', apaFd', epPool')
    BY <1>15
<1> QED BY <1>t, <1>7, <1>9, <1>10, <1>14, <1>16, StepDone, Zenon

LEMMA WriteConsumerStep ==
    ASSUME IInv, NEW fd \in Fds, NEW c \in Ca, sock[fd].kind = "client",
           el.events[fd].clientData = c, write_to_consumer(fd, c)
    PROVE  IInv'
<1>t. /\ CType /\ DInv(el, sock, ca, caPool, apaFd, epPool)
      /\ Typed(el, sock, ca, caPool, apaFd, epPool)
    BY TypedState
<1>p. /\ pc \in {"running", "exited", "crashed"} /\ stop \in BOOLEAN /\ GoodContents(ca[c])
      /\ sock \in [Fds -> Socks(Bytes)] /\ remote \in Remotes /\ InRange(el) /\ ca \in [Ca -> Objects]
    BY <1>t DEF CType
<1>1. CASE ca[c].fd < 0
  <2>1. Ignore(fd)
    BY <1>1, Zenon DEF write_to_consumer
  <2>2. ~(Reliable /\ sock[fd].kind = "client")
    <3>1. Reliable => ca[c].fd = fd
        BY <1>t DEF DInv, Owned
    <3> QED BY <1>1, <3>1, Descriptors
  <2> QED BY <2>1, <2>2, IgnoreStep
<1>2. CASE ~(ca[c].fd < 0)
  <2> DEFINE rest == Suffix(ca[c].buf_out, ca[c].nwrite_out)
             written(n) == [ca EXCEPT ![c].nwrite_out = @ + n]
             answered(n) == [ca EXCEPT ![c].nwrite_out = @ + n, ![c].conn_apa = NoConn]
  <2>f. ca[c].fd # -1
    BY <1>2
  <2>c. \/ \E n \in Writes(rest) :
            /\ sock' = AfterWrite(sock, fd, n)
            /\ client' = DeliverToClient(fd, Prefix(rest, n))
            /\ \/ /\ el' = Released(el, ca[c]) /\ ca' = answered(n)
                  /\ epPool' = ApaReturned(ca[c].conn_apa)
               \/ ca' = written(n) /\ UNCHANGED <<el, epPool>>
            /\ UNCHANGED <<caPool, apaFd, num_reqs, pc, stop, remote>>
        \/ AbortAndReturn(c) /\ (MaySigpipe \/ UNCHANGED stop)
    BY <1>2, Zenon DEF write_to_consumer
  <2>1. CASE AbortAndReturn(c) /\ (MaySigpipe \/ UNCHANGED stop)
    <3>1. stop' \in BOOLEAN
        BY <1>p, <2>1, Zenon DEF MaySigpipe
    <3> QED BY <2>1, <2>f, <3>1, AbortAndReturnStep
  <2>2. ASSUME NEW n \in Writes(rest), sock' = AfterWrite(sock, fd, n),
               client' = DeliverToClient(fd, Prefix(rest, n)),
               \/ /\ el' = Released(el, ca[c]) /\ ca' = answered(n)
                  /\ epPool' = ApaReturned(ca[c].conn_apa)
               \/ ca' = written(n) /\ UNCHANGED <<el, epPool>>,
               UNCHANGED <<caPool, apaFd, num_reqs, pc, stop, remote>>
        PROVE  IInv'
    <3> DEFINE r == [ca[c] EXCEPT !.nwrite_out = ca[c].nwrite_out + n]
               y == [r EXCEPT !.conn_apa = NoConn]
    <3>1. rest \in Seq(Bytes)
        BY <1>p, WrittenContents
    <3>2. n \in 0 .. Len(rest)
        BY <2>2, <3>1, WriteTakes
    <3>3. Becomes(ca[c], r, ca[c].conn_apa)
        BY <1>p, <3>2, WrittenContents
    <3>4. written(n) = [ca EXCEPT ![c] = r] /\ answered(n) = [ca EXCEPT ![c] = y]
        BY <1>p
    <3>y. y = [r EXCEPT !.conn_apa = NoConn]
        OBVIOUS
    <3> HIDE DEF r, y, rest
    <3>5. Becomes(ca[c], y, NoConn)
        BY <3>3, <3>y, AnsweredContents, Zenon
    <3>6. sock' \in [Fds -> Socks(Bytes)] /\ SameSockets(sock, sock')
        BY <1>p, <2>2, WriteTurns
    <3>7. ClientsTyped(client')
      <4>1. Prefix(rest, n) \in Seq(Bytes)
        BY <3>1, <3>2, PrefixSuffix
      <4> QED BY <1>t, <2>2, <4>1, DeliveredType
    <3>8. RestTyped /\ UNCHANGED <<caPool, apaFd>>
        BY <1>p, <2>2 DEF RestTyped
    <3>9. CASE ca' = written(n) /\ UNCHANGED <<el, epPool>>
      <4>1. /\ ca' = [ca EXCEPT ![c] = r] /\ UNCHANGED <<caPool, apaFd, epPool>>
        BY <3>4, <3>8, <3>9
      <4>2. /\ InRange(el') /\ el'.setsize = el.setsize /\ Typed(el', sock, ca, caPool, apaFd, epPool)
            /\ DInv(el', sock, ca, caPool, apaFd, epPool)
        BY <1>t, <1>p, <3>9
      <4> QED BY <1>t, <3>3, <3>6, <3>7, <3>8, <4>1, <4>2, QuietStep, Zenon
    <3>10. CASE /\ el' = Released(el, ca[c]) /\ ca' = answered(n)
                /\ epPool' = ApaReturned(ca[c].conn_apa)
      <4>1. ca' = [ca EXCEPT ![c] = y]
        BY <3>4, <3>10, Zenon
      <4>2. CASE ca[c].conn_apa # NoConn
        BY <2>f, <3>5, <3>6, <3>7, <3>8, <3>10, <4>1, <4>2, AnsweredStep, Zenon
      <4>3. CASE ca[c].conn_apa = NoConn
        <5>1. Becomes(ca[c], y, ca[c].conn_apa) /\ UNCHANGED <<caPool, apaFd, epPool>>
          <6>1. epPool' = epPool
            BY <3>10, <4>3 DEF ApaReturned
          <6>2. Becomes(ca[c], y, ca[c].conn_apa)
            BY <3>5, <4>3, Zenon
          <6> QED BY <3>8, <6>1, <6>2
        <5> DEFINE f == ca[c].fd
        <5>2. f \in Fds
          <6>1. f \in Fds \union {-1}
            BY <1>t, Refers, Zenon
          <6> QED BY <2>f, <6>1
        <5>3. el' = FileEventDeleted(el, f, {AE_WRITABLE})
          <6>1. ApaFdOf(ca[c]) = -1 /\ -1 < 0
            BY <4>3 DEF ApaFdOf
          <6> QED BY <3>10, <6>1, Zenon DEF Released, DropEvents
        <5>4. {AE_WRITABLE} \in SUBSET ReadWrite /\ AE_READABLE \notin {AE_WRITABLE}
            BY DEF ReadWrite, AE_READABLE, AE_WRITABLE
        <5> HIDE DEF f
        <5>5. /\ InRange(el') /\ SameBut(el, el', {f}) /\ Typed(el', sock, ca, caPool, apaFd, epPool)
              /\ DInv(el', sock, ca, caPool, apaFd, epPool)
            BY <1>t, <1>p, <5>2, <5>3, <5>4, DeleteKeeps, Zenon
        <5>6. el'.setsize = el.setsize
            BY <5>5 DEF SameBut
        <5> QED BY <1>t, <3>6, <3>7, <3>8, <4>1, <5>1, <5>5, <5>6, QuietStep, Zenon
      <4> QED BY <4>2, <4>3
    <3> QED BY <2>2, <3>9, <3>10, Zenon
  <2> QED BY <2>c, <2>1, <2>2, Zenon
<1> QED BY <1>1, <1>2

-----------------------------------------------------------------------------
(* Which handler is called for which socket, and with which object. *)
LEMMA ConsumerCalls ==
    ASSUME IInv, NEW fd \in Fds, NEW ev \in ReadWrite, NEW proc, Calls(fd, ev, proc),
           proc \in {"read_from_consumer", "write_to_consumer"}
    PROVE  el.events[fd].clientData \in Ca /\ sock[fd].kind = "client"
<1>1. HandlersMatch(el, sock)
    BY DEF IInv, DInv
<1>2. /\ ev \in el.events[fd].mask
      /\ proc = IF ev = AE_READABLE THEN el.events[fd].rfileProc ELSE el.events[fd].wfileProc
    BY DEF Calls, Registered
<1>3. HandlersMatch(el, sock)!(fd)!2
    BY <1>1, <1>2 DEF HandlersMatch
<1>4. ev = AE_READABLE \/ ev = AE_WRITABLE
    BY DEF ReadWrite
<1> QED BY <1>2, <1>3, <1>4 DEF AE_READABLE, AE_WRITABLE

LEMMA RemoteCalls ==
    ASSUME IInv, NEW fd \in Fds, NEW ev \in ReadWrite, NEW proc, Calls(fd, ev, proc),
           proc \in {"read_from_remote_agent", "write_to_remote_agent"}
    PROVE  el.events[fd].clientData \in Ca /\ sock[fd].kind = "apa"
<1>1. HandlersMatch(el, sock)
    BY DEF IInv, DInv
<1>2. /\ ev \in el.events[fd].mask
      /\ proc = IF ev = AE_READABLE THEN el.events[fd].rfileProc ELSE el.events[fd].wfileProc
    BY DEF Calls, Registered
<1>3. HandlersMatch(el, sock)!(fd)!2
    BY <1>1, <1>2 DEF HandlersMatch
<1>4. ev = AE_READABLE \/ ev = AE_WRITABLE
    BY DEF ReadWrite
<1> QED BY <1>2, <1>3, <1>4 DEF AE_READABLE, AE_WRITABLE

LEMMA AgentStep ==
    ASSUME IInv, Agent
    PROVE  IInv'
<1>e. AE_READABLE \in ReadWrite /\ AE_WRITABLE \in ReadWrite
    BY DEF ReadWrite
<1>p. pc \in {"running", "exited", "crashed"} /\ stop \in BOOLEAN
    BY DEF IInv, CType
<1>1. CASE Loop /\ UNCHANGED ownVars
  <2>1. /\ UNCHANGED <<el, sock, client, ca, caPool, apaFd, epPool, remote, stop>>
        /\ pc' = pc \/ pc' = "exited"
    BY <1>1 DEF Loop, Poll, Exit, DispatchNothing, ownVars
  <2> QED BY <1>p, <2>1, NothingStep
<1>2. CASE DispatchAccept
    BY <1>2, AcceptStep DEF DispatchAccept
<1>3. CASE DispatchReadFromConsumer
  <2>1. PICK fd \in Fds : /\ Calls(fd, AE_READABLE, "read_from_consumer")
                          /\ read_from_consumer(fd, el.events[fd].clientData)
    BY <1>3 DEF DispatchReadFromConsumer
  <2> DEFINE c == el.events[fd].clientData
  <2>2. c \in Ca /\ sock[fd].kind = "client" /\ read_from_consumer(fd, c) /\ el.events[fd].clientData = c
    BY <1>e, <2>1, ConsumerCalls
  <2> HIDE DEF c
  <2> QED BY <2>2, ReadConsumerStep
<1>4. CASE DispatchWriteToRemoteAgent
  <2>1. PICK fd \in Fds : /\ Calls(fd, AE_WRITABLE, "write_to_remote_agent")
                          /\ write_to_remote_agent(fd, el.events[fd].clientData)
    BY <1>4 DEF DispatchWriteToRemoteAgent
  <2> DEFINE c == el.events[fd].clientData
  <2>2. c \in Ca /\ sock[fd].kind = "apa" /\ write_to_remote_agent(fd, c)
    BY <1>e, <2>1, RemoteCalls
  <2> HIDE DEF c
  <2> QED BY <2>2, WriteRemoteStep
<1>5. CASE DispatchReadFromRemoteAgent
  <2>1. PICK fd \in Fds : /\ Calls(fd, AE_READABLE, "read_from_remote_agent")
                          /\ read_from_remote_agent(fd, el.events[fd].clientData)
    BY <1>5 DEF DispatchReadFromRemoteAgent
  <2> DEFINE c == el.events[fd].clientData
  <2>2. c \in Ca /\ sock[fd].kind = "apa" /\ read_from_remote_agent(fd, c)
    BY <1>e, <2>1, RemoteCalls
  <2> HIDE DEF c
  <2> QED BY <2>2, ReadRemoteStep
<1>6. CASE DispatchWriteToConsumer
  <2>1. PICK fd \in Fds : /\ Calls(fd, AE_WRITABLE, "write_to_consumer")
                          /\ write_to_consumer(fd, el.events[fd].clientData)
    BY <1>6 DEF DispatchWriteToConsumer
  <2> DEFINE c == el.events[fd].clientData
  <2>2. c \in Ca /\ sock[fd].kind = "client" /\ write_to_consumer(fd, c) /\ el.events[fd].clientData = c
    BY <1>e, <2>1, ConsumerCalls
  <2> HIDE DEF c
  <2> QED BY <2>2, WriteConsumerStep
<1> QED BY <1>1, <1>2, <1>3, <1>4, <1>5, <1>6 DEF Agent

-----------------------------------------------------------------------------
(* The consumers and the provider agents *)

(* Sockets, consumers and provider agents move, the agent does not. *)
LEMMA PeersStep ==
    ASSUME IInv, sock' \in [Fds -> Socks(Bytes)], SameSockets(sock, sock'), ClientsTyped(client'),
           remote' \in Remotes, UNCHANGED <<el, ca, caPool, apaFd, epPool, pc, stop>>
    PROVE  IInv'
<1>t. /\ CType /\ DInv(el, sock, ca, caPool, apaFd, epPool)
      /\ Typed(el, sock, ca, caPool, apaFd, epPool)
    BY TypedState
<1>1. (\A c \in Ca : GoodContents(ca[c]))'
    BY <1>t DEF CType, GoodContents
<1>2. CType'
    BY <1>t, <1>1, Zenon DEF CType, ClientsTyped
<1>3. DInv(el, sock', ca, caPool, apaFd, epPool)
    BY <1>t, SocketsKeep, Zenon
<1>4. DInv(el', sock', ca', caPool', apaFd', epPool')
    BY <1>3
<1> QED BY <1>2, <1>4 DEF IInv

LEMMA ClientStepKeeps ==
    ASSUME IInv, ClientStep, UNCHANGED ownVars
    PROVE  IInv'
<1>1. /\ sock \in [Fds -> Socks(Bytes)] /\ client \in [Clients -> ClientTypes(Bytes)]
      /\ remote \in Remotes /\ \A k \in Clients : client[k].sent > 0 => client[k].reqs >= 1
    BY DEF IInv, CType, ClientType
<1>n. ReqLen \in Nat \ {0} /\ RespLen \in Nat \ {0} /\ 1 \in {0, 1}
    BY LoopAssumption
<1>2. \A k \in Clients, q \in 1 .. Requests, i \in 1 .. ReqLen : <<k, q, i>> \in Bytes
  <2>1. \A i \in 1 .. ReqLen : i \in 1 .. ReqLen + RespLen
    BY <1>n
  <2> QED BY <2>1 DEF Bytes
<1>3. Cuts \in SUBSET (1 .. ReqLen)
    BY <1>n DEF Cuts
<1>5. Connect \/ \E k \in Clients : SendRequest(k, Cuts) \/ Disconnect(k) \/ Reset(k)
    BY DEF ClientStep
<1>6. /\ sock' \in [Fds -> Socks(Bytes)] /\ SameSockets(sock, sock')
      /\ client' \in [Clients -> ClientTypes(Bytes)]
      /\ \A k \in Clients : client'[k].sent > 0 => client'[k].reqs >= 1
      /\ UNCHANGED <<el, batch, cur, pc, stop>>
    BY <1>1, <1>n, <1>2, <1>3, <1>5, ClientsMove
<1>7. UNCHANGED <<ca, caPool, apaFd, epPool, remote>>
    BY DEF ownVars
<1>8. ClientsTyped(client') /\ remote' \in Remotes
    BY <1>1, <1>6, <1>7 DEF ClientsTyped, ClientType
<1> QED BY <1>6, <1>7, <1>8, PeersStep

(* What arrives on a connection to a provider agent. *)
LEMMA RemoteStepKeeps ==
    ASSUME IInv, NEW a \in Apa, RemoteAnswer(a) \/ RemoteContinue(a) \/ RemoteClose(a)
    PROVE  IInv'
<1>1. /\ sock \in [Fds -> Socks(Bytes)] /\ ClientsTyped(client) /\ remote \in Remotes
      /\ apaFd[a] \in Fds \union {-1}
    BY DEF IInv, CType, ClientsTyped
<1>u. UNCHANGED <<el, ca, caPool, apaFd, epPool, pc, stop, client>>
    BY DEF RemoteAnswer, RemoteContinue, RemoteClose, EnvVars
<1>v. ClientsTyped(client')
    BY <1>1, <1>u
<1>2. apaFd[a] \in Fds
  <2>1. RemoteAlive(a)
    BY Zenon DEF RemoteAnswer, RemoteContinue, RemoteClose
  <2> QED BY <1>1, <2>1 DEF RemoteAlive
<1> DEFINE fd == apaFd[a]
           q == remote[a].inq
<1>q. q \in Seq(Bytes) /\ remote[a].out \in Seq(Bytes) /\ Len(q) \in Nat
    BY <1>1 DEF Remotes
<1>f. fd \in Fds
    BY <1>2
<1>3. CASE RemoteAnswer(a)
  <2> DEFINE tok(i) == <<q[1][1], q[1][2], i>>
             out == [i \in 1 .. RespLen |-> tok(i)]
  <2>1. PICK m \in IF "splitresp" \in Faults THEN 1 .. RespLen ELSE {RespLen} :
           /\ sock' = [sock EXCEPT ![fd].inq = @ \o Prefix(out, m)]
           /\ remote' = [remote EXCEPT ![a] = [inq |-> Suffix(q, ReqLen), out |-> Suffix(out, m)]]
    BY <1>3, Zenon DEF RemoteAnswer
  <2>2. Len(q) >= ReqLen
    BY <1>3 DEF RemoteAnswer, IsRequest
  <2>n. ReqLen \in Nat \ {0} /\ RespLen \in Nat \ {0}
    BY LoopAssumption
  <2>3. out \in Seq(Bytes) /\ Len(out) = RespLen
    <3>1. q[1] \in Bytes
        BY <1>q, <2>2, <2>n
    <3>2. q[1][1] \in Clients /\ q[1][2] \in 1 .. Requests
        BY <3>1 DEF Bytes
    <3>3. \A i \in 1 .. RespLen : tok(i) \in Bytes
      <4> SUFFICES ASSUME NEW i \in 1 .. RespLen PROVE tok(i) \in Bytes
        OBVIOUS
      <4>1. i \in 1 .. ReqLen + RespLen
        BY <2>n
      <4> QED BY <3>2, <4>1 DEF Bytes
    <3> HIDE DEF tok
    <3> QED BY <2>n, <3>3
  <2> HIDE DEF out
  <2>4. m \in 0 .. Len(out) /\ ReqLen \in 0 .. Len(q)
    BY <1>q, <2>1, <2>2, <2>3, <2>n
  <2>5. /\ Prefix(out, m) \in Seq(Bytes) /\ Suffix(out, m) \in Seq(Bytes)
        /\ Suffix(q, ReqLen) \in Seq(Bytes)
    BY <1>q, <2>3, <2>4, PrefixSuffix
  <2>6. remote' \in Remotes
    BY <1>1, <2>1, <2>5 DEF Remotes
  <2>7. sock' \in [Fds -> Socks(Bytes)] /\ SameSockets(sock, sock')
    BY <1>1, <1>f, <2>1, <2>5, Arrives
  <2> QED BY <1>u, <1>v, <2>6, <2>7, PeersStep
<1>4. CASE RemoteContinue(a)
  <2>1. sock' = [sock EXCEPT ![fd].inq = @ \o remote[a].out]
    BY <1>4 DEF RemoteContinue
  <2>2. sock' \in [Fds -> Socks(Bytes)] /\ SameSockets(sock, sock')
    BY <1>1, <1>f, <1>q, <2>1, Arrives
  <2>3. remote' = [remote EXCEPT ![a].out = <<>>]
    BY <1>4 DEF RemoteContinue
  <2>4. remote' \in Remotes
    <3>1. <<>> \in Seq(Bytes)
        BY EmptySeq
    <3> DEFINE x == [remote[a] EXCEPT !.out = <<>>]
    <3>2. x \in [inq : Seq(Bytes), out : Seq(Bytes)]
        BY <1>1, <3>1 DEF Remotes
    <3>3. remote' = [remote EXCEPT ![a] = x]
        BY <2>3, Zenon
    <3> HIDE DEF x
    <3> QED BY <1>1, <3>2, <3>3 DEF Remotes
  <2> QED BY <1>u, <1>v, <2>2, <2>4, PeersStep
<1>5. CASE RemoteClose(a)
  <2>1. sock' = [sock EXCEPT ![fd].st = "eof"] /\ remote' \in Remotes
    BY <1>1, <1>5 DEF RemoteClose
  <2>2. sock' \in [Fds -> Socks(Bytes)] /\ SameSockets(sock, sock')
    BY <1>1, <1>f, <2>1, Turns
  <2> QED BY <1>u, <1>v, <2>1, <2>2, PeersStep
<1> QED BY <1>3, <1>4, <1>5

LEMMA StepOK == IInv /\ [Next]_vars => IInv'
<1> SUFFICES ASSUME IInv, [Next]_vars PROVE IInv'
    OBVIOUS
<1>1. CASE Agent
    BY <1>1, AgentStep
<1>2. CASE ClientStep /\ UNCHANGED ownVars
    BY <1>2, ClientStepKeeps
<1>3. CASE \E a \in Apa : RemoteAnswer(a) \/ RemoteContinue(a) \/ RemoteClose(a)
    BY <1>3, RemoteStepKeeps
<1>4. CASE UNCHANGED vars
  <2>1. pc \in {"running", "exited", "crashed"} /\ stop \in BOOLEAN
    BY DEF IInv, CType
  <2>2. UNCHANGED <<el, sock, client, ca, caPool, apaFd, epPool, remote, pc, stop>>
    BY <1>4 DEF vars, loopVars, ownVars
  <2> QED BY <2>1, <2>2, NothingStep
<1> QED BY <1>1, <1>2, <1>3, <1>4 DEF Next, Environment

-----------------------------------------------------------------------------
(* The inductive invariant: whatever the consumers, the provider agents    *)
(* and epoll_ctl do, the events of the loop, the connection_ca objects,    *)
(* the connection_apa objects and all the pools stay in the relations of   *)
(* DInv.                                                                   *)
THEOREM ConsumerInvariant == Spec => []IInv
BY InitOK, StepOK, PTL DEF Spec

(* The types of the objects' fields, and the buffer positions: no handler  *)
(* of consumer.c reads or writes past the end of a connection_ca buffer.   *)
THEOREM ConsumerTypes == Spec => []TypeOK
<1>1. IInv => TypeOK
  <2> SUFFICES ASSUME IInv PROVE TypeOK
    OBVIOUS
  <2>1. ASSUME NEW c \in Ca
        PROVE  /\ ca[c].fd \in Fds \union {-1} /\ ca[c].conn_apa \in Apa \union {NoConn}
               /\ ca[c].buf_in \in Seq(Bytes) /\ ca[c].buf_out \in Seq(Bytes)
               /\ 0 <= ca[c].nwrite_in /\ ca[c].nwrite_in <= Len(ca[c].buf_in) /\ Len(ca[c].buf_in) <= BufIn
               /\ 0 <= ca[c].nwrite_out /\ ca[c].nwrite_out <= Len(ca[c].buf_out) /\ Len(ca[c].buf_out) <= BufOut
    <3> DEFINE x == ca[c]
    <3>1. GoodContents(x)
        BY DEF IInv, CType
    <3> HIDE DEF x
    <3>2. /\ x \in Objects /\ x.nwrite_in <= Len(x.buf_in) /\ Len(x.buf_in) <= BufIn
          /\ x.nwrite_out <= Len(x.buf_out) /\ Len(x.buf_out) <= BufOut
        BY <3>1, Zenon DEF GoodContents
    <3>3. /\ x.fd \in Fds \union {-1} /\ x.conn_apa \in Apa \union {NoConn}
          /\ x.buf_in \in Seq(Bytes) /\ x.buf_out \in Seq(Bytes)
          /\ x.nwrite_in \in Nat /\ x.nwrite_out \in Nat
        BY <3>2 DEF Objects
    <3>4. 0 <= x.nwrite_in /\ 0 <= x.nwrite_out
        BY <3>3
    <3> QED BY <3>2, <3>3, <3>4, Zenon DEF x
  <2>2. apaFd \in [Apa -> Fds \union {-1}] /\ pc \in {"running", "exited", "crashed"} /\ stop \in BOOLEAN
    BY DEF IInv, CType
  <2> QED BY <2>1, <2>2, Zenon DEF TypeOK
<1> QED BY <1>1, ConsumerInvariant, PTL

(* Every registered event is one of an open socket, and no two consumer    *)
(* connections of consumer.c share a connection to a provider agent.       *)
THEOREM ConsumerDescriptors == Spec => []NoStrayDescriptor
<1>1. IInv => NoStrayDescriptor
  <2> SUFFICES ASSUME IInv PROVE NoStrayDescriptor
    OBVIOUS
  <2>1. HandlersMatch(el, sock) /\ Apart(ca, apaFd)
    BY DEF IInv, DInv
  <2>2. ASSUME NEW fd \in Fds, el.events[fd].mask # {} PROVE sock[fd].kind # "free"
    <3>1. HandlersMatch(el, sock)!(fd)!2
        BY <2>1, <2>2 DEF HandlersMatch
    <3> QED BY <2>2, <3>1
  <2>3. ASSUME NEW c \in Ca, NEW d \in Ca, c # d, ca[c].conn_apa # NoConn
        PROVE  ca[c].conn_apa # ca[d].conn_apa
    BY <2>1, <2>3 DEF Apart
  <2> QED BY <2>2, <2>3 DEF NoStrayDescriptor
<1> QED BY <1>1, ConsumerInvariant, PTL

(* The request that takes a connection_apa from the pool of an endpoint    *)
(* has it for itself: the pooled ones are open, without events, in the     *)
(* pool of their own endpoint once and referred to by no connection_ca.    *)
THEOREM PooledAreIdle == Spec => []PooledConnectionIdle
<1>1. IInv => PooledConnectionIdle
  <2> SUFFICES ASSUME IInv, NEW e \in Ep
               PROVE  PooledConnectionIdle!(e)
    BY DEF PooledConnectionIdle
  <2> DEFINE stack == epPool[e].alloc_stack
  <2>t. /\ CType /\ DInv(el, sock, ca, caPool, apaFd, epPool)
        /\ Typed(el, sock, ca, caPool, apaFd, epPool)
    BY TypedState
  <2>1. \A i \in DOMAIN stack : /\ EpOf(stack[i]) = e /\ IdleApa(el, ca, apaFd, stack[i])
                                /\ \A j \in DOMAIN stack : stack[j] = stack[i] => j = i
    BY <2>t, Zenon DEF DInv, Idle
  <2>2. Distinct(stack)
    BY <2>1 DEF Distinct
  <2>3. ASSUME NEW i \in DOMAIN stack
        PROVE  LET a == stack[i]
               IN  /\ EpOf(a) = e /\ apaFd[a] >= 0
                   /\ sock[apaFd[a]].kind = "apa" /\ sock[apaFd[a]].peer = a
                   /\ el.events[apaFd[a]].mask = {}
                   /\ \A c \in Ca : ca[c].conn_apa # a
    <3> DEFINE a == stack[i]
    <3>1. a \in Apa
        BY <2>t, Refers, Zenon
    <3>2. EpOf(a) = e /\ IdleApa(el, ca, apaFd, a)
        BY <2>1
    <3> HIDE DEF a
    <3>3. apaFd[a] # -1 /\ apaFd[a] \in Fds \union {-1}
        BY <2>t, <3>1, <3>2 DEF IdleApa, CType
    <3>4. apaFd[a] >= 0
      <4>1. apaFd[a] \in Nat
        BY <3>3, Descriptors
      <4> QED BY <4>1
    <3>5. sock[apaFd[a]].kind = "apa" /\ sock[apaFd[a]].peer = a
        BY <2>t, <3>1, <3>3 DEF DInv, ApaOwn
    <3> QED BY <3>2, <3>4, <3>5 DEF IdleApa, a
  <2> QED BY <2>2, <2>3, Zenon
<1> QED BY <1>1, ConsumerInvariant, PTL

(* A pool of an endpoint is exhausted when all its connections are out. *)
LEMMA ExhaustedPools ==
    ASSUME IInv, NEW e \in Ep
    PROVE  /\ epPool[e].outstanding \in Nat /\ epPool[e].outstanding <= NumApa
           /\ PoolExhausted(epPool[e]) <=> epPool[e].outstanding = NumApa
<1> DEFINE q == epPool[e]
<1>1. q.outstanding \in Nat
    BY OutstandingType
<1>2. q \in Pools(NumApa, Apa) /\ q.allocated = NumApa /\ q.outstanding + Len(q.alloc_stack) = NumApa
    BY DEF IInv, CType, DInv, Counts
<1> HIDE DEF q
<1>3. q.max_buckets = NumApa /\ q.alloc_stack \in Seq(Apa)
    BY <1>2 DEF Pools
<1>4. Len(q.alloc_stack) \in Nat /\ (q.alloc_stack = <<>> <=> Len(q.alloc_stack) = 0)
    BY <1>3, EmptySeq, LenProperties
<1>5. ~PoolMayGrow(q)
    BY <1>2, <1>3, Numbers DEF PoolMayGrow
<1>6. PoolExhausted(q) <=> Len(q.alloc_stack) = 0
    BY <1>4, <1>5 DEF PoolExhausted, PoolHasElement
<1>n. NumApa \in Nat
    BY Numbers
<1>7. q.outstanding <= NumApa /\ (Len(q.alloc_stack) = 0 <=> q.outstanding = NumApa)
  <2> DEFINE x == q.outstanding
             n == Len(q.alloc_stack)
  <2>1. x \in Nat /\ n \in Nat /\ x + n = NumApa
    BY <1>1, <1>2, <1>4
  <2> HIDE DEF x, n
  <2>2. x <= NumApa /\ (n = 0 <=> x = NumApa)
    BY <1>n, <2>1
  <2> QED BY <2>2 DEF x, n
<1> QED BY <1>1, <1>6, <1>7 DEF q

(* get_endpoint_min_latency sends no request to an exhausted endpoint while *)
(* another one has a connection left, provided that LOAD_PROTECT_THRESHOLD  *)
(* (100) is not above NUM_CONN_PER_PROVIDER (512).                          *)
THEOREM BalancerFindsConnection == ASSUME Protect <= NumApa PROVE Spec => []NoNeedlessAbort
<1>1. IInv => NoNeedlessAbort
  <2> SUFFICES ASSUME IInv, NEW e \in Choices, PoolExhausted(epPool[e]), NEW d \in Ep
               PROVE  PoolExhausted(epPool[d])
    BY DEF NoNeedlessAbort
  <2>1. /\ e \in Ep
        /\ \/ \A g \in Ep : epPool[e].outstanding <= epPool[g].outstanding
           \/ epPool[e].outstanding < Protect
    BY ChoicesAre
  <2>2. epPool[e].outstanding = NumApa
    BY <2>1, ExhaustedPools
  <2>3. NumApa \in Nat /\ Protect \in Nat
    BY Numbers, ConsumerAssumption
  <2>4. epPool[e].outstanding <= epPool[d].outstanding
    BY <2>1, <2>2, <2>3
  <2>5. epPool[d].outstanding \in Nat /\ epPool[d].outstanding <= NumApa
    BY ExhaustedPools
  <2>6. epPool[d].outstanding = NumApa
    BY <2>2, <2>3, <2>4, <2>5
  <2> QED BY <2>6, ExhaustedPools
<1> QED BY <1>1, ConsumerInvariant, PTL

(* While epoll_ctl does not fail and the connections of consumer_init are  *)
(* within EV_MAX_SET_SIZE (3 * 512 of 2048), every accepted socket is read *)
(* for its only connection_ca, and connection_ca_pool holds each unused    *)
(* object once: no handler aborts one connection twice.                    *)
THEOREM OwnershipHolds == ASSUME Reliable PROVE Spec => []ConnectionOwnership
<1>1. IInv => ConnectionOwnership
  <2> SUFFICES ASSUME IInv PROVE ConnectionOwnership
    OBVIOUS
  <2>1. DInv(el, sock, ca, caPool, apaFd, epPool)
    BY DEF IInv
  <2>2. /\ \A c \in Ca : ca[c].fd = -1 => \E i \in DOMAIN caPool.alloc_stack : caPool.alloc_stack[i] = c
        /\ \A i, j \in DOMAIN caPool.alloc_stack :
            /\ ca[caPool.alloc_stack[i]].fd = -1
            /\ caPool.alloc_stack[i] = caPool.alloc_stack[j] => i = j
        /\ \A fd \in Fds : sock[fd].kind = "client" =>
            /\ AE_READABLE \in el.events[fd].mask
            /\ el.events[fd].clientData \in Ca /\ ca[el.events[fd].clientData].fd = fd
    BY <2>1, Zenon DEF DInv, Owned
  <2>3. Distinct(caPool.alloc_stack)
    BY <2>2 DEF Distinct
  <2>4. \A c \in Ca : InPool(c) <=> ca[c].fd = -1
    BY <2>2 DEF InPool
  <2>5. ASSUME NEW fd \in Fds, sock[fd].kind = "client"
        PROVE  \E c \in Ca :
                 /\ \A d \in Ca : ca[d].fd = fd <=> d = c
                 /\ Registered(fd, AE_READABLE) /\ el.events[fd].clientData = c
                 /\ el.events[fd].rfileProc = "read_from_consumer"
    <3> DEFINE c == el.events[fd].clientData
    <3>1. c \in Ca /\ ca[c].fd = fd /\ fd # -1 /\ Registered(fd, AE_READABLE)
        BY <2>2, <2>5, Descriptors DEF Registered
    <3>2. \A d \in Ca : ca[d].fd = fd => d = c
        BY <2>1, <3>1 DEF DInv, ObjectsOwn
    <3>3. HandlersMatch(el, sock)!(fd)!2
        BY <2>1, <3>1 DEF DInv, HandlersMatch, Registered
    <3>4. el.events[fd].rfileProc = "read_from_consumer"
        BY <2>5, <3>1, <3>3 DEF Registered
    <3>5. \A d \in Ca : ca[d].fd = fd <=> d = c
        BY <3>1, <3>2
    <3>6. el.events[fd].clientData = c
        OBVIOUS
    <3> HIDE DEF c
    <3> QED BY <3>1, <3>4, <3>5, <3>6
  <2> QED BY <2>3, <2>4, <2>5 DEF ConnectionOwnership
<1> QED BY <1>1, ConsumerInvariant, PTL

(* Under the same hypothesis the counter `outstanding' of                  *)
(* connection_ca_pool is the number of objects in use, and the pool never  *)
(* grows.                                                                  *)
THEOREM OutstandingHolds == ASSUME Reliable PROVE Spec => []OutstandingInUse
<1>1. IInv => OutstandingInUse
  <2> SUFFICES ASSUME IInv PROVE OutstandingInUse
    OBVIOUS
  <2>1. Owned(el, sock, ca, caPool)
    BY DEF IInv, DInv
  <2> QED BY <2>1, Zenon DEF Owned, OutstandingInUse
<1> QED BY <1>1, ConsumerInvariant, PTL

-----------------------------------------------------------------------------
(* Forwarding among well-behaved peers.  Nobody closes before the answer,  *)
(* requests come in pieces and writes take what they take; the buffers     *)
(* have room beyond a whole message, since a read into a full buffer looks *)
(* like the end of the connection.                                         *)
WellBehaved ==
    /\ Faults \subseteq {"splithead", "splitreq", "shortwrite"}
    /\ NumEp * NumApa < SetSize
    /\ ReqLen < BufIn /\ RespLen < BufOut

(* The stages of the conversation between a consumer and a provider agent: *)
(* of the object r, the consumer's socket s, the consumer x, what the      *)
(* connection to the provider agent holds for the agent (aq) and what it   *)
(* holds for the provider agent (rq).                                      *)
Resting(r, s, x) ==
    /\ r.conn_apa = NoConn /\ r.buf_in = <<>> /\ s.inq = <<>> /\ x.sent = 0
    /\ Len(x.got) = x.reqs * RespLen
Asking(r, s, x) ==
    /\ r.conn_apa = NoConn /\ r.buf_in = <<>> /\ Unanswered(s, x, 0)
    /\ s.inq = Run(s.peer, x.reqs, 0, Sent(x))
Passing(r, s, x, aq, rq) ==
    LET n == Len(r.buf_in)
    IN  /\ r.conn_apa # NoConn /\ r.buf_out = <<>> /\ Unanswered(s, x, 0)
        /\ n <= Sent(x) /\ r.buf_in = Run(s.peer, x.reqs, 0, n)
        /\ s.inq = Run(s.peer, x.reqs, n, Sent(x))
        /\ rq = Run(s.peer, x.reqs, 0, r.nwrite_in) /\ aq = <<>>
Replied(r, s, x, aq, rq) ==
    /\ r.conn_apa # NoConn /\ r.buf_out = <<>> /\ Unanswered(s, x, 0)
    /\ x.sent = 0 /\ s.inq = <<>> /\ r.nwrite_in = Len(r.buf_in) /\ Len(r.buf_in) <= ReqLen
    /\ rq = <<>> /\ aq = Run(s.peer, x.reqs, 0, RespLen)
Answering(r, s, x, aq, rq) ==
    /\ r.conn_apa # NoConn /\ r.buf_in = <<>> /\ Unanswered(s, x, r.nwrite_out)
    /\ x.sent = 0 /\ s.inq = <<>> /\ rq = <<>> /\ aq = <<>>
    /\ r.buf_out = Run(s.peer, x.reqs, 0, RespLen) /\ r.nwrite_out < RespLen
Talks(r, s, x, mask, aq, rq) ==
    \/ Answering(r, s, x, aq, rq)
    \/ /\ AE_WRITABLE \notin mask
       /\ \/ Resting(r, s, x) \/ Asking(r, s, x)
          \/ Passing(r, s, x, aq, rq) \/ Replied(r, s, x, aq, rq)

Heard(a) == IF a = NoConn THEN <<>> ELSE sock[a].inq
Told(a) == IF a = NoConn THEN <<>> ELSE remote[a].inq
Conversation(c) ==
    LET r == ca[c]
        s == sock[r.fd]
    IN  Talks(r, s, client[s.peer], el.events[r.fd].mask, Heard(r.conn_apa), Told(r.conn_apa))

(* Nothing is under way on a connection that no object refers to. *)
QuietApa(a) ==
    /\ apaFd[a] = a /\ sock[a].st = "open" /\ remote[a].out = <<>>
    /\ (\A c \in Ca : ca[c].conn_apa # a) => sock[a].inq = <<>> /\ remote[a].inq = <<>>
    /\ el.events[a].mask # {} => ca[el.events[a].clientData].conn_apa = a
Quiet ==
    /\ \A fd \in Fds : sock[fd].kind = "apa" => fd \in Apa
    /\ \A a \in Apa : QuietApa(a)

FInv ==
    /\ ClientSockets /\ ClientsKnown /\ Quiet
    /\ \A c \in Ca : ca[c].fd # -1 => Conversation(c)
    /\ NoLeak /\ NoCrash

LEMMA WellBehavedIs ==
    ASSUME WellBehaved
    PROVE  /\ Reliable /\ ReqLen < BufIn /\ RespLen < BufOut
           /\ \A x \in {"midclose", "reset", "peerclose", "splitresp", "slow", "epoll"} : x \notin Faults
BY DEF WellBehaved, Reliable

(* The owner of a client's socket, and what it refers to. *)
LEMMA Owners ==
    ASSUME WellBehaved, IInv, FInv
    PROVE  /\ \A c \in Ca : ca[c].fd # -1 =>
                /\ ca[c].fd \in Fds /\ sock[ca[c].fd].kind = "client"
                /\ el.events[ca[c].fd].clientData = c /\ AE_READABLE \in el.events[ca[c].fd].mask
                /\ sock[ca[c].fd].peer \in Clients /\ client[sock[ca[c].fd].peer].st = "connected"
                /\ Conversation(c)
           /\ \A fd \in Fds : sock[fd].kind = "client" =>
                el.events[fd].clientData \in Ca /\ ca[el.events[fd].clientData].fd = fd
           /\ \A c \in Ca : ca[c].conn_apa # NoConn =>
                /\ ca[c].conn_apa \in Apa /\ ca[c].fd # -1
                /\ \A d \in Ca : ca[d].conn_apa = ca[c].conn_apa => d = c
           /\ \A a \in Apa : a \in Fds /\ sock[a].kind = "apa" /\ sock[a].peer = a /\ QuietApa(a)
<1>t. /\ CType /\ DInv(el, sock, ca, caPool, apaFd, epPool)
      /\ Typed(el, sock, ca, caPool, apaFd, epPool)
    BY TypedState
<1>r. Reliable
    BY WellBehavedIs
<1>1. \A c \in Ca : ca[c].fd \in Fds \union {-1} /\ ca[c].conn_apa \in Apa \union {NoConn}
    BY <1>t, Refers
<1>2. \A fd \in Fds : sock[fd].kind = "client" =>
        /\ AE_READABLE \in el.events[fd].mask
        /\ el.events[fd].clientData \in Ca /\ ca[el.events[fd].clientData].fd = fd
    BY <1>t, <1>r DEF DInv, Owned
<1>3. \A c \in Ca : ca[c].fd # -1 => sock[ca[c].fd].kind = "client" /\ el.events[ca[c].fd].clientData = c
    BY <1>t DEF DInv, ObjectsOwn
<1>4. \A c \in Ca : ca[c].fd # -1 => Conversation(c)
    BY DEF FInv
<1>5. \A fd \in Fds : sock[fd].kind = "client" =>
        sock[fd].peer \in Clients /\ client[sock[fd].peer].st = "connected"
    BY DEF FInv, ClientSockets
<1>6. \A c \in Ca : ca[c].conn_apa # NoConn =>
                /\ ca[c].fd # -1 /\ \A d \in Ca : ca[d].conn_apa = ca[c].conn_apa => d = c
    BY <1>t DEF DInv, Apart
<1>7. \A a \in Apa : a \in Fds /\ sock[a].kind = "apa" /\ sock[a].peer = a /\ QuietApa(a)
  <2> SUFFICES ASSUME NEW a \in Apa PROVE a \in Fds /\ sock[a].kind = "apa" /\ sock[a].peer = a /\ QuietApa(a)
    OBVIOUS
  <2>1. QuietApa(a) /\ apaFd[a] = a
    BY DEF FInv, Quiet, QuietApa
  <2>2. a # -1 /\ apaFd[a] \in Fds \union {-1}
    BY <1>t, Numbers DEF CType
  <2> QED BY <1>t, <2>1, <2>2 DEF DInv, ApaOwn
<1> QED BY <1>1, <1>2, <1>3, <1>4, <1>5, <1>6, <1>7

-----------------------------------------------------------------------------
(* Steps of one conversation *)

LEMMA SameTalk ==
    ASSUME NEW d \in Ca, Conversation(d), ca'[d] = ca[d], sock'[ca[d].fd] = sock[ca[d].fd],
           client'[sock[ca[d].fd].peer] = client[sock[ca[d].fd].peer],
           el'.events[ca[d].fd] = el.events[ca[d].fd],
           ca[d].conn_apa # NoConn => /\ sock'[ca[d].conn_apa] = sock[ca[d].conn_apa]
                                      /\ remote'[ca[d].conn_apa] = remote[ca[d].conn_apa]
    PROVE  Conversation(d)'
<1>1. Heard(ca[d].conn_apa)' = Heard(ca[d].conn_apa) /\ Told(ca[d].conn_apa)' = Told(ca[d].conn_apa)
    BY DEF Heard, Told
<1> QED BY <1>1 DEF Conversation

(* Nothing changes outside the conversation of c, its client and a. *)
Local(c, a) ==
    LET f == ca[c].fd
        k == sock[f].peer
        fds == {f} \union ({a} \cap Apa)
    IN  /\ \A d \in Ca \ {c} : ca'[d] = ca[d]
        /\ ca'[c].fd = f /\ a \in {ca[c].conn_apa, ca'[c].conn_apa}
        /\ {ca[c].conn_apa, ca'[c].conn_apa} \subseteq {a, NoConn}
        /\ \A g \in Fds \ fds : sock'[g] = sock[g] /\ el'.events[g] = el.events[g]
        /\ \A b \in Apa \ {a} : remote'[b] = remote[b]
        /\ \A j \in Clients \ {k} : client'[j] = client[j]
        /\ client'[k].st = client[k].st
        /\ SameSockets(sock, sock') /\ UNCHANGED <<apaFd, pc>>

LEMMA OthersTalk ==
    ASSUME WellBehaved, IInv, IInv', FInv, NEW c \in Ca, ca[c].fd # -1, NEW a, Local(c, a),
           NEW d \in Ca \ {c}, ca'[d].fd # -1
    PROVE  Conversation(d)'
<1> DEFINE f == ca[c].fd
           fds == {f} \union ({a} \cap Apa)
           g == ca[d].fd
           b == ca[d].conn_apa
<1>1. ca'[d] = ca[d] /\ g # -1
    BY DEF Local
<1>2. /\ g \in Fds /\ sock[g].kind = "client" /\ el.events[g].clientData = d /\ sock[g].peer \in Clients
      /\ Conversation(d)
      /\ f \in Fds /\ sock[f].kind = "client" /\ el.events[f].clientData = c
    BY <1>1, Owners
<1>3. g # f /\ sock[g].peer # sock[f].peer
    BY <1>2 DEF FInv, ClientSockets
<1>4. \A x \in Apa : x \in Fds /\ sock[x].kind = "apa"
    BY Owners
<1>5. g \notin fds
    BY <1>2, <1>3, <1>4
<1>6. b # NoConn => b \in Apa /\ b # a
  <2> SUFFICES ASSUME b # NoConn PROVE b \in Apa /\ b # a
    OBVIOUS
  <2>1. b \in Apa /\ ca[c].conn_apa # b
    BY Owners
  <2>2. ca'[c].conn_apa # b
    <3>1. DInv(el, sock, ca, caPool, apaFd, epPool)'
        BY DEF IInv
    <3>2. \A x \in Ca : ca'[x].conn_apa = ca'[d].conn_apa => x = d
        BY <1>1, <3>1 DEF DInv, Apart
    <3> QED BY <1>1, <3>2
  <2> QED BY <2>1, <2>2 DEF Local
<1>7. /\ sock'[g] = sock[g] /\ el'.events[g] = el.events[g] /\ client'[sock[g].peer] = client[sock[g].peer]
      /\ b # NoConn => sock'[b] = sock[b] /\ remote'[b] = remote[b]
    BY <1>2, <1>3, <1>4, <1>5, <1>6 DEF Local
<1> QED BY <1>1, <1>2, <1>7, SameTalk

LEMMA OthersQuiet ==
    ASSUME WellBehaved, IInv, IInv', FInv, NEW c \in Ca, ca[c].fd # -1, NEW a, Local(c, a),
           a # NoConn => QuietApa(a)'
    PROVE  Quiet'
<1>1. \A fd \in Fds : sock'[fd].kind = "apa" => fd \in Apa
    BY DEF Local, SameSockets, FInv, Quiet
<1>2. ASSUME NEW b \in Apa, b # a PROVE QuietApa(b)'
  <2>1. b \in Fds /\ sock[b].kind = "apa" /\ QuietApa(b) /\ sock[ca[c].fd].kind = "client"
    BY Owners
  <2>2. sock'[b] = sock[b] /\ el'.events[b] = el.events[b] /\ remote'[b] = remote[b] /\ apaFd'[b] = apaFd[b]
    BY <1>2, <2>1 DEF Local
  <2>3. \A d \in Ca : ca'[d].conn_apa = b <=> ca[d].conn_apa = b
    BY <1>2, Numbers DEF Local
  <2>4. el.events[b].mask # {} => el.events[b].clientData \in Ca
    BY <2>1 DEF IInv, DInv, HandlersMatch
  <2> QED BY <2>1, <2>2, <2>3, <2>4 DEF QuietApa
<1>3. \A b \in Apa : QuietApa(b)'
    BY <1>2, Numbers
<1> QED BY <1>1, <1>3 DEF Quiet

LEMMA LinksKeep ==
    ASSUME FInv, SameSockets(sock, sock'),
           \A k \in Clients : client'[k].st = client[k].st /\ (client[k].st # "connected" => client'[k] = client[k])
    PROVE  ClientSockets' /\ ClientsKnown'
<1>1. ClientSockets'
    BY DEF FInv, ClientSockets, SameSockets
<1>2. ClientsKnown'
    BY DEF FInv, ClientsKnown, SameSockets
<1> QED BY <1>1, <1>2

(* What remains to be shown of a step of one conversation. *)
LEMMA LocalStep ==
    ASSUME WellBehaved, IInv, IInv', FInv, NEW c \in Ca, ca[c].fd # -1, NEW a, Local(c, a),
           a # NoConn => QuietApa(a)', Conversation(c)', NoLeak'
    PROVE  FInv'
<1>1. Quiet'
    BY OthersQuiet
<1>2. \A d \in Ca : ca'[d].fd # -1 => Conversation(d)'
    BY OthersTalk
<1>3. ClientSockets' /\ ClientsKnown'
  <2>1. sock[ca[c].fd].peer \in Clients /\ client[sock[ca[c].fd].peer].st = "connected"
    BY Owners
  <2> QED BY <2>1, LinksKeep DEF Local
<1>4. NoCrash'
    BY DEF FInv, NoCrash, Local
<1> QED BY <1>1, <1>2, <1>3, <1>4 DEF FInv

(* No connection leaks: none is taken or given back; one is; one is given  *)
(* back.                                                                   *)
LEMMA LeakKeeps ==
    ASSUME NoLeak, \A d \in Ca : ca'[d].conn_apa = ca[d].conn_apa, epPool' = epPool
    PROVE  NoLeak'
<1>1. \A e \in Ep : {c \in Ca : ca'[c].conn_apa # NoConn /\ EpOf(ca'[c].conn_apa) = e}
                  = {c \in Ca : ca[c].conn_apa # NoConn /\ EpOf(ca[c].conn_apa) = e}
    OBVIOUS
<1> QED BY <1>1 DEF NoLeak

LEMMA LeakTakes ==
    ASSUME NoLeak, NEW c \in Ca, NEW a \in Apa, ca[c].conn_apa = NoConn, ca'[c].conn_apa = a,
           \A d \in Ca \ {c} : ca'[d] = ca[d],
           \A e \in Ep : epPool'[e].outstanding = epPool[e].outstanding + (IF e = EpOf(a) THEN 1 ELSE 0)
    PROVE  NoLeak'
<1> SUFFICES ASSUME NEW e \in Ep
             PROVE  epPool'[e].outstanding = Cardinality(UsedOf(ca', e))
    BY DEF NoLeak, UsedOf
<1>1. epPool[e].outstanding = Cardinality(UsedOf(ca, e))
    BY DEF NoLeak, UsedOf
<1>2. Cardinality(UsedOf(ca, e)) \in Nat /\ c \notin UsedOf(ca, e)
    BY Counted DEF UsedOf
<1>3. CASE e = EpOf(a)
  <2>1. UsedOf(ca', e) = UsedOf(ca, e) \union {c}
    BY <1>3, Numbers DEF UsedOf
  <2>2. Cardinality(UsedOf(ca, e) \union {c}) = Cardinality(UsedOf(ca, e)) + 1
    BY <1>2, Counted DEF UsedOf
  <2> QED BY <1>1, <1>3, <2>1, <2>2
<1>4. CASE e # EpOf(a)
  <2>1. UsedOf(ca', e) = UsedOf(ca, e)
    BY <1>4 DEF UsedOf
  <2> QED BY <1>1, <1>2, <1>4, <2>1
<1> QED BY <1>3, <1>4

LEMMA LeakReturns ==
    ASSUME NoLeak, NEW c \in Ca, NEW a \in Apa, ca[c].conn_apa = a, ca'[c].conn_apa = NoConn,
           \A d \in Ca \ {c} : ca'[d] = ca[d],
           \A e \in Ep : epPool'[e].outstanding = epPool[e].outstanding - (IF e = EpOf(a) THEN 1 ELSE 0)
    PROVE  NoLeak'
<1> SUFFICES ASSUME NEW e \in Ep
             PROVE  epPool'[e].outstanding = Cardinality(UsedOf(ca', e))
    BY DEF NoLeak, UsedOf
<1>1. epPool[e].outstanding = Cardinality(UsedOf(ca, e))
    BY DEF NoLeak, UsedOf
<1>2. Cardinality(UsedOf(ca, e)) \in Nat
    BY Counted DEF UsedOf
<1>3. CASE e = EpOf(a)
  <2>1. UsedOf(ca', e) = UsedOf(ca, e) \ {c} /\ c \in UsedOf(ca, e) /\ UsedOf(ca, e) \in SUBSET Ca
    BY <1>3, Numbers DEF UsedOf
  <2>2. Cardinality(UsedOf(ca, e) \ {c}) = Cardinality(UsedOf(ca, e)) - 1
    BY <2>1, Counted
  <2> QED BY <1>1, <1>3, <2>1, <2>2
<1>4. CASE e # EpOf(a)
  <2>1. UsedOf(ca', e) = UsedOf(ca, e)
    BY <1>4 DEF UsedOf
  <2> QED BY <1>1, <1>2, <1>4, <2>1
<1> QED BY <1>3, <1>4

-----------------------------------------------------------------------------
(* read_from_consumer *)

LEMMA ClientFacts ==
    ASSUME IInv, NEW k \in Clients
    PROVE  /\ client[k].reqs \in 0 .. Requests /\ client[k].sent \in 0 .. ReqLen - 1
           /\ client[k].got \in Seq(Bytes) /\ Len(client[k].got) \in Nat
           /\ Sent(client[k]) \in 1 .. ReqLen /\ (Sent(client[k]) = ReqLen <=> client[k].sent = 0)
<1>1. client[k] \in ClientType
    BY DEF IInv, CType
<1>2. client[k].reqs \in 0 .. Requests /\ client[k].sent \in 0 .. ReqLen - 1 /\ client[k].got \in Seq(Bytes)
    BY <1>1 DEF ClientType, ClientTypes
<1> QED BY <1>2, Numbers, LenProperties DEF Sent

LEMMA ObjectFacts ==
    ASSUME IInv, NEW c \in Ca
    PROVE  /\ ca \in [Ca -> Objects]
           /\ ca[c].buf_in \in Seq(Bytes) /\ ca[c].buf_out \in Seq(Bytes)
           /\ ca[c].nwrite_in \in Nat /\ ca[c].nwrite_out \in Nat
           /\ ca[c].nwrite_in <= Len(ca[c].buf_in) /\ ca[c].nwrite_out <= Len(ca[c].buf_out)
           /\ Len(ca[c].buf_in) \in Nat /\ Len(ca[c].buf_out) \in Nat
           /\ Len(ca[c].buf_in) <= BufIn /\ Len(ca[c].buf_out) <= BufOut
           /\ sock \in [Fds -> Socks(Bytes)] /\ remote \in Remotes /\ el \in AgentLoops /\ InRange(el)
           /\ client \in [Clients -> ClientType]
<1>1. GoodContents(ca[c]) /\ ca \in [Ca -> Objects]
    BY DEF IInv, CType
<1>2. /\ ca[c].buf_in \in Seq(Bytes) /\ ca[c].buf_out \in Seq(Bytes)
      /\ ca[c].nwrite_in \in Nat /\ ca[c].nwrite_out \in Nat
    BY <1>1 DEF Objects
<1> QED BY <1>1, <1>2, LenProperties DEF IInv, CType, GoodContents

(* The registrations of ForwardRequest succeed. *)
LEMMA Forwards ==
    ASSUME WellBehaved, IInv, FInv, NEW c \in Ca, NEW r, NEW s, NEW a \in Apa, r.conn_apa = a,
           ForwardRequest(c, r, s)
    PROVE  /\ ca' = [ca EXCEPT ![c] = r] /\ sock' = s /\ client' = client /\ apaFd' = apaFd
           /\ \A g \in Fds \ {a} : el'.events[g] = el.events[g]
           /\ el'.events[a].clientData = c
<1>t. /\ CType /\ DInv(el, sock, ca, caPool, apaFd, epPool) /\ el \in AgentLoops
    BY TypedState DEF CType
<1>1. a \in Fds /\ apaFd[a] = a /\ apaFd[a] # -1 /\ Reliable /\ c \in Nat
    BY Owners, WellBehavedIs, Numbers DEF QuietApa
<1>2. ~CreateErr(apaFd[a])
    BY <1>t, <1>1, CreateSucceeds
<1> DEFINE withW == FileEventCreated(el, a, {AE_WRITABLE}, "write_to_remote_agent", c)
<1>3. /\ ca' = [ca EXCEPT ![c] = r] /\ sock' = s /\ client' = client /\ apaFd' = apaFd
      /\ el' = FileEventCreated(withW, a, {AE_READABLE}, "read_from_remote_agent", c)
    BY <1>1, <1>2 DEF ForwardRequest
<1>4. Registers(el, withW, a, AE_WRITABLE, "write_to_remote_agent", c)
    BY <1>t, <1>1, Created DEF Procs, ReadWrite
<1> HIDE DEF withW
<1>5. Registers(withW, el', a, AE_READABLE, "read_from_remote_agent", c)
  <2>1. withW \in AgentLoops
    BY <1>4 DEF Registers, SameBut
  <2>2. /\ a \in Fds /\ c \in Nat /\ AE_READABLE \in ReadWrite
        /\ "read_from_remote_agent" \in Procs
    BY <1>1 DEF Procs, ReadWrite
  <2> DEFINE withR == FileEventCreated(withW, a, {AE_READABLE}, "read_from_remote_agent", c)
  <2>3. Registers(withW, withR, a, AE_READABLE, "read_from_remote_agent", c)
    BY <2>1, <2>2, Created
  <2> QED BY <1>3, <2>3, Zenon
<1>6. /\ \A g \in Fds \ {a} : withW.events[g] = el.events[g]
      /\ \A g \in Fds \ {a} : el'.events[g] = withW.events[g]
      /\ el'.events[a].clientData = c
    BY <1>4, <1>5, Zenon DEF Registers, SameBut
<1>7. \A g \in Fds \ {a} : el'.events[g] = el.events[g]
    BY <1>6, Zenon
<1> QED BY <1>3, <1>6, <1>7, Zenon

(* The object x after tokens have been read from its consumer, with the    *)
(* provider connection a.                                                  *)
ReadIn(y, x, tokens, a) ==
    /\ y.fd = x.fd /\ y.conn_apa = a /\ y.nwrite_in = x.nwrite_in
    /\ y.buf_out = <<>> /\ y.buf_in = x.buf_in \o tokens

InSpace(c) == BufIn - Len(ca[c].buf_in)

LEMMA ReadForwards ==
    ASSUME WellBehaved, IInv, IInv', FInv, NEW c \in Ca, NEW fd, ca[c].fd = fd, fd # -1,
           NEW a \in Apa, NEW y, sock[fd].inq # <<>>,
           ReadIn(y, ca[c], Received(sock[fd], InSpace(c)), a),
           ForwardRequest(c, y, AfterRead(sock, fd, InSpace(c))), UNCHANGED <<pc, remote>>,
           \/ ca[c].conn_apa = a
           \/ ca[c].conn_apa = NoConn /\ \A d \in Ca : ca[d].conn_apa # a,
           NoLeak'
    PROVE  FInv' /\ client' = client
<1> DEFINE k == sock[fd].peer
           x == client[k]
           q == x.reqs
           n == Len(ca[c].buf_in)
           space == InSpace(c)
<1>y. /\ y.fd = fd /\ y.conn_apa = a /\ y.nwrite_in = ca[c].nwrite_in /\ y.buf_out = <<>>
      /\ y.buf_in = ca[c].buf_in \o Received(sock[fd], space)
    BY DEF ReadIn
<1>o. /\ fd \in Fds /\ sock[fd].kind = "client" /\ k \in Clients /\ Conversation(c)
      /\ a \in Fds /\ sock[a].kind = "apa" /\ QuietApa(a) /\ a # fd /\ a # NoConn
    BY Owners, Numbers
<1>e. /\ x.sent \in 0 .. ReqLen - 1 /\ x.reqs \in 0 .. Requests /\ Sent(x) \in 1 .. ReqLen
    BY <1>o, ClientFacts
<1>f. /\ x.sent \in 0 .. ReqLen - 1 /\ q \in Nat /\ Sent(x) \in 1 .. ReqLen
      /\ sock \in [Fds -> Socks(Bytes)] /\ ca \in [Ca -> Objects]
      /\ ca[c].nwrite_in \in Nat /\ ca[c].nwrite_in <= n /\ n \in Nat /\ n <= BufIn
  <2>1. q \in Nat
    BY <1>e, Numbers
  <2> HIDE DEF x
  <2> QED BY <1>e, <2>1, ObjectFacts
<1>w. /\ ca' = [ca EXCEPT ![c] = y] /\ sock' = AfterRead(sock, fd, space) /\ client' = client
      /\ apaFd' = apaFd /\ (\A g \in Fds \ {a} : el'.events[g] = el.events[g])
      /\ el'.events[a].clientData = c
    BY <1>y, Forwards
<1>1. /\ AE_WRITABLE \notin el.events[fd].mask /\ Unanswered(sock[fd], x, 0)
      /\ n <= Sent(x) /\ ca[c].buf_in = Run(k, q, 0, n) /\ sock[fd].inq = Run(k, q, n, Sent(x))
      /\ remote[a].inq = Run(k, q, 0, ca[c].nwrite_in) /\ sock[a].inq = <<>>
  <2>1. /\ AE_WRITABLE \notin el.events[fd].mask
        /\ \/ Asking(ca[c], sock[fd], x)
           \/ Passing(ca[c], sock[fd], x, Heard(ca[c].conn_apa), Told(ca[c].conn_apa))
    BY <1>o DEF Conversation, Talks, Resting, Replied, Answering
  <2>2. CASE Asking(ca[c], sock[fd], x)
    <3>1. ca[c].buf_in = <<>> /\ n = 0 /\ ca[c].nwrite_in = 0 /\ ca[c].conn_apa = NoConn
        BY <1>f, <2>2, EmptySeq DEF Asking
    <3>2. sock[a].inq = <<>> /\ remote[a].inq = <<>>
        BY <1>o, <3>1 DEF QuietApa
    <3>3. Run(k, q, 0, 0) = <<>>
        BY RunStart DEF RunStarts
    <3> QED BY <1>f, <2>1, <2>2, <3>1, <3>2, <3>3 DEF Asking
  <2>3. CASE Passing(ca[c], sock[fd], x, Heard(ca[c].conn_apa), Told(ca[c].conn_apa))
    BY <2>1, <2>3 DEF Passing, Heard, Told
  <2> QED BY <2>1, <2>2, <2>3
<1>2. space \in Nat
    BY <1>f, Numbers DEF InSpace
<1> HIDE DEF n, space
<1>3. PICK mid \in n .. Sent(x) : ReadUpTo(sock, sock', fd, space, k, q, n, mid, Sent(x))
  <2>1. Sent(x) \in Nat
    BY <1>f, Numbers
  <2> HIDE DEF x, k, q
  <2> QED BY <1>o, <1>f, <1>w, <1>1, <1>2, <2>1, RunRead
<1>4. y.buf_in = Run(k, q, 0, mid) /\ Len(y.buf_in) = mid
  <2>1. mid \in Nat /\ n <= mid /\ n \in Nat /\ mid <= mid
    BY <1>f
  <2> HIDE DEF x, k, q
  <2>2. RunStarts(k, q, n, mid)
    BY <2>1, RunStart
  <2> QED BY <1>y, <1>1, <1>3, <2>2 DEF RunStarts, ReadUpTo
<1>r. /\ sock'[fd].inq = Run(k, q, mid, Sent(x)) /\ sock'[fd].st = sock[fd].st
      /\ \A g \in Fds \ {fd} : sock'[g] = sock[g]
    BY <1>3 DEF ReadUpTo
<1>5. SameSockets(sock, sock')
    BY <1>o, <1>f, <1>w, <1>2, ReadTakes
<1>6. ca'[c] = y
    BY <1>f, <1>w
<1>7. Local(c, a)
  <2>1. \A d \in Ca \ {c} : ca'[d] = ca[d]
    BY <1>f, <1>w
  <2> QED BY <1>y, <1>w, <1>r, <1>5, <1>6, <2>1 DEF Local
<1>8. Conversation(c)'
  <2>1. sock'[fd].peer = k
    BY <1>o, <1>5 DEF SameSockets
  <2>2. Heard(a)' = <<>> /\ Told(a)' = Run(k, q, 0, y.nwrite_in)
    BY <1>y, <1>o, <1>1, <1>r DEF Heard, Told
  <2>3. Passing(y, sock'[fd], x, Heard(a)', Told(a)')
    <3>1. mid <= Sent(x) /\ Unanswered(sock'[fd], x, 0)
        BY <1>f, <1>1, <1>r, Numbers DEF Unanswered
    <3> HIDE DEF x, k
    <3> QED BY <1>y, <1>o, <1>r, <1>4, <2>1, <2>2, <3>1, Zenon DEF Passing
  <2>4. el'.events[fd].mask = el.events[fd].mask
    BY <1>o, <1>w
  <2>5. Talks(y, sock'[fd], x, el'.events[fd].mask, Heard(a)', Told(a)')
    BY <1>1, <2>3, <2>4, Zenon DEF Talks
  <2>6. ca'[c].fd = fd /\ ca'[c].conn_apa = a /\ client'[k] = x
    BY <1>y, <1>w, <1>6
  <2> HIDE DEF x, k
  <2> QED BY <1>6, <2>1, <2>5, <2>6 DEF Conversation, Heard, Told
<1>9. QuietApa(a)'
  <2>1. ca'[c].conn_apa = a
    BY <1>y, <1>6
  <2> QED BY <1>o, <1>w, <1>r, <2>1 DEF QuietApa
<1> QED BY <1>w, <1>7, <1>8, <1>9, LocalStep

(* The agent closes a client's connection, or refuses to begin one; nobody *)
(* else notices.                                                           *)
Closing(k) ==
    /\ client[k].st # "left"
    /\ \E st \in {"closed", "left"} : client'[k] = [client[k] EXCEPT !.st = st]
    /\ \A j \in Clients \ {k} : client'[j] = client[j]

LEMMA ClientGone ==
    ASSUME WellBehaved, IInv, IInv', FInv, NEW f \in Fds, NEW k \in Clients,
           \A d \in Ca : /\ ca'[d].conn_apa = ca[d].conn_apa
                         /\ ca'[d].fd # -1 => ca'[d] = ca[d] /\ ca[d].fd # f,
           sock[f].kind \in {"client", "free"}, sock[f].kind = "client" => sock[f].peer = k,
           \A g \in Fds : sock[g].kind = "client" /\ sock[g].peer = k => g = f,
           sock'[f].kind = "free",
           \A g \in Fds \ {f} : sock'[g] = sock[g] /\ el'.events[g] = el.events[g],
           Closing(k), \A a \in Apa : apaFd'[a] = apaFd[a], UNCHANGED <<epPool, remote, pc>>
    PROVE  FInv' /\ [Promise!FwdNext]_(Promise!fwdVars)
<1>k. /\ client[k].st # "left" /\ \A j \in Clients \ {k} : client'[j] = client[j]
      /\ client'[k].st \in {"closed", "left"} /\ client'[k].reqs = client[k].reqs /\ client'[k].got = client[k].got
  <2>1. client[k] \in ClientType
    BY DEF IInv, CType
  <2> QED BY <2>1 DEF Closing, ClientType, ClientTypes
<1>1. ClientSockets'
  <2> SUFFICES ASSUME NEW fd \in Fds, sock'[fd].kind = "client"
               PROVE  /\ sock'[fd].peer \in Clients /\ client'[sock'[fd].peer].st = "connected"
                      /\ \A g \in Fds : sock'[g].kind = "client" /\ sock'[g].peer = sock'[fd].peer => g = fd
    BY DEF ClientSockets
  <2>1. fd # f /\ sock'[fd] = sock[fd] /\ sock[fd].peer # k
    OBVIOUS
  <2>2. /\ sock[fd].peer \in Clients /\ client[sock[fd].peer].st = "connected"
        /\ \A g \in Fds : sock[g].kind = "client" /\ sock[g].peer = sock[fd].peer => g = fd
    BY <2>1 DEF FInv, ClientSockets
  <2> QED BY <1>k, <2>1, <2>2
<1>2. ClientsKnown'
  <2> SUFFICES ASSUME NEW j \in Clients
               PROVE  /\ client'[j].st = "connected" =>
                            \E fd \in Fds : sock'[fd].kind = "client" /\ sock'[fd].peer = j
                      /\ client'[j].st \in {"idle", "backlog"} =>
                            client'[j].reqs = 0 /\ client'[j].sent = 0 /\ client'[j].got = <<>>
    BY DEF ClientsKnown
  <2>1. CASE j = k
    BY <1>k, <2>1
  <2>2. CASE j # k
    <3>1. client'[j] = client[j]
        BY <1>k, <2>2
    <3>2. \A fd \in Fds : sock[fd].kind = "client" /\ sock[fd].peer = j => fd # f
        BY <2>2
    <3> QED BY <3>1, <3>2 DEF FInv, ClientsKnown
  <2> QED BY <2>1, <2>2
<1>3. Quiet'
  <2>1. \A fd \in Fds : sock'[fd].kind = "apa" => fd \in Apa
    BY DEF FInv, Quiet
  <2>2. ASSUME NEW a \in Apa PROVE QuietApa(a)'
    <3>1. a \in Fds /\ sock[a].kind = "apa" /\ QuietApa(a)
        BY Owners
    <3>2. sock'[a] = sock[a] /\ el'.events[a] = el.events[a]
        BY <3>1
    <3>3. el.events[a].mask # {} => el.events[a].clientData \in Ca
        BY <3>1 DEF IInv, DInv, HandlersMatch
    <3> QED BY <3>1, <3>2, <3>3 DEF QuietApa
  <2> QED BY <2>1, <2>2 DEF Quiet
<1>4. ASSUME NEW d \in Ca, ca'[d].fd # -1 PROVE Conversation(d)'
  <2> DEFINE g == ca[d].fd
             b == ca[d].conn_apa
  <2>1. ca'[d] = ca[d] /\ g # -1 /\ g # f
    BY <1>4
  <2>2. /\ g \in Fds /\ sock[g].kind = "client" /\ sock[g].peer \in Clients /\ Conversation(d)
        /\ b # NoConn => b \in Apa /\ b \in Fds /\ sock[b].kind = "apa"
    BY <2>1, Owners
  <2>3. /\ sock'[g] = sock[g] /\ el'.events[g] = el.events[g] /\ client'[sock[g].peer] = client[sock[g].peer]
        /\ b # NoConn => sock'[b] = sock[b] /\ remote'[b] = remote[b]
    BY <1>k, <2>1, <2>2
  <2> QED BY <2>1, <2>2, <2>3, SameTalk
<1>5. NoLeak' /\ NoCrash'
    BY LeakKeeps DEF FInv, NoCrash
<1>6. [Promise!FwdNext]_(Promise!fwdVars)
  <2>1. \A j \in Clients \ {k} : SeenSame(client[j], client'[j])
    BY <1>k DEF SeenSame
  <2> QED BY <1>k, <2>1, StepCloses
<1> QED BY <1>1, <1>2, <1>3, <1>4, <1>5, <1>6 DEF FInv

(* The object c is closed, together with its consumer's socket. *)
LEMMA ConsumerLeaves ==
    ASSUME WellBehaved, IInv, IInv', FInv, NEW c \in Ca, NEW f, ca[c].fd = f, f # -1,
           ca[c].conn_apa = NoConn, ca' = [ca EXCEPT ![c] = Closed],
           sock'[f].kind = "free",
           \A g \in Fds \ {f} : sock'[g] = sock[g] /\ el'.events[g] = el.events[g],
           NEW s, s[f].kind = "client", s[f].peer = sock[f].peer, client' = Disconnected(s, f),
           \A a \in Apa : apaFd'[a] = apaFd[a], UNCHANGED <<epPool, remote, pc>>
    PROVE  FInv' /\ [Promise!FwdNext]_(Promise!fwdVars)
<1> DEFINE k == sock[f].peer
<1>1. /\ f \in Fds /\ sock[f].kind = "client" /\ k \in Clients /\ client[k].st = "connected"
      /\ el.events[f].clientData = c
    BY Owners
<1>2. Closing(k)
    BY <1>1 DEF Disconnected, Closing
<1>3. \A g \in Fds : sock[g].kind = "client" /\ sock[g].peer = k => g = f
    BY <1>1 DEF FInv, ClientSockets
<1>4. \A d \in Ca : /\ ca'[d].conn_apa = ca[d].conn_apa
                    /\ ca'[d].fd # -1 => ca'[d] = ca[d] /\ ca[d].fd # f
  <2>1. ca'[c] = Closed /\ \A d \in Ca \ {c} : ca'[d] = ca[d]
    BY ObjectFacts
  <2>2. \A d \in Ca : ca[d].fd # -1 => el.events[ca[d].fd].clientData = d
    BY Owners
  <2> QED BY <1>1, <2>1, <2>2, ClosedType
<1> QED BY <1>1, <1>2, <1>3, <1>4, ClientGone

(* abort_connection_ca for an object without a provider connection. *)
LEMMA AbortLeaves ==
    ASSUME WellBehaved, IInv, IInv', FInv, NEW c \in Ca, NEW r, NEW s \in [Fds -> Socks(Bytes)],
           r.fd = ca[c].fd, r.fd # -1, r.conn_apa = NoConn, ca[c].conn_apa = NoConn,
           SameSockets(sock, s), \A g \in Fds \ {r.fd} : s[g] = sock[g],
           abort_connection_ca(c, r, s, caPool, 1), UNCHANGED <<epPool, remote, pc>>
    PROVE  FInv' /\ [Promise!FwdNext]_(Promise!fwdVars)
<1> DEFINE f == r.fd
<1>1. f \in Fds /\ sock[f].kind = "client" /\ -1 \notin Fds /\ f = ca[c].fd
    BY Owners, Descriptors
<1>2. {f, -1} \cap Fds = {f}
    BY <1>1
<1>3. /\ el' = KernelForgets(DropEvents(DropEvents(el, f), -1), {f, -1} \cap Fds)
      /\ sock' = CloseFds(s, {f}) /\ client' = Disconnected(s, f)
      /\ ca' = [ca EXCEPT ![c] = Closed]
      /\ apaFd' = [a \in Apa |-> IF a = NoConn THEN -1 ELSE apaFd[a]]
    BY <1>2 DEF abort_connection_ca, ApaFdOf
<1> HIDE DEF f
<1>4. \A g \in Fds \ {f} : el'.events[g] = el.events[g]
  <2>1. el \in AgentLoops /\ InRange(el) /\ f \in Fds \union {-1} /\ -1 \in Fds \union {-1}
    BY <1>1, ObjectFacts
  <2>2. SameBut(el, el', {f, -1})
    BY <1>3, <2>1, AbortDrops
  <2> QED BY <1>1, <2>2 DEF SameBut
<1>5. \A g \in Fds : sock'[g] = IF g \in {f} THEN NoSock ELSE s[g]
    BY <1>3, Closes
<1>6. sock'[f].kind = "free" /\ \A g \in Fds \ {f} : sock'[g] = sock[g]
    BY <1>1, <1>5, NoSocket DEF f
<1>7. \A a \in Apa : apaFd'[a] = apaFd[a]
    BY <1>3, Numbers
<1>8. s[f].kind = "client" /\ s[f].peer = sock[f].peer
    BY <1>1 DEF SameSockets
<1>9. f # -1
    BY DEF f
<1> QED BY <1>1, <1>3, <1>4, <1>6, <1>7, <1>8, <1>9, ConsumerLeaves

LEMMA ReadInFields ==
    ASSUME NEW x \in Objects, NEW got, NEW r, r = ResetOut([x EXCEPT !.buf_in = @ \o got])
    PROVE  ReadIn(r, x, got, x.conn_apa) /\ \A a : ReadIn([r EXCEPT !.conn_apa = a], x, got, a)
<1> DEFINE all == x.buf_in \o got
           z == [x EXCEPT !.buf_in = all]
<1>1. r = [z EXCEPT !.buf_out = <<>>, !.nwrite_out = 0]
    BY DEF ResetOut
<1> HIDE DEF all
<1>2. /\ r.fd = x.fd /\ r.conn_apa = x.conn_apa /\ r.nwrite_in = x.nwrite_in
      /\ r.buf_out = <<>> /\ r.buf_in = all
      /\ DOMAIN r = {"fd", "buf_in", "nwrite_in", "buf_out", "nwrite_out", "conn_apa"}
    BY <1>1 DEF Objects
<1> HIDE DEF z
<1>3. ASSUME NEW a PROVE ReadIn([r EXCEPT !.conn_apa = a], x, got, a)
  <2> DEFINE y == [r EXCEPT !.conn_apa = a]
  <2>1. /\ y.fd = r.fd /\ y.conn_apa = a /\ y.nwrite_in = r.nwrite_in
        /\ y.buf_out = r.buf_out /\ y.buf_in = r.buf_in
    BY <1>2
  <2> QED BY <1>2, <2>1 DEF all, ReadIn
<1>4. ReadIn(r, x, got, x.conn_apa)
    BY <1>2 DEF all, ReadIn
<1> QED BY <1>3, <1>4

(* A step that changes nothing but the loop's batch. *)
LEMMA NothingTalks ==
    ASSUME FInv, UNCHANGED <<ownVars, el, sock, client>>, pc' # "crashed"
    PROVE  FInv' /\ UNCHANGED Promise!fwdVars
<1>1. UNCHANGED <<ca, apaFd, epPool, remote, el, sock, client>>
    BY DEF ownVars
<1>2. ClientSockets' /\ ClientsKnown'
    BY <1>1 DEF FInv, ClientSockets, ClientsKnown
<1>3. Quiet'
    BY <1>1 DEF FInv, Quiet, QuietApa
<1>4. \A c \in Ca : ca'[c].fd # -1 => Conversation(c)'
    BY <1>1 DEF FInv, Conversation, Heard, Told
<1>5. NoLeak'
    BY <1>1 DEF FInv, NoLeak
<1>6. UNCHANGED Promise!fwdVars
    BY <1>1 DEF Promise!fwdVars
<1> QED BY <1>2, <1>3, <1>4, <1>5, <1>6 DEF FInv, NoCrash

LEMMA ReadConsumerTalks ==
    ASSUME WellBehaved, IInv, IInv', FInv, NEW fd \in Fds, NEW c \in Ca, sock[fd].kind = "client",
           el.events[fd].clientData = c, read_from_consumer(fd, c)
    PROVE  FInv' /\ [Promise!FwdNext]_(Promise!fwdVars)
<1> DEFINE space == InSpace(c)
           result == ReadResult(sock[fd], space)
           got == Received(sock[fd], space)
           r == ResetOut([ca[c] EXCEPT !.buf_in = @ \o got])
           s == AfterRead(sock, fd, space)
           k == sock[fd].peer
<1>o. ca[c].fd = fd /\ fd # -1 /\ ~(fd < 0) /\ k \in Clients /\ client[k].st = "connected" /\ Conversation(c)
  <2>1. ca[c].fd = fd /\ fd # -1 /\ ~(fd < 0)
    BY Owners, Descriptors
  <2> QED BY <2>1, Owners
<1>f. /\ ca[c] \in Objects /\ sock \in [Fds -> Socks(Bytes)] /\ Len(ca[c].buf_in) \in Nat
      /\ ca[c].conn_apa \in Apa \union {NoConn}
    BY ObjectFacts DEF Objects
<1>s. space \in Nat \ {0}
  <2>1. Len(ca[c].buf_in) <= ReqLen
    <3>1. Sent(client[k]) \in 1 .. ReqLen
        BY <1>o, ClientFacts
    <3> QED BY <1>o, <1>f, <3>1, Numbers, EmptySeq
            DEF Conversation, Talks, Resting, Asking, Passing, Replied, Answering
  <2>2. ReqLen < BufIn /\ ReqLen \in Nat /\ BufIn \in Nat
    BY WellBehavedIs, Numbers
  <2> QED BY <1>f, <2>1, <2>2 DEF InSpace
<1>t. sock[fd].st \in {"open", "eof", "rst"}
    BY <1>f DEF Socks
<1>c. \/ /\ result = "data" /\ r.conn_apa # NoConn /\ ForwardRequest(c, r, s)
         /\ UNCHANGED <<epPool, num_reqs, pc, stop, remote>>
      \/ /\ result = "data" /\ r.conn_apa = NoConn
         /\ \E e \in Choices :
              IF PoolHasElement(epPool[e])
              THEN /\ ForwardRequest(c, [r EXCEPT !.conn_apa = PoolTop(epPool[e])], s)
                   /\ epPool' = [epPool EXCEPT ![e] = PoolPull(@)]
              ELSE /\ abort_connection_ca(c, r, s, caPool, 1)
                   /\ UNCHANGED epPool
         /\ UNCHANGED <<num_reqs, pc, stop, remote>>
      \/ ReturnOnly
      \/ result = "error" /\ AbortAndReturn(c)
      \/ result = "eof" /\ ConsumerClosed(fd, c)
    BY <1>o, Zenon DEF read_from_consumer, ConsumerClosed, InSpace
<1> HIDE DEF space
<1>i. ReadIn(r, ca[c], got, ca[c].conn_apa) /\ \A a : ReadIn([r EXCEPT !.conn_apa = a], ca[c], got, a)
  <2>1. r = ResetOut([ca[c] EXCEPT !.buf_in = @ \o got])
    OBVIOUS
  <2> HIDE DEF r, got
  <2> QED BY <1>f, <2>1, ReadInFields
<1>r. r.fd = fd /\ r.conn_apa = ca[c].conn_apa
  <2> HIDE DEF r, got
  <2> QED BY <1>o, <1>i DEF ReadIn
<1>a. result = "data" => sock[fd].inq # <<>>
    BY <1>s, <1>t, ReadEnds
<1>e. result \in {"eof", "error"} => ca[c].conn_apa = NoConn
  <2> SUFFICES ASSUME result \in {"eof", "error"}, ca[c].conn_apa # NoConn PROVE FALSE
    OBVIOUS
  <2>1. sock[fd].inq = <<>> /\ sock[fd].st # "open"
    BY <1>s, <1>t, ReadEnds
  <2> QED BY <1>o, <2>1 DEF Conversation, Talks, Resting, Asking, Passing, Replied, Answering, Unanswered
<1>l. UNCHANGED client => UNCHANGED Promise!fwdVars
    BY StepsUnseen DEF SeenSame
<1> HIDE DEF r, result
<1>1. CASE /\ result = "data" /\ r.conn_apa # NoConn /\ ForwardRequest(c, r, s)
           /\ UNCHANGED <<epPool, num_reqs, pc, stop, remote>>
  <2> DEFINE a == ca[c].conn_apa
  <2>1. a \in Apa
    BY <1>f, <1>r, <1>1
  <2>2. NoLeak'
    <3>1. ca' = [ca EXCEPT ![c] = r]
        BY <1>r, <1>1, <2>1, Forwards
    <3>2. \A d \in Ca : ca'[d].conn_apa = ca[d].conn_apa
        BY <1>r, <3>1, ObjectFacts
    <3> QED BY <1>1, <3>2, LeakKeeps DEF FInv
  <2>3. FInv' /\ client' = client
    <3>1. /\ ca[c].fd = fd /\ sock[fd].inq # <<>> /\ ForwardRequest(c, r, s) /\ UNCHANGED <<pc, remote>>
          /\ ReadIn(r, ca[c], got, a)
        BY <1>o, <1>a, <1>1, <1>i, Zenon
    <3> QED BY <1>o, <2>1, <2>2, <3>1, ReadForwards DEF space
  <2> QED BY <1>l, <2>3
<1>2. ASSUME result = "data", r.conn_apa = NoConn, NEW e \in Choices,
             IF PoolHasElement(epPool[e])
             THEN /\ ForwardRequest(c, [r EXCEPT !.conn_apa = PoolTop(epPool[e])], s)
                  /\ epPool' = [epPool EXCEPT ![e] = PoolPull(@)]
             ELSE /\ abort_connection_ca(c, r, s, caPool, 1)
                  /\ UNCHANGED epPool,
             UNCHANGED <<num_reqs, pc, stop, remote>>
      PROVE  FInv' /\ [Promise!FwdNext]_(Promise!fwdVars)
  <2>e. e \in Ep /\ epPool \in [Ep -> Pools(NumApa, Apa)]
    BY ChoicesAre DEF IInv, CType
  <2>1. CASE PoolHasElement(epPool[e])
    <3> DEFINE a == PoolTop(epPool[e])
               y == [r EXCEPT !.conn_apa = a]
    <3>1. /\ a \in Apa /\ PoolPull(epPool[e]).outstanding = epPool[e].outstanding + 1
          /\ Len(epPool[e].alloc_stack) \in Nat \ {0} /\ a = epPool[e].alloc_stack[Len(epPool[e].alloc_stack)]
          /\ DOMAIN epPool[e].alloc_stack = 1 .. Len(epPool[e].alloc_stack)
        BY <2>e, <2>1, Pulled
    <3>2. EpOf(a) = e /\ \A d \in Ca : ca[d].conn_apa # a
        BY <2>e, <3>1 DEF IInv, DInv, Idle, IdleApa
    <3>3. ForwardRequest(c, y, s) /\ epPool' = [epPool EXCEPT ![e] = PoolPull(epPool[e])]
        BY <1>2, <2>1, Zenon
    <3>4. ReadIn(y, ca[c], got, a)
        BY <1>i, Zenon
    <3> HIDE DEF y, a
    <3>y. y.conn_apa = a
        BY <3>4 DEF ReadIn
    <3>5. NoLeak'
      <4>1. ca' = [ca EXCEPT ![c] = y]
        BY <3>1, <3>3, <3>y, Forwards
      <4>2. ca'[c].conn_apa = a /\ \A d \in Ca \ {c} : ca'[d] = ca[d]
        BY <3>y, <4>1, ObjectFacts
      <4>3. \A i \in Ep : epPool'[i].outstanding = epPool[i].outstanding + (IF i = EpOf(a) THEN 1 ELSE 0)
        <5>1. \A i \in Ep : epPool[i].outstanding \in Int
            BY <2>e DEF Pools
        <5> QED BY <2>e, <3>1, <3>2, <3>3, <5>1
      <4> QED BY <1>r, <1>2, <3>1, <4>2, <4>3, LeakTakes DEF FInv
    <3>6. FInv' /\ client' = client
      <4>1. /\ ca[c].fd = fd /\ sock[fd].inq # <<>> /\ UNCHANGED <<pc, remote>> /\ ca[c].conn_apa = NoConn
        BY <1>o, <1>a, <1>2, <1>r, Zenon
      <4> QED BY <1>o, <3>1, <3>2, <3>3, <3>4, <3>5, <4>1, ReadForwards DEF space
    <3> QED BY <1>l, <3>6
  <2>2. CASE ~PoolHasElement(epPool[e])
    <3>1. abort_connection_ca(c, r, s, caPool, 1) /\ UNCHANGED epPool
        BY <1>2, <2>2
    <3>2. s \in [Fds -> Socks(Bytes)] /\ SameSockets(sock, s) /\ \A g \in Fds \ {r.fd} : s[g] = sock[g]
      <4>1. s \in [Fds -> Socks(Bytes)] /\ SameSockets(sock, s)
        BY <1>f, <1>s, ReadTakes
      <4>2. \A g \in Fds \ {fd} : s[g] = sock[g]
        BY <1>f DEF AfterRead
      <4> QED BY <1>r, <4>1, <4>2
    <3> HIDE DEF s
    <3> QED BY <1>o, <1>r, <1>2, <3>1, <3>2, AbortLeaves
  <2> QED BY <2>1, <2>2
<1>3. CASE ReturnOnly
    BY <1>3, NothingTalks DEF ReturnOnly, FInv, NoCrash
<1>4. CASE result = "error" /\ AbortAndReturn(c)
  <2>1. /\ abort_connection_ca(c, ca[c], sock, caPool, 1) /\ UNCHANGED <<epPool, remote, pc>>
        /\ ca[c].conn_apa = NoConn /\ ca[c].fd # -1
    BY <1>o, <1>e, <1>4 DEF AbortAndReturn
  <2>2. SameSockets(sock, sock)
    BY DEF SameSockets
  <2> QED BY <1>f, <2>1, <2>2, AbortLeaves
<1>5. CASE result = "eof" /\ ConsumerClosed(fd, c)
  <2> DEFINE d == FileEventDeleted(el, fd, ReadWrite)
  <2>1. /\ el' = KernelForgets(d, {fd}) /\ ca' = [ca EXCEPT ![c] = Closed] /\ sock' = CloseFds(sock, {fd})
        /\ client' = Disconnected(sock, fd) /\ UNCHANGED <<apaFd, epPool, remote, pc>>
    BY <1>5 DEF ConsumerClosed
  <2>2. el \in AgentLoops /\ InRange(el) /\ ReadWrite \in SUBSET ReadWrite
    BY ObjectFacts
  <2>3. SameBut(el, d, {fd}) /\ d \in AgentLoops
    BY <2>2, Deleted DEF SameBut
  <2> HIDE DEF d
  <2>4. el'.events = d.events
    BY <2>1, <2>3, Forgotten
  <2>5. \A g \in Fds : sock'[g] = IF g \in {fd} THEN NoSock ELSE sock[g]
    BY <1>f, <2>1, Closes
  <2>6. /\ sock'[fd].kind = "free"
        /\ \A g \in Fds \ {fd} : sock'[g] = sock[g] /\ el'.events[g] = el.events[g]
    BY <2>3, <2>4, <2>5, NoSocket DEF SameBut
  <2> QED BY <1>o, <1>e, <1>5, <2>1, <2>6, ConsumerLeaves
<1> QED BY <1>c, <1>1, <1>2, <1>3, <1>4, <1>5

-----------------------------------------------------------------------------
(* write_to_remote_agent and read_from_remote_agent *)

(* The connection of an event belongs to the object it points to. *)
LEMMA RemoteFacts ==
    ASSUME WellBehaved, IInv, FInv, NEW a \in Fds, NEW c \in Ca, sock[a].kind = "apa",
           el.events[a].clientData = c, el.events[a].mask # {}
    PROVE  /\ a \in Apa /\ ca[c].conn_apa = a /\ a # NoConn /\ QuietApa(a) /\ sock[a].peer = a
           /\ sock[a].st = "open"
           /\ ca[c].fd \in Fds /\ ca[c].fd # -1 /\ ~(ca[c].fd < 0) /\ ca[c].fd # a
           /\ sock[ca[c].fd].peer \in Clients
           /\ Talks(ca[c], sock[ca[c].fd], client[sock[ca[c].fd].peer], el.events[ca[c].fd].mask,
                    sock[a].inq, remote[a].inq)
<1>1. a \in Apa
    BY DEF FInv, Quiet
<1>2. QuietApa(a) /\ sock[a].peer = a /\ a # NoConn
    BY <1>1, Owners, Numbers
<1>3. ca[c].conn_apa = a /\ sock[a].st = "open"
    BY <1>2 DEF QuietApa
<1>4. ca[c].fd # -1
    BY <1>2, <1>3, Owners
<1>5. /\ ca[c].fd \in Fds /\ sock[ca[c].fd].kind = "client" /\ sock[ca[c].fd].peer \in Clients
      /\ Conversation(c)
    BY <1>4, Owners
<1>6. Heard(ca[c].conn_apa) = sock[a].inq /\ Told(ca[c].conn_apa) = remote[a].inq
    BY <1>2, <1>3 DEF Heard, Told
<1>7. Talks(ca[c], sock[ca[c].fd], client[sock[ca[c].fd].peer], el.events[ca[c].fd].mask,
            sock[a].inq, remote[a].inq)
    BY <1>5, <1>6 DEF Conversation
<1>8. ~(ca[c].fd < 0) /\ ca[c].fd # a
  <2>1. ca[c].fd \in Nat
    BY <1>5, Descriptors
  <2>2. ca[c].fd # a
    BY <1>5
  <2> QED BY <2>1, <2>2
<1> QED BY <1>1, <1>2, <1>3, <1>4, <1>5, <1>7, <1>8

(* A write to the provider agent forwards the next part of the request, or *)
(* nothing when all that was read has been forwarded.                      *)
LEMMA PassOn ==
    ASSUME NEW r, NEW s, NEW x, NEW mask, NEW aq, NEW rq, NEW y, NEW m, GoodContents(r),
           Sent(x) \in Nat, Talks(r, s, x, mask, aq, rq), r.conn_apa # NoConn,
           m \in Writes(Suffix(r.buf_in, r.nwrite_in)), y = [r EXCEPT !.nwrite_in = r.nwrite_in + m]
    PROVE  Talks(y, s, x, mask, aq, rq \o Prefix(Suffix(r.buf_in, r.nwrite_in), m))
<1> DEFINE rest == Suffix(r.buf_in, r.nwrite_in)
           n == Len(r.buf_in)
           w == r.nwrite_in
           part == Prefix(rest, m)
           k == s.peer
           q == x.reqs
<1>f. /\ r \in Objects /\ r.buf_in \in Seq(Bytes) /\ w \in Nat /\ w <= n /\ n \in Nat
    BY LenProperties DEF GoodContents, Objects
<1>y. /\ y.fd = r.fd /\ y.conn_apa = r.conn_apa /\ y.nwrite_in = w + m /\ y.buf_in = r.buf_in
      /\ y.buf_out = r.buf_out /\ y.nwrite_out = r.nwrite_out
    BY <1>f DEF Objects
<1>m. rest \in Seq(Bytes) /\ Len(rest) = n - w /\ m \in 0 .. n - w
  <2>1. w \in 0 .. n
    BY <1>f
  <2>2. rest \in Seq(Bytes) /\ Len(rest) = n - w
    BY <1>f, <2>1, PrefixSuffix
  <2> QED BY <2>2, WriteTakes
<1> HIDE DEF n, w, k, q
<1>1. CASE Passing(r, s, x, aq, rq) /\ AE_WRITABLE \notin mask
  <2>1. /\ r.conn_apa # NoConn /\ r.buf_out = <<>> /\ Unanswered(s, x, 0) /\ n <= Sent(x)
        /\ r.buf_in = Run(k, q, 0, n) /\ s.inq = Run(k, q, n, Sent(x)) /\ rq = Run(k, q, 0, w) /\ aq = <<>>
    BY <1>1 DEF Passing, n, w, k, q
  <2>2. RunWritten(k, q, w, n, m)
    <3>1. w \in 0 .. n
        BY <1>f
    <3> QED BY <1>f, <1>m, <3>1, RunWrite
  <2>3. rq \o part = Run(k, q, 0, w + m)
    BY <2>1, <2>2 DEF RunWritten, w
  <2>4. Passing(y, s, x, aq, rq \o part)
    <3> HIDE DEF part
    <3> QED BY <1>y, <2>1, <2>3 DEF Passing, n, k, q
  <2> QED BY <1>1, <2>4 DEF Talks
<1>2. ASSUME w = n, rq = <<>> PROVE m = 0 /\ rq \o part = <<>> /\ y.nwrite_in = r.nwrite_in
  <2>1. AllWritten(r.buf_in)
    BY <1>f, NothingRemains
  <2>2. rest = <<>>
    BY <1>2, <2>1 DEF AllWritten, n, w
  <2>3. m = 0
    BY <2>2 DEF Writes
  <2> QED BY <1>f, <1>y, <1>2, <2>1, <2>2, <2>3 DEF AllWritten, w
<1>3. CASE Replied(r, s, x, aq, rq) /\ AE_WRITABLE \notin mask
  <2>1. w = n /\ rq = <<>>
    BY <1>3 DEF Replied, n, w
  <2>2. Replied(y, s, x, aq, rq \o part)
    <3> HIDE DEF part
    <3> QED BY <1>y, <1>2, <1>3, <2>1 DEF Replied
  <2> QED BY <1>3, <2>2 DEF Talks
<1>4. CASE Answering(r, s, x, aq, rq)
  <2>1. w = n /\ rq = <<>>
    BY <1>f, <1>4, EmptySeq DEF Answering, n, w
  <2>2. Answering(y, s, x, aq, rq \o part)
    <3> HIDE DEF part
    <3> QED BY <1>y, <1>2, <1>4, <2>1 DEF Answering
  <2> QED BY <2>2 DEF Talks
<1> QED BY <1>1, <1>3, <1>4 DEF Talks, Resting, Asking

LEMMA WriteRemoteTalks ==
    ASSUME WellBehaved, IInv, IInv', FInv, NEW a \in Fds, NEW c \in Ca, sock[a].kind = "apa",
           el.events[a].clientData = c, el.events[a].mask # {}, write_to_remote_agent(a, c)
    PROVE  FInv' /\ [Promise!FwdNext]_(Promise!fwdVars)
<1> DEFINE f == ca[c].fd
           k == sock[f].peer
           rest == Suffix(ca[c].buf_in, ca[c].nwrite_in)
<1>r. /\ a \in Apa /\ ca[c].conn_apa = a /\ a # NoConn /\ QuietApa(a) /\ sock[a].peer = a
      /\ sock[a].st = "open" /\ f \in Fds /\ f # -1 /\ ~(f < 0) /\ f # a /\ k \in Clients
    BY RemoteFacts
<1>t. Talks(ca[c], sock[f], client[k], el.events[f].mask, sock[a].inq, remote[a].inq)
    BY RemoteFacts
<1>f. /\ ca \in [Ca -> Objects] /\ GoodContents(ca[c]) /\ sock \in [Fds -> Socks(Bytes)]
      /\ el \in AgentLoops /\ InRange(el) /\ remote \in Remotes
    BY ObjectFacts DEF IInv, CType
<1>w. ~WriteFails(a)
    BY <1>r DEF WriteFails
<1>1. PICK m \in Writes(rest) :
        /\ sock' = AfterWrite(sock, a, m)
        /\ remote' = IF sock[a].st = "open"
                     THEN [remote EXCEPT ![sock[a].peer].inq = @ \o Prefix(rest, m)]
                     ELSE remote
        /\ ca' = [ca EXCEPT ![c] = RequestWritten(@, m)]
        /\ IF ca'[c].nwrite_in = Len(ca[c].buf_in)
           THEN /\ el' = FileEventDeleted(el, a, {AE_WRITABLE})
                /\ pc' = IF ca[c].conn_apa = NoConn THEN "crashed" ELSE pc
           ELSE UNCHANGED <<el, pc>>
        /\ UNCHANGED <<caPool, apaFd, epPool, num_reqs, stop, client>>
    BY <1>r, <1>w, Zenon DEF write_to_remote_agent
<1> DEFINE y == [ca[c] EXCEPT !.nwrite_in = ca[c].nwrite_in + m]
           part == Prefix(rest, m)
<1>2. sock' = sock
  <2>1. sock' = [sock EXCEPT ![a].st = IF @ = "eof" /\ m > 0 THEN "rst" ELSE @]
    BY <1>1 DEF AfterWrite
  <2> QED BY <1>r, <1>f, <2>1 DEF Socks
<1>3. ca'[c] = y /\ \A d \in Ca \ {c} : ca'[d] = ca[d]
    BY <1>f, <1>1 DEF RequestWritten
<1>4. remote'[a].inq = remote[a].inq \o part /\ remote'[a].out = remote[a].out
      /\ \A b \in Apa \ {a} : remote'[b] = remote[b]
  <2> DEFINE q == remote[a].inq \o part
  <2>1. remote' = [remote EXCEPT ![a].inq = q]
    BY <1>r, <1>1
  <2> HIDE DEF q
  <2>2. remote'[a].inq = q /\ remote'[a].out = remote[a].out /\ \A b \in Apa \ {a} : remote'[b] = remote[b]
    BY <1>r, <1>f, <2>1 DEF Remotes
  <2> QED BY <2>2 DEF q
<1>5. /\ \A g \in Fds \ {a} : el'.events[g] = el.events[g]
      /\ el'.events[a].clientData = el.events[a].clientData /\ pc' = pc
  <2> DEFINE d == FileEventDeleted(el, a, {AE_WRITABLE})
  <2>1. SameBut(el, d, {a}) /\ Masked(el, d, a, el.events[a].mask \ {AE_WRITABLE})
    BY <1>f, Deleted DEF ReadWrite
  <2>2. el' = d \/ el' = el
    BY <1>1
  <2> HIDE DEF d
  <2>3. pc' = pc
    BY <1>r, <1>1
  <2> QED BY <2>1, <2>2, <2>3 DEF SameBut, Masked
<1>6. y.fd = f /\ y.conn_apa = a
    BY <1>r, <1>f DEF Objects
<1>7. Talks(y, sock[f], client[k], el.events[f].mask, sock[a].inq, remote[a].inq \o part)
  <2>1. Sent(client[k]) \in Nat
    BY <1>r, ClientFacts, Numbers
  <2> QED BY <1>r, <1>t, <1>f, <2>1, PassOn
<1> HIDE DEF y, part
<1>8. Conversation(c)'
  <2>1. Heard(a)' = sock[a].inq /\ Told(a)' = remote[a].inq \o part
    BY <1>r, <1>2, <1>4 DEF Heard, Told
  <2>2. ca'[c].fd = f /\ ca'[c].conn_apa = a /\ el'.events[f] = el.events[f] /\ client' = client
    BY <1>r, <1>1, <1>3, <1>5, <1>6
  <2> QED BY <1>2, <1>3, <1>7, <2>1, <2>2 DEF Conversation, Heard, Told
<1>9. QuietApa(a)' /\ UNCHANGED <<client, apaFd, epPool>>
  <2>1. ca'[c].conn_apa = a /\ UNCHANGED <<client, apaFd, epPool>>
    BY <1>1, <1>3, <1>6
  <2> QED BY <1>r, <1>2, <1>4, <1>5, <2>1 DEF QuietApa
<1>10. Local(c, a)
    BY <1>r, <1>2, <1>3, <1>4, <1>5, <1>6, <1>9 DEF Local, SameSockets
<1>11. NoLeak'
    BY <1>3, <1>6, <1>9, <1>r, LeakKeeps DEF FInv
<1>12. FInv'
    BY <1>r, <1>8, <1>9, <1>10, <1>11, LocalStep
<1>13. UNCHANGED Promise!fwdVars
    BY <1>9, StepsUnseen DEF SeenSame
<1> QED BY <1>12, <1>13

(* The object x after tokens have been read from its provider agent. *)
ReadOut(y, x, tokens) ==
    /\ y.fd = x.fd /\ y.conn_apa = x.conn_apa /\ y.nwrite_out = x.nwrite_out
    /\ y.buf_in = <<>> /\ y.buf_out = x.buf_out \o tokens
LEMMA ReadOutFields ==
    ASSUME NEW x \in Objects, NEW got, NEW r, r = ResetIn([x EXCEPT !.buf_out = @ \o got])
    PROVE  ReadOut(r, x, got)
<1> DEFINE all == x.buf_out \o got
           z == [x EXCEPT !.buf_out = all]
<1>1. r = [z EXCEPT !.buf_in = <<>>, !.nwrite_in = 0]
    BY DEF ResetIn
<1> HIDE DEF all
<1>2. /\ r.fd = x.fd /\ r.conn_apa = x.conn_apa /\ r.nwrite_out = x.nwrite_out
      /\ r.buf_in = <<>> /\ r.buf_out = all
    BY <1>1 DEF Objects
<1> QED BY <1>2 DEF all, ReadOut

(* An event can be registered for a consumer's socket once more. *)
LEMMA ConsumerRegisters ==
    ASSUME WellBehaved, IInv, FInv, NEW c \in Ca, ca[c].fd # -1
    PROVE  ~CreateErr(ca[c].fd)
<1> DEFINE g == ca[c].fd
<1>1. g \in Fds /\ AE_READABLE \in el.events[g].mask /\ Agrees(el, g)
  <2>1. g \in Fds /\ AE_READABLE \in el.events[g].mask
    BY Owners
  <2> QED BY <2>1 DEF IInv, DInv, HandlersMatch
<1>2. g \in Nat /\ g < el.setsize
  <2>1. InRange(el)
    BY ObjectFacts
  <2> QED BY <1>1, <2>1, Descriptors DEF InRange
<1> HIDE DEF g
<1>3. CreateOk(g)
    BY <1>1, <1>2 DEF CreateOk, CreateAccepted, EpollCtlOk, Agrees
<1> QED BY <1>3, WellBehavedIs DEF CreateErr, g

(* What a read from a provider agent finds: the answer and space for it,   *)
(* or nothing yet.                                                         *)
LEMMA RemoteReads ==
    ASSUME WellBehaved, NEW r, NEW s, NEW x, NEW mask, NEW t, NEW rq, GoodContents(r),
           t.st = "open", Talks(r, s, x, mask, t.inq, rq), r.conn_apa # NoConn,
           NEW space, space = BufOut - Len(r.buf_out)
    PROVE  /\ space \in Nat \ {0} /\ RespLen < BufOut
           /\ \/ ReadResult(t, space) = "again"
              \/ ReadResult(t, space) = "data" /\ Replied(r, s, x, t.inq, rq)
<1>n. RespLen < BufOut /\ RespLen \in Nat \ {0} /\ BufOut \in Nat
    BY WellBehavedIs, Numbers
<1>e. Len(<<>>) = 0
    BY EmptySeq
<1>o. Passing(r, s, x, t.inq, rq) \/ Replied(r, s, x, t.inq, rq) \/ Answering(r, s, x, t.inq, rq)
    BY DEF Talks, Resting, Asking
<1>1. Len(r.buf_out) \in {0, RespLen}
  <2>1. CASE Answering(r, s, x, t.inq, rq)
    <3> DEFINE k == s.peer
               q == x.reqs
    <3>1. r.buf_out = Run(k, q, 0, RespLen)
        BY <2>1 DEF Answering
    <3> HIDE DEF k, q
    <3>2. RunStarts(k, q, 0, RespLen)
        BY <1>n, RunStart
    <3> QED BY <3>1, <3>2 DEF RunStarts
  <2> QED BY <1>o, <1>e, <2>1 DEF Passing, Replied
<1>2. space \in Nat \ {0}
    BY <1>n, <1>1
<1>3. t.inq # <<>> => Replied(r, s, x, t.inq, rq)
    BY <1>o DEF Passing, Answering
<1>4. ReadResult(t, space) = IF t.inq # <<>> THEN "data" ELSE "again"
    BY <1>2 DEF ReadResult
<1> QED BY <1>n, <1>2, <1>3, <1>4

LEMMA ReadRemoteTalks ==
    ASSUME WellBehaved, IInv, IInv', FInv, NEW a \in Fds, NEW c \in Ca, sock[a].kind = "apa",
           el.events[a].clientData = c, el.events[a].mask # {}, read_from_remote_agent(a, c)
    PROVE  FInv' /\ [Promise!FwdNext]_(Promise!fwdVars)
<1> DEFINE f == ca[c].fd
           k == sock[f].peer
           x == client[k]
           q == x.reqs
           space == BufOut - Len(ca[c].buf_out)
           result == ReadResult(sock[a], space)
           got == Received(sock[a], space)
           r == ResetIn([ca[c] EXCEPT !.buf_out = @ \o got])
           s == AfterRead(sock, a, space)
<1>r. /\ a \in Apa /\ ca[c].conn_apa = a /\ a # NoConn /\ QuietApa(a) /\ sock[a].peer = a
      /\ sock[a].st = "open" /\ f \in Fds /\ f # -1 /\ ~(f < 0) /\ f # a /\ k \in Clients
    BY RemoteFacts
<1>t. Talks(ca[c], sock[f], x, el.events[f].mask, sock[a].inq, remote[a].inq)
    BY RemoteFacts
<1>f. /\ ca \in [Ca -> Objects] /\ ca[c] \in Objects /\ GoodContents(ca[c])
      /\ sock \in [Fds -> Socks(Bytes)] /\ el \in AgentLoops /\ InRange(el)
    BY ObjectFacts DEF IInv, CType
<1>s. /\ space \in Nat \ {0} /\ RespLen < BufOut
      /\ \/ result = "again"
         \/ result = "data" /\ Replied(ca[c], sock[f], x, sock[a].inq, remote[a].inq)
  <2>1. space = BufOut - Len(ca[c].buf_out) /\ ca[c].conn_apa # NoConn
    BY <1>r
  <2> HIDE DEF space, x, f
  <2> QED BY <1>r, <1>t, <1>f, <2>1, RemoteReads
<1>i. ReadOut(r, ca[c], got)
  <2>1. r = ResetIn([ca[c] EXCEPT !.buf_out = @ \o got])
    OBVIOUS
  <2> HIDE DEF r, got
  <2> QED BY <1>f, <2>1, ReadOutFields
<1>j. r.fd = f /\ r.conn_apa = a
  <2> HIDE DEF r, got
  <2> QED BY <1>r, <1>i DEF ReadOut
<1>c. \/ result = "again" /\ ReturnOnly
      \/ /\ result = "data" /\ ~CreateErr(r.fd)
         /\ ca' = [ca EXCEPT ![c] = r] /\ sock' = s
         /\ el' = FileEventCreated(el, f, {AE_WRITABLE}, "write_to_consumer", c)
         /\ UNCHANGED <<caPool, apaFd, client, epPool, pc, remote>>
  <2>1. ~CreateErr(r.fd) /\ r.conn_apa # NoConn
    BY <1>r, <1>j, ConsumerRegisters
  <2>2. result \in {"again", "data"}
    BY <1>s
  <2>3. result \notin {"data", "eof"} \/ r.conn_apa # NoConn
    BY <2>1
  <2> QED BY <1>r, <1>j, <2>1, <2>2, <2>3 DEF read_from_remote_agent
<1> HIDE DEF r, result
<1>1. CASE result = "again" /\ ReturnOnly
    BY <1>1, NothingTalks DEF ReturnOnly, FInv, NoCrash
<1>2. CASE /\ result = "data" /\ ~CreateErr(r.fd)
           /\ ca' = [ca EXCEPT ![c] = r] /\ sock' = s
           /\ el' = FileEventCreated(el, f, {AE_WRITABLE}, "write_to_consumer", c)
           /\ UNCHANGED <<caPool, apaFd, client, epPool, pc, remote>>
  <2>p. /\ ca[c].buf_out = <<>> /\ Unanswered(sock[f], x, 0) /\ x.sent = 0 /\ sock[f].inq = <<>>
        /\ remote[a].inq = <<>> /\ sock[a].inq = Run(k, q, 0, RespLen)
    BY <1>s, <1>2 DEF Replied
  <2>n. /\ RespLen \in Nat /\ RespLen # 0 /\ 0 <= RespLen /\ RespLen - 0 <= space
    <3>1. space = BufOut /\ BufOut \in Nat /\ RespLen \in Nat /\ RespLen # 0
        BY <2>p, EmptySeq, Numbers
    <3> QED BY <1>s, <3>1
  <2>k. space \in Nat /\ sock' = AfterRead(sock, a, space)
    BY <1>s, <1>2
  <2> HIDE DEF space, q, k
  <2>1. PICK mid \in 0 .. RespLen : ReadUpTo(sock, sock', a, space, k, q, 0, mid, RespLen)
    <3> DEFINE lo == 0
    <3>1. lo \in Nat /\ lo <= RespLen /\ sock[a].inq = Run(k, q, lo, RespLen)
        BY <2>p, <2>n
    <3> HIDE DEF lo
    <3>2. \E mid \in lo .. RespLen : ReadUpTo(sock, sock', a, space, k, q, lo, mid, RespLen)
        BY <1>f, <2>n, <2>k, <3>1, RunRead
    <3> QED BY <3>2 DEF lo
  <2>2. /\ got = Run(k, q, 0, RespLen) /\ sock'[a].inq = Run(k, q, RespLen, RespLen)
        /\ sock'[a].st = sock[a].st /\ \A g \in Fds \ {a} : sock'[g] = sock[g]
    BY <2>n, <2>1 DEF ReadUpTo
  <2>3. sock'[a].inq = <<>> /\ <<>> \o Run(k, q, 0, RespLen) = Run(k, q, 0, RespLen)
    <3>1. RunStarts(k, q, 0, RespLen)
        BY <2>n, RunStart
    <3> QED BY <2>2, <3>1 DEF RunStarts
  <2>4. r.buf_in = <<>> /\ r.buf_out = Run(k, q, 0, RespLen) /\ r.nwrite_out = 0
    <3>1. r.buf_in = <<>> /\ r.buf_out = ca[c].buf_out \o got /\ r.nwrite_out = ca[c].nwrite_out
        BY <1>i DEF ReadOut
    <3>2. ca[c].nwrite_out = 0
      <4>1. ca[c].nwrite_out \in Nat /\ ca[c].nwrite_out <= Len(ca[c].buf_out) /\ Len(ca[c].buf_out) = 0
        BY <2>p, ObjectFacts, EmptySeq
      <4> QED BY <4>1
    <3> QED BY <2>p, <2>2, <2>3, <3>1, <3>2
  <2>5. ca'[c] = r /\ \A d \in Ca \ {c} : ca'[d] = ca[d]
    BY <1>f, <1>2
  <2>6. SameSockets(sock, sock')
    BY <1>f, <2>k, ReadTakes
  <2>7. \A g \in Fds \ {f} : el'.events[g] = el.events[g]
    <3>1. Registers(el, el', f, AE_WRITABLE, "write_to_consumer", c)
        BY <1>r, <1>f, <1>2, Created, Numbers DEF Procs, ReadWrite
    <3> QED BY <3>1 DEF Registers, SameBut
  <2>8. UNCHANGED <<client, apaFd, epPool, pc, remote>>
    BY <1>2
  <2>9. Conversation(c)'
    <3>1. Heard(a)' = <<>> /\ Told(a)' = <<>> /\ sock'[f] = sock[f] /\ client'[k] = x
        BY <1>r, <2>p, <2>2, <2>3, <2>8 DEF Heard, Told
    <3>2. Answering(r, sock[f], x, <<>>, <<>>)
        BY <1>r, <1>j, <2>p, <2>n, <2>4 DEF Answering, k, q
    <3>3. ca'[c].fd = f /\ ca'[c].conn_apa = a /\ sock'[f].peer = k
        BY <1>j, <2>5, <3>1 DEF k
    <3> HIDE DEF x
    <3> QED BY <2>5, <3>1, <3>2, <3>3 DEF Conversation, Talks
  <2>10. QuietApa(a)'
    <3>1. ca'[c].conn_apa = a /\ el'.events[a] = el.events[a]
        BY <1>r, <1>j, <2>5, <2>7
    <3> QED BY <1>r, <2>2, <2>3, <2>8, <3>1 DEF QuietApa
  <2>11. Local(c, a)
    <3>1. \A g \in Fds \ {f, a} : sock'[g] = sock[g] /\ el'.events[g] = el.events[g]
        BY <2>2, <2>7
    <3> QED BY <1>r, <1>j, <2>5, <2>6, <2>8, <3>1 DEF Local
  <2>12. NoLeak'
    BY <1>r, <1>j, <2>5, <2>8, LeakKeeps DEF FInv
  <2>13. FInv'
    BY <1>r, <2>9, <2>10, <2>11, <2>12, LocalStep
  <2>14. UNCHANGED Promise!fwdVars
    BY <2>8, StepsUnseen DEF SeenSame
  <2> QED BY <2>13, <2>14
<1> QED BY <1>c, <1>1, <1>2

-----------------------------------------------------------------------------
(* write_to_consumer *)

(* The next part of the answer that a write takes. *)
AnswerPart(r, s, x, m) ==
    /\ m \in Nat /\ r.nwrite_out \in Nat /\ r.nwrite_out < r.nwrite_out + m
    /\ r.nwrite_out + m <= RespLen /\ Len(r.buf_out) = RespLen
    /\ Prefix(Suffix(r.buf_out, r.nwrite_out), m) = Run(s.peer, x.reqs, r.nwrite_out, r.nwrite_out + m)
LEMMA AnswerTaken ==
    ASSUME NEW r, NEW s, NEW x, NEW aq, NEW rq, GoodContents(r), Answering(r, s, x, aq, rq),
           NEW m \in Writes(Suffix(r.buf_out, r.nwrite_out))
    PROVE  AnswerPart(r, s, x, m)
<1> DEFINE k == s.peer
           q == x.reqs
           w == r.nwrite_out
           rest == Suffix(r.buf_out, w)
<1>n. RespLen \in Nat
    BY Numbers
<1>f. r.buf_out \in Seq(Bytes) /\ w \in Nat
    BY DEF GoodContents, Objects
<1>1. r.buf_out = Run(k, q, 0, RespLen) /\ w < RespLen
    BY DEF Answering
<1> HIDE DEF k, q
<1>2. RunStarts(k, q, 0, RespLen)
    BY <1>n, RunStart
<1>3. Len(r.buf_out) = RespLen
    BY <1>1, <1>2 DEF RunStarts
<1>4. rest \in Seq(Bytes) /\ Len(rest) = RespLen - w
  <2>1. w \in 0 .. Len(r.buf_out)
    BY <1>n, <1>f, <1>1, <1>3
  <2> QED BY <1>f, <1>3, <2>1, PrefixSuffix
<1>5. m \in 1 .. RespLen - w
  <2>1. rest # <<>>
    BY <1>n, <1>f, <1>1, <1>4, EmptySeq
  <2> HIDE DEF rest
  <2> QED BY <1>n, <1>f, <1>1, <1>4, <2>1 DEF Writes, rest
<1>6. m \in Nat /\ w < w + m /\ w + m <= RespLen
    BY <1>n, <1>f, <1>5
<1>7. RunWritten(k, q, w, RespLen, m)
  <2>1. w \in 0 .. RespLen /\ m \in 0 .. RespLen - w
    BY <1>n, <1>f, <1>1, <1>5
  <2> HIDE DEF w
  <2> QED BY <1>n, <2>1, RunWrite
<1>8. Prefix(rest, m) = Run(k, q, w, w + m)
    BY <1>1, <1>7 DEF RunWritten
<1> QED BY <1>f, <1>3, <1>6, <1>8 DEF AnswerPart, k, q

(* The events that remain when a connection is given back. *)
LEMMA ReleaseDrops ==
    ASSUME el \in AgentLoops, InRange(el), NEW r, NEW f \in Fds, NEW a \in Fds, r.fd = f,
           ApaFdOf(r) = a, f # a, NEW d, d = Released(el, r)
    PROVE  /\ \A g \in Fds \ {f, a} : d.events[g] = el.events[g]
           /\ AE_WRITABLE \notin d.events[f].mask /\ d.events[a].mask = {}
<1> DEFINE l == FileEventDeleted(el, f, {AE_WRITABLE})
<1>1. d = FileEventDeleted(l, a, ReadWrite)
  <2>1. a \in Nat
    BY Descriptors
  <2> QED BY <2>1 DEF Released, DropEvents
<1>2. SameBut(el, l, {f}) /\ Masked(el, l, f, el.events[f].mask \ {AE_WRITABLE})
    BY Deleted DEF ReadWrite
<1>3. InRange(l)
  <2> HIDE DEF l
  <2>1. \A g \in Fds : l.events[g].mask # {} => el.events[g].mask # {}
    BY <1>2 DEF SameBut, Masked
  <2> QED BY <1>2, <2>1 DEF InRange, SameBut
<1> HIDE DEF l
<1>4. l \in AgentLoops /\ ReadWrite \in SUBSET ReadWrite
    BY <1>2 DEF SameBut
<1>5. SameBut(l, d, {a}) /\ Masked(l, d, a, l.events[a].mask \ ReadWrite)
    BY <1>1, <1>3, <1>4, Deleted
<1>6. l.events[a].mask \in SUBSET ReadWrite
    BY <1>4 DEF AgentLoops, Loops, Slots
<1> QED BY <1>2, <1>5, <1>6 DEF SameBut, Masked

LEMMA WriteConsumerTalks ==
    ASSUME WellBehaved, IInv, IInv', FInv, NEW f \in Fds, NEW c \in Ca, sock[f].kind = "client",
           el.events[f].clientData = c, AE_WRITABLE \in el.events[f].mask, write_to_consumer(f, c)
    PROVE  FInv' /\ [Promise!FwdNext]_(Promise!fwdVars)
<1> DEFINE r == ca[c]
           k == sock[f].peer
           x == client[k]
           q == x.reqs
           w == r.nwrite_out
           rest == Suffix(r.buf_out, w)
<1>o. r.fd = f /\ f # -1 /\ ~(f < 0) /\ k \in Clients /\ x.st = "connected" /\ Conversation(c)
  <2>1. r.fd = f /\ f # -1 /\ ~(f < 0)
    BY Owners, Descriptors
  <2> QED BY <2>1, Owners
<1>c. Answering(r, sock[f], x, Heard(r.conn_apa), Told(r.conn_apa))
    BY <1>o DEF Conversation, Talks
<1>p. PICK a \in Apa : a = r.conn_apa
  <2>1. r.conn_apa # NoConn
    BY <1>c DEF Answering
  <2> QED BY <2>1, Owners
<1>a. /\ a # NoConn /\ a \in Fds /\ a # f /\ QuietApa(a) /\ sock[a].kind = "apa" /\ apaFd[a] = a
      /\ r.conn_apa = a
  <2>1. QuietApa(a) /\ a # NoConn /\ a \in Fds /\ sock[a].kind = "apa"
    BY Owners, Numbers
  <2> QED BY <1>p, <2>1 DEF QuietApa
<1>f. /\ ca \in [Ca -> Objects] /\ r \in Objects /\ GoodContents(r) /\ sock \in [Fds -> Socks(Bytes)]
      /\ client \in [Clients -> ClientType] /\ x \in ClientType /\ q \in Nat
      /\ el \in AgentLoops /\ InRange(el)
  <2>1. q \in 0 .. Requests /\ Requests \in Nat
    BY <1>o, ClientFacts, Numbers
  <2> QED BY <1>o, <2>1, ObjectFacts DEF IInv, CType
<1>n. /\ sock[f].st = "open" /\ q >= 1 /\ Len(x.got) = (q - 1) * RespLen + w
      /\ r.buf_in = <<>> /\ x.sent = 0 /\ sock[f].inq = <<>> /\ sock[a].inq = <<>> /\ remote[a].inq = <<>>
      /\ r.buf_out = Run(k, q, 0, RespLen)
    BY <1>a, <1>c DEF Answering, Unanswered, Heard, Told
<1>w. ~WriteFails(f) /\ "slow" \notin Faults
    BY <1>n, WellBehavedIs DEF WriteFails
<1>1. PICK m \in Writes(rest) :
          /\ sock' = AfterWrite(sock, f, m)
          /\ client' = DeliverToClient(f, Prefix(rest, m))
          /\ IF r.nwrite_out + m = Len(r.buf_out)
             THEN /\ el' = Released(el, r)
                  /\ ca' = [ca EXCEPT ![c].nwrite_out = @ + m, ![c].conn_apa = NoConn]
                  /\ epPool' = ApaReturned(r.conn_apa)
             ELSE /\ ca' = [ca EXCEPT ![c].nwrite_out = @ + m]
                  /\ UNCHANGED <<el, epPool>>
          /\ UNCHANGED <<caPool, apaFd, num_reqs, pc, stop, remote>>
    BY <1>o, <1>w, Zenon DEF write_to_consumer
<1>2. AnswerPart(r, sock[f], x, m)
    BY <1>f, <1>c, AnswerTaken
<1>3. /\ m \in Nat /\ w \in Nat /\ w < w + m /\ w + m <= RespLen /\ w + m \in Nat /\ Len(r.buf_out) = RespLen
      /\ Prefix(rest, m) = Run(k, q, w, w + m)
    BY <1>2 DEF AnswerPart
<1>4. sock' = sock
  <2>1. sock' = [sock EXCEPT ![f].st = IF @ = "eof" /\ m > 0 THEN "rst" ELSE @]
    BY <1>1 DEF AfterWrite
  <2> QED BY <1>n, <1>f, <2>1 DEF Socks
<1>u. UNCHANGED <<apaFd, pc, remote>>
    BY <1>1
<1>5. /\ client'[k].got = x.got \o Run(k, q, w, w + m) /\ client'[k].reqs = q /\ client'[k].st = x.st
      /\ client'[k].sent = x.sent /\ \A j \in Clients \ {k} : client'[j] = client[j]
  <2> DEFINE new == x.got \o Prefix(rest, m)
  <2>1. client' = [client EXCEPT ![k].got = new]
    BY <1>n, <1>1 DEF DeliverToClient
  <2> HIDE DEF new
  <2>2. /\ client'[k].got = new /\ client'[k].reqs = q /\ client'[k].st = x.st
        /\ client'[k].sent = x.sent /\ \A j \in Clients \ {k} : client'[j] = client[j]
    BY <1>o, <1>f, <2>1 DEF ClientType, ClientTypes
  <2> QED BY <1>3, <2>2 DEF new
<1>6. Promise!FwdNext /\ Len(client'[k].got) = (q - 1) * RespLen + (w + m)
  <2>0. x.got \in Seq(Bytes)
    BY <1>o, ClientFacts, Zenon
  <2>a. x.st # "left" /\ client'[k].st # "left"
    BY <1>o, <1>5, Zenon
  <2>b. q \in Nat \ {0}
    BY <1>f, <1>n
  <2>1. /\ x.st # "left" /\ client'[k].st # "left" /\ x.got \in Seq(Bytes) /\ q \in Nat \ {0}
    BY <2>0, <2>a, <2>b, Zenon
  <2>2. \A j \in Clients \ {k} : SeenSame(client[j], client'[j])
    BY <1>5 DEF SeenSame
  <2> DEFINE hi == w + m
             lo == w
  <2>3. /\ lo \in Nat /\ hi \in Nat /\ lo < hi /\ hi <= RespLen /\ Len(x.got) = (q - 1) * RespLen + lo
        /\ client'[k].got = x.got \o Run(k, q, lo, hi)
    BY <1>n, <1>3, <1>5
  <2> HIDE DEF hi, lo, k
  <2>4. Promise!FwdNext /\ Len(client'[k].got) = (q - 1) * RespLen + hi
    BY <1>o, <1>5, <2>1, <2>2, <2>3, StepAnswers
  <2> QED BY <2>4 DEF hi, lo
<1> HIDE DEF rest
<1>7. CASE r.nwrite_out + m = Len(r.buf_out)
  <2>1. /\ el' = Released(el, r) /\ ca' = [ca EXCEPT ![c].nwrite_out = @ + m, ![c].conn_apa = NoConn]
        /\ epPool' = [epPool EXCEPT ![EpOf(a)] = PoolReturned(@, a)]
    BY <1>a, <1>1, <1>7 DEF ApaReturned
  <2>2. /\ ca'[c].fd = f /\ ca'[c].conn_apa = NoConn /\ ca'[c].buf_in = <<>>
        /\ \A d \in Ca \ {c} : ca'[d] = ca[d]
    BY <1>o, <1>n, <1>f, <2>1 DEF Objects
  <2>3. /\ \A g \in Fds \ {f, a} : el'.events[g] = el.events[g]
        /\ AE_WRITABLE \notin el'.events[f].mask /\ el'.events[a].mask = {}
    <3>1. ApaFdOf(r) = a
        BY <1>a DEF ApaFdOf
    <3> QED BY <1>o, <1>a, <1>f, <2>1, <3>1, ReleaseDrops
  <2>4. NoLeak'
    <3>1. epPool \in [Ep -> Pools(NumApa, Apa)] /\ EpOf(a) \in Ep
        BY <1>a, EpNumbers DEF IInv, CType
    <3>2. PoolReturned(epPool[EpOf(a)], a).outstanding = epPool[EpOf(a)].outstanding - 1
        BY <1>a, <3>1, Returned
    <3>3. \A e \in Ep : epPool[e].outstanding \in Int
        BY <3>1 DEF Pools
    <3>4. \A e \in Ep : epPool'[e].outstanding = epPool[e].outstanding - (IF e = EpOf(a) THEN 1 ELSE 0)
        BY <2>1, <3>1, <3>2, <3>3
    <3> QED BY <1>a, <2>2, <3>4, LeakReturns DEF FInv
  <2>5. Conversation(c)'
    <3>1. Len(client'[k].got) = q * RespLen
      <4>1. RespLen \in Nat /\ w + m = RespLen /\ q \in Nat
        BY <1>f, <1>3, <1>7, Numbers
      <4>2. (q - 1) * RespLen + RespLen = q * RespLen
        BY <4>1
      <4> QED BY <1>6, <4>1, <4>2
    <3>2. Resting(ca'[c], sock'[f], client'[k])
        BY <1>n, <1>4, <1>5, <2>2, <3>1 DEF Resting
    <3> QED BY <1>4, <2>2, <2>3, <3>2 DEF Conversation, Talks
  <2>6. QuietApa(a)'
    BY <1>a, <1>n, <1>4, <1>u, <2>3 DEF QuietApa
  <2>7. Local(c, a)
    BY <1>o, <1>a, <1>4, <1>5, <1>u, <2>2, <2>3 DEF Local, SameSockets
  <2>8. FInv'
    BY <1>o, <1>a, <2>4, <2>5, <2>6, <2>7, LocalStep
  <2> QED BY <1>6, <2>8
<1>8. CASE r.nwrite_out + m # Len(r.buf_out)
  <2>1. ca' = [ca EXCEPT ![c].nwrite_out = @ + m] /\ UNCHANGED <<el, epPool>>
    BY <1>1, <1>8
  <2>2. /\ ca'[c].fd = f /\ ca'[c].conn_apa = a /\ ca'[c].buf_in = <<>> /\ ca'[c].buf_out = r.buf_out
        /\ ca'[c].nwrite_out = w + m
        /\ \A d \in Ca \ {c} : ca'[d] = ca[d]
    BY <1>o, <1>a, <1>n, <1>f, <2>1 DEF Objects
  <2>3. NoLeak'
    BY <1>a, <2>1, <2>2, LeakKeeps DEF FInv
  <2>4. Conversation(c)'
    <3>1. Heard(a)' = <<>> /\ Told(a)' = <<>>
        BY <1>a, <1>n, <1>4, <1>u DEF Heard, Told
    <3>2. w + m < RespLen
        BY <1>3, <1>8, Numbers
    <3>3. Unanswered(sock'[f], client'[k], ca'[c].nwrite_out)
        BY <1>n, <1>4, <1>5, <1>6, <2>2 DEF Unanswered
    <3>4. Answering(ca'[c], sock'[f], client'[k], Heard(a)', Told(a)')
        BY <1>a, <1>n, <1>4, <1>5, <2>2, <3>1, <3>2, <3>3 DEF Answering
    <3> QED BY <1>4, <2>2, <3>4 DEF Conversation, Talks, Heard, Told
  <2>5. QuietApa(a)'
    BY <1>a, <1>n, <1>4, <1>u, <2>1, <2>2 DEF QuietApa
  <2>6. Local(c, a)
    BY <1>o, <1>a, <1>4, <1>5, <1>u, <2>1, <2>2 DEF Local, SameSockets
  <2>7. FInv'
    BY <1>o, <1>a, <2>3, <2>4, <2>5, <2>6, LocalStep
  <2> QED BY <1>6, <2>7
<1> QED BY <1>7, <1>8

-----------------------------------------------------------------------------
(* accept_tcp_handler *)

LEMMA AcceptTalks ==
    ASSUME WellBehaved, IInv, IInv', FInv, accept_tcp_handler
    PROVE  FInv' /\ [Promise!FwdNext]_(Promise!fwdVars)
<1>f. /\ ca \in [Ca -> Objects] /\ sock \in [Fds -> Socks(Bytes)] /\ client \in [Clients -> ClientType]
      /\ el \in AgentLoops /\ InRange(el) /\ caPool \in Pools(NumCa, Ca) /\ DOMAIN sock = Fds
    BY DEF IInv, CType
<1>1. CASE ~CanAccept
  <2>1. ReturnOnly
    BY <1>1 DEF accept_tcp_handler
  <2> QED BY <2>1, NothingTalks DEF ReturnOnly, FInv, NoCrash
<1>2. CASE CanAccept
  <2>f. PICK f \in Fds : f = NewFd(sock) /\ sock[f].kind = "free"
    BY <1>f, <1>2, NewDescriptor DEF CanAccept
  <2>d. PICK c : c = PoolTop(caPool)
    OBVIOUS
  <2> DEFINE r == [Closed EXCEPT !.fd = f]
  <2>1. PICK k \in Backlog :
          LET s == [sock EXCEPT ![f] = Sock("client", k)]
          IN /\ \/ /\ PoolExhausted(caPool)
                   /\ client' = [client EXCEPT ![k].st = "closed"]
                   /\ UNCHANGED <<ca, caPool, apaFd, epPool, num_reqs, el, sock>>
                \/ /\ PoolHasElement(caPool) /\ CreateOk(f)
                   /\ client' = [client EXCEPT ![k].st = "connected"]
                   /\ sock' = s
                   /\ caPool' = PoolPull(caPool)
                   /\ ca' = [ca EXCEPT ![c] = r]
                   /\ el' = FileEventCreated(el, f, {AE_READABLE}, "read_from_consumer", c)
                   /\ UNCHANGED <<apaFd, epPool, num_reqs>>
                \/ /\ PoolHasElement(caPool) /\ CreateErr(f)
                   /\ abort_connection_ca(c, r, s, PoolPull(caPool), 1)
                   /\ UNCHANGED <<epPool, num_reqs>>
             /\ UNCHANGED <<pc, stop, remote>>
    BY <1>2, <2>f, <2>d, Zenon DEF accept_tcp_handler
  <2> DEFINE s == [sock EXCEPT ![f] = Sock("client", k)]
  <2>k. k \in Clients /\ client[k].st = "backlog" /\ client[k] \in ClientType
    BY <1>f DEF Backlog
  <2>s. /\ s \in [Fds -> Socks(Bytes)] /\ s[f] = Sock("client", k) /\ s[f].kind = "client" /\ s[f].peer = k
        /\ \A g \in Fds \ {f} : s[g] = sock[g]
    <3>1. /\ Sock("client", k) \in Socks(Bytes) /\ Sock("client", k).kind = "client"
          /\ Sock("client", k).peer = k
        BY <2>k, NewSocket DEF Kinds
    <3> QED BY <1>f, <2>f, <3>1
  <2>r. /\ r.fd = f /\ r.conn_apa = NoConn /\ r.buf_in = <<>>
    BY DEF Closed
  <2>g. /\ \A g \in Fds : sock[g].kind = "client" => sock[g].peer # k
        /\ \A d \in Ca : ca[d].fd # f
    <3>1. \A g \in Fds : sock[g].kind = "client" => client[sock[g].peer].st = "connected"
        BY DEF FInv, ClientSockets
    <3>2. \A d \in Ca : ca[d].fd # -1 => sock[ca[d].fd].kind = "client"
        BY Owners
    <3>3. f # -1
        BY Descriptors
    <3> QED BY <2>f, <2>k, <3>1, <3>2, <3>3
  <2>c. ASSUME PoolHasElement(caPool)
        PROVE  c \in Ca /\ ca[c].fd = -1 /\ ca[c].conn_apa = NoConn
    <3>0. /\ Len(caPool.alloc_stack) \in Nat \ {0} /\ PoolTop(caPool) \in Ca
          /\ PoolTop(caPool) = caPool.alloc_stack[Len(caPool.alloc_stack)]
          /\ DOMAIN caPool.alloc_stack = 1 .. Len(caPool.alloc_stack)
      <4>1. caPool \in Pools(NumCa, Ca) /\ PoolHasElement(caPool)
        BY <1>f, <2>c
      <4>2. Len(caPool.alloc_stack) \in Nat \ {0}
        BY <4>1, Pulled
      <4>3. PoolTop(caPool) \in Ca
        BY <4>1, Pulled
      <4>4. DOMAIN caPool.alloc_stack = 1 .. Len(caPool.alloc_stack)
        BY <4>1, Pulled
      <4> QED BY <4>2, <4>3, <4>4 DEF PoolTop
    <3>1. /\ c \in Ca /\ Len(caPool.alloc_stack) \in DOMAIN caPool.alloc_stack
          /\ c = caPool.alloc_stack[Len(caPool.alloc_stack)]
        BY <2>d, <3>0
    <3>2. ca[c].fd = -1
        BY <3>1, WellBehavedIs DEF IInv, DInv, Owned
    <3> QED BY <3>1, <3>2, Owners
  <2>p. pc' = pc /\ remote' = remote
    BY <2>1
  <2> HIDE DEF r, s
  <2>2. CASE /\ client' = [client EXCEPT ![k].st = "closed"]
             /\ UNCHANGED <<ca, caPool, apaFd, epPool, num_reqs, el, sock>>
    <3>1. Closing(k)
        BY <1>f, <2>k, <2>2 DEF Closing
    <3> QED BY <2>f, <2>k, <2>g, <2>p, <2>2, <3>1, ClientGone
  <2>3. CASE /\ PoolHasElement(caPool)
             /\ abort_connection_ca(c, r, s, PoolPull(caPool), 1) /\ UNCHANGED <<epPool, num_reqs>>
    <3>1. {f, -1} \cap Fds = {f} /\ f \in Fds \union {-1} /\ -1 \in Fds \union {-1}
        BY Descriptors
    <3>2. /\ el' = KernelForgets(DropEvents(DropEvents(el, f), -1), {f, -1} \cap Fds)
          /\ sock' = CloseFds(s, {f}) /\ client' = Disconnected(s, f)
          /\ ca' = [ca EXCEPT ![c] = Closed]
          /\ apaFd' = [a \in Apa |-> IF a = NoConn THEN -1 ELSE apaFd[a]]
        BY <2>r, <2>3, <3>1 DEF abort_connection_ca, ApaFdOf
    <3>3. SameBut(el, el', {f, -1})
        BY <1>f, <3>1, <3>2, AbortDrops
    <3>4. \A g \in Fds : sock'[g] = IF g \in {f} THEN NoSock ELSE s[g]
        BY <2>s, <3>2, Closes
    <3>5. /\ sock'[f].kind = "free"
          /\ \A g \in Fds \ {f} : sock'[g] = sock[g] /\ el'.events[g] = el.events[g]
        BY <2>s, <3>1, <3>3, <3>4, NoSocket, Descriptors DEF SameBut
    <3>6. Closing(k)
        BY <2>k, <2>s, <3>2 DEF Disconnected, Closing
    <3>7. \A a \in Apa : apaFd'[a] = apaFd[a]
        BY <3>2, Numbers
    <3>8. \A d \in Ca : /\ ca'[d].conn_apa = ca[d].conn_apa
                        /\ ca'[d].fd # -1 => ca'[d] = ca[d] /\ ca[d].fd # f
        BY <1>f, <2>c, <2>g, <2>3, <3>2, ClosedType
    <3> QED BY <2>f, <2>k, <2>g, <2>p, <2>3, <3>5, <3>6, <3>7, <3>8, ClientGone
  <2>4. CASE /\ PoolHasElement(caPool)
             /\ client' = [client EXCEPT ![k].st = "connected"]
             /\ sock' = s
             /\ ca' = [ca EXCEPT ![c] = r]
             /\ el' = FileEventCreated(el, f, {AE_READABLE}, "read_from_consumer", c)
             /\ UNCHANGED <<apaFd, epPool, num_reqs>>
    <3>1. /\ client'[k].st = "connected" /\ client'[k].reqs = 0 /\ client'[k].sent = 0 /\ client'[k].got = <<>>
          /\ client[k].reqs = 0 /\ client[k].got = <<>> /\ \A j \in Clients \ {k} : client'[j] = client[j]
      <4>1. client[k].reqs = 0 /\ client[k].sent = 0 /\ client[k].got = <<>>
        BY <2>k DEF FInv, ClientsKnown
      <4> QED BY <1>f, <2>k, <2>4, <4>1 DEF ClientType, ClientTypes
    <3>2. c \in Ca /\ ca[c].conn_apa = NoConn /\ ca'[c] = r /\ \A d \in Ca \ {c} : ca'[d] = ca[d]
        BY <1>f, <2>c, <2>4
    <3>3. /\ \A g \in Fds \ {f} : el'.events[g] = el.events[g]
          /\ AE_WRITABLE \notin el'.events[f].mask
      <4>1. Registers(el, el', f, AE_READABLE, "read_from_consumer", c)
        BY <1>f, <2>4, <3>2, Created, Numbers DEF Procs, ReadWrite
      <4>2. el.events[f].mask = {}
        BY <2>f DEF IInv, DInv, HandlersMatch
      <4> QED BY <4>1, <4>2 DEF Registers, SameBut, AE_READABLE, AE_WRITABLE
    <3>4. ClientSockets'
      <4> SUFFICES ASSUME NEW g \in Fds, sock'[g].kind = "client"
                   PROVE  /\ sock'[g].peer \in Clients /\ client'[sock'[g].peer].st = "connected"
                          /\ \A h \in Fds : sock'[h].kind = "client" /\ sock'[h].peer = sock'[g].peer => h = g
        BY DEF ClientSockets
      <4>1. sock' = s
        BY <2>4
      <4>2. CASE g = f
        BY <2>k, <2>s, <2>g, <3>1, <4>1, <4>2
      <4>3. CASE g # f
        <5>1. sock'[g] = sock[g] /\ sock[g].peer # k
            BY <2>s, <2>g, <4>1, <4>3
        <5>2. /\ sock[g].peer \in Clients /\ client[sock[g].peer].st = "connected"
              /\ \A h \in Fds : sock[h].kind = "client" /\ sock[h].peer = sock[g].peer => h = g
            BY <5>1 DEF FInv, ClientSockets
        <5> QED BY <2>s, <3>1, <4>1, <5>1, <5>2
      <4> QED BY <4>2, <4>3
    <3>5. ClientsKnown'
      <4> SUFFICES ASSUME NEW j \in Clients
                   PROVE  /\ client'[j].st = "connected" =>
                                \E g \in Fds : sock'[g].kind = "client" /\ sock'[g].peer = j
                          /\ client'[j].st \in {"idle", "backlog"} =>
                                client'[j].reqs = 0 /\ client'[j].sent = 0 /\ client'[j].got = <<>>
        BY DEF ClientsKnown
      <4>1. sock' = s
        BY <2>4
      <4>2. CASE j = k
        BY <2>s, <3>1, <4>1, <4>2
      <4>3. CASE j # k
        <5>1. client'[j] = client[j] /\ \A g \in Fds : sock[g].kind = "client" => sock'[g] = sock[g]
            BY <2>f, <2>s, <3>1, <4>1, <4>3
        <5> QED BY <5>1 DEF FInv, ClientsKnown
      <4> QED BY <4>2, <4>3
    <3>6. \A a \in Apa : a \in Fds /\ a # f /\ sock[a].kind = "apa" /\ QuietApa(a)
        BY <2>f, Owners
    <3>7. Quiet'
      <4>1. \A g \in Fds : sock'[g].kind = "apa" => g \in Apa
        BY <2>s, <2>4 DEF FInv, Quiet
      <4>2. ASSUME NEW a \in Apa PROVE QuietApa(a)'
        <5>1. sock'[a] = sock[a] /\ el'.events[a] = el.events[a]
            BY <2>s, <2>4, <3>3, <3>6
        <5>2. el.events[a].mask # {} => el.events[a].clientData \in Ca
            BY <3>6 DEF IInv, DInv, HandlersMatch
        <5>3. \A d \in Ca : ca'[d].conn_apa = ca[d].conn_apa
            BY <2>r, <3>2
        <5> QED BY <2>p, <2>4, <3>6, <5>1, <5>2, <5>3 DEF QuietApa
      <4> QED BY <4>1, <4>2 DEF Quiet
    <3>8. Conversation(c)'
      <4>1. sock'[f].peer = k /\ sock'[f].inq = <<>>
        BY <2>s, <2>4 DEF Sock, NoSock
      <4>2. 0 * RespLen = 0 /\ Len(<<>>) = 0
        BY Numbers, EmptySeq
      <4>3. Resting(ca'[c], sock'[f], client'[k])
        BY <2>r, <3>1, <3>2, <4>1, <4>2 DEF Resting
      <4> QED BY <2>r, <3>2, <3>3, <4>1, <4>3 DEF Conversation, Talks
    <3>9. ASSUME NEW d \in Ca, d # c, ca'[d].fd # -1 PROVE Conversation(d)'
      <4> DEFINE g == ca[d].fd
                 b == ca[d].conn_apa
      <4>1. ca'[d] = ca[d] /\ g # -1 /\ g # f
        BY <2>g, <3>2, <3>9
      <4>2. /\ g \in Fds /\ sock[g].kind = "client" /\ sock[g].peer \in Clients /\ Conversation(d)
            /\ b # NoConn => b \in Apa
        BY <4>1, Owners
      <4>3. /\ sock'[g] = sock[g] /\ el'.events[g] = el.events[g] /\ client'[sock[g].peer] = client[sock[g].peer]
            /\ b # NoConn => sock'[b] = sock[b] /\ remote'[b] = remote[b]
        BY <2>s, <2>g, <2>p, <2>4, <3>1, <3>3, <3>6, <4>1, <4>2
      <4> QED BY <4>1, <4>2, <4>3, SameTalk
    <3>10. NoLeak' /\ NoCrash'
      <4>1. \A d \in Ca : ca'[d].conn_apa = ca[d].conn_apa
        BY <2>r, <3>2
      <4> QED BY <2>p, <2>4, <4>1, LeakKeeps DEF FInv, NoCrash
    <3>11. UNCHANGED Promise!fwdVars
      <4>1. \A j \in Clients : SeenSame(client[j], client'[j])
        BY <2>k, <3>1 DEF SeenSame
      <4> QED BY <4>1, StepsUnseen
    <3>12. \A d \in Ca : ca'[d].fd # -1 => Conversation(d)'
        BY <3>8, <3>9
    <3>13. FInv'
        BY <3>4, <3>5, <3>7, <3>10, <3>12 DEF FInv
    <3> QED BY <3>11, <3>13
  <2> QED BY <2>1, <2>2, <2>3, <2>4 DEF s
<1> QED BY <1>1, <1>2

-----------------------------------------------------------------------------
(* The consumers *)

LEMMA ClientSocket ==
    ASSUME WellBehaved, IInv, FInv, NEW k \in Clients, client[k].st = "connected"
    PROVE  \E fd \in Fds, c \in Ca : /\ SocketOf("client", k) = fd /\ sock[fd].kind = "client"
                                     /\ sock[fd].peer = k /\ ca[c].fd = fd /\ fd # -1
<1>1. PICK fd \in Fds : sock[fd].kind = "client" /\ sock[fd].peer = k
    BY DEF FInv, ClientsKnown
<1>2. \A g \in Fds : sock[g].kind = "client" /\ sock[g].peer = k => g = fd
    BY <1>1 DEF FInv, ClientSockets
<1>3. SocketOf("client", k) = fd
    BY <1>1, <1>2 DEF SocketOf
<1>4. el.events[fd].clientData \in Ca /\ ca[el.events[fd].clientData].fd = fd /\ fd # -1
    BY <1>1, Owners, Descriptors
<1> QED BY <1>1, <1>3, <1>4

(* Nothing moves but the socket of one object's consumer and the consumer. *)
LEMMA ConsumerMoves ==
    ASSUME WellBehaved, IInv, IInv', FInv, NEW c \in Ca, NEW fd \in Fds, ca[c].fd = fd, fd # -1,
           NEW k \in Clients, sock[fd].peer = k, \A g \in Fds \ {fd} : sock'[g] = sock[g], SameSockets(sock, sock'),
           \A j \in Clients \ {k} : client'[j] = client[j], client'[k].st = client[k].st,
           UNCHANGED <<el, ca, apaFd, epPool, remote, pc>>,
           Talks(ca[c], sock'[fd], client'[k], el.events[fd].mask, Heard(ca[c].conn_apa), Told(ca[c].conn_apa))
    PROVE  FInv'
<1>p. PICK a : a = ca[c].conn_apa
    OBVIOUS
<1>a. a # NoConn => a \in Apa /\ a \in Fds /\ a # fd /\ QuietApa(a)
  <2>1. a # NoConn => a \in Apa
    BY <1>p, Owners
  <2>2. \A b \in Apa : b \in Fds /\ sock[b].kind = "apa" /\ QuietApa(b)
    BY Owners
  <2>3. sock[fd].kind = "client"
    BY Owners
  <2> QED BY <2>1, <2>2, <2>3
<1>1. a # NoConn => QuietApa(a)'
  <2> SUFFICES ASSUME a # NoConn PROVE QuietApa(a)'
    OBVIOUS
  <2>1. sock'[a] = sock[a] /\ QuietApa(a)
    BY <1>a
  <2> QED BY <2>1 DEF QuietApa
<1>2. Heard(a)' = Heard(a) /\ Told(a)' = Told(a)
    BY <1>a DEF Heard, Told
<1>3. Conversation(c)'
  <2>1. sock'[fd].peer = k /\ ca'[c] = ca[c] /\ el'.events[fd].mask = el.events[fd].mask
    BY DEF SameSockets
  <2> QED BY <1>p, <1>2, <2>1 DEF Conversation, Heard, Told
<1>4. Local(c, a)
    BY <1>p DEF Local
<1>5. NoLeak'
    BY LeakKeeps DEF FInv
<1> QED BY <1>1, <1>3, <1>4, <1>5, LocalStep

LEMMA ConnectTalks ==
    ASSUME WellBehaved, IInv, IInv', FInv, Connect, UNCHANGED ownVars
    PROVE  FInv' /\ [Promise!FwdNext]_(Promise!fwdVars)
<1>1. PICK k \in Clients : client[k].st = "idle" /\ client' = [client EXCEPT ![k].st = "backlog"]
    BY DEF Connect
<1>u. UNCHANGED <<el, sock, pc, ca, apaFd, epPool, remote>>
    BY DEF Connect, ownVars
<1>2. /\ client'[k].st = "backlog" /\ client'[k].reqs = client[k].reqs /\ client'[k].sent = client[k].sent
      /\ client'[k].got = client[k].got /\ \A j \in Clients \ {k} : client'[j] = client[j]
  <2>1. client \in [Clients -> ClientType]
    BY DEF IInv, CType
  <2> QED BY <1>1, <2>1 DEF ClientType, ClientTypes
<1>3. \A g \in Fds : sock[g].kind = "client" => sock[g].peer \in Clients /\ sock[g].peer # k
    BY <1>1 DEF FInv, ClientSockets
<1>4. ClientSockets'
    BY <1>u, <1>2, <1>3 DEF FInv, ClientSockets
<1>5. ClientsKnown'
    BY <1>u, <1>1, <1>2 DEF FInv, ClientsKnown
<1>6. Quiet'
    BY <1>u DEF FInv, Quiet, QuietApa
<1>7. ASSUME NEW c \in Ca, ca'[c].fd # -1 PROVE Conversation(c)'
  <2>1. ca[c].fd \in Fds /\ sock[ca[c].fd].kind = "client" /\ Conversation(c)
    BY <1>u, <1>7, Owners
  <2>2. client'[sock[ca[c].fd].peer] = client[sock[ca[c].fd].peer]
    BY <1>2, <1>3, <2>1
  <2> QED BY <1>u, <2>1, <2>2, SameTalk
<1>8. NoLeak' /\ NoCrash'
    BY <1>u, LeakKeeps DEF FInv, NoCrash
<1>9. UNCHANGED Promise!fwdVars
  <2>1. \A j \in Clients : SeenSame(client[j], client'[j])
    BY <1>1, <1>2 DEF SeenSame
  <2> QED BY <2>1, StepsUnseen
<1> QED BY <1>4, <1>5, <1>6, <1>7, <1>8, <1>9 DEF FInv

(* A consumer leaves only after its last answer. *)
LEMMA AnsweredRests ==
    ASSUME NEW r, NEW s, NEW x, NEW mask, NEW aq, NEW rq, Talks(r, s, x, mask, aq, rq),
           x.reqs \in Nat, Len(x.got) \in Nat, r.nwrite_out \in Nat, x.sent = 0, Len(x.got) >= x.reqs * RespLen
    PROVE  Resting(r, s, x) /\ AE_WRITABLE \notin mask
<1>n. RespLen \in Nat \ {0}
    BY Numbers
<1>1. ASSUME NEW n \in Nat, n < RespLen, Unanswered(s, x, n) PROVE FALSE
  <2>1. Len(x.got) = (x.reqs - 1) * RespLen + n /\ x.reqs >= 1
    BY <1>1 DEF Unanswered
  <2>2. (x.reqs - 1) * RespLen + RespLen = x.reqs * RespLen /\ (x.reqs - 1) * RespLen \in Nat
    BY <1>n, <2>1
  <2> QED BY <1>n, <1>1, <2>1, <2>2
<1>2. ~Unanswered(s, x, 0) /\ (Unanswered(s, x, r.nwrite_out) => ~(r.nwrite_out < RespLen))
    BY <1>n, <1>1
<1> QED BY <1>2 DEF Talks, Asking, Passing, Replied, Answering

LEMMA DisconnectTalks ==
    ASSUME WellBehaved, IInv, IInv', FInv, NEW k \in Clients, Disconnect(k), UNCHANGED ownVars
    PROVE  FInv' /\ [Promise!FwdNext]_(Promise!fwdVars)
<1>1. client[k].st = "connected" /\ Answered(k) /\ client[k].sent = 0 /\ ClientLeaves(k, "eof")
    BY WellBehavedIs DEF Disconnect, Connected
<1>2. PICK fd \in Fds, c \in Ca : /\ SocketOf("client", k) = fd /\ sock[fd].kind = "client"
                                  /\ sock[fd].peer = k /\ ca[c].fd = fd /\ fd # -1
    BY <1>1, ClientSocket
<1>3. sock' = [sock EXCEPT ![fd].st = "eof"] /\ UNCHANGED <<el, ca, apaFd, epPool, remote, pc, client>>
    BY <1>1, <1>2 DEF ClientLeaves, ownVars
<1>f. sock \in [Fds -> Socks(Bytes)]
    BY DEF IInv, CType
<1>4. SameSockets(sock, sock') /\ sock'[fd].inq = sock[fd].inq /\ \A g \in Fds \ {fd} : sock'[g] = sock[g]
  <2>1. SameSockets(sock, sock')
    BY <1>f, <1>3, Turns
  <2> QED BY <1>f, <1>3, <2>1 DEF Socks
<1>5. Conversation(c)
    BY <1>2, Owners
<1>6. Resting(ca[c], sock[fd], client[k]) /\ AE_WRITABLE \notin el.events[fd].mask
  <2>1. /\ client[k].reqs \in Nat /\ Len(client[k].got) \in Nat /\ ca[c].nwrite_out \in Nat
        /\ Len(client[k].got) >= client[k].reqs * RespLen
    BY <1>1, ClientFacts, ObjectFacts, Numbers DEF Answered
  <2>2. Talks(ca[c], sock[fd], client[k], el.events[fd].mask, Heard(ca[c].conn_apa), Told(ca[c].conn_apa))
    BY <1>2, <1>5 DEF Conversation
  <2> QED BY <1>1, <2>1, <2>2, AnsweredRests
<1>7. Talks(ca[c], sock'[fd], client'[k], el.events[fd].mask, Heard(ca[c].conn_apa), Told(ca[c].conn_apa))
    BY <1>3, <1>4, <1>6 DEF Talks, Resting
<1>8. FInv'
    BY <1>2, <1>3, <1>4, <1>7, ConsumerMoves
<1>9. UNCHANGED Promise!fwdVars
    BY <1>3, StepsUnseen DEF SeenSame
<1> QED BY <1>8, <1>9

(* A consumer sends more of its request, or begins the next one. *)
LEMMA SendMore ==
    ASSUME NEW r, NEW s, NEW x, NEW mask, NEW aq, NEW rq, Talks(r, s, x, mask, aq, rq),
           NEW t, NEW y, NEW k, s.peer = k, NEW n \in Nat, SendsOn(s, x, t, y, k, n), y.reqs = x.reqs,
           x.sent \in Nat, x.sent > 0, x.sent < n, Len(r.buf_in) \in Nat
    PROVE  Talks(r, t, y, mask, aq, rq)
<1> DEFINE q == x.reqs
           lo == x.sent
           b == Len(r.buf_in)
<1>s. Sent(x) = lo
    BY DEF Sent
<1>t. /\ t.st = s.st /\ t.peer = k /\ y.got = x.got /\ Sent(y) = n /\ t.inq = s.inq \o Run(k, q, lo, n)
    BY DEF SendsOn
<1>o. /\ AE_WRITABLE \notin mask
      /\ Asking(r, s, x) \/ Passing(r, s, x, aq, rq)
    BY DEF Talks, Resting, Replied, Answering
<1>u. \A i : Unanswered(s, x, i) => Unanswered(t, y, i)
    BY <1>t DEF Unanswered
<1>1. CASE Asking(r, s, x)
  <2>1. RunStarts(k, q, lo, n)
    <3>1. lo \in Nat /\ lo <= n
        OBVIOUS
    <3> HIDE DEF lo, q
    <3> QED BY <3>1, RunStart
  <2>2. s.inq = Run(k, q, 0, lo) /\ r.conn_apa = NoConn /\ r.buf_in = <<>> /\ Unanswered(s, x, 0)
    BY <1>s, <1>1 DEF Asking
  <2>3. t.inq = Run(k, q, 0, n)
    <3> HIDE DEF lo, q
    <3> QED BY <1>t, <2>1, <2>2 DEF RunStarts
  <2>4. Asking(r, t, y)
    BY <1>t, <1>u, <2>2, <2>3 DEF Asking
  <2> QED BY <1>o, <2>4 DEF Talks
<1>2. CASE Passing(r, s, x, aq, rq)
  <2>1. /\ r.conn_apa # NoConn /\ r.buf_out = <<>> /\ Unanswered(s, x, 0) /\ b <= lo
        /\ r.buf_in = Run(k, q, 0, b) /\ s.inq = Run(k, q, b, lo)
        /\ rq = Run(k, q, 0, r.nwrite_in) /\ aq = <<>>
    BY <1>s, <1>2 DEF Passing
  <2>2. RunCut(k, q, b, lo, n)
    <3>1. lo \in Nat /\ b \in Nat /\ b <= lo /\ lo <= n
        BY <2>1
    <3> HIDE DEF lo, q, b
    <3> QED BY <3>1, RunParts
  <2>3. t.inq = Run(k, q, b, n)
    <3> HIDE DEF lo, q, b
    <3> QED BY <1>t, <2>1, <2>2 DEF RunCut
  <2>4. b <= n
    BY <2>1
  <2>5. Passing(r, t, y, aq, rq)
    BY <1>t, <1>u, <2>1, <2>3, <2>4 DEF Passing
  <2> QED BY <1>o, <2>5 DEF Talks
<1> QED BY <1>o, <1>1, <1>2

LEMMA SendFirst ==
    ASSUME NEW r, NEW s, NEW x, NEW mask, NEW aq, NEW rq, Resting(r, s, x), AE_WRITABLE \notin mask,
           NEW t, NEW y, NEW k, s.peer = k, NEW n \in Nat, SendsOn(s, x, t, y, k, n),
           x.reqs \in Nat, y.reqs = x.reqs + 1, s.st = "open"
    PROVE  Talks(r, t, y, mask, aq, rq)
<1> DEFINE q == y.reqs
<1>1. /\ r.conn_apa = NoConn /\ r.buf_in = <<>> /\ s.inq = <<>> /\ x.sent = 0
      /\ Len(x.got) = x.reqs * RespLen
    BY DEF Resting
<1>2. /\ t.st = s.st /\ t.peer = k /\ y.got = x.got /\ Sent(y) = n /\ t.inq = <<>> \o Run(k, q, 0, n)
    BY <1>1 DEF SendsOn
<1>3. t.inq = Run(k, q, 0, n)
  <2> HIDE DEF q
  <2>1. RunStarts(k, q, 0, n)
    BY RunStart
  <2> QED BY <1>2, <2>1 DEF RunStarts
<1>4. Unanswered(t, y, 0)
  <2>1. q - 1 = x.reqs /\ q >= 1 /\ x.reqs * RespLen + 0 = x.reqs * RespLen
    BY Numbers
  <2> QED BY <1>1, <1>2, <2>1 DEF Unanswered
<1>5. Asking(r, t, y)
    BY <1>1, <1>2, <1>3, <1>4 DEF Asking
<1> QED BY <1>5 DEF Talks

LEMMA SendTalks ==
    ASSUME WellBehaved, IInv, IInv', FInv, NEW k \in Clients, SendRequest(k, Cuts), UNCHANGED ownVars
    PROVE  FInv' /\ [Promise!FwdNext]_(Promise!fwdVars)
<1> DEFINE x == client[k]
           lo == x.sent
           req == IF lo > 0 THEN x.reqs ELSE x.reqs + 1
<1>1. x.st = "connected"
    BY DEF SendRequest, Connected
<1>2. PICK fd \in Fds, c \in Ca : /\ SocketOf("client", k) = fd /\ sock[fd].kind = "client"
                                  /\ sock[fd].peer = k /\ ca[c].fd = fd /\ fd # -1
    BY <1>1, ClientSocket
<1>3. /\ sock[fd].st = "open" /\ (lo > 0 \/ (Answered(k) /\ x.reqs < Requests))
      /\ UNCHANGED <<el, ca, apaFd, epPool, remote, pc>>
    BY <1>2 DEF SendRequest, ownVars
<1>4. PICK n \in Cuts :
           /\ n > lo
           /\ sock' = [sock EXCEPT ![fd].inq = @ \o Run(k, req, lo, n)]
           /\ client' = [client EXCEPT ![k].reqs = req, ![k].sent = IF n = ReqLen THEN 0 ELSE n]
    BY <1>2, Zenon DEF SendRequest, Run
<1>n. n \in 1 .. ReqLen /\ n \in Nat /\ ReqLen \in Nat \ {0} /\ RespLen \in Nat
    BY Numbers DEF Cuts
<1>f. /\ x.reqs \in 0 .. Requests /\ x.reqs \in Nat /\ lo \in 0 .. ReqLen - 1 /\ lo \in Nat /\ Len(x.got) \in Nat
      /\ ca[c].nwrite_out \in Nat /\ Len(ca[c].buf_in) \in Nat
    BY <1>n, ClientFacts, ObjectFacts, Numbers
<1>t. sock \in [Fds -> Socks(Bytes)] /\ client \in [Clients -> ClientType] /\ client[k] \in ClientType
    BY DEF IInv, CType
<1>5. /\ SameSockets(sock, sock') /\ sock'[fd].inq = sock[fd].inq \o Run(k, req, lo, n)
      /\ sock'[fd].st = sock[fd].st /\ sock'[fd].peer = sock[fd].peer
      /\ \A g \in Fds \ {fd} : sock'[g] = sock[g]
  <2> DEFINE new == sock[fd].inq \o Run(k, req, lo, n)
             h == sock[fd].inq
  <2>1. sock' = [sock EXCEPT ![fd].inq = new]
    BY <1>4
  <2> HIDE DEF new
  <2>2. /\ sock'[fd].inq = new /\ sock'[fd].st = sock[fd].st /\ sock'[fd].peer = sock[fd].peer
        /\ sock'[fd].kind = sock[fd].kind
        /\ \A g \in Fds \ {fd} : sock'[g] = sock[g]
    BY <1>t, <2>1 DEF Socks
  <2>3. SameSockets(sock, sock')
    BY <2>2 DEF SameSockets
  <2> QED BY <2>2, <2>3 DEF new
<1>6. /\ client'[k].reqs = req /\ client'[k].sent = (IF n = ReqLen THEN 0 ELSE n)
      /\ client'[k].got = x.got /\ client'[k].st = x.st /\ \A j \in Clients \ {k} : client'[j] = client[j]
  <2> HIDE DEF req, lo
  <2> QED BY <1>4, <1>t DEF ClientType, ClientTypes
<1>7. Sent(client'[k]) = n
    BY <1>n, <1>6 DEF Sent
<1>8. Talks(ca[c], sock[fd], x, el.events[fd].mask, Heard(ca[c].conn_apa), Told(ca[c].conn_apa))
    BY <1>2, Owners DEF Conversation
<1>9. SendsOn(sock[fd], x, sock'[fd], client'[k], k, n)
  <2> HIDE DEF req
  <2> QED BY <1>5, <1>6, <1>7 DEF SendsOn
<1>10. ASSUME Talks(ca[c], sock'[fd], client'[k], el.events[fd].mask, Heard(ca[c].conn_apa), Told(ca[c].conn_apa))
       PROVE  FInv'
    BY <1>2, <1>3, <1>5, <1>6, <1>10, ConsumerMoves
<1>11. CASE lo > 0
  <2>1. client'[k].reqs = x.reqs
    BY <1>6, <1>11
  <2>2. Talks(ca[c], sock'[fd], client'[k], el.events[fd].mask, Heard(ca[c].conn_apa), Told(ca[c].conn_apa))
    <3>1. x.sent \in Nat /\ x.sent > 0 /\ x.sent < n
        BY <1>n, <1>f, <1>4, <1>11
    <3> HIDE DEF x
    <3> QED BY <1>2, <1>n, <1>f, <1>8, <1>9, <2>1, <3>1, SendMore
  <2>3. UNCHANGED Promise!fwdVars
    <3>1. \A j \in Clients : SeenSame(client[j], client'[j])
        BY <1>6, <2>1 DEF SeenSame
    <3> QED BY <3>1, StepsUnseen
  <2> QED BY <1>10, <2>2, <2>3
<1>12. CASE ~(lo > 0)
  <2>1. x.sent = 0 /\ Len(x.got) >= x.reqs * RespLen /\ client'[k].reqs = x.reqs + 1
    BY <1>3, <1>f, <1>6, <1>12 DEF Answered
  <2>2. Resting(ca[c], sock[fd], x) /\ AE_WRITABLE \notin el.events[fd].mask
    <3> HIDE DEF x, lo
    <3> QED BY <1>f, <1>8, <2>1, AnsweredRests
  <2>3. Talks(ca[c], sock'[fd], client'[k], el.events[fd].mask, Heard(ca[c].conn_apa), Told(ca[c].conn_apa))
    <3> HIDE DEF x
    <3> QED BY <1>2, <1>3, <1>n, <1>f, <1>9, <2>1, <2>2, SendFirst
  <2>4. Promise!FwdNext
    <3>1. /\ x.st # "left" /\ client'[k].st # "left" /\ Len(x.got) = x.reqs * RespLen
          /\ client'[k].got = x.got
        BY <1>1, <1>6, <2>2 DEF Resting
    <3>2. \A j \in Clients \ {k} : SeenSame(client[j], client'[j])
        BY <1>6 DEF SeenSame
    <3> QED BY <2>1, <3>1, <3>2, StepAsks
  <2> QED BY <1>10, <2>3, <2>4
<1> QED BY <1>11, <1>12

-----------------------------------------------------------------------------
(* The provider agents *)

(* A whole request on the connection a, and its answer. *)
WholeRequest(rq, k, q) ==
    /\ rq = Run(k, q, 0, ReqLen) /\ Suffix(rq, ReqLen) = <<>>
    /\ [i \in 1 .. RespLen |-> <<rq[1][1], rq[1][2], i>>] = Run(k, q, 0, RespLen)
    /\ <<>> \o Prefix(Run(k, q, 0, RespLen), RespLen) = Run(k, q, 0, RespLen)
    /\ Suffix(Run(k, q, 0, RespLen), RespLen) = <<>>
LEMMA WholeRequestIs ==
    ASSUME NEW k, NEW q, NEW rq, rq = Run(k, q, 0, ReqLen)
    PROVE  WholeRequest(rq, k, q)
<1>n. ReqLen \in Nat \ {0} /\ RespLen \in Nat
    BY Numbers
<1>1. RunStarts(k, q, ReqLen, ReqLen) /\ RunStarts(k, q, RespLen, RespLen) /\ RunStarts(k, q, 0, RespLen)
    BY <1>n, RunStart
<1>2. RunFacts(k, q, 0, ReqLen)
    BY <1>n, RunIs
<1>3. rq[1] = <<k, q, 1>>
    BY <1>n, <1>2 DEF RunFacts
<1>4. [i \in 1 .. RespLen |-> <<rq[1][1], rq[1][2], i>>] = Run(k, q, 0, RespLen)
    BY <1>n, <1>3 DEF Run
<1>5. Prefix(Run(k, q, 0, RespLen), RespLen) = Run(k, q, 0, RespLen) /\ Suffix(Run(k, q, 0, RespLen), RespLen) = <<>>
    BY <1>1 DEF RunStarts
<1>6. <<>> \o Run(k, q, 0, RespLen) = Run(k, q, 0, RespLen) /\ Suffix(rq, ReqLen) = <<>>
    BY <1>1 DEF RunStarts
<1> QED BY <1>4, <1>5, <1>6 DEF WholeRequest

(* A provider agent has a whole request only from an object that has       *)
(* forwarded all of it.                                                    *)
LEMMA WholePassed ==
    ASSUME NEW r, NEW s, NEW x, NEW mask, NEW aq, NEW rq, GoodContents(r), Sent(x) \in 1 .. ReqLen,
           Sent(x) = ReqLen <=> x.sent = 0,
           Talks(r, s, x, mask, aq, rq), r.conn_apa # NoConn, Len(rq) >= ReqLen
    PROVE  /\ rq = Run(s.peer, x.reqs, 0, ReqLen) /\ aq = <<>>
           /\ \A bq : bq = Run(s.peer, x.reqs, 0, RespLen) => Talks(r, s, x, mask, bq, <<>>)
<1> DEFINE k == s.peer
           q == x.reqs
           w == r.nwrite_in
           n == Len(r.buf_in)
<1>n. ReqLen \in Nat \ {0} /\ Len(<<>>) = 0
    BY Numbers, EmptySeq
<1>f. w \in Nat /\ w <= n /\ n \in Nat
  <2>1. r.buf_in \in Seq(Bytes) /\ w \in Nat /\ w <= n
    BY DEF GoodContents, Objects
  <2> QED BY <2>1, LenProperties
<1>1. Passing(r, s, x, aq, rq) /\ AE_WRITABLE \notin mask
    BY <1>n DEF Talks, Resting, Asking, Replied, Answering
<1>2. /\ r.conn_apa # NoConn /\ r.buf_out = <<>> /\ Unanswered(s, x, 0) /\ n <= Sent(x)
      /\ r.buf_in = Run(k, q, 0, n) /\ s.inq = Run(k, q, n, Sent(x)) /\ rq = Run(k, q, 0, w) /\ aq = <<>>
    BY <1>1 DEF Passing
<1> HIDE DEF k, q, w, n
<1>3. Len(rq) = w
  <2>1. RunStarts(k, q, w, w)
    BY <1>f, RunStart
  <2> QED BY <1>2, <2>1 DEF RunStarts
<1>4. w = ReqLen /\ n = ReqLen /\ Sent(x) = ReqLen /\ x.sent = 0
    BY <1>n, <1>f, <1>2, <1>3
<1>5. s.inq = <<>>
  <2>1. RunStarts(k, q, ReqLen, ReqLen)
    BY <1>n, RunStart
  <2> QED BY <1>2, <1>4, <2>1 DEF RunStarts
<1>6. ASSUME NEW bq, bq = Run(k, q, 0, RespLen) PROVE Talks(r, s, x, mask, bq, <<>>)
  <2>1. Replied(r, s, x, bq, <<>>)
    BY <1>n, <1>2, <1>4, <1>5, <1>6 DEF Replied, k, q, w, n
  <2> QED BY <1>1, <2>1 DEF Talks
<1> QED BY <1>2, <1>4, <1>6 DEF k, q

LEMMA RemoteTalks ==
    ASSUME WellBehaved, IInv, IInv', FInv, NEW a \in Apa,
           RemoteAnswer(a) \/ RemoteContinue(a) \/ RemoteClose(a)
    PROVE  FInv' /\ [Promise!FwdNext]_(Promise!fwdVars)
<1>a. a \in Fds /\ sock[a].kind = "apa" /\ QuietApa(a) /\ apaFd[a] = a /\ remote[a].out = <<>> /\ a # NoConn
    BY Owners, Numbers DEF QuietApa
<1>1. RemoteAnswer(a)
    BY <1>a, WellBehavedIs DEF RemoteContinue, RemoteClose
<1> DEFINE rq == remote[a].inq
<1>f. /\ sock \in [Fds -> Socks(Bytes)] /\ remote \in Remotes /\ rq \in Seq(Bytes) /\ ca \in [Ca -> Objects]
      /\ client \in [Clients -> ClientType]
    BY DEF IInv, CType, Remotes
<1>2. Len(rq) >= ReqLen
    BY <1>1 DEF RemoteAnswer, IsRequest
<1>3. PICK c \in Ca : ca[c].conn_apa = a
  <2>1. rq # <<>>
    BY <1>f, <1>2, EmptySeq, Numbers
  <2> QED BY <1>a, <2>1 DEF QuietApa
<1> DEFINE f == ca[c].fd
           k == sock[f].peer
           x == client[k]
           q == x.reqs
           mask == el.events[f].mask
<1>4. /\ f \in Fds /\ f # -1 /\ f # a /\ k \in Clients
      /\ Talks(ca[c], sock[f], x, mask, sock[a].inq, rq)
  <2>1. f # -1
    BY <1>a, <1>3, Owners
  <2>2. /\ f \in Fds /\ k \in Clients /\ sock[f].kind = "client" /\ Conversation(c)
    BY <2>1, Owners
  <2>3. Heard(ca[c].conn_apa) = sock[a].inq /\ Told(ca[c].conn_apa) = remote[a].inq
    BY <1>a, <1>3 DEF Heard, Told
  <2> QED BY <1>a, <2>1, <2>2, <2>3 DEF Conversation
<1>5. /\ rq = Run(k, q, 0, ReqLen) /\ sock[a].inq = <<>>
      /\ \A bq : bq = Run(k, q, 0, RespLen) => Talks(ca[c], sock[f], x, mask, bq, <<>>)
  <2>1. Sent(x) \in 1 .. ReqLen /\ (Sent(x) = ReqLen <=> x.sent = 0) /\ GoodContents(ca[c])
    BY <1>4, ClientFacts DEF IInv, CType
  <2>2. ca[c].conn_apa # NoConn
    BY <1>a, <1>3
  <2> HIDE DEF x, f, mask, rq
  <2> QED BY <1>2, <1>4, <2>1, <2>2, WholePassed
<1>6. WholeRequest(rq, k, q)
  <2> HIDE DEF rq, k, q
  <2> QED BY <1>5, WholeRequestIs
<1>7. /\ sock' = [sock EXCEPT ![a].inq = Run(k, q, 0, RespLen)]
      /\ remote' = [remote EXCEPT ![a] = [inq |-> <<>>, out |-> <<>>]]
      /\ UNCHANGED <<el, ca, apaFd, epPool, pc, client>>
  <2> DEFINE out == [i \in 1 .. RespLen |-> <<rq[1][1], rq[1][2], i>>]
  <2>1. /\ sock' = [sock EXCEPT ![a].inq = @ \o Prefix(out, RespLen)]
        /\ remote' = [remote EXCEPT ![a] = [inq |-> Suffix(rq, ReqLen), out |-> Suffix(out, RespLen)]]
    BY <1>1, <1>a, WellBehavedIs DEF RemoteAnswer
  <2>2. /\ sock[a].inq \o Prefix(out, RespLen) = Run(k, q, 0, RespLen) /\ Suffix(rq, ReqLen) = <<>>
        /\ Suffix(out, RespLen) = <<>>
    <3> HIDE DEF rq, k, q
    <3> QED BY <1>5, <1>6 DEF WholeRequest
  <2>3. UNCHANGED <<el, ca, apaFd, epPool, pc, client>>
    BY <1>1 DEF RemoteAnswer, EnvVars
  <2> DEFINE part == Prefix(out, RespLen)
  <2>4. sock' = [sock EXCEPT ![a].inq = sock[a].inq \o part]
    BY <2>1
  <2> HIDE DEF out, part, k, q
  <2> QED BY <2>1, <2>2, <2>3, <2>4 DEF part
<1>8. /\ sock'[a].inq = Run(k, q, 0, RespLen) /\ sock'[a].st = sock[a].st
      /\ SameSockets(sock, sock') /\ \A g \in Fds \ {a} : sock'[g] = sock[g]
      /\ remote'[a].inq = <<>> /\ remote'[a].out = <<>> /\ \A b \in Apa \ {a} : remote'[b] = remote[b]
  <2> DEFINE new == Run(k, q, 0, RespLen)
  <2> HIDE DEF new
  <2>1. /\ sock'[a].inq = new /\ sock'[a].st = sock[a].st /\ sock'[a].kind = sock[a].kind
        /\ sock'[a].peer = sock[a].peer /\ \A g \in Fds \ {a} : sock'[g] = sock[g]
    BY <1>a, <1>f, <1>7 DEF Socks, new
  <2>2. remote'[a].inq = <<>> /\ remote'[a].out = <<>> /\ \A b \in Apa \ {a} : remote'[b] = remote[b]
    BY <1>f, <1>7 DEF Remotes
  <2> QED BY <2>1, <2>2 DEF SameSockets, new
<1>9. Conversation(c)'
  <2>1. Heard(a)' = Run(k, q, 0, RespLen) /\ Told(a)' = <<>>
    BY <1>a, <1>8 DEF Heard, Told
  <2>2. Talks(ca[c], sock[f], x, mask, Heard(a)', Told(a)')
    <3> HIDE DEF k, q, f, x, mask
    <3> QED BY <1>5, <2>1
  <2>3. /\ ca'[c] = ca[c] /\ ca[c].fd = f /\ ca[c].conn_apa = a /\ sock'[f] = sock[f] /\ client' = client
        /\ el' = el
    BY <1>3, <1>4, <1>7, <1>8
  <2> QED BY <2>2, <2>3 DEF Conversation, Heard, Told
<1>10. QuietApa(a)'
    BY <1>a, <1>3, <1>7, <1>8 DEF QuietApa
<1>11. Local(c, a)
    BY <1>3, <1>4, <1>7, <1>8 DEF Local
<1>12. NoLeak'
    BY <1>7, LeakKeeps DEF FInv
<1>13. FInv'
    BY <1>4, <1>9, <1>10, <1>11, <1>12, LocalStep
<1>14. UNCHANGED Promise!fwdVars
    BY <1>7, StepsUnseen DEF SeenSame
<1> QED BY <1>13, <1>14

-----------------------------------------------------------------------------
LEMMA InitTalks ==
    ASSUME Init
    PROVE  FInv /\ Promise!FwdInit
<1>n. /\ NumEp * NumApa \in Nat /\ NumEp * NumApa < NumFds /\ Apa = 1 .. NumEp * NumApa
      /\ NoConn \notin Apa /\ NumFds \in Nat
    BY Numbers, Descriptors DEF Apa
<1>i. /\ ca = [c \in Ca |-> Closed] /\ apaFd = [a \in Apa |-> a]
      /\ epPool = [e \in Ep |-> FullPool([i \in 1 .. NumApa |-> e * NumApa + i])]
      /\ remote = [a \in Apa |-> [inq |-> <<>>, out |-> <<>>]]
      /\ client = [k \in Clients |-> [st |-> "idle", reqs |-> 0, sent |-> 0, got |-> <<>>]]
      /\ pc = "running" /\ LoopInit("apa", NumEp * NumApa)
    BY DEF Init, LoopInit
<1>1. /\ sock[0].kind = "listen" /\ \A fd \in 1 .. NumEp * NumApa : sock[fd].kind = "apa"
      /\ \A fd \in Fds : fd # 0 /\ fd \notin 1 .. NumEp * NumApa => sock[fd].kind = "free"
    BY <1>n, <1>i, InitialSockets
<1>2. \A fd \in Fds : sock[fd].kind # "client" /\ (sock[fd].kind = "apa" => fd \in Apa)
    BY <1>n, <1>1
<1>3. ClientSockets
    BY <1>2 DEF ClientSockets
<1>4. ClientsKnown
    BY <1>i DEF ClientsKnown
<1>5. ASSUME NEW a \in Apa PROVE QuietApa(a)
  <2>1. a \in Fds /\ a # 0 /\ a \in 1 .. NumEp * NumApa
    BY <1>n DEF Fds
  <2>2. sock[a].st = "open" /\ sock[a].inq = <<>>
    <3>1. sock[a] = Sock("apa", a)
        BY <1>i, <2>1 DEF LoopInit, ListenFd
    <3> QED BY <3>1 DEF Sock, NoSock
  <2>3. el.events[a].mask = {}
    BY <1>i, <2>1, InitialLoop DEF LoopInit
  <2>4. apaFd[a] = a /\ remote[a].out = <<>> /\ remote[a].inq = <<>>
    BY <1>i
  <2> QED BY <2>2, <2>3, <2>4 DEF QuietApa
<1>6. Quiet
    BY <1>2, <1>5 DEF Quiet
<1>7. \A c \in Ca : ca[c].fd = -1 /\ ca[c].conn_apa = NoConn
    BY <1>i, ClosedType
<1>8. NoLeak
  <2> SUFFICES ASSUME NEW e \in Ep PROVE epPool[e].outstanding = Cardinality(UsedOf(ca, e))
    BY DEF NoLeak, UsedOf
  <2>1. UsedOf(ca, e) = {}
    BY <1>7 DEF UsedOf
  <2>2. epPool[e].outstanding = 0
    <3> DEFINE st == [i \in 1 .. NumApa |-> e * NumApa + i]
    <3>1. epPool[e] = FullPool(st)
        BY <1>i
    <3> HIDE DEF st
    <3>2. FullPool(st).outstanding = 0
        BY Zenon DEF FullPool, PoolSetup
    <3> QED BY <3>1, <3>2
  <2> QED BY <2>1, <2>2, FS_EmptySet
<1>9. NoCrash
    BY <1>i DEF NoCrash
<1>10. Promise!FwdInit
    BY <1>i DEF Promise!FwdInit
<1> QED BY <1>3, <1>4, <1>6, <1>7, <1>8, <1>9, <1>10 DEF FInv

(* The handler and object of a dispatched event. *)
LEMMA AgentTalks ==
    ASSUME WellBehaved, IInv, IInv', FInv, Agent
    PROVE  FInv' /\ [Promise!FwdNext]_(Promise!fwdVars)
<1>e. AE_READABLE \in ReadWrite /\ AE_WRITABLE \in ReadWrite
    BY DEF ReadWrite
<1>1. CASE Loop /\ UNCHANGED ownVars
  <2>1. UNCHANGED <<ownVars, el, sock, client>> /\ (pc' = pc \/ pc' = "exited")
    BY <1>1 DEF Loop, Poll, Exit, DispatchNothing
  <2>2. pc' # "crashed"
    BY <2>1 DEF FInv, NoCrash
  <2> QED BY <2>1, <2>2, NothingTalks
<1>2. CASE DispatchAccept
    BY <1>2, AcceptTalks DEF DispatchAccept
<1>3. CASE DispatchReadFromConsumer
  <2>1. PICK fd \in Fds : /\ Calls(fd, AE_READABLE, "read_from_consumer")
                          /\ read_from_consumer(fd, el.events[fd].clientData)
    BY <1>3 DEF DispatchReadFromConsumer
  <2>2. PICK c \in Ca : c = el.events[fd].clientData
    BY <1>e, <2>1, ConsumerCalls
  <2>3. sock[fd].kind = "client" /\ read_from_consumer(fd, c)
    BY <1>e, <2>1, <2>2, ConsumerCalls
  <2> QED BY <2>2, <2>3, ReadConsumerTalks
<1>4. CASE DispatchWriteToRemoteAgent
  <2>1. PICK fd \in Fds : /\ Calls(fd, AE_WRITABLE, "write_to_remote_agent")
                          /\ write_to_remote_agent(fd, el.events[fd].clientData)
    BY <1>4 DEF DispatchWriteToRemoteAgent
  <2>2. PICK c \in Ca : c = el.events[fd].clientData
    BY <1>e, <2>1, RemoteCalls
  <2>3. sock[fd].kind = "apa" /\ write_to_remote_agent(fd, c) /\ el.events[fd].mask # {}
    <3>1. sock[fd].kind = "apa"
        BY <1>e, <2>1, RemoteCalls
    <3> QED BY <2>1, <2>2, <3>1 DEF Calls, Registered
  <2> QED BY <2>2, <2>3, WriteRemoteTalks
<1>5. CASE DispatchReadFromRemoteAgent
  <2>1. PICK fd \in Fds : /\ Calls(fd, AE_READABLE, "read_from_remote_agent")
                          /\ read_from_remote_agent(fd, el.events[fd].clientData)
    BY <1>5 DEF DispatchReadFromRemoteAgent
  <2>2. PICK c \in Ca : c = el.events[fd].clientData
    BY <1>e, <2>1, RemoteCalls
  <2>3. sock[fd].kind = "apa" /\ read_from_remote_agent(fd, c) /\ el.events[fd].mask # {}
    <3>1. sock[fd].kind = "apa"
        BY <1>e, <2>1, RemoteCalls
    <3> QED BY <2>1, <2>2, <3>1 DEF Calls, Registered
  <2> QED BY <2>2, <2>3, ReadRemoteTalks
<1>6. CASE DispatchWriteToConsumer
  <2>1. PICK fd \in Fds : /\ Calls(fd, AE_WRITABLE, "write_to_consumer")
                          /\ write_to_consumer(fd, el.events[fd].clientData)
    BY <1>6 DEF DispatchWriteToConsumer
  <2>2. PICK c \in Ca : c = el.events[fd].clientData
    BY <1>e, <2>1, ConsumerCalls
  <2>3. sock[fd].kind = "client" /\ write_to_consumer(fd, c) /\ AE_WRITABLE \in el.events[fd].mask
    <3>1. sock[fd].kind = "client"
        BY <1>e, <2>1, ConsumerCalls
    <3> QED BY <2>1, <2>2, <3>1 DEF Calls, Registered
  <2> QED BY <2>2, <2>3, WriteConsumerTalks
<1> QED BY <1>1, <1>2, <1>3, <1>4, <1>5, <1>6 DEF Agent

LEMMA StepTalks ==
    ASSUME WellBehaved, IInv, FInv, [Next]_vars
    PROVE  FInv' /\ [Promise!FwdNext]_(Promise!fwdVars)
<1>i. IInv'
    BY StepOK
<1>1. CASE Agent
    BY <1>i, <1>1, AgentTalks
<1>2. CASE ClientStep /\ UNCHANGED ownVars
  <2>1. CASE Connect
    BY <1>i, <1>2, <2>1, ConnectTalks
  <2>2. ASSUME NEW k \in Clients, SendRequest(k, Cuts)
        PROVE  FInv' /\ [Promise!FwdNext]_(Promise!fwdVars)
    BY <1>i, <1>2, <2>2, SendTalks
  <2>3. ASSUME NEW k \in Clients, Disconnect(k)
        PROVE  FInv' /\ [Promise!FwdNext]_(Promise!fwdVars)
    BY <1>i, <1>2, <2>3, DisconnectTalks
  <2>4. \A k \in Clients : ~Reset(k)
    BY WellBehavedIs DEF Reset
  <2> QED BY <1>2, <2>1, <2>2, <2>3, <2>4 DEF ClientStep
<1>3. CASE \E a \in Apa : RemoteAnswer(a) \/ RemoteContinue(a) \/ RemoteClose(a)
    BY <1>i, <1>3, RemoteTalks
<1>4. CASE UNCHANGED vars
  <2>1. UNCHANGED <<ownVars, el, sock, client, pc>>
    BY <1>4 DEF vars, loopVars
  <2>2. pc' # "crashed"
    BY <2>1 DEF FInv, NoCrash
  <2> QED BY <2>1, <2>2, NothingTalks
<1> QED BY <1>1, <1>2, <1>3, <1>4 DEF Next, Environment

(* Among well-behaved peers every conversation between a consumer and the  *)
(* object that serves it is in one of its stages, and nothing is under way *)
(* elsewhere.                                                              *)
THEOREM ConsumerTalks == ASSUME WellBehaved PROVE Spec => [](IInv /\ FInv)
<1>1. Init => IInv /\ FInv
    BY InitOK, InitTalks
<1>2. IInv /\ FInv /\ [Next]_vars => (IInv /\ FInv)'
    BY StepOK, StepTalks
<1> QED BY <1>1, <1>2, PTL DEF Spec

(* "transparent TCP forwarding" (README.md:29): every step of the agent,   *)
(* of a consumer or of a provider agent is a step of the promise or is not *)
(* seen by the consumers.                                                  *)
THEOREM ConsumerForwards == ASSUME WellBehaved PROVE Spec => RefinesForwarding
<1>1. Init => Promise!FwdInit
    BY InitTalks
<1>2. IInv /\ FInv /\ [Next]_vars => [Promise!FwdNext]_(Promise!fwdVars)
    BY StepTalks
<1>3. Spec => [](IInv /\ FInv)
    BY ConsumerTalks
<1> QED BY <1>1, <1>2, <1>3, PTL DEF Spec, RefinesForwarding, Promise!FwdSafety

(* No provider connection is lost among well-behaved peers. *)
THEOREM NoConnectionLeaks == ASSUME WellBehaved PROVE Spec => []NoLeak
<1>1. IInv /\ FInv => NoLeak
    BY DEF FInv
<1> QED BY <1>1, ConsumerTalks, PTL

(* No handler dereferences a NULL conn_apa among well-behaved peers. *)
THEOREM ConsumerNeverCrashes == ASSUME WellBehaved PROVE Spec => []NoCrash
<1>1. IInv /\ FInv => NoCrash
    BY DEF FInv
<1> QED BY <1>1, ConsumerTalks, PTL

=============================================================================
