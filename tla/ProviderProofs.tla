--------------------------- MODULE ProviderProofs ---------------------------
(***************************************************************************)
(* Proofs about the provider agent for every number of objects, clients,   *)
(* descriptors and every set of faults.                                    *)
(*                                                                         *)
(* After a failed registration an object may be in its pool twice, so that *)
(* two sockets have events that point to it and one of them belongs to     *)
(* nobody.  What still holds rests on connection_ap: it is closed by every *)
(* abort and never opened again, so an object that was put back twice has  *)
(* no local provider any more and its clients never get an answer          *)
(* (Abandoned), and an object that has one is the only owner of the        *)
(* sockets whose events point to it (Bound).                               *)
(*                                                                         *)
(* The second part is about well-behaved peers: each object that is in use *)
(* is in one stage of an exchange that says which bytes are where, and the *)
(* local connection of one that is not holds none (Exchange), which is why *)
(* the next client cannot get an answer that is not its own.               *)
(***************************************************************************)
EXTENDS ProviderSystem, AgentLemmas, FiniteSetTheorems

Objects == [fd : Fds \union {-1}, nread_in : 0 .. BufIn, parser : -1 .. ReqLen - 1,
            processing : BOOLEAN, buf_req : {NoReq} \union (Clients \X (0 .. Requests)),
            nwrite_req : 0 .. DubboLen, buf_resp : Seq(Tokens)]
ClientType == ClientTypes(Tokens)

(* The types of all the variables the handlers read, and the fill of the   *)
(* response buffer.                                                        *)
PType ==
    /\ el \in AgentLoops /\ InRange(el)
    /\ sock \in [Fds -> Socks(Tokens)]
    /\ client \in [Clients -> ClientType]
    /\ caa \in [Caa -> Objects]
    /\ \A c \in Caa : Len(caa[c].buf_resp) <= BufResp
    /\ caaPool \in Pools(NumCaa, Caa)
    /\ apFd \in [Caa -> Fds \union {-1}]
    /\ local \in [Caa -> [inq : Seq(Tokens), out : Seq(Tokens)]]
    /\ pc \in {"running", "exited", "crashed"} /\ stop \in BOOLEAN

(* A registered event is handled by the handler for its kind of socket and *)
(* points to an object; the one of a connection_ap to the object it is     *)
(* bound to.                                                               *)
HandlersMatch(l, s, ap) ==
    \A fd \in Fds : l.events[fd].mask # {} =>
        \/ /\ s[fd].kind = "listen"
           /\ l.events[fd].mask = {AE_READABLE} /\ l.events[fd].rfileProc = "accept_tcp_handler"
        \/ /\ s[fd].kind = "client" /\ l.events[fd].clientData \in Caa
           /\ AE_READABLE \in l.events[fd].mask =>
                l.events[fd].rfileProc = "read_from_consumer_agent"
           /\ AE_WRITABLE \in l.events[fd].mask =>
                l.events[fd].wfileProc = "write_to_consumer_agent"
        \/ /\ s[fd].kind = "ap" /\ l.events[fd].clientData \in Caa
           /\ ap[l.events[fd].clientData] = fd
           /\ AE_READABLE \in l.events[fd].mask =>
                l.events[fd].rfileProc = "read_from_local_provider"
           /\ AE_WRITABLE \in l.events[fd].mask =>
                l.events[fd].wfileProc = "write_to_local_provider"

(* What the objects and connections refer to is open, theirs and points    *)
(* back to them.                                                           *)
ObjectsOwn(l, s, obj) ==
    \A c \in Caa : obj[c].fd # -1 =>
        s[obj[c].fd].kind = "client" /\ l.events[obj[c].fd].clientData = c
LocalsOwn(s, ap) ==
    \A c \in Caa : ap[c] # -1 => s[ap[c]].kind = "ap" /\ s[ap[c]].peer = c

ClientEvent(l, s, fd, c) ==
    s[fd].kind = "client" /\ l.events[fd].mask # {} /\ l.events[fd].clientData = c

Bound(l, s, obj, ap) ==
    \A c \in Caa : ap[c] # -1 => \A fd \in Fds : ClientEvent(l, s, fd, c) => obj[c].fd = fd
Abandoned(l, s, ap) ==
    \A c \in Caa : ap[c] = -1 =>
        \A fd \in Fds : ClientEvent(l, s, fd, c) => AE_WRITABLE \notin l.events[fd].mask

(* An object whose local provider is connected is in the pool only when it *)
(* is closed, and only once.                                               *)
PooledOnce(obj, stack, ap) ==
    \A c \in Caa : ap[c] # -1 =>
        \A i \in DOMAIN stack : stack[i] = c =>
            obj[c].fd = -1 /\ \A j \in DOMAIN stack : stack[j] = c => i = j

Whole(l, obj) ==
    \A c \in Caa : obj[c].fd # -1 /\ AE_WRITABLE \in l.events[obj[c].fd].mask =>
        Len(obj[c].buf_resp) >= RespLen

(* Before the first abort the pool and its counters describe the objects.  *)
Healthy(l, s, obj, pool, ap) ==
    (\A c \in Caa : ap[c] # -1) =>
        /\ \A c \in Caa : obj[c].fd = -1 => \E i \in DOMAIN pool.alloc_stack : pool.alloc_stack[i] = c
        /\ \A fd \in Fds : s[fd].kind = "client" =>
            l.events[fd].clientData \in Caa /\ obj[l.events[fd].clientData].fd = fd
        /\ pool.outstanding = Cardinality({c \in Caa : obj[c].fd # -1})
        /\ pool.empty_stack_size = pool.outstanding

DInv(l, s, obj, pool, ap) ==
    /\ HandlersMatch(l, s, ap)
    /\ ObjectsOwn(l, s, obj)
    /\ LocalsOwn(s, ap)
    /\ Bound(l, s, obj, ap)
    /\ Abandoned(l, s, ap)
    /\ PooledOnce(obj, pool.alloc_stack, ap)
    /\ Whole(l, obj)
    /\ Healthy(l, s, obj, pool, ap)

IInv == PType /\ DInv(el, sock, caa, caaPool, apFd)

-----------------------------------------------------------------------------
LEMMA Numbers == /\ NumCaa \in Nat \ {0} /\ Caa \in SUBSET Nat /\ Caa \in SUBSET Int
                 /\ BufIn \in Nat \ {0} /\ BufResp \in Nat \ {0} /\ HeadLen \in Nat \ {0}
                 /\ DubboLen \in Nat \ {0} /\ ReqLen \in Nat \ {0} /\ RespLen \in Nat \ {0}
                 /\ Requests \in Nat \ {0} /\ RespLen > 1 /\ HeadLen < ReqLen
                 /\ NumFds > NumCaa
BY LoopAssumption, ProviderAssumption DEF Caa


LEMMA ClosedType == Closed \in Objects
<1>1. <<>> \in Seq(Tokens) /\ NoReq \in {NoReq} \union (Clients \X (0 .. Requests))
    BY EmptySeq
<1>2. -1 \in -1 .. ReqLen - 1 /\ 0 \in -1 .. ReqLen - 1 /\ 0 \in 0 .. BufIn /\ 0 \in 0 .. DubboLen
    BY Numbers
<1> QED BY <1>1, <1>2 DEF Closed, Objects

-----------------------------------------------------------------------------
(* DInv, operation by operation.  The event loop, the sockets, the         *)
(* objects, the pool and the connections to the local provider are         *)
(* l, s, obj, p, ap before and l2, s2, obj2, p2, ap2 after it.             *)

Typed(l, s, obj, p, ap) ==
    /\ l \in AgentLoops /\ s \in [Fds -> Socks(Tokens)] /\ obj \in [Caa -> Objects]
    /\ p \in Pools(NumCaa, Caa) /\ ap \in [Caa -> Fds \union {-1}]

(* The sockets' queues and states do not matter. *)
LEMMA SocketsKeep ==
    ASSUME NEW l, NEW s, NEW obj, NEW p, NEW ap, NEW s2,
           Typed(l, s, obj, p, ap), DInv(l, s, obj, p, ap), SameSockets(s, s2)
    PROVE  DInv(l, s2, obj, p, ap)
<1> USE DEF Typed, DInv, SameSockets
<1>1. HandlersMatch(l, s2, ap)
    BY DEF HandlersMatch
<1>2. ObjectsOwn(l, s2, obj)
  <2>1. \A c \in Caa : obj[c].fd \in Fds \union {-1}
    BY DEF Objects
  <2> QED BY <2>1 DEF ObjectsOwn
<1>3. LocalsOwn(s2, ap)
    BY DEF LocalsOwn
<1>4. Bound(l, s2, obj, ap) /\ Abandoned(l, s2, ap)
    BY DEF Bound, Abandoned, ClientEvent
<1>5. Healthy(l, s2, obj, p, ap)
    BY DEF Healthy
<1> QED BY <1>1, <1>2, <1>3, <1>4, <1>5

(* Fewer events are registered on fd. *)
LEMMA FewerEventsKeep ==
    ASSUME NEW l, NEW s, NEW obj, NEW p, NEW ap, NEW l2, NEW fd \in Fds, NEW mask,
           Typed(l, s, obj, p, ap), DInv(l, s, obj, p, ap),
           SameBut(l, l2, {fd}), Masked(l, l2, fd, mask), mask \subseteq l.events[fd].mask
    PROVE  DInv(l2, s, obj, p, ap)
<1> USE DEF Typed, DInv
<1>0. \A g \in Fds : /\ l2.events[g].mask \subseteq l.events[g].mask
                      /\ l2.events[g].rfileProc = l.events[g].rfileProc
                      /\ l2.events[g].wfileProc = l.events[g].wfileProc
                      /\ l2.events[g].clientData = l.events[g].clientData
    BY DEF SameBut, Masked
<1>f. \A c \in Caa : obj[c].fd \in Fds \union {-1}
    BY DEF Objects
<1>1. HandlersMatch(l2, s, ap)
  <2> SUFFICES ASSUME NEW g \in Fds, l2.events[g].mask # {}
               PROVE  HandlersMatch(l2, s, ap)!(g)!2
    BY DEF HandlersMatch
  <2> QED BY <1>0 DEF HandlersMatch
<1>2. ObjectsOwn(l2, s, obj)
    BY <1>0, <1>f DEF ObjectsOwn
<1>4. Bound(l2, s, obj, ap) /\ Abandoned(l2, s, ap)
    BY <1>0 DEF Bound, Abandoned, ClientEvent
<1>5. Healthy(l2, s, obj, p, ap)
    BY <1>0 DEF Healthy
<1>6. Whole(l2, obj)
    BY <1>0, <1>f DEF Whole
<1> QED BY <1>1, <1>2, <1>4, <1>5, <1>6

(* The object c gets other contents: the same descriptor and no shorter a  *)
(* response, or no response is to be written.                              *)
Continues(l, obj, c, r) ==
    /\ r.fd = obj[c].fd
    /\ \/ Len(r.buf_resp) >= Len(obj[c].buf_resp)
       \/ obj[c].fd # -1 /\ AE_WRITABLE \notin l.events[obj[c].fd].mask

LEMMA ContentsKeep ==
    ASSUME NEW l, NEW s, NEW obj, NEW p, NEW ap, NEW c \in Caa, NEW r \in Objects,
           Typed(l, s, obj, p, ap), DInv(l, s, obj, p, ap), Continues(l, obj, c, r)
    PROVE  DInv(l, s, [obj EXCEPT ![c] = r], p, ap)
<1> USE DEF Typed, DInv, Continues
<1> DEFINE obj2 == [obj EXCEPT ![c] = r]
<1>0. \A d \in Caa : obj2[d].fd = obj[d].fd
    OBVIOUS
<1>w. Whole(l, obj2)
  <2> SUFFICES ASSUME NEW d \in Caa, obj2[d].fd # -1, AE_WRITABLE \in l.events[obj2[d].fd].mask
               PROVE  Len(obj2[d].buf_resp) >= RespLen
    BY DEF Whole
  <2>1. Len(obj[d].buf_resp) >= RespLen
    BY <1>0 DEF Whole
  <2>2. CASE d # c
    BY <2>1, <2>2
  <2>3. CASE d = c
    <3>1. Len(r.buf_resp) \in Nat /\ Len(obj[c].buf_resp) \in Nat /\ RespLen \in Nat
        BY Numbers, LenProperties DEF Objects
    <3>2. obj2[d] = r
        BY <2>3
    <3> QED BY <1>0, <2>1, <2>3, <3>1, <3>2
  <2> QED BY <2>2, <2>3
<1> HIDE DEF obj2
<1>1. ObjectsOwn(l, s, obj2) /\ Bound(l, s, obj2, ap) /\ PooledOnce(obj2, p.alloc_stack, ap)
    BY <1>0 DEF ObjectsOwn, Bound, PooledOnce
<1>2. Healthy(l, s, obj2, p, ap)
  <2>1. {d \in Caa : obj2[d].fd # -1} = {d \in Caa : obj[d].fd # -1}
    BY <1>0
  <2> QED BY <1>0, <2>1 DEF Healthy
<1> QED BY <1>w, <1>1, <1>2 DEF obj2


(* An event is registered for a connection to the local provider. *)
LEMMA LocalEventKeeps ==
    ASSUME NEW l, NEW s, NEW obj, NEW p, NEW ap, NEW l2, NEW c \in Caa, NEW ev \in ReadWrite,
           NEW fd \in Fds, NEW proc,
           Typed(l, s, obj, p, ap), DInv(l, s, obj, p, ap), ap[c] = fd,
           proc = (IF ev = AE_READABLE THEN "read_from_local_provider"
                   ELSE "write_to_local_provider"),
           Registers(l, l2, fd, ev, proc, c)
    PROVE  DInv(l2, s, obj, p, ap)
<1> USE DEF Typed, DInv
<1>0. s[fd].kind = "ap"
    BY Descriptors DEF LocalsOwn
<1>1. /\ l2.events[fd].mask = l.events[fd].mask \union {ev}
      /\ l2.events[fd].rfileProc = (IF ev = AE_READABLE THEN proc ELSE l.events[fd].rfileProc)
      /\ l2.events[fd].wfileProc = (IF ev = AE_WRITABLE THEN proc ELSE l.events[fd].wfileProc)
      /\ l2.events[fd].clientData = c
    BY DEF Registers
<1>2. \A g \in Fds \ {fd} : l2.events[g] = l.events[g]
    BY DEF Registers, SameBut
<1>f. \A d \in Caa : obj[d].fd \in Fds \union {-1}
    BY DEF Objects
<1>g. \A d \in Caa : obj[d].fd # fd
  <2>1. \A d \in Caa : obj[d].fd # -1 => s[obj[d].fd].kind = "client"
    BY DEF ObjectsOwn
  <2> QED BY <1>0, <2>1, Descriptors
<1>3. HandlersMatch(l2, s, ap)
  <2> SUFFICES ASSUME NEW g \in Fds, l2.events[g].mask # {}
               PROVE  HandlersMatch(l2, s, ap)!(g)!2
    BY DEF HandlersMatch
  <2>1. CASE g # fd
    BY <1>2, <2>1 DEF HandlersMatch
  <2>2. CASE g = fd
    <3>1. AE_READABLE \in l.events[fd].mask => l.events[fd].rfileProc = "read_from_local_provider"
        BY <1>0 DEF HandlersMatch
    <3>2. AE_WRITABLE \in l.events[fd].mask => l.events[fd].wfileProc = "write_to_local_provider"
        BY <1>0 DEF HandlersMatch
    <3> QED BY <1>0, <1>1, <2>2, <3>1, <3>2 DEF ReadWrite, AE_READABLE, AE_WRITABLE
  <2> QED BY <2>1, <2>2
<1>4. ObjectsOwn(l2, s, obj)
    BY <1>2, <1>f, <1>g DEF ObjectsOwn
<1>5. Bound(l2, s, obj, ap) /\ Abandoned(l2, s, ap)
    BY <1>0, <1>2 DEF Bound, Abandoned, ClientEvent
<1>6. Healthy(l2, s, obj, p, ap)
    BY <1>0, <1>2 DEF Healthy
<1>7. Whole(l2, obj)
    BY <1>2, <1>f, <1>g DEF Whole
<1> QED BY <1>3, <1>4, <1>5, <1>6, <1>7

(* The writable event of a client is registered for a whole response. *)
LEMMA ClientEventKeeps ==
    ASSUME NEW l, NEW s, NEW obj, NEW p, NEW ap, NEW l2, NEW c \in Caa, NEW fd \in Fds, NEW proc,
           Typed(l, s, obj, p, ap), DInv(l, s, obj, p, ap), ap[c] # -1, obj[c].fd = fd,
           Len(obj[c].buf_resp) >= RespLen,
           proc = "write_to_consumer_agent", Registers(l, l2, fd, AE_WRITABLE, proc, c)
    PROVE  DInv(l2, s, obj, p, ap)
<1> USE DEF Typed, DInv
<1>f. \A d \in Caa : obj[d].fd \in Fds \union {-1}
    BY DEF Objects
<1>0. s[fd].kind = "client" /\ l.events[fd].clientData = c
    BY Descriptors DEF ObjectsOwn
<1>1. /\ l2.events[fd].mask = l.events[fd].mask \union {AE_WRITABLE}
      /\ l2.events[fd].rfileProc = l.events[fd].rfileProc
      /\ l2.events[fd].wfileProc = proc
      /\ l2.events[fd].clientData = c
    BY DEF Registers, AE_READABLE, AE_WRITABLE
<1>2. \A g \in Fds \ {fd} : l2.events[g] = l.events[g]
    BY DEF Registers, SameBut
<1>3. HandlersMatch(l2, s, ap)
  <2> SUFFICES ASSUME NEW g \in Fds, l2.events[g].mask # {}
               PROVE  HandlersMatch(l2, s, ap)!(g)!2
    BY DEF HandlersMatch
  <2>1. CASE g # fd
    BY <1>2, <2>1 DEF HandlersMatch
  <2>2. CASE g = fd
    <3>1. AE_READABLE \in l.events[fd].mask => l.events[fd].rfileProc = "read_from_consumer_agent"
        BY <1>0 DEF HandlersMatch
    <3> QED BY <1>0, <1>1, <2>2, <3>1 DEF AE_READABLE, AE_WRITABLE
  <2> QED BY <2>1, <2>2
<1>4. ObjectsOwn(l2, s, obj)
    BY <1>0, <1>1, <1>2, <1>f DEF ObjectsOwn
<1>5. Bound(l2, s, obj, ap)
  <2> SUFFICES ASSUME NEW d \in Caa, ap[d] # -1, NEW g \in Fds, ClientEvent(l2, s, g, d)
               PROVE  obj[d].fd = g
    BY DEF Bound
  <2>1. CASE g # fd
    BY <1>2, <2>1 DEF Bound, ClientEvent
  <2>2. CASE g = fd
    BY <1>1, <2>2 DEF ClientEvent
  <2> QED BY <2>1, <2>2
<1>6. Abandoned(l2, s, ap)
  <2> SUFFICES ASSUME NEW d \in Caa, ap[d] = -1, NEW g \in Fds, ClientEvent(l2, s, g, d)
               PROVE  AE_WRITABLE \notin l2.events[g].mask
    BY DEF Abandoned
  <2>1. g # fd
    BY <1>1 DEF ClientEvent
  <2> QED BY <1>2, <2>1 DEF Abandoned, ClientEvent
<1>7. Healthy(l2, s, obj, p, ap)
    BY <1>0, <1>1, <1>2 DEF Healthy
<1>8. Whole(l2, obj)
  <2> SUFFICES ASSUME NEW d \in Caa, obj[d].fd # -1, AE_WRITABLE \in l2.events[obj[d].fd].mask
               PROVE  Len(obj[d].buf_resp) >= RespLen
    BY DEF Whole
  <2>1. CASE obj[d].fd # fd
    BY <1>2, <1>f, <2>1 DEF Whole
  <2>2. CASE obj[d].fd = fd
    <3>1. d = c
        BY <1>0, <2>2 DEF ObjectsOwn
    <3> QED BY <3>1
  <2> QED BY <2>1, <2>2
<1> QED BY <1>3, <1>4, <1>5, <1>6, <1>7, <1>8

(* The object c that is aborted has the descriptor f, or f has just been   *)
(* accepted for it.                                                        *)
MayAbort(s, obj, stack, c, f) ==
    \/ f = obj[c].fd
    \/ f \in Fds /\ s[f].kind = "free" /\ \E i \in DOMAIN stack : stack[i] = c

DropsBoth(l, l2, f, g) ==
    SameBut(l, l2, {f, g}) /\ \A h \in Fds \cap {f, g} : Masked(l, l2, h, {})
ClosesBoth(s, s2, f, g) ==
    \A h \in Fds : IF h \in {f, g} THEN s2[h].kind = "free"
                   ELSE s2[h].kind = s[h].kind /\ s2[h].peer = s[h].peer

(* abort_connection_caa: both descriptors, f and the connection to the     *)
(* local provider, are dropped and closed.                                 *)
LEMMA AbortKeeps ==
    ASSUME NEW l, NEW s, NEW obj, NEW p, NEW ap, NEW l2, NEW s2, NEW p2, NEW c \in Caa,
           NEW f \in Fds \union {-1}, NEW b \in Fds \union {-1}, b = ap[c],
           Typed(l, s, obj, p, ap), DInv(l, s, obj, p, ap),
           MayAbort(s, obj, p.alloc_stack, c, f),
           DropsBoth(l, l2, f, b), ClosesBoth(s, s2, f, b),
           OnlyNew(p.alloc_stack, p2.alloc_stack, c)
    PROVE  DInv(l2, s2, [obj EXCEPT ![c] = Closed], p2, [ap EXCEPT ![c] = -1])
<1> USE DEF Typed, DInv, MayAbort, DropsBoth, ClosesBoth
<1> DEFINE obj2 == [obj EXCEPT ![c] = Closed]
           ap2 == [ap EXCEPT ![c] = -1]
<1>1. /\ ap2[c] = -1 /\ obj2[c].fd = -1
      /\ \A d \in Caa \ {c} : ap2[d] = ap[d] /\ obj2[d] = obj[d]
    BY DEF Closed
<1> HIDE DEF obj2, ap2
<1>f. \A d \in Caa : obj[d].fd \in Fds \union {-1} /\ ap[d] \in Fds \union {-1}
    BY DEF Objects
<1>2. \A g \in Fds : IF g \in {f, ap[c]} THEN l2.events[g].mask = {} ELSE l2.events[g] = l.events[g]
    BY DEF SameBut, Masked
<1>3. \A d \in Caa \ {c} : obj[d].fd # -1 => obj[d].fd \notin {f, ap[c]}
  <2> SUFFICES ASSUME NEW d \in Caa, d # c, obj[d].fd # -1
               PROVE  obj[d].fd \notin {f, ap[c]}
    OBVIOUS
  <2>1. s[obj[d].fd].kind = "client" /\ l.events[obj[d].fd].clientData = d
    BY DEF ObjectsOwn
  <2>2. obj[d].fd # ap[c]
    BY <2>1 DEF LocalsOwn
  <2>3. obj[d].fd # f
    BY <2>1 DEF ObjectsOwn
  <2> QED BY <2>2, <2>3
<1>4. \A d \in Caa \ {c} : ap[d] # -1 => ap[d] \notin {f, ap[c]}
  <2> SUFFICES ASSUME NEW d \in Caa, d # c, ap[d] # -1
               PROVE  ap[d] \notin {f, ap[c]}
    OBVIOUS
  <2>1. s[ap[d]].kind = "ap" /\ s[ap[d]].peer = d
    BY DEF LocalsOwn
  <2>2. ap[d] # ap[c]
    BY <2>1 DEF LocalsOwn
  <2>3. ap[d] # f
    BY <2>1 DEF ObjectsOwn
  <2> QED BY <2>2, <2>3
<1>5. HandlersMatch(l2, s2, ap2)
  <2> SUFFICES ASSUME NEW g \in Fds, l2.events[g].mask # {}
               PROVE  HandlersMatch(l2, s2, ap2)!(g)!2
    BY DEF HandlersMatch
  <2>1. g \notin {f, ap[c]} /\ l2.events[g] = l.events[g] /\ s2[g].kind = s[g].kind
    BY <1>2
  <2>2. \A d \in Caa : ap[d] = g => ap2[d] = g
    BY <1>1, <2>1
  <2> QED BY <2>1, <2>2 DEF HandlersMatch
<1>6. ObjectsOwn(l2, s2, obj2)
  <2> SUFFICES ASSUME NEW d \in Caa, obj2[d].fd # -1
               PROVE  s2[obj2[d].fd].kind = "client" /\ l2.events[obj2[d].fd].clientData = d
    BY DEF ObjectsOwn
  <2>1. d # c /\ obj2[d] = obj[d] /\ obj[d].fd \in Fds /\ obj[d].fd \notin {f, ap[c]}
    BY <1>1, <1>3, <1>f
  <2> QED BY <1>2, <2>1 DEF ObjectsOwn
<1>7. LocalsOwn(s2, ap2)
    BY <1>1, <1>4, <1>f DEF LocalsOwn
<1>8. Bound(l2, s2, obj2, ap2)
  <2> SUFFICES ASSUME NEW d \in Caa, ap2[d] # -1, NEW g \in Fds, ClientEvent(l2, s2, g, d)
               PROVE  obj2[d].fd = g
    BY DEF Bound
  <2>1. d # c /\ ap[d] # -1 /\ obj2[d] = obj[d]
    BY <1>1
  <2>2. ClientEvent(l, s, g, d)
    BY <1>2 DEF ClientEvent
  <2> QED BY <2>1, <2>2 DEF Bound
<1>9. Abandoned(l2, s2, ap2)
  <2> SUFFICES ASSUME NEW d \in Caa, ap2[d] = -1, NEW g \in Fds, ClientEvent(l2, s2, g, d)
               PROVE  AE_WRITABLE \notin l2.events[g].mask
    BY DEF Abandoned
  <2>1. ClientEvent(l, s, g, d) /\ l2.events[g] = l.events[g] /\ g \notin {f, ap[c]}
    BY <1>2 DEF ClientEvent
  <2>2. CASE ap[d] = -1
    BY <2>1, <2>2 DEF Abandoned
  <2>3. CASE ap[d] # -1
    <3>1. d = c
        BY <1>1, <2>3
    <3>2. obj[c].fd = g
        BY <2>1, <2>3, <3>1 DEF Bound
    <3>3. obj[c].fd = -1
        BY <2>1, <2>3, <3>1, <3>2 DEF PooledOnce
    <3> QED BY <3>2, <3>3, Descriptors
  <2> QED BY <2>2, <2>3
<1>10. PooledOnce(obj2, p2.alloc_stack, ap2)
    BY <1>1 DEF PooledOnce, OnlyNew
<1>11. Whole(l2, obj2)
    BY <1>1, <1>2, <1>3, <1>f DEF Whole
<1>12. Healthy(l2, s2, obj2, p2, ap2)
    BY <1>1 DEF Healthy
<1> QED BY <1>5, <1>6, <1>7, <1>8, <1>9, <1>10, <1>11, <1>12 DEF obj2, ap2


(* The objects in use, and one more or one less of them. *)
InUse(obj) == {c \in Caa : obj[c].fd # -1}

LEMMA UseCounted ==
    ASSUME NEW obj \in [Caa -> Objects], NEW c \in Caa, NEW r \in Objects
    PROVE  LET obj2 == [obj EXCEPT ![c] = r]
           IN  /\ Cardinality(InUse(obj)) \in Nat
               /\ obj[c].fd # -1 => Cardinality(InUse(obj)) > 0
               /\ obj[c].fd = -1 /\ r.fd # -1 =>
                    Cardinality(InUse(obj2)) = Cardinality(InUse(obj)) + 1
               /\ obj[c].fd # -1 /\ r.fd = -1 =>
                    Cardinality(InUse(obj2)) = Cardinality(InUse(obj)) - 1
<1> DEFINE obj2 == [obj EXCEPT ![c] = r]
           A == InUse(obj)
           B == InUse(obj2)
<1>1. IsFiniteSet(Caa)
    BY FS_Interval, Numbers DEF Caa
<1>2. A \subseteq Caa
    BY DEF InUse
<1>3. IsFiniteSet(A)
    BY <1>1, <1>2, FS_Subset
<1>4. Cardinality(A) \in Nat
    BY <1>3, FS_CardinalityType
<1>5. c \in A <=> obj[c].fd # -1
    BY DEF InUse
<1>6. obj[c].fd = -1 /\ r.fd # -1 => B = A \union {c}
    BY DEF InUse
<1>7. obj[c].fd # -1 /\ r.fd = -1 => B = A \ {c}
    BY DEF InUse
<1> HIDE DEF A, B
<1>8. c \notin A => Cardinality(A \union {c}) = Cardinality(A) + 1
    BY <1>3, FS_AddElement
<1>9. c \in A => Cardinality(A \ {c}) = Cardinality(A) - 1
    BY <1>3, FS_RemoveElement
<1>10. c \in A => Cardinality(A) # 0
    BY <1>3, FS_EmptySet
<1>11. c \in A => Cardinality(A) > 0
    BY <1>4, <1>10
<1>12. obj[c].fd = -1 /\ r.fd # -1 => Cardinality(B) = Cardinality(A) + 1
    BY <1>5, <1>6, <1>8
<1>13. obj[c].fd # -1 /\ r.fd = -1 => Cardinality(B) = Cardinality(A) - 1
    BY <1>5, <1>7, <1>9
<1> QED BY <1>4, <1>5, <1>11, <1>12, <1>13, Zenon DEF A, B

(* "Consumer agent closed connection": fd is dropped and closed, and the   *)
(* object its events point to goes back to the pool.                       *)
ClosesOne(l, l2, s, s2, fd) ==
    /\ SameBut(l, l2, {fd}) /\ Masked(l, l2, fd, {}) /\ s2[fd].kind = "free"
    /\ \A h \in Fds \ {fd} : s2[h].kind = s[h].kind /\ s2[h].peer = s[h].peer
Releases(obj, obj2, p, p2, c) ==
    obj2 = [obj EXCEPT ![c] = Closed] /\ p2 = PoolReturned(p, c)

LEMMA CloseKeeps ==
    ASSUME NEW l, NEW s, NEW obj, NEW p, NEW ap, NEW l2, NEW s2, NEW p2, NEW obj2,
           NEW c \in Caa, NEW fd \in Fds,
           Typed(l, s, obj, p, ap), DInv(l, s, obj, p, ap),
           ClientEvent(l, s, fd, c), obj[c].fd # -1,
           ClosesOne(l, l2, s, s2, fd), Releases(obj, obj2, p, p2, c)
    PROVE  DInv(l2, s2, obj2, p2, ap)
<1> USE DEF Typed, DInv, ClosesOne, Releases
<1>1. obj2[c].fd = -1 /\ \A d \in Caa \ {c} : obj2[d] = obj[d]
    BY DEF Closed
<1>c. InUse(obj) = {d \in Caa : obj[d].fd # -1} /\ InUse(obj2) = {d \in Caa : obj2[d].fd # -1}
    BY DEF InUse
<1>u. /\ Cardinality(InUse(obj)) \in Nat /\ Cardinality(InUse(obj)) > 0
      /\ Cardinality(InUse(obj2)) = Cardinality(InUse(obj)) - 1
  <2>1. Closed.fd = -1
    BY DEF Closed
  <2> QED BY <2>1, UseCounted, ClosedType
<1> DEFINE st == p.alloc_stack
           st2 == p2.alloc_stack
           n == Len(st)
<1>p. /\ n \in Nat /\ DOMAIN st = 1 .. n /\ p.empty_stack_size \in Int /\ p.outstanding \in Int
      /\ p2.outstanding = p.outstanding - 1
      /\ \/ st2 = st /\ p.empty_stack_size = 0
         \/ /\ DOMAIN st2 = 1 .. n + 1 /\ st2[n + 1] = c
            /\ \A i \in 1 .. n : st2[i] = st[i]
            /\ p2.empty_stack_size = p.empty_stack_size - 1
  <2>1. p.empty_stack_size \in Int /\ p.outstanding \in Int
    BY DEF Pools
  <2> QED BY <2>1, Returned
<1> HIDE DEF st, st2, n
<1>f. \A d \in Caa : obj[d].fd \in Fds \union {-1} /\ ap[d] \in Fds \union {-1}
    BY DEF Objects
<1>2. \A g \in Fds : /\ IF g = fd THEN l2.events[g].mask = {} ELSE l2.events[g] = l.events[g]
                      /\ l2.events[g].clientData = l.events[g].clientData
    BY DEF SameBut, Masked
<1>k. s[fd].kind = "client" /\ l.events[fd].clientData = c
    BY DEF ClientEvent
<1>3. \A d \in Caa \ {c} : obj[d].fd # fd
    BY <1>k, Descriptors DEF ObjectsOwn
<1>4. \A d \in Caa : ap[d] # fd
    BY <1>k, Descriptors DEF LocalsOwn
<1>5. HandlersMatch(l2, s2, ap)
  <2> SUFFICES ASSUME NEW g \in Fds, l2.events[g].mask # {}
               PROVE  HandlersMatch(l2, s2, ap)!(g)!2
    BY DEF HandlersMatch
  <2>1. g # fd /\ l2.events[g] = l.events[g] /\ s2[g].kind = s[g].kind
    BY <1>2
  <2> QED BY <2>1 DEF HandlersMatch
<1>6. ObjectsOwn(l2, s2, obj2)
  <2> SUFFICES ASSUME NEW d \in Caa, obj2[d].fd # -1
               PROVE  s2[obj2[d].fd].kind = "client" /\ l2.events[obj2[d].fd].clientData = d
    BY DEF ObjectsOwn
  <2>1. d # c /\ obj2[d] = obj[d] /\ obj[d].fd \in Fds /\ obj[d].fd # fd
    BY <1>1, <1>3, <1>f
  <2> QED BY <1>2, <2>1 DEF ObjectsOwn
<1>7. LocalsOwn(s2, ap)
    BY <1>4, <1>f DEF LocalsOwn
<1>8. Bound(l2, s2, obj2, ap)
  <2> SUFFICES ASSUME NEW d \in Caa, ap[d] # -1, NEW g \in Fds, ClientEvent(l2, s2, g, d)
               PROVE  obj2[d].fd = g
    BY DEF Bound
  <2>1. g # fd /\ ClientEvent(l, s, g, d)
    BY <1>2 DEF ClientEvent
  <2>2. obj[d].fd = g
    BY <2>1 DEF Bound
  <2>3. d # c
    BY <2>1, <2>2 DEF Bound, ClientEvent
  <2> QED BY <1>1, <2>2, <2>3
<1>9. Abandoned(l2, s2, ap)
  <2> SUFFICES ASSUME NEW d \in Caa, ap[d] = -1, NEW g \in Fds, ClientEvent(l2, s2, g, d)
               PROVE  AE_WRITABLE \notin l2.events[g].mask
    BY DEF Abandoned
  <2>1. ClientEvent(l, s, g, d) /\ l2.events[g] = l.events[g]
    BY <1>2 DEF ClientEvent
  <2> QED BY <2>1 DEF Abandoned
<1>10. PooledOnce(obj2, st2, ap)
  <2> SUFFICES ASSUME NEW d \in Caa, ap[d] # -1, NEW i \in DOMAIN st2, st2[i] = d
               PROVE  obj2[d].fd = -1 /\ \A j \in DOMAIN st2 : st2[j] = d => i = j
    BY DEF PooledOnce
  <2>1. \A k \in DOMAIN st : st[k] = d =>
            obj[d].fd = -1 /\ \A j \in DOMAIN st : st[j] = d => k = j
    BY DEF PooledOnce, st
  <2>2. CASE d = c
    <3>1. \A k \in 1 .. n : st[k] # c
        BY <1>p, <2>1, <2>2
    <3>2. i = n + 1 /\ \A j \in DOMAIN st2 : st2[j] = c => j = n + 1
        BY <1>p, <2>2, <3>1
    <3> QED BY <1>1, <2>2, <3>2
  <2>3. CASE d # c
    <3>1. \A j \in DOMAIN st2 : st2[j] = d => j \in DOMAIN st /\ st[j] = d
        BY <1>p, <2>3
    <3>2. obj[d].fd = -1 /\ \A j \in DOMAIN st : st[j] = d => i = j
        BY <2>1, <3>1
    <3> QED BY <1>1, <2>3, <3>1, <3>2
  <2> QED BY <2>2, <2>3
<1>11. Whole(l2, obj2)
    BY <1>1, <1>2, <1>3, <1>f DEF Whole
<1>12. Healthy(l2, s2, obj2, p2, ap)
  <2> SUFFICES ASSUME \A d \in Caa : ap[d] # -1
               PROVE  Healthy(l2, s2, obj2, p2, ap)!2
    BY DEF Healthy
  <2>1. /\ \A d \in Caa : obj[d].fd = -1 => \E i \in DOMAIN st : st[i] = d
        /\ \A g \in Fds : s[g].kind = "client" =>
              l.events[g].clientData \in Caa /\ obj[l.events[g].clientData].fd = g
        /\ p.outstanding = Cardinality(InUse(obj))
        /\ p.empty_stack_size = p.outstanding
    BY <1>c DEF Healthy, st
  <2>2. obj[c].fd = fd
    BY <1>k, <2>1
  <2>3. p.empty_stack_size # 0
    BY <1>u, <2>1
  <2>4. /\ DOMAIN st2 = 1 .. n + 1 /\ st2[n + 1] = c /\ \A i \in 1 .. n : st2[i] = st[i]
        /\ p2.empty_stack_size = p.empty_stack_size - 1
    BY <1>p, <2>3
  <2>5. ASSUME NEW d \in Caa, obj2[d].fd = -1 PROVE \E i \in DOMAIN st2 : st2[i] = d
    <3>1. CASE d = c
        BY <1>p, <2>4, <3>1
    <3>2. CASE d # c
        <4>1. PICK i \in DOMAIN st : st[i] = d
            BY <1>1, <2>1, <2>5, <3>2
        <4> QED BY <1>p, <2>4, <4>1
    <3> QED BY <3>1, <3>2
  <2>6. ASSUME NEW g \in Fds, s2[g].kind = "client"
        PROVE  l2.events[g].clientData \in Caa /\ obj2[l2.events[g].clientData].fd = g
    <3>1. g # fd /\ s[g].kind = "client"
        BY <2>6
    <3>2. l.events[g].clientData \in Caa /\ l.events[g].clientData # c
        BY <2>1, <2>2, <3>1
    <3> QED BY <1>1, <1>2, <2>1, <3>1, <3>2
  <2>7. p2.outstanding = Cardinality(InUse(obj2)) /\ p2.empty_stack_size = p2.outstanding
    BY <1>p, <1>u, <2>1, <2>4
  <2> QED BY <1>c, <2>5, <2>6, <2>7 DEF st2
<1> QED BY <1>5, <1>6, <1>7, <1>8, <1>9, <1>10, <1>11, <1>12 DEF st2


(* A connection is accepted on fd, which was free, for the object on top   *)
(* of the pool.                                                            *)
Accepts(s, s2, obj, obj2, p, p2, c, fd, r) ==
    /\ PoolHasElement(p) /\ c = PoolTop(p) /\ p2 = PoolPull(p)
    /\ r.fd = fd /\ obj2 = [obj EXCEPT ![c] = r]
    /\ s[fd].kind = "free" /\ s2[fd].kind = "client"
    /\ \A h \in Fds \ {fd} : s2[h] = s[h]

LEMMA AcceptKeeps ==
    ASSUME NEW l, NEW s, NEW obj, NEW p, NEW ap, NEW l2, NEW s2, NEW p2, NEW obj2,
           NEW c \in Caa, NEW fd \in Fds, NEW r \in Objects,
           Typed(l, s, obj, p, ap), DInv(l, s, obj, p, ap),
           Accepts(s, s2, obj, obj2, p, p2, c, fd, r),
           Registers(l, l2, fd, AE_READABLE, "read_from_consumer_agent", c)
    PROVE  DInv(l2, s2, obj2, p2, ap)
<1> USE DEF Typed, DInv, Accepts
<1> DEFINE proc == "read_from_consumer_agent"
<1>1. obj2[c].fd = fd /\ fd # -1 /\ \A d \in Caa \ {c} : obj2[d] = obj[d]
    BY Descriptors
<1>m. l.events[fd].mask = {}
    BY DEF HandlersMatch
<1>2. /\ l2.events[fd].mask = {AE_READABLE} /\ l2.events[fd].rfileProc = proc
      /\ l2.events[fd].clientData = c
      /\ \A g \in Fds \ {fd} : l2.events[g] = l.events[g]
    BY <1>m DEF Registers, SameBut
<1>w. AE_WRITABLE \notin {AE_READABLE}
    BY DEF AE_READABLE, AE_WRITABLE
<1>f. \A d \in Caa : obj[d].fd \in Fds \union {-1} /\ ap[d] \in Fds \union {-1}
    BY DEF Objects
<1>3. \A d \in Caa : obj[d].fd # fd
    BY Descriptors DEF ObjectsOwn
<1>4. \A d \in Caa : ap[d] # fd
    BY Descriptors DEF LocalsOwn
<1>c. InUse(obj) = {d \in Caa : obj[d].fd # -1} /\ InUse(obj2) = {d \in Caa : obj2[d].fd # -1}
    BY DEF InUse
<1>u. obj[c].fd = -1 => Cardinality(InUse(obj2)) = Cardinality(InUse(obj)) + 1
  <2>1. r.fd # -1
    BY <1>1
  <2> QED BY <2>1, UseCounted
<1> DEFINE st == p.alloc_stack
           st2 == p2.alloc_stack
           n == Len(st)
<1>p. /\ n \in Nat \ {0} /\ DOMAIN st = 1 .. n /\ DOMAIN st2 = 1 .. n - 1 /\ c = st[n]
      /\ \A i \in 1 .. n - 1 : st2[i] = st[i]
      /\ p2.outstanding = p.outstanding + 1
      /\ p2.empty_stack_size = p.empty_stack_size + 1
    BY Pulled
<1> HIDE DEF st, st2, n
<1>o. ap[c] # -1 => obj[c].fd = -1 /\ \A j \in 1 .. n : st[j] = c => j = n
  <2> SUFFICES ASSUME ap[c] # -1
               PROVE  obj[c].fd = -1 /\ \A j \in 1 .. n : st[j] = c => j = n
    OBVIOUS
  <2>1. n \in DOMAIN st /\ st[n] = c
    BY <1>p
  <2>2. obj[c].fd = -1 /\ \A j \in DOMAIN st : st[j] = c => n = j
    BY <2>1 DEF PooledOnce, st
  <2> QED BY <1>p, <2>2
<1>5. HandlersMatch(l2, s2, ap)
  <2> SUFFICES ASSUME NEW g \in Fds, l2.events[g].mask # {}
               PROVE  HandlersMatch(l2, s2, ap)!(g)!2
    BY DEF HandlersMatch
  <2>1. CASE g # fd
    BY <1>2, <2>1 DEF HandlersMatch
  <2>2. CASE g = fd
    BY <1>2, <1>w, <2>2
  <2> QED BY <2>1, <2>2
<1>6. ObjectsOwn(l2, s2, obj2)
  <2> SUFFICES ASSUME NEW d \in Caa, obj2[d].fd # -1
               PROVE  s2[obj2[d].fd].kind = "client" /\ l2.events[obj2[d].fd].clientData = d
    BY DEF ObjectsOwn
  <2>1. CASE d = c
    BY <1>1, <1>2, <2>1
  <2>2. CASE d # c
    BY <1>1, <1>2, <1>3, <1>f, <2>2 DEF ObjectsOwn
  <2> QED BY <2>1, <2>2
<1>7. LocalsOwn(s2, ap)
    BY <1>4, <1>f DEF LocalsOwn
<1>8. Bound(l2, s2, obj2, ap)
  <2> SUFFICES ASSUME NEW d \in Caa, ap[d] # -1, NEW g \in Fds, ClientEvent(l2, s2, g, d)
               PROVE  obj2[d].fd = g
    BY DEF Bound
  <2>1. CASE g = fd
    BY <1>1, <1>2, <2>1 DEF ClientEvent
  <2>2. CASE g # fd
    <3>1. ClientEvent(l, s, g, d)
        BY <1>2, <2>2 DEF ClientEvent
    <3>2. obj[d].fd = g
        BY <3>1 DEF Bound
    <3>3. d # c
        BY <1>o, <3>2, Descriptors
    <3> QED BY <1>1, <3>2, <3>3
  <2> QED BY <2>1, <2>2
<1>9. Abandoned(l2, s2, ap)
  <2> SUFFICES ASSUME NEW d \in Caa, ap[d] = -1, NEW g \in Fds, ClientEvent(l2, s2, g, d)
               PROVE  AE_WRITABLE \notin l2.events[g].mask
    BY DEF Abandoned
  <2>1. CASE g = fd
    BY <1>2, <1>w, <2>1
  <2>2. CASE g # fd
    BY <1>2, <2>2 DEF Abandoned, ClientEvent
  <2> QED BY <2>1, <2>2
<1>10. PooledOnce(obj2, st2, ap)
  <2> SUFFICES ASSUME NEW d \in Caa, ap[d] # -1, NEW i \in DOMAIN st2, st2[i] = d
               PROVE  obj2[d].fd = -1 /\ \A j \in DOMAIN st2 : st2[j] = d => i = j
    BY DEF PooledOnce
  <2>1. i \in DOMAIN st /\ st[i] = d /\ i # n /\ i \in 1 .. n
    BY <1>p
  <2>2. d # c
    BY <1>o, <2>1
  <2>3. obj[d].fd = -1 /\ \A j \in DOMAIN st : st[j] = d => i = j
    BY <2>1 DEF PooledOnce, st
  <2> QED BY <1>1, <1>p, <2>2, <2>3
<1>11. Whole(l2, obj2)
  <2> SUFFICES ASSUME NEW d \in Caa, obj2[d].fd # -1, AE_WRITABLE \in l2.events[obj2[d].fd].mask
               PROVE  Len(obj2[d].buf_resp) >= RespLen
    BY DEF Whole
  <2>1. d # c
    BY <1>1, <1>2, <1>w
  <2> QED BY <1>1, <1>2, <1>3, <1>f, <2>1 DEF Whole
<1>12. Healthy(l2, s2, obj2, p2, ap)
  <2> SUFFICES ASSUME \A d \in Caa : ap[d] # -1
               PROVE  Healthy(l2, s2, obj2, p2, ap)!2
    BY DEF Healthy
  <2>1. /\ \A d \in Caa : obj[d].fd = -1 => \E i \in DOMAIN st : st[i] = d
        /\ \A g \in Fds : s[g].kind = "client" =>
              l.events[g].clientData \in Caa /\ obj[l.events[g].clientData].fd = g
        /\ p.outstanding = Cardinality(InUse(obj))
        /\ p.empty_stack_size = p.outstanding
    BY <1>c DEF Healthy, st
  <2>2. obj[c].fd = -1
    BY <1>o
  <2>5. ASSUME NEW d \in Caa, obj2[d].fd = -1 PROVE \E i \in DOMAIN st2 : st2[i] = d
    <3>1. d # c /\ obj[d].fd = -1
        BY <1>1, <2>5
    <3>2. PICK i \in DOMAIN st : st[i] = d
        BY <2>1, <3>1
    <3>3. i \in 1 .. n - 1
        BY <1>p, <3>1, <3>2
    <3> QED BY <1>p, <3>2, <3>3
  <2>6. ASSUME NEW g \in Fds, s2[g].kind = "client"
        PROVE  l2.events[g].clientData \in Caa /\ obj2[l2.events[g].clientData].fd = g
    <3>1. CASE g = fd
        BY <1>1, <1>2, <3>1
    <3>2. CASE g # fd
        <4>1. l.events[g].clientData \in Caa /\ obj[l.events[g].clientData].fd = g
            BY <2>1, <2>6, <3>2
        <4>2. l.events[g].clientData # c
            BY <2>2, <4>1, Descriptors
        <4> QED BY <1>1, <1>2, <3>2, <4>1, <4>2
    <3> QED BY <3>1, <3>2
  <2>7. p2.outstanding = Cardinality(InUse(obj2)) /\ p2.empty_stack_size = p2.outstanding
    BY <1>p, <1>u, <2>1, <2>2
  <2> QED BY <1>c, <2>5, <2>6, <2>7 DEF st2
<1> QED BY <1>5, <1>6, <1>7, <1>8, <1>9, <1>10, <1>11, <1>12 DEF st2


-----------------------------------------------------------------------------
(* The initial state *)

LEMMA InitialPool ==
    ASSUME NEW p, p = FullPool([i \in 1 .. NumCaa |-> i])
    PROVE  /\ p \in Pools(NumCaa, Caa) /\ DOMAIN p.alloc_stack = Caa
           /\ \A i \in Caa : p.alloc_stack[i] = i
           /\ p.outstanding = 0 /\ p.empty_stack_size = 0
<1> DEFINE st == [i \in 1 .. NumCaa |-> i]
           n == Len(st)
           p0 == [max_buckets |-> n, alloc_stack |-> <<>>, empty_stack_size |-> n,
                  allocated |-> 0, outstanding |-> 0, max_outstanding |-> 0]
           p1 == [p0 EXCEPT !.alloc_stack = st]
           p2 == [p1 EXCEPT !.empty_stack_size = 0]
           p3 == [p2 EXCEPT !.allocated = n]
<1>1. NumCaa \in Nat /\ Caa = 1 .. NumCaa
    BY Numbers DEF Caa
<1>a. st \in [1 .. NumCaa -> Caa] /\ DOMAIN st = Caa /\ \A i \in Caa : st[i] = i
    BY <1>1
<1>b. st \in Seq(Caa) /\ n = NumCaa
  <2> HIDE DEF st
  <2> QED BY <1>1, <1>a
<1>2. p = [p0 EXCEPT !.alloc_stack = st, !.empty_stack_size = 0, !.allocated = n]
    BY Zenon DEF FullPool, PoolSetup
<1>c. [p0 EXCEPT !.alloc_stack = st, !.empty_stack_size = 0, !.allocated = n] = p3
  <2> HIDE DEF p0, st, n
  <2> QED OBVIOUS
<1> HIDE DEF st, n
<1>3. p1 = [max_buckets |-> n, alloc_stack |-> st, empty_stack_size |-> n,
            allocated |-> 0, outstanding |-> 0, max_outstanding |-> 0]
    OBVIOUS
<1> HIDE DEF p1
<1>4. p2 = [max_buckets |-> n, alloc_stack |-> st, empty_stack_size |-> 0,
            allocated |-> 0, outstanding |-> 0, max_outstanding |-> 0]
    BY <1>3
<1> HIDE DEF p2
<1>5. p3 = [max_buckets |-> n, alloc_stack |-> st, empty_stack_size |-> 0,
            allocated |-> n, outstanding |-> 0, max_outstanding |-> 0]
    BY <1>4
<1> HIDE DEF p3
<1>6. n \in Int
    BY <1>1, <1>b
<1>7. p = p3
    BY <1>2, <1>c, Zenon
<1>8. p3 \in Pools(NumCaa, Caa)
    BY <1>b, <1>5, <1>6 DEF Pools
<1>9. p3.alloc_stack = st /\ p3.outstanding = 0 /\ p3.empty_stack_size = 0
    BY <1>5
<1> QED BY <1>a, <1>7, <1>8, <1>9

LEMMA InitOK == Init => IInv
<1> SUFFICES ASSUME Init PROVE IInv
    OBVIOUS
<1>1. /\ el \in AgentLoops /\ el.setsize = SetSize /\ el.events[0].mask = {AE_READABLE}
      /\ el.events[0].rfileProc = "accept_tcp_handler"
      /\ \A fd \in Fds \ {0} : el.events[fd].mask = {}
    BY InitialLoop DEF Init, LoopInit
<1>2. /\ sock \in [Fds -> Socks(Tokens)] /\ sock[0].kind = "listen"
      /\ \A fd \in 1 .. NumCaa : sock[fd].kind = "ap" /\ sock[fd].peer = fd
      /\ \A fd \in Fds : fd # 0 /\ fd \notin 1 .. NumCaa => sock[fd].kind = "free"
  <2>1. NumCaa \in Nat /\ NumCaa < NumFds /\ "ap" \in {"ap", "apa"}
    BY Numbers, Descriptors
  <2>2. LoopInit("ap", NumCaa)
    BY DEF Init
  <2> QED BY <2>1, <2>2, InitialSockets
<1>3. client \in [Clients -> ClientType]
  <2>1. <<>> \in Seq(Tokens) /\ 0 \in 0 .. Requests /\ 0 \in 0 .. ReqLen - 1
    BY EmptySeq, Numbers
  <2>2. [st |-> "idle", reqs |-> 0, sent |-> 0, got |-> <<>>] \in ClientType
    BY <2>1 DEF ClientType, ClientTypes
  <2> QED BY <2>2 DEF Init, LoopInit
<1>4. caa \in [Caa -> Objects] /\ \A c \in Caa : caa[c].fd = -1 /\ caa[c].buf_resp = <<>>
  <2>1. Closed.fd = -1 /\ Closed.buf_resp = <<>>
    BY DEF Closed
  <2> QED BY <2>1, ClosedType DEF Init
<1>5. /\ caaPool \in Pools(NumCaa, Caa) /\ DOMAIN caaPool.alloc_stack = Caa
      /\ \A i \in Caa : caaPool.alloc_stack[i] = i
      /\ caaPool.outstanding = 0 /\ caaPool.empty_stack_size = 0
    BY InitialPool DEF Init
<1>6. apFd \in [Caa -> Fds \union {-1}] /\ \A c \in Caa : apFd[c] = c /\ c \in Fds /\ c # 0
    BY Numbers, Descriptors DEF Init, Caa, Fds
<1>7. local \in [Caa -> [inq : Seq(Tokens), out : Seq(Tokens)]]
  <2>1. <<>> \in Seq(Tokens)
    BY EmptySeq
  <2>2. [inq |-> <<>>, out |-> <<>>] \in [inq : Seq(Tokens), out : Seq(Tokens)]
    BY <2>1
  <2> QED BY <2>2 DEF Init
<1>8. PType
  <2>1. InRange(el)
    BY <1>1, LoopAssumption DEF InRange
  <2>2. \A c \in Caa : Len(caa[c].buf_resp) <= BufResp
    BY <1>4, Numbers
  <2>3. pc \in {"running", "exited", "crashed"} /\ stop \in BOOLEAN
    BY DEF Init, LoopInit
  <2> QED BY <1>1, <1>2, <1>3, <1>4, <1>5, <1>6, <1>7, <2>1, <2>2, <2>3, Zenon DEF PType
<1>9. HandlersMatch(el, sock, apFd)
    BY <1>1, <1>2 DEF HandlersMatch
<1>10. ObjectsOwn(el, sock, caa) /\ Whole(el, caa)
    BY <1>4 DEF ObjectsOwn, Whole
<1>11. LocalsOwn(sock, apFd)
    BY <1>2, <1>6 DEF LocalsOwn, Caa
<1>12. \A fd \in Fds, c \in Caa : ~ClientEvent(el, sock, fd, c)
    BY <1>1, <1>2 DEF ClientEvent
<1>13. Bound(el, sock, caa, apFd) /\ Abandoned(el, sock, apFd)
    BY <1>12 DEF Bound, Abandoned
<1>14. PooledOnce(caa, caaPool.alloc_stack, apFd)
    BY <1>4, <1>5 DEF PooledOnce
<1>15. Healthy(el, sock, caa, caaPool, apFd)
  <2>1. {c \in Caa : caa[c].fd # -1} = {}
    BY <1>4
  <2>2. Cardinality({c \in Caa : caa[c].fd # -1}) = 0
    BY <2>1, FS_EmptySet
  <2>3. \A fd \in Fds : sock[fd].kind # "client"
    BY <1>2
  <2> QED BY <1>5, <2>2, <2>3 DEF Healthy
<1> QED BY <1>8, <1>9, <1>10, <1>11, <1>13, <1>14, <1>15 DEF IInv, DInv


-----------------------------------------------------------------------------
(* The steps.  PType and the values of the variables they change give      *)
(* IInv in the next state.                                                 *)

LEMMA TypedState == PType => Typed(el, sock, caa, caaPool, apFd)
BY DEF PType, Typed

LEMMA DisconnectedType ==
    ASSUME PType, NEW s, NEW fd
    PROVE  Disconnected(s, fd) \in [Clients -> ClientType]
<1>1. \A k \in Clients, st \in {"closed", "left"} :
        client[k] \in ClientType /\ [client[k] EXCEPT !.st = st] \in ClientType
    BY DEF PType, ClientType, ClientTypes
<1> QED BY <1>1 DEF Disconnected

LEMMA AbortStep ==
    ASSUME IInv, NEW c \in Caa, NEW r \in Objects, NEW s \in [Fds -> Socks(Tokens)],
           NEW pool \in Pools(NumCaa, Caa), NEW times,
           abort_connection_caa(c, r, s, pool, times),
           local' = local, pc' \in {"running", "exited", "crashed"}, stop' \in BOOLEAN,
           \/ r.fd = caa[c].fd /\ SameSockets(sock, s)
           \/ /\ r.fd \in Fds /\ sock[r.fd].kind = "free" /\ \A h \in Fds \ {r.fd} : s[h] = sock[h]
              /\ \E i \in DOMAIN caaPool.alloc_stack : caaPool.alloc_stack[i] = c,
           OnlyNew(caaPool.alloc_stack, pool.alloc_stack, c)
    PROVE  IInv'
<1> DEFINE f == r.fd
           g == apFd[c]
           fds == {f, g} \cap Fds
<1>t. PType /\ DInv(el, sock, caa, caaPool, apFd) /\ Typed(el, sock, caa, caaPool, apFd)
    BY TypedState DEF IInv
<1>0. f \in Fds \union {-1} /\ g \in Fds \union {-1}
    BY <1>t DEF Objects, Typed
<1>1. /\ el' = KernelForgets(DropEvents(DropEvents(el, f), g), fds)
      /\ sock' = CloseFds(s, fds)
      /\ client' = Disconnected(s, f)
      /\ caa' = [caa EXCEPT ![c] = Closed]
      /\ apFd' = [apFd EXCEPT ![c] = -1]
      /\ caaPool' = IF times = 1 THEN PoolReturned(pool, c)
                                 ELSE PoolReturned(PoolReturned(pool, c), c)
    BY DEF abort_connection_caa
<1> HIDE DEF f, g
<1>2. DropsBoth(el, el', f, g)
  <2>1. el \in AgentLoops /\ InRange(el)
    BY <1>t DEF PType
  <2> QED BY <1>0, <1>1, <2>1, AbortDrops DEF DropsBoth
<1>3. sock' \in [Fds -> Socks(Tokens)] /\ \A h \in Fds : sock'[h] = IF h \in fds THEN NoSock ELSE s[h]
    BY <1>1, Closes
<1>4. ClosesBoth(sock, sock', f, g)
  <2>1. NoSock.kind = "free"
    BY DEF NoSock
  <2> QED BY <1>3, <2>1 DEF SameSockets, ClosesBoth, f
<1>5. caaPool' \in Pools(NumCaa, Caa) /\ OnlyNew(caaPool.alloc_stack, caaPool'.alloc_stack, c)
  <2> DEFINE p1 == PoolReturned(pool, c)
             p2 == PoolReturned(p1, c)
  <2>1. p1 \in Pools(NumCaa, Caa) /\ OnlyNew(pool.alloc_stack, p1.alloc_stack, c)
    BY Returned, ReturnedOnlyNew
  <2>2. caaPool' = p1 \/ caaPool' = p2
    BY <1>1
  <2> HIDE DEF p1
  <2>3. p2 \in Pools(NumCaa, Caa) /\ OnlyNew(p1.alloc_stack, p2.alloc_stack, c)
    BY <2>1, Returned, ReturnedOnlyNew
  <2> HIDE DEF p2
  <2>4. OnlyNew(caaPool.alloc_stack, p1.alloc_stack, c)
    BY <2>1 DEF OnlyNew
  <2>5. OnlyNew(caaPool.alloc_stack, p2.alloc_stack, c)
    BY <2>3, <2>4 DEF OnlyNew
  <2> QED BY <2>1, <2>2, <2>3, <2>4, <2>5
<1>6. DInv(el', sock', caa', caaPool', apFd')
  <2>1. MayAbort(sock, caa, caaPool.alloc_stack, c, f)
    BY DEF f, MayAbort
  <2>3. g = apFd[c]
    BY DEF g
  <2>2. DInv(el', sock', [caa EXCEPT ![c] = Closed], caaPool', [apFd EXCEPT ![c] = -1])
    BY <1>t, <1>0, <1>2, <1>4, <1>5, <2>1, <2>3, AbortKeeps, Zenon
  <2> QED BY <1>1, <2>2
<1>7. PType'
  <2>1. el' \in AgentLoops
    BY <1>2 DEF DropsBoth, SameBut
  <2>2. InRange(el)'
    BY <1>2, <1>t DEF InRange, DropsBoth, SameBut, Masked, PType
  <2>3. client' \in [Clients -> ClientType]
    BY <1>1, <1>t, DisconnectedType
  <2>4. caa' \in [Caa -> Objects] /\ \A d \in Caa : Len(caa'[d].buf_resp) <= BufResp
    <3>1. Len(Closed.buf_resp) <= BufResp
        BY Numbers DEF Closed
    <3>2. caa' \in [Caa -> Objects] /\ \A d \in Caa : caa'[d] = Closed \/ caa'[d] = caa[d]
        BY <1>1, <1>t, ClosedType DEF PType
    <3> QED BY <1>t, <3>1, <3>2 DEF PType
  <2>5. apFd' \in [Caa -> Fds \union {-1}]
    BY <1>1, <1>t DEF PType
  <2> QED BY <1>3, <1>5, <1>t, <2>1, <2>2, <2>3, <2>4, <2>5, Zenon DEF PType
<1> QED BY <1>6, <1>7 DEF IInv


(* What the handlers' steps leave alone. *)
RestTyped == /\ local' \in [Caa -> [inq : Seq(Tokens), out : Seq(Tokens)]]
             /\ pc' \in {"running", "exited", "crashed"} /\ stop' \in BOOLEAN

(* The contents of an object may be r. *)
GoodContents(r) == r \in Objects /\ Len(r.buf_resp) <= BufResp

LEMMA ContentsType ==
    ASSUME PType, NEW c \in Caa, NEW r, GoodContents(r), caa' = [caa EXCEPT ![c] = r]
    PROVE  caa' \in [Caa -> Objects] /\ \A d \in Caa : Len(caa'[d].buf_resp) <= BufResp
<1>1. caa' \in [Caa -> Objects] /\ \A d \in Caa : caa'[d] = r \/ caa'[d] = caa[d]
    BY DEF PType, GoodContents
<1> QED BY <1>1 DEF PType, GoodContents

(* "Connection closed for socket, ignore" *)
LEMMA IgnoreStep ==
    ASSUME IInv, NEW fd \in Fds, Ignore(fd)
    PROVE  IInv'
<1>t. PType /\ DInv(el, sock, caa, caaPool, apFd) /\ Typed(el, sock, caa, caaPool, apFd)
    BY TypedState DEF IInv
<1>1. /\ el' = FileEventDeleted(el, fd, ReadWrite)
      /\ UNCHANGED <<caa, caaPool, apFd, local, sock, pc, stop, client>>
    BY DEF Ignore, ownVars
<1>2. el \in AgentLoops /\ InRange(el) /\ ReadWrite \in SUBSET ReadWrite
    BY <1>t DEF PType
<1> DEFINE mask == el.events[fd].mask \ ReadWrite
<1>3. mask \subseteq el.events[fd].mask
    OBVIOUS
<1> HIDE DEF mask
<1>4. SameBut(el, el', {fd}) /\ Masked(el, el', fd, mask)
    BY <1>1, <1>2, Deleted DEF mask
<1>5. DInv(el', sock, caa, caaPool, apFd)
    BY <1>t, <1>3, <1>4, FewerEventsKeep, Zenon
<1>6. el' \in AgentLoops /\ InRange(el)'
    BY <1>2, <1>3, <1>4 DEF SameBut, Masked, InRange
<1>7. PType'
    BY <1>1, <1>6, <1>t, Zenon DEF PType
<1>8. DInv(el', sock', caa', caaPool', apFd')
    BY <1>1, <1>5, Zenon
<1> QED BY <1>7, <1>8 DEF IInv

LEMMA NothingStep ==
    ASSUME IInv, UNCHANGED <<el, sock, client, caa, caaPool, apFd, local>>,
           pc' \in {"running", "exited", "crashed"}, stop' \in BOOLEAN
    PROVE  IInv'
<1>1. PType' /\ DInv(el', sock', caa', caaPool', apFd')
    BY Zenon DEF IInv, PType
<1> QED BY <1>1 DEF IInv

(* accept_tcp_handler *)
LEMMA AcceptStep ==
    ASSUME IInv, accept_tcp_handler
    PROVE  IInv'
<1>t. PType /\ DInv(el, sock, caa, caaPool, apFd) /\ Typed(el, sock, caa, caaPool, apFd)
    BY TypedState DEF IInv
<1>p. pc \in {"running", "exited", "crashed"} /\ stop \in BOOLEAN
    BY <1>t DEF PType
<1>1. CASE ~CanAccept
  <2>1. UNCHANGED <<el, sock, client, caa, caaPool, apFd, local, pc, stop>>
    BY <1>1 DEF accept_tcp_handler, ReturnOnly, ownVars
  <2> QED BY <1>p, <2>1, NothingStep
<1>2. CASE CanAccept
  <2> DEFINE fd == NewFd(sock)
             c == PoolTop(caaPool)
             r == [Closed EXCEPT !.fd = fd]
  <2>1. fd \in Fds /\ sock[fd].kind = "free"
    BY <1>t, <1>2, NewDescriptor DEF CanAccept, PType
  <2>2. PICK k \in Backlog :
          LET s == [sock EXCEPT ![fd] = Sock("client", k)]
          IN \/ /\ PoolExhausted(caaPool)
                /\ client' = [client EXCEPT ![k].st = "closed"]
                /\ UNCHANGED <<ownVars, el, sock, pc, stop>>
             \/ ~PoolHasElement(caaPool) /\ PoolMayGrow(caaPool) /\ Crash
             \/ /\ PoolHasElement(caaPool) /\ CreateOk(fd)
                /\ client' = [client EXCEPT ![k].st = "connected"]
                /\ sock' = s
                /\ caaPool' = PoolPull(caaPool)
                /\ caa' = [caa EXCEPT ![c] = r]
                /\ el' = FileEventCreated(el, fd, {AE_READABLE}, "read_from_consumer_agent", c)
                /\ UNCHANGED <<apFd, local, pc, stop>>
             \/ /\ PoolHasElement(caaPool) /\ CreateErr(fd)
                /\ abort_connection_caa(c, r, s, PoolPull(caaPool), 1)
                /\ UNCHANGED <<local, pc, stop>>
    BY <1>2, Zenon DEF accept_tcp_handler
  <2> DEFINE s == [sock EXCEPT ![fd] = Sock("client", k)]
  <2>k. k \in Clients
    BY DEF Backlog
  <2>c. ASSUME NEW st \in {"closed", "connected"}
        PROVE  [client EXCEPT ![k].st = st] \in [Clients -> ClientType]
    BY <1>t, <2>k DEF PType, ClientType, ClientTypes
  <2>s. /\ s \in [Fds -> Socks(Tokens)] /\ s[fd].kind = "client"
        /\ \A h \in Fds \ {fd} : s[h] = sock[h]
    <3>1. Sock("client", k) \in Socks(Tokens) /\ Sock("client", k).kind = "client"
        BY <2>k, NewSocket DEF Kinds
    <3> QED BY <1>t, <2>1, <3>1 DEF PType
  <2>r. GoodContents(r) /\ r \in Objects /\ r.fd = fd
    <3>1. r \in Objects /\ r.fd = fd /\ r.buf_resp = <<>>
      <4>1. Closed.buf_resp = <<>>
        BY DEF Closed
      <4> HIDE DEF fd
      <4> QED BY <2>1, <4>1, ClosedType DEF Objects
    <3> HIDE DEF r
    <3> QED BY <3>1, Numbers DEF GoodContents
  <2> HIDE DEF s, fd, r, c
  <2>3. CASE /\ PoolExhausted(caaPool)
             /\ client' = [client EXCEPT ![k].st = "closed"]
             /\ UNCHANGED <<ownVars, el, sock, pc, stop>>
    <3>1. UNCHANGED <<caa, caaPool, apFd, local, el, sock, pc, stop>>
        BY <2>3 DEF ownVars
    <3>2. client' \in [Clients -> ClientType]
        BY <2>3, <2>c
    <3>3. PType' /\ DInv(el', sock', caa', caaPool', apFd')
        BY <1>t, <3>1, <3>2, Zenon DEF PType
    <3> QED BY <3>3 DEF IInv
  <2>4. CASE Crash
    BY <1>p, <2>4, NothingStep DEF Crash, Segfault, ownVars
  <2>5. CASE /\ PoolHasElement(caaPool) /\ CreateOk(fd)
             /\ client' = [client EXCEPT ![k].st = "connected"]
             /\ sock' = s
             /\ caaPool' = PoolPull(caaPool)
             /\ caa' = [caa EXCEPT ![c] = r]
             /\ el' = FileEventCreated(el, fd, {AE_READABLE}, "read_from_consumer_agent", c)
             /\ UNCHANGED <<apFd, local, pc, stop>>
    <3> DEFINE proc == "read_from_consumer_agent"
    <3>1. c \in Caa /\ PoolPull(caaPool) \in Pools(NumCaa, Caa)
        BY <1>t, <2>5, Pulled DEF c, PType
    <3>2. Registers(el, el', fd, AE_READABLE, proc, c)
      <4>1. el \in AgentLoops /\ AE_READABLE \in ReadWrite /\ proc \in Procs /\ c \in Nat
        BY <1>t, <3>1, Numbers DEF PType, ReadWrite, Procs
      <4> QED BY <2>1, <2>5, <4>1, Created
    <3>3. DInv(el', sock', caa', caaPool', apFd)
      <4>1. Accepts(sock, sock', caa, caa', caaPool, caaPool', c, fd, r)
        BY <2>1, <2>5, <2>r, <2>s DEF Accepts, c
      <4> QED BY <1>t, <2>1, <2>r, <3>1, <3>2, <4>1, AcceptKeeps, Zenon
    <3>4. el' \in AgentLoops /\ InRange(el)'
      <4>1. fd < el.setsize
        BY <2>5 DEF CreateOk, CreateAccepted
      <4> QED BY <1>t, <3>2, <4>1 DEF Registers, SameBut, InRange, PType
    <3>5. sock' \in [Fds -> Socks(Tokens)] /\ client' \in [Clients -> ClientType]
        BY <2>5, <2>c, <2>s
    <3>6. caa' \in [Caa -> Objects] /\ \A d \in Caa : Len(caa'[d].buf_resp) <= BufResp
        BY <1>t, <2>5, <2>r, <3>1, ContentsType
    <3>7. caaPool' \in Pools(NumCaa, Caa) /\ UNCHANGED <<apFd, local, pc, stop>>
        BY <2>5, <3>1
    <3>8. PType'
        BY <1>t, <3>4, <3>5, <3>6, <3>7, Zenon DEF PType
    <3>9. DInv(el', sock', caa', caaPool', apFd')
        BY <3>3, <3>7
    <3> QED BY <3>8, <3>9 DEF IInv
  <2>6. CASE /\ PoolHasElement(caaPool)
             /\ abort_connection_caa(c, r, s, PoolPull(caaPool), 1)
             /\ UNCHANGED <<local, pc, stop>>
    <3>1. c \in Caa /\ PoolPull(caaPool) \in Pools(NumCaa, Caa)
        BY <1>t, <2>6, Pulled DEF c, PType
    <3>2. \E i \in DOMAIN caaPool.alloc_stack : caaPool.alloc_stack[i] = c
      <4> DEFINE n == Len(caaPool.alloc_stack)
      <4>1. n \in Nat \ {0} /\ PoolTop(caaPool) = caaPool.alloc_stack[n]
            /\ DOMAIN caaPool.alloc_stack = 1 .. n
        BY <1>t, <2>6, Pulled DEF PType
      <4> HIDE DEF n
      <4>2. n \in 1 .. n
        BY <4>1
      <4> QED BY <4>1, <4>2 DEF c
    <3>3. OnlyNew(caaPool.alloc_stack, PoolPull(caaPool).alloc_stack, c)
        BY <1>t, <2>6, PulledOnlyNew DEF PType
    <3>4. /\ r.fd \in Fds /\ sock[r.fd].kind = "free" /\ \A h \in Fds \ {r.fd} : s[h] = sock[h]
        BY <2>1, <2>r, <2>s
    <3> QED BY <1>p, <2>6, <2>r, <2>s, <3>1, <3>2, <3>3, <3>4, AbortStep
  <2> QED BY <2>2, <2>3, <2>4, <2>5, <2>6 DEF s
<1> QED BY <1>1, <1>2


(* http_parser_execute leaves a position in a message, or the error state. *)
LEMMA ParseType ==
    ASSUME NEW r \in Objects, NEW piece \in Seq(Tokens)
    PROVE  LET x == Parse(r, piece)
           IN  /\ x.pos \in -1 .. ReqLen - 1 /\ x.body \in Seq(Tokens) /\ x.short \in BOOLEAN
<1> DEFINE end == r.parser + Len(piece)
           m == IF end < ReqLen THEN Len(piece) ELSE ReqLen - r.parser
           this == Prefix(piece, m)
           h == IF r.parser < HeadLen THEN HeadLen - r.parser ELSE 0
           body == Suffix(this, h)
           x == Parse(r, piece)
           fits == r.parser # ParserError /\ piece # <<>> /\ piece[1][3] = r.parser + 1
<1>1. Len(piece) \in Nat /\ r.parser \in -1 .. ReqLen - 1 /\ ReqLen \in Nat \ {0} /\ HeadLen \in Nat
    BY Numbers, LenProperties DEF Objects
<1>0. <<>> \in Seq(Tokens)
    BY EmptySeq
<1>2. CASE ~fits
    BY <1>0, <1>1, <1>2 DEF Parse, ParserError
<1>3. CASE fits
  <2>1. r.parser \in 0 .. ReqLen - 1
    BY <1>1, <1>3 DEF ParserError
  <2>2. end \in Nat /\ m \in 0 .. Len(piece) /\ h \in Nat
    BY <1>1, <2>1
  <2> HIDE DEF m, end, h
  <2>3. this \in Seq(Tokens) /\ Len(this) = m
    BY <2>2, PrefixSuffix
  <2> HIDE DEF this
  <2>4. body \in Seq(Tokens)
    <3>1. CASE h <= m
        BY <2>2, <2>3, <3>1, PrefixSuffix
    <3>2. CASE h > m
      <4>1. SubSeq(this, h + 1, Len(this)) = <<>>
        BY <2>2, <2>3, <3>2, SubSeqEmpty
      <4> QED BY <1>0, <4>1 DEF Suffix
    <3> QED BY <2>2, <3>1, <3>2
  <2>5. end % ReqLen \in 0 .. ReqLen - 1
    BY <1>1, <2>2
  <2> HIDE DEF body
  <2>6. /\ x.pos = ParserError \/ x.pos = end % ReqLen
        /\ x.body = <<>> \/ x.body = body
        /\ x.short \in BOOLEAN
    BY <1>3 DEF Parse, end, m, this, h, body
  <2> HIDE DEF x
  <2>7. x.pos \in -1 .. ReqLen - 1
    BY <1>1, <2>5, <2>6 DEF ParserError
  <2>8. x.body \in Seq(Tokens)
    BY <1>0, <2>4, <2>6
  <2> QED BY <2>6, <2>7, <2>8, Zenon DEF x
<1> QED BY <1>2, <1>3


(* A step that changes events, then the contents of one object, and at     *)
(* most the queues and states of the sockets.                              *)
LEMMA QuietStep ==
    ASSUME PType, NEW c \in Caa, NEW r, GoodContents(r), caa' = [caa EXCEPT ![c] = r],
           el' \in AgentLoops, InRange(el'), DInv(el', sock, caa, caaPool, apFd),
           Continues(el', caa, c, r),
           sock' \in [Fds -> Socks(Tokens)], SameSockets(sock, sock'),
           client' \in [Clients -> ClientType], UNCHANGED <<caaPool, apFd>>, RestTyped
    PROVE  IInv'
<1>1. caa' \in [Caa -> Objects] /\ \A d \in Caa : Len(caa'[d].buf_resp) <= BufResp
    BY ContentsType
<1>2. PType'
    BY <1>1, Zenon DEF PType, RestTyped
<1>3. Typed(el', sock, caa, caaPool, apFd) /\ Typed(el', sock, caa', caaPool, apFd)
    BY <1>1 DEF PType, Typed
<1>4. DInv(el', sock, caa', caaPool, apFd)
  <2>1. r \in Objects
    BY DEF GoodContents
  <2>2. DInv(el', sock, [caa EXCEPT ![c] = r], caaPool, apFd)
    BY <1>3, <2>1, ContentsKeep, Zenon
  <2> QED BY <2>2
<1>5. DInv(el', sock', caa', caaPool, apFd)
    BY <1>3, <1>4, SocketsKeep, Zenon
<1>6. DInv(el', sock', caa', caaPool', apFd')
    BY <1>5
<1> QED BY <1>2, <1>6 DEF IInv

(* The end of on_http_body *)
LEMMA ForwardStep ==
    ASSUME IInv, NEW c \in Caa, NEW r, GoodContents(r), Continues(el, caa, c, r),
           NEW s \in [Fds -> Socks(Tokens)], SameSockets(sock, s),
           ForwardRequest(c, r, s), UNCHANGED <<local, pc, stop>>
    PROVE  IInv'
<1>t. PType /\ DInv(el, sock, caa, caaPool, apFd) /\ Typed(el, sock, caa, caaPool, apFd)
    BY TypedState DEF IInv
<1> DEFINE afd == apFd[c]
           withW == FileEventCreated(el, afd, {AE_WRITABLE}, "write_to_local_provider", c)
<1>r. /\ pc' \in {"running", "exited", "crashed"} /\ stop' \in BOOLEAN
      /\ local' = local /\ RestTyped
    BY <1>t DEF PType, RestTyped
<1>1. CASE /\ CreateOk(afd)
           /\ caa' = [caa EXCEPT ![c] = r]
           /\ sock' = s
           /\ el' = FileEventCreated(withW, afd, {AE_READABLE}, "read_from_local_provider", c)
           /\ UNCHANGED <<caaPool, apFd, client>>
  <2>1. afd \in Fds /\ afd < el.setsize /\ el \in AgentLoops /\ InRange(el)
    BY <1>t, <1>1 DEF PType, CreateOk, CreateAccepted
  <2>2. c \in Nat /\ ReadWrite = {AE_READABLE, AE_WRITABLE} /\ AE_READABLE # AE_WRITABLE
    BY Numbers DEF ReadWrite, AE_READABLE, AE_WRITABLE
  <2>3. "write_to_local_provider" \in Procs /\ "read_from_local_provider" \in Procs
    BY DEF Procs
  <2>a. apFd[c] = afd
    OBVIOUS
  <2> HIDE DEF afd
  <2>4. Registers(el, withW, afd, AE_WRITABLE, "write_to_local_provider", c)
    BY <2>1, <2>2, <2>3, Created
  <2>5. withW \in AgentLoops
    BY <2>4 DEF Registers, SameBut
  <2> HIDE DEF withW
  <2>6. Registers(withW, el', afd, AE_READABLE, "read_from_local_provider", c)
    BY <1>1, <2>1, <2>2, <2>3, <2>5, Created
  <2>7. Typed(withW, sock, caa, caaPool, apFd)
    BY <1>t, <2>5 DEF Typed
  <2>8. DInv(withW, sock, caa, caaPool, apFd)
    BY <1>t, <2>1, <2>2, <2>4, <2>a, LocalEventKeeps
  <2>9. DInv(el', sock, caa, caaPool, apFd)
    BY <2>1, <2>2, <2>6, <2>7, <2>8, <2>a, LocalEventKeeps
  <2>10. el' \in AgentLoops /\ InRange(el')
    BY <2>1, <2>4, <2>6 DEF Registers, SameBut, InRange
  <2>11. Continues(el', caa, c, r)
    <3>a. sock[afd].kind = "ap"
        BY <1>t, <2>1, <2>a, Descriptors DEF DInv, LocalsOwn
    <3>b. caa[c].fd # -1 => caa[c].fd \in Fds /\ sock[caa[c].fd].kind = "client"
        BY <1>t DEF DInv, ObjectsOwn, Typed, Objects
    <3>1. caa[c].fd # -1 => caa[c].fd \in Fds /\ caa[c].fd # afd
        BY <3>a, <3>b
    <3>2. caa[c].fd # -1 => el'.events[caa[c].fd] = el.events[caa[c].fd]
        BY <2>4, <2>6, <3>1 DEF Registers, SameBut
    <3> QED BY <3>2 DEF Continues
  <2>12. client' \in [Clients -> ClientType]
    BY <1>t, <1>1 DEF PType
  <2> QED BY <1>t, <1>r, <1>1, <2>9, <2>10, <2>11, <2>12, QuietStep
<1>2. CASE \E times : abort_connection_caa(c, r, s, caaPool, times)
  <2>1. r \in Objects /\ r.fd = caa[c].fd
    BY DEF GoodContents, Continues
  <2>2. caaPool \in Pools(NumCaa, Caa) /\ OnlyNew(caaPool.alloc_stack, caaPool.alloc_stack, c)
    BY <1>t DEF PType, OnlyNew
  <2> QED BY <1>r, <1>2, <2>1, <2>2, AbortStep
<1> QED BY <1>1, <1>2 DEF ForwardRequest

LEMMA AbortAndReturnStep ==
    ASSUME IInv, NEW c \in Caa, AbortAndReturn(c), stop' \in BOOLEAN
    PROVE  IInv'
<1>t. PType
    BY DEF IInv
<1>1. /\ caa[c] \in Objects /\ sock \in [Fds -> Socks(Tokens)]
      /\ caaPool \in Pools(NumCaa, Caa) /\ pc \in {"running", "exited", "crashed"}
    BY <1>t DEF PType
<1>2. SameSockets(sock, sock) /\ OnlyNew(caaPool.alloc_stack, caaPool.alloc_stack, c)
    BY DEF SameSockets, OnlyNew
<1>3. abort_connection_caa(c, caa[c], sock, caaPool, 1) /\ pc' = pc /\ local' = local
    BY DEF AbortAndReturn
<1> QED BY <1>1, <1>2, <1>3, AbortStep

(* The contents of an object after a read and the parser's work on it. *)
LEMMA ParsedType ==
    ASSUME PType, NEW c \in Caa, NEW pos \in -1 .. ReqLen - 1, NEW proc \in BOOLEAN,
           NEW nread \in 0 .. BufIn
    PROVE  LET r == [caa[c] EXCEPT !.parser = pos, !.processing = proc, !.nread_in = nread]
           IN  /\ GoodContents(r) /\ Continues(el, caa, c, r)
               /\ \A q \in Clients \X (0 .. Requests) :
                    LET t == [r EXCEPT !.buf_req = q]
                    IN  GoodContents(t) /\ Continues(el, caa, c, t)
<1> DEFINE r1 == [caa[c] EXCEPT !.parser = pos]
           r2 == [r1 EXCEPT !.processing = proc]
           r3 == [r2 EXCEPT !.nread_in = nread]
<1>1. caa[c] \in Objects /\ Len(caa[c].buf_resp) <= BufResp
    BY DEF PType
<1>2. r1 \in Objects /\ r1.fd = caa[c].fd /\ r1.buf_resp = caa[c].buf_resp
    BY <1>1 DEF Objects
<1>r. [caa[c] EXCEPT !.parser = pos, !.processing = proc, !.nread_in = nread] = r3
    OBVIOUS
<1> HIDE DEF r1
<1>3. r2 \in Objects /\ r2.fd = caa[c].fd /\ r2.buf_resp = caa[c].buf_resp
    BY <1>2 DEF Objects
<1> HIDE DEF r2
<1>4. r3 \in Objects /\ r3.fd = caa[c].fd /\ r3.buf_resp = caa[c].buf_resp
    BY <1>3 DEF Objects
<1> HIDE DEF r3
<1>5. Len(caa[c].buf_resp) \in Nat
    BY <1>1 DEF Objects
<1>6. GoodContents(r3) /\ Continues(el, caa, c, r3)
    BY <1>1, <1>4, <1>5 DEF GoodContents, Continues
<1>7. ASSUME NEW q \in Clients \X (0 .. Requests)
      PROVE  GoodContents([r3 EXCEPT !.buf_req = q]) /\ Continues(el, caa, c, [r3 EXCEPT !.buf_req = q])
  <2> DEFINE t == [r3 EXCEPT !.buf_req = q]
  <2>1. t \in Objects /\ t.fd = caa[c].fd /\ t.buf_resp = caa[c].buf_resp
    BY <1>4 DEF Objects
  <2> HIDE DEF t
  <2>2. GoodContents(t) /\ Continues(el, caa, c, t)
    BY <1>1, <1>5, <2>1 DEF GoodContents, Continues
  <2> QED BY <2>2 DEF t
<1> QED BY <1>r, <1>6, <1>7, Zenon

LEMMA DubboRequestType ==
    ASSUME NEW body \in Seq(Tokens), body # <<>>
    PROVE  DubboRequest(body) \in Clients \X (0 .. Requests)
<1>1. body[1] \in Tokens
    BY EmptySeq, LenProperties
<1>2. body[1][1] \in Clients /\ body[1][2] \in 0 .. Requests
    BY <1>1 DEF Tokens
<1>3. Garbled \in 0 .. Requests
    BY Numbers DEF Garbled
<1> QED BY <1>2, <1>3 DEF DubboRequest

(* "Consumer agent closed connection" *)
LEMMA ClientClosedStep ==
    ASSUME IInv, NEW fd \in Fds, NEW c \in Caa, ClientEvent(el, sock, fd, c), caa[c].fd # -1,
           ClientClosed(fd, c)
    PROVE  IInv'
<1>t. PType /\ DInv(el, sock, caa, caaPool, apFd) /\ Typed(el, sock, caa, caaPool, apFd)
    BY TypedState DEF IInv
<1> DEFINE d == FileEventDeleted(el, fd, ReadWrite)
<1>1. el \in AgentLoops /\ InRange(el) /\ ReadWrite \in SUBSET ReadWrite
    BY <1>t DEF PType
<1>2. el.events[fd].mask \ ReadWrite = {}
    BY <1>1 DEF AgentLoops, Loops, Slots
<1>3. SameBut(el, d, {fd}) /\ Masked(el, d, fd, {})
    BY <1>1, <1>2, Deleted
<1>4. d \in AgentLoops
    BY <1>3 DEF SameBut
<1>c. /\ el' = KernelForgets(d, {fd}) /\ caaPool' = PoolReturned(caaPool, c)
      /\ caa' = [caa EXCEPT ![c] = Closed] /\ sock' = CloseFds(sock, {fd})
      /\ client' = Disconnected(sock, fd) /\ UNCHANGED <<apFd, local, pc, stop>>
    BY DEF ClientClosed
<1> HIDE DEF d
<1>5. /\ el' \in AgentLoops /\ el'.setsize = d.setsize /\ el'.events = d.events
      /\ \A g \in Fds : el'.epoll[g] = IF g \in {fd} THEN NotMonitored ELSE d.epoll[g]
    BY <1>4, <1>c, Forgotten
<1>6. SameBut(el, el', {fd}) /\ Masked(el, el', fd, {}) /\ InRange(el')
  <2>1. SameBut(el, el', {fd})
    BY <1>3, <1>5 DEF SameBut
  <2>2. Masked(el, el', fd, {})
    BY <1>3, <1>5 DEF Masked
  <2>3. InRange(el')
    BY <1>1, <2>1, <2>2 DEF InRange, SameBut, Masked
  <2> QED BY <2>1, <2>2, <2>3
<1>7. /\ sock' \in [Fds -> Socks(Tokens)]
      /\ \A g \in Fds : sock'[g] = IF g \in {fd} THEN NoSock ELSE sock[g]
    BY <1>t, <1>c, Closes DEF PType
<1>8. ClosesOne(el, el', sock, sock', fd)
    BY <1>6, <1>7, NoSocket DEF ClosesOne
<1>9. Releases(caa, caa', caaPool, caaPool', c)
    BY <1>c DEF Releases
<1>10. DInv(el', sock', caa', caaPool', apFd)
    BY <1>t, <1>8, <1>9, CloseKeeps, Zenon
<1>11. caaPool' \in Pools(NumCaa, Caa)
    BY <1>t, <1>c, Returned DEF PType
<1>12. GoodContents(Closed)
  <2>1. Len(Closed.buf_resp) = 0
    BY EmptySeq DEF Closed
  <2> QED BY <2>1, ClosedType, Numbers DEF GoodContents
<1>13. caa' \in [Caa -> Objects] /\ \A e \in Caa : Len(caa'[e].buf_resp) <= BufResp
    BY <1>t, <1>c, <1>12, ContentsType
<1>14. client' \in [Clients -> ClientType]
    BY <1>t, <1>c, DisconnectedType
<1>15. PType'
    BY <1>t, <1>c, <1>5, <1>6, <1>7, <1>11, <1>13, <1>14, Zenon DEF PType
<1>16. DInv(el', sock', caa', caaPool', apFd')
    BY <1>c, <1>10
<1> QED BY <1>15, <1>16 DEF IInv

LEMMA ReadClientStep ==
    ASSUME IInv, NEW fd \in Fds, NEW c \in Caa, ClientEvent(el, sock, fd, c),
           read_from_consumer_agent(fd, c)
    PROVE  IInv'
<1>t. PType /\ DInv(el, sock, caa, caaPool, apFd)
    BY DEF IInv
<1>p. /\ pc \in {"running", "exited", "crashed"} /\ stop \in BOOLEAN /\ caa[c] \in Objects
      /\ sock \in [Fds -> Socks(Tokens)] /\ client \in [Clients -> ClientType]
      /\ local \in [Caa -> [inq : Seq(Tokens), out : Seq(Tokens)]]
      /\ el \in AgentLoops /\ InRange(el)
    BY <1>t DEF PType
<1> DEFINE space == BufIn - caa[c].nread_in
           result == ReadResult(sock[fd], space)
           piece == Received(sock[fd], space)
           x == Parse(caa[c], piece)
           busy == caa[c].processing \/ x.body # <<>>
           nread == IF x.short THEN 0 ELSE caa[c].nread_in + Len(piece)
           r == [caa[c] EXCEPT !.parser = x.pos, !.processing = busy, !.nread_in = nread]
           s == AfterRead(sock, fd, space)
           t == [r EXCEPT !.buf_req = DubboRequest(x.body)]
<1>1. CASE caa[c].fd < 0
  <2>1. Ignore(fd)
    BY <1>1 DEF read_from_consumer_agent
  <2> QED BY <2>1, IgnoreStep
<1>2. CASE ~(caa[c].fd < 0)
  <2>f. caa[c].fd # -1
    BY <1>2
  <2>c. \/ /\ result = "data" /\ x.body = <<>>
           /\ caa' = [caa EXCEPT ![c] = r] /\ sock' = s
           /\ UNCHANGED <<caaPool, apFd, local, el, pc, stop, client>>
        \/ /\ result = "data" /\ x.body # <<>>
           /\ ForwardRequest(c, t, s) /\ UNCHANGED <<local, pc, stop>>
        \/ Crash
        \/ ReturnOnly
        \/ AbortAndReturn(c) /\ UNCHANGED stop
        \/ ClientClosed(fd, c)
    BY <1>2 DEF read_from_consumer_agent
  <2>n. caa[c].nread_in \in 0 .. BufIn /\ BufIn \in Nat /\ caa[c].processing \in BOOLEAN
    BY <1>p, Numbers DEF Objects
  <2>s. space \in Nat
    BY <2>n
  <2> HIDE DEF space
  <2>r. /\ piece \in Seq(Tokens) /\ Len(piece) <= space
        /\ s \in [Fds -> Socks(Tokens)] /\ SameSockets(sock, s)
    BY <1>p, <2>s, ReadTakes
  <2> HIDE DEF result, piece, s
  <2>x. x.pos \in -1 .. ReqLen - 1 /\ x.body \in Seq(Tokens) /\ x.short \in BOOLEAN
    BY <1>p, <2>r, ParseType
  <2> HIDE DEF x
  <2>l. Len(piece) \in Nat
    BY <2>r
  <2>y. nread \in 0 .. BufIn /\ busy \in BOOLEAN
    BY <2>n, <2>r, <2>x, <2>l DEF space
  <2> HIDE DEF nread, busy
  <2>g. /\ GoodContents(r) /\ Continues(el, caa, c, r)
        /\ \A q \in Clients \X (0 .. Requests) :
             GoodContents([r EXCEPT !.buf_req = q]) /\ Continues(el, caa, c, [r EXCEPT !.buf_req = q])
    BY <1>t, <2>x, <2>y, ParsedType, ZenonT(60)
  <2> HIDE DEF r
  <2>1. CASE /\ caa' = [caa EXCEPT ![c] = r] /\ sock' = s
             /\ UNCHANGED <<caaPool, apFd, local, el, pc, stop, client>>
    <3>1. el' \in AgentLoops /\ InRange(el') /\ DInv(el', sock, caa, caaPool, apFd) /\ Continues(el', caa, c, r)
        BY <1>t, <1>p, <2>1, <2>g
    <3>2. RestTyped /\ client' \in [Clients -> ClientType] /\ sock' \in [Fds -> Socks(Tokens)]
          /\ SameSockets(sock, sock')
        BY <1>p, <2>1, <2>r DEF RestTyped
    <3> QED BY <1>t, <2>1, <2>g, <3>1, <3>2, QuietStep
  <2>2. CASE x.body # <<>> /\ ForwardRequest(c, t, s) /\ UNCHANGED <<local, pc, stop>>
    <3>1. DubboRequest(x.body) \in Clients \X (0 .. Requests)
        BY <2>2, <2>x, DubboRequestType
    <3>2. GoodContents(t) /\ Continues(el, caa, c, t)
        BY <2>g, <3>1, Zenon
    <3> HIDE DEF t
    <3> QED BY <2>2, <2>r, <3>2, ForwardStep
  <2>3. CASE Crash
    BY <1>p, <2>3, NothingStep DEF Crash, Segfault, ownVars
  <2>4. CASE ReturnOnly
    BY <1>p, <2>4, NothingStep DEF ReturnOnly, ownVars
  <2>5. CASE AbortAndReturn(c) /\ UNCHANGED stop
    BY <1>p, <2>5, AbortAndReturnStep
  <2>6. CASE ClientClosed(fd, c)
    BY <2>f, <2>6, ClientClosedStep
  <2> QED BY <2>c, <2>1, <2>2, <2>3, <2>4, <2>5, <2>6
<1> QED BY <1>1, <1>2

-----------------------------------------------------------------------------
(* The handlers of the connection to the local provider and of the answer. *)

(* How much one write takes. *)
LEMMA WriteTakes ==
    ASSUME NEW rest \in Seq(Tokens), NEW n \in Writes(rest)
    PROVE  n \in 0 .. Len(rest)
BY LenProperties DEF Writes

LEMMA RequestLeftType ==
    ASSUME NEW r \in Objects
    PROVE  /\ RequestLeft(r) \in Seq(Tokens)
           /\ r.nwrite_req + Len(RequestLeft(r)) <= DubboLen
<1>1. r.nwrite_req \in 0 .. DubboLen /\ DubboLen \in Nat /\ ReqLen \in Nat /\ RespLen \in Nat
    BY Numbers DEF Objects
<1>2. CASE r.buf_req = NoReq
  <2>1. RequestLeft(r) = <<>>
    BY <1>2, Zenon DEF RequestLeft
  <2> QED BY <1>1, <2>1, EmptySeq
<1>3. CASE r.buf_req # NoReq
  <2> DEFINE n == DubboLen - r.nwrite_req
             tok(i) == <<r.buf_req[1], r.buf_req[2], r.nwrite_req + i>>
             f == [i \in 1 .. n |-> tok(i)]
  <2>1. r.buf_req \in Clients \X (0 .. Requests)
    BY <1>3 DEF Objects
  <2>2. r.buf_req[1] \in Clients /\ r.buf_req[2] \in 0 .. Requests
    BY <2>1
  <2>3. n \in Nat
    BY <1>1
  <2>4. \A i \in 1 .. n : tok(i) \in Tokens
    <3> SUFFICES ASSUME NEW i \in 1 .. n PROVE tok(i) \in Tokens
        OBVIOUS
    <3>1. r.nwrite_req + i \in 1 .. ReqLen + RespLen + DubboLen
        BY <1>1
    <3> QED BY <2>2, <3>1 DEF Tokens
  <2>5. RequestLeft(r) = f
    BY <1>3, Zenon DEF RequestLeft
  <2>6. r.nwrite_req + n = DubboLen
    BY <1>1
  <2> HIDE DEF n, tok
  <2>7. f \in Seq(Tokens) /\ Len(f) = n
    BY <2>3, <2>4
  <2> HIDE DEF f
  <2>8. RequestLeft(r) \in Seq(Tokens) /\ Len(RequestLeft(r)) = n
    BY <2>5, <2>7, Zenon
  <2> QED BY <1>1, <2>3, <2>6, <2>8
<1> QED BY <1>2, <1>3

LEMMA WriteLocalStep ==
    ASSUME IInv, NEW fd \in Fds, NEW c \in Caa, apFd[c] = fd, write_to_local_provider(fd, c)
    PROVE  IInv'
<1>t. PType /\ DInv(el, sock, caa, caaPool, apFd) /\ Typed(el, sock, caa, caaPool, apFd)
    BY TypedState DEF IInv
<1>p. /\ pc \in {"running", "exited", "crashed"} /\ stop \in BOOLEAN /\ caa[c] \in Objects
      /\ sock \in [Fds -> Socks(Tokens)] /\ client \in [Clients -> ClientType]
      /\ local \in [Caa -> [inq : Seq(Tokens), out : Seq(Tokens)]]
      /\ el \in AgentLoops /\ InRange(el) /\ Len(caa[c].buf_resp) <= BufResp
    BY <1>t DEF PType
<1>1. CASE caa[c].fd < 0
  <2>1. Ignore(fd)
    BY <1>1 DEF write_to_local_provider
  <2> QED BY <2>1, IgnoreStep
<1>2. CASE AbortAndReturn(c) /\ MaySigpipe
    BY <1>p, <1>2, AbortAndReturnStep DEF MaySigpipe
<1> DEFINE rest == RequestLeft(caa[c])
<1>3. ASSUME NEW n \in Writes(rest), sock' = AfterWrite(sock, fd, n),
             local' = IF sock[fd].st = "open"
                      THEN [local EXCEPT ![sock[fd].peer].inq = @ \o Prefix(rest, n)] ELSE local,
             caa' = [caa EXCEPT ![c].nwrite_req = @ + n],
             el' = IF n = Len(rest) THEN FileEventDeleted(el, fd, {AE_WRITABLE}) ELSE el,
             UNCHANGED <<caaPool, apFd, pc, stop, client>>
      PROVE  IInv'
  <2> DEFINE r == [caa[c] EXCEPT !.nwrite_req = caa[c].nwrite_req + n]
  <2>1. caa' = [caa EXCEPT ![c] = r]
    BY <1>3, Zenon
  <2>2. rest \in Seq(Tokens) /\ caa[c].nwrite_req + Len(rest) <= DubboLen
    BY <1>p, RequestLeftType
  <2> HIDE DEF rest
  <2>3. n \in 0 .. Len(rest)
    BY <1>3, <2>2, WriteTakes
  <2>4. caa[c].nwrite_req + n \in 0 .. DubboLen
    <3>1. caa[c].nwrite_req \in 0 .. DubboLen /\ DubboLen \in Nat /\ Len(rest) \in Nat
        BY <1>p, <2>2, Numbers DEF Objects
    <3> QED BY <2>2, <2>3, <3>1
  <2>5. r \in Objects /\ r.fd = caa[c].fd /\ r.buf_resp = caa[c].buf_resp
    BY <1>p, <2>4 DEF Objects
  <2> HIDE DEF r
  <2>6. GoodContents(r) /\ Len(caa[c].buf_resp) \in Nat
    BY <1>p, <2>5 DEF GoodContents, Objects
  <2>7. Continues(el', caa, c, r)
    BY <2>5, <2>6 DEF Continues
  <2>8. el' \in AgentLoops /\ InRange(el') /\ DInv(el', sock, caa, caaPool, apFd)
    <3>1. CASE el' = el
        BY <1>t, <1>p, <3>1
    <3>2. CASE el' = FileEventDeleted(el, fd, {AE_WRITABLE})
      <4> DEFINE mask == el.events[fd].mask \ {AE_WRITABLE}
      <4>1. {AE_WRITABLE} \in SUBSET ReadWrite
        BY DEF ReadWrite
      <4>2. SameBut(el, el', {fd}) /\ Masked(el, el', fd, mask)
        BY <1>p, <3>2, <4>1, Deleted
      <4>3. mask \subseteq el.events[fd].mask
        OBVIOUS
      <4> HIDE DEF mask
      <4>4. DInv(el', sock, caa, caaPool, apFd)
        BY <1>t, <4>2, <4>3, FewerEventsKeep, Zenon
      <4>5. el' \in AgentLoops /\ InRange(el')
        BY <1>p, <4>2, <4>3 DEF SameBut, Masked, InRange
      <4> QED BY <4>4, <4>5
    <3> QED BY <1>3, <3>1, <3>2
  <2>9. sock' \in [Fds -> Socks(Tokens)] /\ SameSockets(sock, sock')
    BY <1>p, <1>3, WriteTurns
  <2>10. local' \in [Caa -> [inq : Seq(Tokens), out : Seq(Tokens)]]
    <3> DEFINE part == Prefix(rest, n)
    <3>1. part \in Seq(Tokens)
        BY <2>2, <2>3, PrefixSuffix
    <3>2. sock[fd].peer = c
        BY <1>t, Descriptors DEF DInv, LocalsOwn
    <3>3. local' = local \/ local' = [local EXCEPT ![c].inq = local[c].inq \o part]
        BY <1>3, <3>2
    <3> HIDE DEF part
    <3>4. local[c].inq \o part \in Seq(Tokens)
        BY <1>p, <3>1
    <3> QED BY <1>p, <3>3, <3>4
  <2>11. RestTyped /\ client' \in [Clients -> ClientType]
    BY <1>p, <1>3, <2>10 DEF RestTyped
  <2> QED BY <1>t, <1>3, <2>1, <2>6, <2>7, <2>8, <2>9, <2>11, QuietStep
<1> QED BY <1>1, <1>2, <1>3 DEF write_to_local_provider

LEMMA ReadLocalStep ==
    ASSUME IInv, NEW fd \in Fds, NEW c \in Caa, apFd[c] = fd, read_from_local_provider(fd, c)
    PROVE  IInv'
<1>t. PType /\ DInv(el, sock, caa, caaPool, apFd) /\ Typed(el, sock, caa, caaPool, apFd)
    BY TypedState DEF IInv
<1>p. /\ pc \in {"running", "exited", "crashed"} /\ stop \in BOOLEAN /\ caa[c] \in Objects
      /\ sock \in [Fds -> Socks(Tokens)] /\ client \in [Clients -> ClientType]
      /\ local \in [Caa -> [inq : Seq(Tokens), out : Seq(Tokens)]]
      /\ el \in AgentLoops /\ InRange(el) /\ Len(caa[c].buf_resp) <= BufResp
      /\ caaPool \in Pools(NumCaa, Caa) /\ apFd \in [Caa -> Fds \union {-1}]
    BY <1>t DEF PType
<1> DEFINE space == ResponseSpace(caa[c])
           got == Received(sock[fd], space)
           r == [caa[c] EXCEPT !.buf_resp = caa[c].buf_resp \o got]
           s == AfterRead(sock, fd, space)
<1>c. \/ Ignore(fd)
      \/ /\ caa[c].fd # -1 /\ (ResponseComplete(r.buf_resp) => CreateOk(r.fd))
         /\ caa' = [caa EXCEPT ![c] = r] /\ sock' = s
         /\ el' = IF ResponseComplete(r.buf_resp)
                  THEN FileEventCreated(el, r.fd, {AE_WRITABLE}, "write_to_consumer_agent", c) ELSE el
         /\ UNCHANGED <<caaPool, apFd, local, pc, stop, client>>
      \/ abort_connection_caa(c, r, s, caaPool, 1) /\ UNCHANGED <<local, pc, stop>>
      \/ ReturnOnly
      \/ AbortAndReturn(c) /\ UNCHANGED stop
  <2>1. CASE caa[c].fd < 0
    BY <2>1, Zenon DEF read_from_local_provider
  <2>2. CASE ~(caa[c].fd < 0)
    <3>1. caa[c].fd # -1
        BY <2>2
    <3> QED BY <2>2, <3>1, Zenon DEF read_from_local_provider
  <2> QED BY <2>1, <2>2
<1>1. Len(caa[c].buf_resp) \in Nat /\ caa[c].buf_resp \in Seq(Tokens)
    BY <1>p DEF Objects
<1>2. space \in Nat /\ space = BufResp - Len(caa[c].buf_resp)
    BY <1>p, <1>1, Numbers DEF ResponseSpace
<1> HIDE DEF space
<1>3. /\ got \in Seq(Tokens) /\ Len(got) <= space
      /\ s \in [Fds -> Socks(Tokens)] /\ SameSockets(sock, s)
    BY <1>p, <1>2, ReadTakes
<1> HIDE DEF got, s
<1>4. /\ caa[c].buf_resp \o got \in Seq(Tokens)
      /\ Len(caa[c].buf_resp \o got) = Len(caa[c].buf_resp) + Len(got) /\ Len(got) \in Nat
    BY <1>1, <1>3
<1>5. /\ r \in Objects /\ r.fd = caa[c].fd /\ Len(r.buf_resp) \in Nat
      /\ Len(r.buf_resp) <= BufResp /\ Len(r.buf_resp) >= Len(caa[c].buf_resp)
  <2> DEFINE both == caa[c].buf_resp \o got
  <2>1. Len(both) \in Nat /\ Len(both) <= BufResp /\ Len(both) >= Len(caa[c].buf_resp)
    BY <1>1, <1>2, <1>3, <1>4, Numbers
  <2>2. both \in Seq(Tokens)
    BY <1>4
  <2> HIDE DEF both
  <2>3. r \in Objects /\ r.fd = caa[c].fd /\ r.buf_resp = both
    BY <1>p, <2>2 DEF Objects, both
  <2> QED BY <2>1, <2>3
<1> HIDE DEF r
<1>6. GoodContents(r) /\ Continues(el, caa, c, r)
    BY <1>5 DEF GoodContents, Continues
<1>7. CASE /\ caa[c].fd # -1 /\ (ResponseComplete(r.buf_resp) => CreateOk(r.fd))
           /\ caa' = [caa EXCEPT ![c] = r] /\ sock' = s
           /\ el' = IF ResponseComplete(r.buf_resp)
                    THEN FileEventCreated(el, r.fd, {AE_WRITABLE}, "write_to_consumer_agent", c) ELSE el
           /\ UNCHANGED <<caaPool, apFd, local, pc, stop, client>>
  <2>1. caa' \in [Caa -> Objects] /\ \A d \in Caa : Len(caa'[d].buf_resp) <= BufResp
    BY <1>t, <1>6, <1>7, ContentsType
  <2>2. DInv(el, sock, caa', caaPool, apFd)
    BY <1>t, <1>5, <1>6, <1>7, ContentsKeep
  <2>3. Typed(el, sock, caa', caaPool, apFd) /\ Typed(el, sock', caa', caaPool, apFd)
    BY <1>t, <1>3, <1>7, <2>1 DEF Typed
  <2>4. DInv(el, sock', caa', caaPool, apFd)
    BY <1>3, <1>7, <2>2, <2>3, SocketsKeep, Zenon
  <2>5. /\ el' \in AgentLoops /\ InRange(el')
        /\ DInv(el', sock', caa', caaPool, apFd)
    <3>1. CASE ~ResponseComplete(r.buf_resp)
      <4>1. el' = el
        BY <1>7, <3>1
      <4> QED BY <1>p, <2>4, <4>1
    <3>2. CASE ResponseComplete(r.buf_resp)
      <4> DEFINE f == r.fd
      <4>1. el' = FileEventCreated(el, f, {AE_WRITABLE}, "write_to_consumer_agent", c) /\ CreateOk(f)
        BY <1>7, <3>2
      <4>2. f \in Fds /\ caa'[c].fd = f /\ caa'[c] = r
        <5>1. caa \in [Caa -> Objects] /\ caa[c].fd \in Fds \union {-1}
            BY <1>t DEF PType, Objects
        <5> QED BY <1>5, <1>7, <5>1
      <4>3. f < el.setsize /\ Len(caa'[c].buf_resp) >= RespLen /\ apFd[c] # -1 /\ c \in Nat
        BY <3>2, <4>1, <4>2, Descriptors, Numbers DEF CreateOk, CreateAccepted, ResponseComplete
      <4>4. AE_WRITABLE \in ReadWrite /\ "write_to_consumer_agent" \in Procs
        BY DEF ReadWrite, Procs
      <4> HIDE DEF f
      <4>5. Registers(el, el', f, AE_WRITABLE, "write_to_consumer_agent", c)
        BY <1>p, <4>1, <4>2, <4>3, <4>4, Created
      <4>6. DInv(el', sock', caa', caaPool, apFd)
        BY <2>3, <2>4, <4>2, <4>3, <4>5, ClientEventKeeps
      <4>7. el' \in AgentLoops /\ InRange(el')
        BY <1>p, <4>3, <4>5 DEF Registers, SameBut, InRange
      <4> QED BY <4>6, <4>7
    <3> QED BY <3>1, <3>2
  <2>6. PType'
    BY <1>t, <1>3, <1>7, <2>1, <2>5, Zenon DEF PType
  <2>7. DInv(el', sock', caa', caaPool', apFd')
    BY <1>7, <2>5
  <2> QED BY <2>6, <2>7 DEF IInv
<1>8. CASE abort_connection_caa(c, r, s, caaPool, 1) /\ UNCHANGED <<local, pc, stop>>
  <2>1. OnlyNew(caaPool.alloc_stack, caaPool.alloc_stack, c)
    BY DEF OnlyNew
  <2> QED BY <1>p, <1>3, <1>5, <1>8, <2>1, AbortStep
<1>9. CASE ReturnOnly
    BY <1>p, <1>9, NothingStep DEF ReturnOnly, ownVars
<1>10. CASE AbortAndReturn(c) /\ UNCHANGED stop
    BY <1>p, <1>10, AbortAndReturnStep
<1>11. CASE Ignore(fd)
    BY <1>11, IgnoreStep
<1> QED BY <1>c, <1>7, <1>8, <1>9, <1>10, <1>11

LEMMA DeliveredType ==
    ASSUME PType, NEW fd \in Fds, NEW part \in Seq(Tokens)
    PROVE  DeliverToClient(fd, part) \in [Clients -> ClientType]
<1> DEFINE k == sock[fd].peer
<1>1. client \in [Clients -> ClientType]
    BY DEF PType
<1>2. \/ DeliverToClient(fd, part) = client
      \/ DeliverToClient(fd, part) = [client EXCEPT ![k].got = client[k].got \o part]
    BY DEF DeliverToClient
<1> HIDE DEF k
<1>3. CASE k \in Clients
  <2>1. client[k] \in ClientType /\ client[k].got \o part \in Seq(Tokens)
    BY <1>1, <1>3 DEF ClientType, ClientTypes
  <2>2. [client[k] EXCEPT !.got = client[k].got \o part] \in ClientType
    BY <2>1 DEF ClientType, ClientTypes
  <2> QED BY <1>1, <1>2, <1>3, <2>2
<1>4. CASE k \notin Clients
    BY <1>1, <1>2, <1>4
<1> QED BY <1>3, <1>4

LEMMA WriteClientStep ==
    ASSUME IInv, NEW fd \in Fds, NEW c \in Caa, ClientEvent(el, sock, fd, c),
           AE_WRITABLE \in el.events[fd].mask, write_to_consumer_agent(fd, c)
    PROVE  IInv'
<1>t. PType /\ DInv(el, sock, caa, caaPool, apFd) /\ Typed(el, sock, caa, caaPool, apFd)
    BY TypedState DEF IInv
<1>p. /\ pc \in {"running", "exited", "crashed"} /\ stop \in BOOLEAN /\ caa[c] \in Objects
      /\ sock \in [Fds -> Socks(Tokens)] /\ caa \in [Caa -> Objects]
      /\ local \in [Caa -> [inq : Seq(Tokens), out : Seq(Tokens)]]
      /\ el \in AgentLoops /\ InRange(el) /\ Len(caa[c].buf_resp) <= BufResp
    BY <1>t DEF PType
<1>1. apFd[c] # -1 /\ caa[c].fd = fd
    BY <1>t DEF DInv, Abandoned, Bound
<1>2. fd # -1 /\ caa[c].buf_resp \in Seq(Tokens) /\ Len(caa[c].buf_resp) \in Nat
    BY <1>p, Descriptors DEF Objects
<1>3. Len(caa[c].buf_resp) >= RespLen
    BY <1>t, <1>1, <1>2 DEF DInv, Whole
<1> DEFINE response == HttpResponse(caa[c])
<1>4. response \in Seq(Tokens)
  <2>1. RespLen \in 0 .. Len(caa[c].buf_resp)
    BY <1>2, <1>3, Numbers
  <2> QED BY <1>2, <2>1, PrefixSuffix DEF HttpResponse
<1>5. CASE Ignore(fd)
    BY <1>5, IgnoreStep
<1>6. CASE AbortAndReturn(c) /\ MaySigpipe
    BY <1>p, <1>6, AbortAndReturnStep DEF MaySigpipe
<1>7. ASSUME NEW n \in Writes(response), sock' = AfterWrite(sock, fd, n),
             client' = DeliverToClient(fd, Prefix(response, n)),
             IF n = Len(response)
             THEN /\ el' = FileEventDeleted(el, fd, {AE_WRITABLE})
                  /\ caa' = [caa EXCEPT ![c] = ResponseDone(@)]
             ELSE UNCHANGED <<el, caa>>,
             UNCHANGED <<caaPool, apFd, local, pc, stop>>
      PROVE  IInv'
  <2> HIDE DEF response
  <2>1. n \in 0 .. Len(response)
    BY <1>4, <1>7, WriteTakes
  <2>2. client' \in [Clients -> ClientType]
    <3>1. Prefix(response, n) \in Seq(Tokens)
        BY <1>4, <2>1, PrefixSuffix
    <3> QED BY <1>t, <1>7, <3>1, DeliveredType
  <2>3. sock' \in [Fds -> Socks(Tokens)] /\ SameSockets(sock, sock')
    BY <1>p, <1>7, WriteTurns
  <2>4. RestTyped
    BY <1>p, <1>7 DEF RestTyped
  <2>5. CASE n # Len(response)
    <3>1. el' = el /\ caa' = [caa EXCEPT ![c] = caa[c]]
        BY <1>p, <1>7, <2>5
    <3>2. GoodContents(caa[c]) /\ Continues(el', caa, c, caa[c])
        BY <1>p, <1>2 DEF GoodContents, Continues
    <3>3. el' \in AgentLoops /\ InRange(el') /\ DInv(el', sock, caa, caaPool, apFd)
        BY <1>t, <1>p, <3>1
    <3> QED BY <1>t, <1>7, <2>2, <2>3, <2>4, <3>1, <3>2, <3>3, QuietStep
  <2>6. CASE n = Len(response)
    <3> DEFINE r == ResponseDone(caa[c])
               mask == el.events[fd].mask \ {AE_WRITABLE}
    <3>1. el' = FileEventDeleted(el, fd, {AE_WRITABLE}) /\ caa' = [caa EXCEPT ![c] = r]
        BY <1>7, <2>6
    <3>2. r \in Objects /\ r.fd = caa[c].fd /\ Len(r.buf_resp) = 0
      <4>1. r = [Closed EXCEPT !.fd = fd]
        BY <1>1, Zenon DEF ResponseDone
      <4>2. r \in Objects /\ r.fd = fd /\ r.buf_resp = Closed.buf_resp
        BY <4>1, ClosedType DEF Objects
      <4>3. Len(Closed.buf_resp) = 0
        BY EmptySeq DEF Closed
      <4> QED BY <1>1, <4>2, <4>3
    <3> HIDE DEF r
    <3>3. {AE_WRITABLE} \in SUBSET ReadWrite
        BY DEF ReadWrite
    <3>4. SameBut(el, el', {fd}) /\ Masked(el, el', fd, mask)
        BY <1>p, <3>1, <3>3, Deleted
    <3>5. mask \subseteq el.events[fd].mask /\ AE_WRITABLE \notin mask
        OBVIOUS
    <3> HIDE DEF mask
    <3>6. DInv(el', sock, caa, caaPool, apFd)
        BY <1>t, <3>4, <3>5, FewerEventsKeep, Zenon
    <3>7. el' \in AgentLoops /\ InRange(el')
        BY <1>p, <3>4, <3>5 DEF SameBut, Masked, InRange
    <3>8. GoodContents(r)
        BY <3>2, Numbers DEF GoodContents
    <3>9. Continues(el', caa, c, r)
        BY <1>1, <1>2, <3>2, <3>4, <3>5 DEF Continues, Masked
    <3> QED BY <1>t, <1>7, <2>2, <2>3, <2>4, <3>1, <3>6, <3>7, <3>8, <3>9, QuietStep
  <2> QED BY <2>5, <2>6
<1>8. CASE ~(caa[c].fd < 0)
  <2>1. \/ /\ \E n \in Writes(response) :
                 /\ sock' = AfterWrite(sock, fd, n)
                 /\ client' = DeliverToClient(fd, Prefix(response, n))
                 /\ IF n = Len(response)
                    THEN /\ el' = FileEventDeleted(el, fd, {AE_WRITABLE})
                         /\ caa' = [caa EXCEPT ![c] = ResponseDone(@)]
                    ELSE UNCHANGED <<el, caa>>
           /\ UNCHANGED <<caaPool, apFd, local, pc, stop>>
        \/ AbortAndReturn(c) /\ MaySigpipe
    BY <1>8, Zenon DEF write_to_consumer_agent
  <2> QED BY <1>6, <1>7, <2>1
<1>9. CASE caa[c].fd < 0
    BY <1>5, <1>9, Zenon DEF write_to_consumer_agent
<1> QED BY <1>8, <1>9

-----------------------------------------------------------------------------
(* Which handler is called for which socket, and with which object. *)
LEMMA ClientCalls ==
    ASSUME IInv, NEW fd \in Fds, NEW ev \in ReadWrite, NEW proc, Calls(fd, ev, proc),
           proc \in {"read_from_consumer_agent", "write_to_consumer_agent"}
    PROVE  /\ el.events[fd].clientData \in Caa /\ ev \in el.events[fd].mask
           /\ ClientEvent(el, sock, fd, el.events[fd].clientData)
<1>1. HandlersMatch(el, sock, apFd)
    BY DEF IInv, DInv
<1>2. /\ ev \in el.events[fd].mask
      /\ proc = IF ev = AE_READABLE THEN el.events[fd].rfileProc ELSE el.events[fd].wfileProc
    BY DEF Calls, Registered
<1>3. HandlersMatch(el, sock, apFd)!(fd)!2
    BY <1>1, <1>2 DEF HandlersMatch
<1>4. ev = AE_READABLE \/ ev = AE_WRITABLE
    BY DEF ReadWrite
<1> QED BY <1>2, <1>3, <1>4 DEF ClientEvent, AE_READABLE, AE_WRITABLE

LEMMA LocalCalls ==
    ASSUME IInv, NEW fd \in Fds, NEW ev \in ReadWrite, NEW proc, Calls(fd, ev, proc),
           proc \in {"read_from_local_provider", "write_to_local_provider"}
    PROVE  el.events[fd].clientData \in Caa /\ apFd[el.events[fd].clientData] = fd
<1>1. HandlersMatch(el, sock, apFd)
    BY DEF IInv, DInv
<1>2. /\ ev \in el.events[fd].mask
      /\ proc = IF ev = AE_READABLE THEN el.events[fd].rfileProc ELSE el.events[fd].wfileProc
    BY DEF Calls, Registered
<1>3. HandlersMatch(el, sock, apFd)!(fd)!2
    BY <1>1, <1>2 DEF HandlersMatch
<1>4. ev = AE_READABLE \/ ev = AE_WRITABLE
    BY DEF ReadWrite
<1> QED BY <1>2, <1>3, <1>4 DEF AE_READABLE, AE_WRITABLE

LEMMA AgentStep ==
    ASSUME IInv, Agent
    PROVE  IInv'
<1>e. AE_READABLE \in ReadWrite /\ AE_WRITABLE \in ReadWrite
    BY DEF ReadWrite
<1>p. pc \in {"running", "exited", "crashed"} /\ stop \in BOOLEAN
    BY DEF IInv, PType
<1>1. CASE Loop /\ UNCHANGED ownVars
  <2>1. /\ UNCHANGED <<el, sock, client, caa, caaPool, apFd, local, stop>>
        /\ pc' = pc \/ pc' = "exited"
    BY <1>1 DEF Loop, Poll, Exit, DispatchNothing, ownVars
  <2> QED BY <1>p, <2>1, NothingStep
<1>2. CASE DispatchAccept
    BY <1>2, AcceptStep DEF DispatchAccept
<1>3. CASE DispatchReadFromConsumerAgent
  <2>1. PICK fd \in Fds : /\ Calls(fd, AE_READABLE, "read_from_consumer_agent")
                          /\ read_from_consumer_agent(fd, el.events[fd].clientData)
    BY <1>3 DEF DispatchReadFromConsumerAgent
  <2> DEFINE c == el.events[fd].clientData
  <2>2. c \in Caa /\ ClientEvent(el, sock, fd, c) /\ read_from_consumer_agent(fd, c)
    BY <1>e, <2>1, ClientCalls
  <2> HIDE DEF c
  <2> QED BY <2>2, ReadClientStep
<1>4. CASE DispatchWriteToLocalProvider
  <2>1. PICK fd \in Fds : /\ Calls(fd, AE_WRITABLE, "write_to_local_provider")
                          /\ write_to_local_provider(fd, el.events[fd].clientData)
    BY <1>4 DEF DispatchWriteToLocalProvider
  <2> DEFINE c == el.events[fd].clientData
  <2>2. c \in Caa /\ apFd[c] = fd /\ write_to_local_provider(fd, c)
    BY <1>e, <2>1, LocalCalls
  <2> HIDE DEF c
  <2> QED BY <2>2, WriteLocalStep
<1>5. CASE DispatchReadFromLocalProvider
  <2>1. PICK fd \in Fds : /\ Calls(fd, AE_READABLE, "read_from_local_provider")
                          /\ read_from_local_provider(fd, el.events[fd].clientData)
    BY <1>5 DEF DispatchReadFromLocalProvider
  <2> DEFINE c == el.events[fd].clientData
  <2>2. c \in Caa /\ apFd[c] = fd /\ read_from_local_provider(fd, c)
    BY <1>e, <2>1, LocalCalls
  <2> HIDE DEF c
  <2> QED BY <2>2, ReadLocalStep
<1>6. CASE DispatchWriteToConsumerAgent
  <2>1. PICK fd \in Fds : /\ Calls(fd, AE_WRITABLE, "write_to_consumer_agent")
                          /\ write_to_consumer_agent(fd, el.events[fd].clientData)
    BY <1>6 DEF DispatchWriteToConsumerAgent
  <2> DEFINE c == el.events[fd].clientData
  <2>2. /\ c \in Caa /\ ClientEvent(el, sock, fd, c) /\ AE_WRITABLE \in el.events[fd].mask
        /\ write_to_consumer_agent(fd, c)
    BY <1>e, <2>1, ClientCalls
  <2> HIDE DEF c
  <2> QED BY <2>2, WriteClientStep
<1> QED BY <1>1, <1>2, <1>3, <1>4, <1>5, <1>6 DEF Agent

-----------------------------------------------------------------------------
(* The clients and the local provider *)

(* Sockets, clients and the local provider move, the agent does not. *)
LEMMA PeersStep ==
    ASSUME IInv, sock' \in [Fds -> Socks(Tokens)], SameSockets(sock, sock'),
           client' \in [Clients -> ClientType],
           local' \in [Caa -> [inq : Seq(Tokens), out : Seq(Tokens)]],
           UNCHANGED <<el, caa, caaPool, apFd, pc, stop>>
    PROVE  IInv'
<1>1. PType /\ DInv(el, sock, caa, caaPool, apFd) /\ Typed(el, sock, caa, caaPool, apFd)
    BY TypedState DEF IInv
<1>2. PType'
    BY <1>1, Zenon DEF PType
<1>3. DInv(el, sock', caa, caaPool, apFd)
    BY <1>1, SocketsKeep, Zenon
<1>4. DInv(el', sock', caa', caaPool', apFd')
    BY <1>3
<1> QED BY <1>2, <1>4 DEF IInv

LEMMA ClientStepKeeps ==
    ASSUME IInv, ClientStep, UNCHANGED ownVars
    PROVE  IInv'
<1>1. /\ sock \in [Fds -> Socks(Tokens)] /\ client \in [Clients -> ClientTypes(Tokens)]
      /\ local \in [Caa -> [inq : Seq(Tokens), out : Seq(Tokens)]]
    BY DEF IInv, PType, ClientType
<1>2. \A k \in Clients, q \in 0 .. Requests, i \in 1 .. ReqLen : <<k, q, i>> \in Tokens
  <2>1. ReqLen \in Nat /\ RespLen \in Nat /\ DubboLen \in Nat
    BY Numbers
  <2>2. \A i \in 1 .. ReqLen : i \in 1 .. ReqLen + RespLen + DubboLen
    BY <2>1
  <2> QED BY <2>2 DEF Tokens
<1>3. Cuts \in SUBSET (1 .. ReqLen)
    BY Numbers, ProviderAssumption DEF Cuts
<1>4. \A k \in Clients : client[k].sent > 0 => client[k].reqs >= 0
    BY <1>1 DEF ClientTypes
<1>5. Connect \/ \E k \in Clients : SendRequest(k, Cuts) \/ Disconnect(k) \/ Reset(k)
    BY DEF ClientStep
<1>6. /\ sock' \in [Fds -> Socks(Tokens)] /\ SameSockets(sock, sock')
      /\ client' \in [Clients -> ClientTypes(Tokens)]
      /\ UNCHANGED <<el, batch, cur, pc, stop>>
    BY <1>1, <1>2, <1>3, <1>4, <1>5, ClientsMove
<1>7. UNCHANGED <<caa, caaPool, apFd, local>>
    BY DEF ownVars
<1> QED BY <1>1, <1>6, <1>7, PeersStep DEF ClientType

(* What arrives on a connection to the local provider. *)
LEMMA LocalStepKeeps ==
    ASSUME IInv, NEW c \in Caa, LocalAnswer(c) \/ LocalContinue(c) \/ LocalClose(c)
    PROVE  IInv'
<1>1. /\ sock \in [Fds -> Socks(Tokens)] /\ client \in [Clients -> ClientType]
      /\ local \in [Caa -> [inq : Seq(Tokens), out : Seq(Tokens)]]
      /\ apFd[c] \in Fds \union {-1}
    BY DEF IInv, PType
<1>u. UNCHANGED <<el, caa, caaPool, apFd, pc, stop, client>>
    BY DEF LocalAnswer, LocalContinue, LocalClose, EnvVars
<1>2. apFd[c] \in Fds
  <2>1. LocalAlive(c)
    BY Zenon DEF LocalAnswer, LocalContinue, LocalClose
  <2> QED BY <1>1, <2>1 DEF LocalAlive
<1> DEFINE fd == apFd[c]
           q == local[c].inq
<1>q. q \in Seq(Tokens) /\ local[c].out \in Seq(Tokens) /\ Len(q) \in Nat
    BY <1>1
<1>f. fd \in Fds
    BY <1>2
<1>3. CASE LocalAnswer(c)
  <2> DEFINE whole == \A i \in 1 .. DubboLen : q[i] = <<q[1][1], q[1][2], i>>
             tok(i) == <<q[1][1], IF whole THEN q[1][2] ELSE Garbled, i>>
             out == [i \in 1 .. RespLen |-> tok(i)]
  <2>1. PICK m \in IF "splitresp" \in Faults THEN 1 .. RespLen ELSE {RespLen} :
           /\ sock' = [sock EXCEPT ![fd].inq = @ \o Prefix(out, m)]
           /\ local' = [local EXCEPT ![c] = [inq |-> Suffix(q, DubboLen), out |-> Suffix(out, m)]]
    BY <1>3, Zenon DEF LocalAnswer
  <2>2. Len(q) >= DubboLen
    BY <1>3 DEF LocalAnswer
  <2>3. out \in Seq(Tokens) /\ Len(out) = RespLen
    <3>1. DubboLen \in Nat \ {0} /\ RespLen \in Nat /\ ReqLen \in Nat
        BY Numbers
    <3>2. q[1] \in Tokens
        BY <1>q, <2>2, <3>1
    <3>3. q[1][1] \in Clients /\ q[1][2] \in 0 .. Requests /\ Garbled \in 0 .. Requests
        BY <3>2, Numbers DEF Tokens, Garbled
    <3> HIDE DEF whole
    <3>4. \A i \in 1 .. RespLen : tok(i) \in Tokens
      <4> SUFFICES ASSUME NEW i \in 1 .. RespLen PROVE tok(i) \in Tokens
        OBVIOUS
      <4>1. i \in 1 .. ReqLen + RespLen + DubboLen
        BY <3>1
      <4> QED BY <3>3, <4>1 DEF Tokens
    <3> HIDE DEF tok
    <3> QED BY <3>1, <3>4
  <2> HIDE DEF out
  <2>4. m \in 0 .. Len(out) /\ DubboLen \in 0 .. Len(q)
    BY <1>q, <2>1, <2>2, <2>3, Numbers
  <2>5. /\ Prefix(out, m) \in Seq(Tokens) /\ Suffix(out, m) \in Seq(Tokens)
        /\ Suffix(q, DubboLen) \in Seq(Tokens)
    BY <1>q, <2>3, <2>4, PrefixSuffix
  <2>6. local' \in [Caa -> [inq : Seq(Tokens), out : Seq(Tokens)]]
    BY <1>1, <2>1, <2>5
  <2>7. sock' \in [Fds -> Socks(Tokens)] /\ SameSockets(sock, sock')
    BY <1>1, <1>f, <2>1, <2>5, Arrives
  <2> QED BY <1>1, <1>u, <2>6, <2>7, PeersStep
<1>4. CASE LocalContinue(c)
  <2>1. sock' = [sock EXCEPT ![fd].inq = @ \o local[c].out]
    BY <1>4 DEF LocalContinue
  <2>2. sock' \in [Fds -> Socks(Tokens)] /\ SameSockets(sock, sock')
    BY <1>1, <1>f, <1>q, <2>1, Arrives
  <2>3. local' = [local EXCEPT ![c].out = <<>>]
    BY <1>4 DEF LocalContinue
  <2>4. local' \in [Caa -> [inq : Seq(Tokens), out : Seq(Tokens)]]
    <3>1. <<>> \in Seq(Tokens)
        BY EmptySeq
    <3> DEFINE x == [local[c] EXCEPT !.out = <<>>]
    <3>2. x \in [inq : Seq(Tokens), out : Seq(Tokens)]
        BY <1>1, <3>1
    <3>3. local' = [local EXCEPT ![c] = x]
        BY <2>3, Zenon
    <3> HIDE DEF x
    <3> QED BY <1>1, <3>2, <3>3
  <2> QED BY <1>1, <1>u, <2>2, <2>4, PeersStep
<1>5. CASE LocalClose(c)
  <2>1. sock' = [sock EXCEPT ![fd].st = "eof"] /\ local' = local
    BY <1>5 DEF LocalClose
  <2>2. sock' \in [Fds -> Socks(Tokens)] /\ SameSockets(sock, sock')
    BY <1>1, <1>f, <2>1, Turns
  <2> QED BY <1>1, <1>u, <2>1, <2>2, PeersStep
<1> QED BY <1>3, <1>4, <1>5

-----------------------------------------------------------------------------
LEMMA StepOK == IInv /\ [Next]_vars => IInv'
<1> SUFFICES ASSUME IInv, [Next]_vars PROVE IInv'
    OBVIOUS
<1>1. CASE Agent
    BY <1>1, AgentStep
<1>2. CASE ClientStep /\ UNCHANGED ownVars
    BY <1>2, ClientStepKeeps
<1>3. CASE \E c \in Caa : LocalAnswer(c) \/ LocalContinue(c) \/ LocalClose(c)
    BY <1>3, LocalStepKeeps
<1>4. CASE UNCHANGED vars
  <2>1. pc \in {"running", "exited", "crashed"} /\ stop \in BOOLEAN
    BY DEF IInv, PType
  <2>2. UNCHANGED <<el, sock, client, caa, caaPool, apFd, local, pc, stop>>
    BY <1>4 DEF vars, loopVars, ownVars
  <2> QED BY <2>1, <2>2, NothingStep
<1> QED BY <1>1, <1>2, <1>3, <1>4 DEF Next, Environment

(* The inductive invariant: whatever the clients, the local provider and   *)
(* epoll_ctl do, the events of the loop, the connection_caa objects, their *)
(* pool and the connection_ap objects stay in the relations of DInv.       *)
THEOREM ProviderInvariant == Spec => []IInv
BY InitOK, StepOK, PTL DEF Spec

(* The types of the objects' fields, and the buffer positions: no handler  *)
(* of provider.c reads or writes past the end of a connection_caa buffer.  *)
THEOREM ProviderTypes == Spec => []TypeOK
<1>1. IInv => TypeOK
  <2> SUFFICES ASSUME IInv PROVE TypeOK
    OBVIOUS
  <2>1. caa \in [Caa -> Objects] /\ \A c \in Caa : Len(caa[c].buf_resp) <= BufResp
    BY DEF IInv, PType
  <2>2. \A c \in Caa : caa[c] \in Objects
    BY <2>1
  <2> QED BY <2>1, <2>2 DEF IInv, PType, TypeOK, Objects
<1> QED BY <1>1, ProviderInvariant, PTL

(* Every registered event is one of an open socket, and a connection_ap    *)
(* that is not aborted is an open socket to the local provider whose       *)
(* events point to its own connection_caa.                                 *)
THEOREM ProviderDescriptors == Spec => []NoStrayDescriptor
<1>1. IInv => NoStrayDescriptor
  <2> SUFFICES ASSUME IInv PROVE NoStrayDescriptor
    OBVIOUS
  <2>1. DInv(el, sock, caa, caaPool, apFd) /\ apFd \in [Caa -> Fds \union {-1}]
    BY DEF IInv, PType
  <2>2. ASSUME NEW fd \in Fds, el.events[fd].mask # {} PROVE sock[fd].kind # "free"
    <3>1. HandlersMatch(el, sock, apFd)!(fd)!2
        BY <2>1, <2>2 DEF DInv, HandlersMatch
    <3> QED BY <3>1
  <2>3. ASSUME NEW c \in Caa, apFd[c] >= 0
        PROVE  /\ sock[apFd[c]].kind = "ap" /\ sock[apFd[c]].peer = c
               /\ el.events[apFd[c]].mask # {} => el.events[apFd[c]].clientData = c
    <3>1. apFd[c] # -1 /\ apFd[c] \in Fds
        BY <2>1, <2>3
    <3>2. sock[apFd[c]].kind = "ap" /\ sock[apFd[c]].peer = c
        BY <2>1, <3>1 DEF DInv, LocalsOwn
    <3>3. ASSUME el.events[apFd[c]].mask # {} PROVE el.events[apFd[c]].clientData = c
      <4> DEFINE d == el.events[apFd[c]].clientData
      <4>1. HandlersMatch(el, sock, apFd)!(apFd[c])!2
        BY <2>1, <3>1, <3>3 DEF DInv, HandlersMatch
      <4>2. d \in Caa /\ apFd[d] = apFd[c]
        BY <3>2, <4>1
      <4> HIDE DEF d
      <4>3. sock[apFd[d]].peer = d
        BY <2>1, <3>1, <4>2 DEF DInv, LocalsOwn
      <4> QED BY <3>2, <4>2, <4>3 DEF d
    <3> QED BY <3>2, <3>3
  <2> QED BY <2>2, <2>3 DEF NoStrayDescriptor
<1> QED BY <1>1, ProviderInvariant, PTL

(* A consumer agent is only ever sent a whole response, however the local  *)
(* provider's bytes arrive and whichever clients an object has served.     *)
THEOREM ResponsesAreWhole == Spec => []OnlyWholeResponses
<1>1. IInv => OnlyWholeResponses
  <2> SUFFICES ASSUME IInv, NEW fd \in Fds, NEW c \in Caa, caa[c].fd = fd, Registered(fd, AE_WRITABLE)
               PROVE  Len(caa[c].buf_resp) >= RespLen
    BY DEF OnlyWholeResponses
  <2>1. fd # -1 /\ Whole(el, caa)
    BY Descriptors DEF IInv, DInv
  <2> QED BY <2>1 DEF Whole, Registered
<1> QED BY <1>1, ProviderInvariant, PTL

(* Until the first connection to the local provider is aborted, the pool   *)
(* of connection_caa objects holds exactly the unused ones, its counter is *)
(* the number of the others, and each accepted socket has one owner.       *)
THEOREM OwnershipUntilAbort == Spec => []HealthyOwnership
<1>1. IInv => HealthyOwnership
  <2> SUFFICES ASSUME IInv, \A c \in Caa : apFd[c] >= 0
               PROVE  /\ \A c \in Caa : InPool(c) <=> caa[c].fd = -1
                      /\ \A fd \in Fds : sock[fd].kind = "client" =>
                          \E c \in Caa : \A d \in Caa : Owns(d, fd) <=> d = c
                      /\ caaPool.outstanding = Cardinality({c \in Caa : caa[c].fd # -1})
    BY DEF HealthyOwnership
  <2>1. DInv(el, sock, caa, caaPool, apFd)
    BY DEF IInv
  <2>2. \A c \in Caa : apFd[c] # -1
    OBVIOUS
  <2>3. /\ \A c \in Caa : caa[c].fd = -1 => \E i \in DOMAIN caaPool.alloc_stack : caaPool.alloc_stack[i] = c
        /\ \A fd \in Fds : sock[fd].kind = "client" =>
             el.events[fd].clientData \in Caa /\ caa[el.events[fd].clientData].fd = fd
        /\ caaPool.outstanding = Cardinality({c \in Caa : caa[c].fd # -1})
    BY <2>1, <2>2 DEF DInv, Healthy
  <2>4. \A c \in Caa : InPool(c) <=> caa[c].fd = -1
    BY <2>1, <2>2, <2>3 DEF InPool, DInv, PooledOnce
  <2>5. ASSUME NEW fd \in Fds, sock[fd].kind = "client"
        PROVE  \E c \in Caa : \A d \in Caa : Owns(d, fd) <=> d = c
    <3> DEFINE c == el.events[fd].clientData
    <3>1. c \in Caa /\ caa[c].fd = fd /\ fd # -1
        BY <2>3, <2>5, Descriptors
    <3>2. \A d \in Caa : caa[d].fd = fd => d = c
        BY <2>1, <3>1 DEF DInv, ObjectsOwn
    <3> QED BY <3>1, <3>2 DEF Owns
  <2> QED BY <2>3, <2>4, <2>5
<1> QED BY <1>1, ProviderInvariant, PTL

-----------------------------------------------------------------------------
(* Forwarding among well-behaved peers.  Nobody closes before the answer,  *)
(* the head of a request and the answers of the local provider come in     *)
(* pieces, and every descriptor fits the event loop; the buffers have room *)
(* beyond a whole message, since a read into a full buffer looks like the  *)
(* end of the connection.                                                  *)
WellBehaved ==
    /\ Faults \subseteq {"splithead", "splitresp"}
    /\ NumFds <= SetSize
    /\ ReqLen < BufIn /\ RespLen < BufResp

(* The stages of the exchange that the object r serves: s is its client's  *)
(* socket, x the client, aq what the connection to the local provider      *)
(* holds for the agent and p the local provider's end of it.               *)
Silent(aq, p) == aq = <<>> /\ p.inq = <<>> /\ p.out = <<>>
Fresh(r) ==
    /\ ~r.processing /\ r.buf_req = NoReq /\ r.nwrite_req = 0 /\ r.buf_resp = <<>>
    /\ r.nread_in = r.parser
Resting(r, s, x) ==
    /\ Fresh(r) /\ r.parser = 0 /\ s.inq = <<>> /\ s.st # "rst"
    /\ x.sent = 0 /\ Len(x.got) = x.reqs * RespLen
Asking(r, s, x) ==
    /\ Fresh(r) /\ r.parser \in 0 .. HeadLen /\ r.parser <= Sent(x) /\ x.sent <= HeadLen
    /\ Unanswered(s, x, 0) /\ s.inq = Run(s.peer, x.reqs, r.parser, Sent(x))
Asked(r, s, x) ==
    /\ Unanswered(s, x, 0) /\ s.inq = <<>> /\ x.sent = 0 /\ r.nread_in <= ReqLen
Sending(r, s, x, aq, p) ==
    /\ Asked(r, s, x) /\ Silent(aq, p)
    /\ r.buf_req = <<s.peer, x.reqs>> /\ r.nwrite_req = 0 /\ r.buf_resp = <<>>
Invoking(r, s, x, aq, p) ==
    /\ Asked(r, s, x) /\ RequestLeft(r) = <<>> /\ r.buf_resp = <<>>
    /\ aq = <<>> /\ p.out = <<>> /\ p.inq = Run(s.peer, x.reqs, 0, DubboLen)
Replying(r, s, x, aq, p) ==
    LET n == Len(r.buf_resp)
    IN  /\ Asked(r, s, x) /\ RequestLeft(r) = <<>> /\ p.inq = <<>>
        /\ r.buf_resp = Run(s.peer, x.reqs, 0, n)
        /\ \E m \in n .. RespLen : /\ aq = Run(s.peer, x.reqs, n, m)
                                   /\ p.out = Run(s.peer, x.reqs, m, RespLen)
Talks(r, s, x, aq, p) ==
    \/ (Resting(r, s, x) \/ Asking(r, s, x)) /\ Silent(aq, p)
    \/ Sending(r, s, x, aq, p) \/ Invoking(r, s, x, aq, p) \/ Replying(r, s, x, aq, p)

Exchange(c) ==
    LET r == caa[c]
        s == sock[r.fd]
    IN  IF r.fd = -1 THEN Silent(sock[c].inq, local[c])
        ELSE Talks(r, s, client[s.peer], sock[c].inq, local[c])

(* The loop has its size, and epoll watches what has events. *)
Consistent(l) == l.setsize = SetSize /\ \A fd \in Fds : Agrees(l, fd)

FInv ==
    /\ Consistent(el) /\ ClientSockets /\ ClientsKnown
    /\ \A c \in Caa : apFd[c] = c /\ sock[c].st = "open"
    /\ \A c \in Caa : Exchange(c)

LEMMA WellBehavedIs ==
    ASSUME WellBehaved
    PROVE  /\ NumFds <= SetSize /\ ReqLen < BufIn /\ RespLen < BufResp
           /\ \A x \in {"midclose", "reset", "peerclose", "splitreq", "shortwrite", "slow", "epoll"} : x \notin Faults
BY DEF WellBehaved

(* The owner of a client's socket, and the connection of an object. *)
LEMMA Owners ==
    ASSUME WellBehaved, IInv, FInv
    PROVE  /\ \A c \in Caa : /\ c \in Fds /\ c # -1 /\ apFd[c] = c /\ sock[c].st = "open"
                             /\ sock[c].kind = "ap" /\ sock[c].peer = c /\ Exchange(c)
           /\ \A c \in Caa : caa[c].fd # -1 =>
                /\ caa[c].fd \in Fds /\ sock[caa[c].fd].kind = "client"
                /\ el.events[caa[c].fd].clientData = c
                /\ sock[caa[c].fd].peer \in Clients /\ client[sock[caa[c].fd].peer].st = "connected"
           /\ \A fd \in Fds : sock[fd].kind = "client" =>
                el.events[fd].clientData \in Caa /\ caa[el.events[fd].clientData].fd = fd
<1>t. PType /\ DInv(el, sock, caa, caaPool, apFd) /\ Typed(el, sock, caa, caaPool, apFd)
    BY TypedState DEF IInv
<1>1. \A c \in Caa : apFd[c] = c /\ c # -1 /\ sock[c].st = "open" /\ Exchange(c)
  <2>1. \A c \in Caa : c # -1
    BY DEF Caa
  <2> QED BY <2>1 DEF FInv
<1>2. \A c \in Caa : c \in Fds /\ sock[c].kind = "ap" /\ sock[c].peer = c
  <2>1. \A c \in Caa : apFd[c] \in Fds \union {-1}
    BY <1>t DEF PType
  <2> QED BY <1>t, <1>1, <2>1 DEF DInv, LocalsOwn
<1>3. \A c \in Caa : caa[c].fd \in Fds \union {-1}
    BY <1>t DEF PType, Objects
<1>4. \A c \in Caa : caa[c].fd # -1 => sock[caa[c].fd].kind = "client" /\ el.events[caa[c].fd].clientData = c
    BY <1>t DEF DInv, ObjectsOwn
<1>5. \A fd \in Fds : sock[fd].kind = "client" =>
        sock[fd].peer \in Clients /\ client[sock[fd].peer].st = "connected"
    BY DEF FInv, ClientSockets
<1>6. \A fd \in Fds : sock[fd].kind = "client" =>
        el.events[fd].clientData \in Caa /\ caa[el.events[fd].clientData].fd = fd
    BY <1>t, <1>1 DEF DInv, Healthy
<1> QED BY <1>1, <1>2, <1>3, <1>4, <1>5, <1>6

(* No registration fails. *)
LEMMA CreateSucceeds ==
    ASSUME WellBehaved, FInv, NEW fd \in Fds
    PROVE  CreateOk(fd) /\ ~CreateErr(fd)
<1>1. fd < el.setsize /\ fd >= 0
  <2>1. el.setsize = SetSize
    BY DEF FInv, Consistent
  <2> QED BY <2>1, WellBehavedIs, Descriptors, LoopAssumption DEF Fds
<1>2. Agrees(el, fd)
    BY DEF FInv, Consistent
<1> QED BY <1>1, <1>2, WellBehavedIs DEF CreateOk, CreateErr, CreateAccepted, EpollCtlOk, Agrees

LEMMA CreatedConsistent ==
    ASSUME NEW l \in AgentLoops, Consistent(l), NEW fd \in Fds, NEW ev \in ReadWrite, NEW proc \in Procs,
           NEW data \in Nat
    PROVE  LET d == FileEventCreated(l, fd, {ev}, proc, data)
           IN  d \in AgentLoops /\ Consistent(d)
<1> DEFINE d == FileEventCreated(l, fd, {ev}, proc, data)
<1>1. Registers(l, d, fd, ev, proc, data) /\ Agrees(d, fd)
    BY Created
<1> HIDE DEF d
<1>2. d \in AgentLoops /\ Consistent(d)
    BY <1>1 DEF Registers, SameBut, Consistent, Agrees
<1> QED BY <1>2 DEF d

LEMMA DeletedConsistent ==
    ASSUME NEW l \in AgentLoops, InRange(l), Consistent(l), NEW fd \in Fds, NEW mask \in SUBSET ReadWrite
    PROVE  LET d == FileEventDeleted(l, fd, mask)
           IN  d \in AgentLoops /\ Consistent(d)
<1> DEFINE d == FileEventDeleted(l, fd, mask)
<1>1. SameBut(l, d, {fd}) /\ (Agrees(l, fd) => Agrees(d, fd))
    BY Deleted
<1> HIDE DEF d
<1>2. d \in AgentLoops /\ Consistent(d)
    BY <1>1 DEF SameBut, Consistent, Agrees
<1> QED BY <1>2 DEF d

-----------------------------------------------------------------------------
(* One exchange at a time *)

LEMMA SameExchange ==
    ASSUME NEW d \in Caa, Exchange(d), caa'[d] = caa[d], sock'[d] = sock[d], local'[d] = local[d],
           caa[d].fd # -1 => /\ sock'[caa[d].fd] = sock[caa[d].fd]
                             /\ client'[sock[caa[d].fd].peer] = client[sock[caa[d].fd].peer]
    PROVE  Exchange(d)'
BY DEF Exchange

LEMMA LinksKeep ==
    ASSUME ClientSockets, ClientsKnown, SameSockets(sock, sock'),
           \A k \in Clients : client'[k].st = client[k].st /\ (client[k].st # "connected" => client'[k] = client[k])
    PROVE  ClientSockets' /\ ClientsKnown'
<1>1. ClientSockets'
    BY DEF ClientSockets, SameSockets
<1>2. ClientsKnown'
    BY DEF ClientsKnown, SameSockets
<1> QED BY <1>1, <1>2

(* Nothing changes outside the exchange of c. *)
Alone(c) ==
    LET f == caa[c].fd
        k == sock[f].peer
    IN  /\ \A d \in Caa \ {c} : caa'[d] = caa[d] /\ local'[d] = local[d]
        /\ caa'[c].fd = f
        /\ \A g \in Fds \ {f, c} : sock'[g] = sock[g]
        /\ sock'[c].st = sock[c].st
        /\ \A j \in Clients \ {k} : client'[j] = client[j]
        /\ client'[k].st = client[k].st
        /\ SameSockets(sock, sock') /\ apFd' = apFd

(* What remains to be shown of a step of one exchange. *)
LEMMA AloneStep ==
    ASSUME WellBehaved, IInv, FInv, NEW c \in Caa, caa[c].fd # -1, Alone(c), Exchange(c)', Consistent(el')
    PROVE  FInv'
<1> DEFINE f == caa[c].fd
           k == sock[f].peer
<1>f. /\ f \in Fds /\ sock[f].kind = "client" /\ el.events[f].clientData = c
      /\ k \in Clients /\ client[k].st = "connected"
    BY Owners
<1>1. ClientSockets' /\ ClientsKnown'
  <2>1. \A j \in Clients : client'[j].st = client[j].st /\ (client[j].st # "connected" => client'[j] = client[j])
    BY <1>f DEF Alone
  <2> QED BY <2>1, LinksKeep DEF Alone, FInv
<1>2. ASSUME NEW d \in Caa, d # c PROVE Exchange(d)'
  <2>1. d \in Fds /\ sock[d].kind = "ap" /\ Exchange(d)
    BY Owners
  <2>2. sock'[d] = sock[d] /\ caa'[d] = caa[d] /\ local'[d] = local[d]
    BY <1>f, <1>2, <2>1 DEF Alone
  <2>3. ASSUME caa[d].fd # -1
        PROVE  /\ sock'[caa[d].fd] = sock[caa[d].fd]
               /\ client'[sock[caa[d].fd].peer] = client[sock[caa[d].fd].peer]
    <3> DEFINE g == caa[d].fd
    <3>1. g \in Fds /\ sock[g].kind = "client" /\ el.events[g].clientData = d /\ sock[g].peer \in Clients
        BY <2>3, Owners
    <3>2. g # f /\ sock[c].kind = "ap"
        BY <1>f, <1>2, <3>1, Owners
    <3>3. sock[g].peer # k /\ g # c
        BY <1>f, <3>1, <3>2 DEF FInv, ClientSockets
    <3> QED BY <3>1, <3>2, <3>3 DEF Alone
  <2> QED BY <2>1, <2>2, <2>3, SameExchange
<1>3. \A d \in Caa : apFd'[d] = d /\ sock'[d].st = "open"
  <2> SUFFICES ASSUME NEW d \in Caa PROVE apFd'[d] = d /\ sock'[d].st = "open"
    OBVIOUS
  <2>1. d \in Fds /\ sock[d].kind = "ap" /\ apFd[d] = d /\ sock[d].st = "open"
    BY Owners
  <2> QED BY <1>f, <2>1 DEF Alone
<1> QED BY <1>1, <1>2, <1>3 DEF FInv

LEMMA LinksLeave ==
    ASSUME ClientSockets, ClientsKnown, NEW f \in Fds, NEW k \in Clients,
           \A g \in Fds : sock[g].kind = "client" /\ sock[g].peer = k => g = f,
           sock[f].kind = "client" => sock[f].peer = k,
           sock'[f].kind = "free", \A g \in Fds \ {f} : sock'[g] = sock[g],
           client'[k].st \in {"closed", "left"}, \A j \in Clients \ {k} : client'[j] = client[j]
    PROVE  ClientSockets' /\ ClientsKnown'
<1>1. ClientSockets'
  <2> SUFFICES ASSUME NEW fd \in Fds, sock'[fd].kind = "client"
               PROVE  /\ sock'[fd].peer \in Clients /\ client'[sock'[fd].peer].st = "connected"
                      /\ \A g \in Fds : sock'[g].kind = "client" /\ sock'[g].peer = sock'[fd].peer => g = fd
    BY DEF ClientSockets
  <2>1. fd # f /\ sock'[fd] = sock[fd] /\ sock[fd].peer # k
    OBVIOUS
  <2>2. /\ sock[fd].peer \in Clients /\ client[sock[fd].peer].st = "connected"
        /\ \A g \in Fds : sock[g].kind = "client" /\ sock[g].peer = sock[fd].peer => g = fd
    BY <2>1 DEF ClientSockets
  <2> QED BY <2>1, <2>2
<1>2. ClientsKnown'
  <2> SUFFICES ASSUME NEW j \in Clients
               PROVE  /\ client'[j].st = "connected" =>
                            \E fd \in Fds : sock'[fd].kind = "client" /\ sock'[fd].peer = j
                      /\ client'[j].st \in {"idle", "backlog"} =>
                            client'[j].reqs = 0 /\ client'[j].sent = 0 /\ client'[j].got = <<>>
    BY DEF ClientsKnown
  <2>1. CASE j = k
    BY <2>1
  <2>2. CASE j # k
    <3>1. client'[j] = client[j]
        BY <2>2
    <3>2. \A fd \in Fds : sock[fd].kind = "client" /\ sock[fd].peer = j => fd # f
        BY <2>2
    <3> QED BY <3>1, <3>2 DEF ClientsKnown
  <2> QED BY <2>1, <2>2
<1> QED BY <1>1, <1>2

(* A client's connection is closed, that of an object or one not accepted. *)
Gone(f, k) ==
    /\ \A d \in Caa : /\ caa'[d].fd # -1 => caa'[d] = caa[d] /\ caa[d].fd # f
                      /\ caa'[d].fd = -1 => Silent(sock[d].inq, local[d])
    /\ sock[f].kind \in {"client", "free"} /\ (sock[f].kind = "client" => sock[f].peer = k)
    /\ \A g \in Fds : sock[g].kind = "client" /\ sock[g].peer = k => g = f
    /\ sock'[f].kind = "free" /\ \A g \in Fds \ {f} : sock'[g] = sock[g]
    /\ client[k].st # "left" /\ \E st \in {"closed", "left"} : client'[k] = [client[k] EXCEPT !.st = st]
    /\ \A j \in Clients \ {k} : client'[j] = client[j]
    /\ UNCHANGED <<apFd, local>>

LEMMA ClientGone ==
    ASSUME WellBehaved, IInv, FInv, NEW f \in Fds, NEW k \in Clients, Gone(f, k), Consistent(el')
    PROVE  FInv' /\ [Promise!FwdNext]_(Promise!fwdVars)
<1>g. /\ \A d \in Caa : /\ caa'[d].fd # -1 => caa'[d] = caa[d] /\ caa[d].fd # f
                        /\ caa'[d].fd = -1 => Silent(sock[d].inq, local[d])
      /\ sock[f].kind \in {"client", "free"} /\ (sock[f].kind = "client" => sock[f].peer = k)
      /\ \A g \in Fds : sock[g].kind = "client" /\ sock[g].peer = k => g = f
      /\ sock'[f].kind = "free" /\ \A g \in Fds \ {f} : sock'[g] = sock[g]
      /\ client[k].st # "left" /\ \E st \in {"closed", "left"} : client'[k] = [client[k] EXCEPT !.st = st]
      /\ \A j \in Clients \ {k} : client'[j] = client[j]
      /\ UNCHANGED <<apFd, local>>
    BY DEF Gone
<1>k. /\ client'[k].st \in {"closed", "left"} /\ client'[k].reqs = client[k].reqs /\ client'[k].got = client[k].got
  <2>1. client[k] \in ClientType
    BY DEF IInv, PType
  <2> QED BY <1>g, <2>1 DEF ClientType, ClientTypes
<1>1. ClientSockets' /\ ClientsKnown'
  <2>1. ClientSockets /\ ClientsKnown
    BY DEF FInv
  <2> QED BY <1>g, <1>k, <2>1, LinksLeave
<1>2. ASSUME NEW d \in Caa PROVE Exchange(d)' /\ apFd'[d] = d /\ sock'[d].st = "open"
  <2>1. d \in Fds /\ sock[d].kind = "ap" /\ Exchange(d) /\ apFd[d] = d /\ sock[d].st = "open"
    BY Owners
  <2>2. sock'[d] = sock[d] /\ local'[d] = local[d] /\ apFd'[d] = apFd[d]
    BY <1>g, <2>1
  <2>3. CASE caa'[d].fd = -1
    <3>1. Silent(sock[d].inq, local[d])
        BY <1>g, <2>3
    <3>2. Silent(sock'[d].inq, local'[d])
        BY <2>2, <3>1
    <3>3. Exchange(d)'
        BY <2>3, <3>2 DEF Exchange
    <3> QED BY <2>1, <2>2, <3>3
  <2>4. CASE caa'[d].fd # -1
    <3>1. caa'[d] = caa[d] /\ caa[d].fd # f /\ caa[d].fd # -1
        BY <1>g, <2>4
    <3>2. caa[d].fd \in Fds /\ sock[caa[d].fd].kind = "client" /\ sock[caa[d].fd].peer \in Clients
        BY <3>1, Owners
    <3>3. /\ sock'[caa[d].fd] = sock[caa[d].fd]
          /\ client'[sock[caa[d].fd].peer] = client[sock[caa[d].fd].peer]
        BY <1>g, <3>1, <3>2
    <3>4. Exchange(d)'
        BY <2>1, <2>2, <3>1, <3>3, SameExchange
    <3> QED BY <2>1, <2>2, <3>4
  <2> QED BY <2>3, <2>4
<1>3. [Promise!FwdNext]_(Promise!fwdVars)
  <2>1. \A j \in Clients \ {k} : SeenSame(client[j], client'[j])
    BY <1>g DEF SeenSame
  <2> QED BY <1>g, <1>k, <2>1, StepCloses
<1> QED BY <1>1, <1>2, <1>3 DEF FInv

(* A step that changes nothing but the loop. *)
LEMMA NothingTalks ==
    ASSUME FInv, UNCHANGED <<ownVars, sock, client>>, Consistent(el')
    PROVE  FInv' /\ UNCHANGED Promise!fwdVars
<1>1. UNCHANGED <<caa, apFd, local, sock, client>>
    BY DEF ownVars
<1>2. ClientSockets' /\ ClientsKnown'
    BY <1>1 DEF FInv, ClientSockets, ClientsKnown
<1>3. \A c \in Caa : apFd'[c] = c /\ sock'[c].st = "open" /\ Exchange(c)'
    BY <1>1 DEF FInv, Exchange
<1>4. UNCHANGED Promise!fwdVars
    BY <1>1 DEF Promise!fwdVars
<1> QED BY <1>2, <1>3, <1>4 DEF FInv

LEMMA IgnoreTalks ==
    ASSUME IInv, FInv, NEW fd \in Fds, Ignore(fd)
    PROVE  FInv' /\ UNCHANGED Promise!fwdVars
<1>1. /\ el \in AgentLoops /\ InRange(el) /\ Consistent(el) /\ ReadWrite \in SUBSET ReadWrite
      /\ el' = FileEventDeleted(el, fd, ReadWrite) /\ UNCHANGED <<ownVars, sock, client>>
    BY DEF IInv, PType, FInv, Ignore
<1>2. Consistent(el')
    BY <1>1, DeletedConsistent
<1> QED BY <1>1, <1>2, NothingTalks

LEMMA CrashTalks ==
    ASSUME FInv, Crash \/ ReturnOnly
    PROVE  FInv' /\ UNCHANGED Promise!fwdVars
<1>1. UNCHANGED <<ownVars, sock, client, el>>
    BY DEF Crash, Segfault, ReturnOnly
<1>2. Consistent(el')
    BY <1>1 DEF FInv
<1> QED BY <1>1, <1>2, NothingTalks

-----------------------------------------------------------------------------
(* read_from_consumer_agent *)

(* What http_parser_execute makes of the tokens up to hi of a request. *)
ParsedTo(x, k, q, hi) ==
    /\ x.short = FALSE
    /\ hi <= HeadLen => x.body = <<>> /\ x.pos = hi
    /\ hi = ReqLen => x.body = Run(k, q, HeadLen, ReqLen) /\ x.pos = 0

LEMMA ParseRun ==
    ASSUME NEW r, r.parser \in 0 .. HeadLen, ~r.processing, NEW k, NEW q, NEW hi \in Nat,
           r.parser < hi, hi <= HeadLen \/ hi = ReqLen, NEW piece, piece = Run(k, q, r.parser, hi)
    PROVE  ParsedTo(Parse(r, piece), k, q, hi)
<1> DEFINE lo == r.parser
           n == Len(piece)
           m == IF lo + n < ReqLen THEN n ELSE ReqLen - lo
           this == Prefix(piece, m)
           h == IF lo < HeadLen THEN HeadLen - lo ELSE 0
           body == Suffix(this, h)
           x == Parse(r, piece)
<1>n. /\ ReqLen \in Nat /\ HeadLen \in Nat \ {0} /\ HeadLen < ReqLen /\ lo \in Nat /\ lo < hi /\ lo <= HeadLen
      /\ hi <= ReqLen
    BY Numbers
<1>1. n = hi - lo /\ piece[1] = <<k, q, lo + 1>> /\ piece # <<>>
  <2> HIDE DEF lo
  <2>1. RunFacts(k, q, lo, hi)
    BY <1>n, RunIs
  <2>2. (Run(k, q, lo, hi) = <<>>) <=> (lo = hi)
    BY <1>n, EmptyRun
  <2>3. piece = Run(k, q, lo, hi)
    BY DEF lo
  <2>4. 1 \in 1 .. hi - lo /\ lo # hi
    BY <1>n
  <2> QED BY <2>1, <2>2, <2>3, <2>4 DEF RunFacts
<1>2. m = hi - lo /\ h = HeadLen - lo /\ lo + n = hi /\ lo # ParserError
    BY <1>n, <1>1 DEF ParserError
<1>3. this = piece
  <2> HIDE DEF lo, m
  <2>1. RunCut(k, q, lo, hi, hi)
    BY <1>n, RunParts
  <2>2. Prefix(piece, hi - lo) = piece
    BY <2>1 DEF RunCut, lo
  <2> QED BY <1>2, <2>2
<1>4. hi <= HeadLen => body = <<>>
  <2> SUFFICES ASSUME hi <= HeadLen PROVE body = <<>>
    OBVIOUS
  <2>1. (HeadLen - lo) + 1 \in Int /\ hi - lo \in Int /\ hi - lo < (HeadLen - lo) + 1
    BY <1>n
  <2>2. SubSeq(piece, (HeadLen - lo) + 1, hi - lo) = <<>>
    BY <2>1, SubSeqEmpty
  <2> QED BY <1>1, <1>2, <1>3, <2>2 DEF Suffix
<1>5. hi = ReqLen => body = Run(k, q, HeadLen, ReqLen) /\ body # <<>>
  <2> SUFFICES ASSUME hi = ReqLen PROVE body = Run(k, q, HeadLen, ReqLen) /\ body # <<>>
    OBVIOUS
  <2> HIDE DEF lo, h, this
  <2>1. RunCut(k, q, lo, HeadLen, ReqLen)
    BY <1>n, RunParts
  <2>2. Suffix(piece, HeadLen - lo) = Run(k, q, HeadLen, ReqLen)
    BY <2>1 DEF RunCut, lo
  <2>3. Run(k, q, HeadLen, ReqLen) # <<>>
    BY <1>n, EmptyRun
  <2> QED BY <1>2, <1>3, <2>2, <2>3
<1>6. hi <= HeadLen => hi % ReqLen = hi
    BY <1>n
<1>7. ReqLen % ReqLen = 0
    BY <1>n
<1>8. n - Len(this) = 0
    BY <1>n, <1>1, <1>3
<1>9. /\ x.pos = hi % ReqLen /\ x.body = body /\ x.short = FALSE
  <2>1. x = LET end == lo + n
                next == n - Len(this)
                refused == body # <<>> /\ r.processing
                nextRefused == next > HeadLen
            IN  [pos |-> IF refused \/ nextRefused THEN ParserError ELSE end % ReqLen,
                 body |-> IF refused THEN <<>> ELSE body,
                 short |-> (refused /\ end >= ReqLen) \/ (nextRefused /\ next >= ReqLen)]
    <3>1. r.parser # ParserError /\ piece # <<>> /\ piece[1][3] = r.parser + 1
        BY <1>1, <1>2
    <3> QED BY <3>1, Zenon DEF Parse
  <2>2. ~(0 > HeadLen)
    BY <1>n
  <2> HIDE DEF x, n, body, this, lo
  <2> QED BY <1>2, <1>8, <2>1, <2>2
<1> HIDE DEF x, body
<1>10. ParsedTo(x, k, q, hi)
    BY <1>n, <1>4, <1>5, <1>6, <1>7, <1>9 DEF ParsedTo
<1> QED BY <1>10 DEF x

(* The dubbo request made of a whole body is that of its request. *)
LEMMA BodyIsWhole ==
    ASSUME NEW k, NEW q, NEW body, body = Run(k, q, HeadLen, ReqLen)
    PROVE  DubboRequest(body) = <<k, q>> /\ body # <<>>
<1>n. HeadLen \in Nat /\ ReqLen \in Nat /\ HeadLen < ReqLen
    BY Numbers
<1>1. RunFacts(k, q, HeadLen, ReqLen)
    BY <1>n, RunIs
<1>2. Len(body) = ReqLen - HeadLen /\ body[1] = <<k, q, HeadLen + 1>>
  <2>1. 1 \in 1 .. ReqLen - HeadLen
    BY <1>n
  <2> QED BY <1>1, <2>1 DEF RunFacts
<1>3. body # <<>>
    BY <1>n, EmptyRun
<1> QED BY <1>2, <1>3 DEF DubboRequest

(* What is known of an exchange under way. *)
LEMMA ExchangeFacts ==
    ASSUME WellBehaved, IInv, FInv, NEW c \in Caa, caa[c].fd # -1
    PROVE  LET r == caa[c]
               k == sock[r.fd].peer
           IN  /\ Talks(r, sock[r.fd], client[k], sock[c].inq, local[c])
               /\ r \in Objects /\ Len(r.buf_resp) <= BufResp /\ r.nread_in <= ReqLen
               /\ caa \in [Caa -> Objects] /\ local \in [Caa -> [inq : Seq(Tokens), out : Seq(Tokens)]]
               /\ sock \in [Fds -> Socks(Tokens)] /\ client \in [Clients -> ClientType]
               /\ k \in Clients /\ client[k] \in ClientType
               /\ client[k].reqs \in 0 .. Requests /\ client[k].sent \in 0 .. ReqLen - 1
               /\ client[k].got \in Seq(Tokens) /\ Len(client[k].got) \in Nat
               /\ Sent(client[k]) \in 1 .. ReqLen /\ (Sent(client[k]) = ReqLen <=> client[k].sent = 0)
<1>t. PType
    BY DEF IInv
<1> DEFINE r == caa[c]
           k == sock[r.fd].peer
<1>1. /\ r \in Objects /\ Len(r.buf_resp) <= BufResp
      /\ caa \in [Caa -> Objects] /\ local \in [Caa -> [inq : Seq(Tokens), out : Seq(Tokens)]]
      /\ sock \in [Fds -> Socks(Tokens)] /\ client \in [Clients -> ClientType]
    BY <1>t DEF PType
<1>2. k \in Clients /\ client[k] \in ClientType
    BY <1>1, Owners
<1>3. /\ client[k].reqs \in 0 .. Requests /\ client[k].sent \in 0 .. ReqLen - 1 /\ client[k].got \in Seq(Tokens)
    BY <1>2 DEF ClientType, ClientTypes
<1>4. Len(client[k].got) \in Nat /\ Sent(client[k]) \in 1 .. ReqLen /\ (Sent(client[k]) = ReqLen <=> client[k].sent = 0)
  <2>1. Len(client[k].got) \in Nat
    BY <1>3, LenProperties
  <2>2. ReqLen \in Nat \ {0}
    BY Numbers
  <2> HIDE DEF k
  <2>3. Sent(client[k]) \in 1 .. ReqLen /\ (Sent(client[k]) = ReqLen <=> client[k].sent = 0)
    BY <1>3, <2>2 DEF Sent
  <2> QED BY <2>1, <2>3
<1>5. Talks(r, sock[r.fd], client[k], sock[c].inq, local[c])
  <2>1. Exchange(c)
    BY Owners
  <2> QED BY <2>1 DEF Exchange
<1>6. r.nread_in <= ReqLen
  <2>1. 0 <= ReqLen /\ HeadLen <= ReqLen /\ ReqLen \in Nat /\ HeadLen \in Nat
    BY Numbers
  <2>2. CASE Resting(r, sock[r.fd], client[k]) \/ Asking(r, sock[r.fd], client[k])
    <3>1. r.nread_in = r.parser /\ (r.parser = 0 \/ r.parser \in 0 .. HeadLen)
        BY <2>2 DEF Resting, Asking, Fresh
    <3> QED BY <2>1, <3>1
  <2>3. CASE Asked(r, sock[r.fd], client[k])
    BY <2>3 DEF Asked
  <2> QED BY <1>5, <2>2, <2>3 DEF Talks, Sending, Invoking, Replying
<1> QED BY <1>1, <1>2, <1>3, <1>4, <1>5, <1>6

LEMMA ClientClosedTalks ==
    ASSUME WellBehaved, IInv, FInv, NEW fd \in Fds, NEW c \in Caa, sock[fd].kind = "client",
           caa[c].fd = fd, Silent(sock[c].inq, local[c]), ClientClosed(fd, c)
    PROVE  FInv' /\ [Promise!FwdNext]_(Promise!fwdVars)
<1> DEFINE d == FileEventDeleted(el, fd, ReadWrite)
           k == sock[fd].peer
<1>c. /\ el' = KernelForgets(d, {fd}) /\ caa' = [caa EXCEPT ![c] = Closed] /\ sock' = CloseFds(sock, {fd})
      /\ client' = Disconnected(sock, fd) /\ UNCHANGED <<apFd, local>>
    BY DEF ClientClosed
<1>t. el \in AgentLoops /\ InRange(el) /\ Consistent(el) /\ ReadWrite \in SUBSET ReadWrite
      /\ caa \in [Caa -> Objects] /\ sock \in [Fds -> Socks(Tokens)]
    BY DEF IInv, PType, FInv
<1>1. Consistent(el')
  <2>1. SameBut(el, d, {fd}) /\ Masked(el, d, fd, el.events[fd].mask \ ReadWrite)
    BY <1>t, Deleted
  <2>2. el.events[fd].mask \ ReadWrite = {}
    BY <1>t DEF AgentLoops, Loops, Slots
  <2>3. d \in AgentLoops /\ d.setsize = el.setsize /\ d.events[fd].mask = {}
        /\ \A g \in Fds \ {fd} : d.events[g] = el.events[g] /\ d.epoll[g] = el.epoll[g]
    BY <2>1, <2>2 DEF SameBut, Masked
  <2> HIDE DEF d
  <2>4. /\ el'.setsize = d.setsize /\ el'.events = d.events
        /\ \A g \in Fds : el'.epoll[g] = IF g \in {fd} THEN NotMonitored ELSE d.epoll[g]
    BY <1>c, <2>3, Forgotten
  <2> QED BY <1>t, <2>3, <2>4 DEF Consistent, Agrees
<1>2. sock'[fd].kind = "free" /\ \A g \in Fds \ {fd} : sock'[g] = sock[g]
  <2>1. \A g \in Fds : sock'[g] = IF g \in {fd} THEN NoSock ELSE sock[g]
    BY <1>t, <1>c, Closes
  <2> QED BY <2>1, NoSocket
<1>3. k \in Clients /\ client[k].st = "connected" /\ \A g \in Fds : sock[g].kind = "client" /\ sock[g].peer = k => g = fd
    BY DEF FInv, ClientSockets
<1>4. (\E st \in {"closed", "left"} : client'[k] = [client[k] EXCEPT !.st = st]) /\ \A j \in Clients \ {k} : client'[j] = client[j]
    BY <1>c, <1>3 DEF Disconnected
<1>5. ASSUME NEW e \in Caa
      PROVE  /\ caa'[e].fd # -1 => caa'[e] = caa[e] /\ caa[e].fd # fd
             /\ caa'[e].fd = -1 => Silent(sock[e].inq, local[e])
  <2>1. CASE e = c
    <3>1. caa'[e] = Closed /\ Closed.fd = -1
        BY <1>t, <1>c, <2>1 DEF Closed
    <3> QED BY <2>1, <3>1
  <2>2. CASE e # c
    <3>1. caa'[e] = caa[e]
        BY <1>t, <1>c, <2>2
    <3>2. caa[e].fd # -1 => el.events[caa[e].fd].clientData = e
        BY Owners
    <3>3. el.events[fd].clientData = c
      <4>1. caa[c].fd # -1
        BY Descriptors
      <4> QED BY <4>1, Owners
    <3>4. caa[e].fd = -1 => Silent(sock[e].inq, local[e])
        BY Owners DEF Exchange
    <3> QED BY <2>2, <3>1, <3>2, <3>3, <3>4
  <2> QED BY <2>1, <2>2
<1>6. UNCHANGED <<apFd, local>> /\ client[k].st # "left" /\ sock[fd].kind \in {"client", "free"}
    BY <1>c, <1>3
<1>7. k \in Clients /\ (sock[fd].kind = "client" => sock[fd].peer = k)
    BY <1>3
<1>8. \A e \in Caa : /\ caa'[e].fd # -1 => caa'[e] = caa[e] /\ caa[e].fd # fd
                     /\ caa'[e].fd = -1 => Silent(sock[e].inq, local[e])
    BY <1>5
<1> HIDE DEF k
<1>9. Gone(fd, k)
    BY <1>2, <1>3, <1>4, <1>6, <1>7, <1>8 DEF Gone
<1> QED BY <1>1, <1>7, <1>9, ClientGone

LEMMA ReadClientTalks ==
    ASSUME WellBehaved, IInv, FInv, NEW fd \in Fds, NEW c \in Caa, ClientEvent(el, sock, fd, c),
           read_from_consumer_agent(fd, c)
    PROVE  FInv' /\ [Promise!FwdNext]_(Promise!fwdVars)
<1> DEFINE r0 == caa[c]
           k == sock[fd].peer
           x == client[k]
           lo == r0.parser
           hi == Sent(x)
           q == x.reqs
           space == BufIn - r0.nread_in
           result == ReadResult(sock[fd], space)
           piece == Received(sock[fd], space)
           y == Parse(r0, piece)
           busy == r0.processing \/ y.body # <<>>
           nread == IF y.short THEN 0 ELSE r0.nread_in + Len(piece)
           r == [r0 EXCEPT !.parser = y.pos, !.processing = busy, !.nread_in = nread]
           s == AfterRead(sock, fd, space)
           t == [r EXCEPT !.buf_req = DubboRequest(y.body)]
<1>o. r0.fd = fd /\ fd # -1 /\ ~(r0.fd < 0) /\ sock[fd].kind = "client"
  <2>1. sock[fd].kind = "client" /\ el.events[fd].clientData = c
    BY DEF ClientEvent
  <2>2. r0.fd = fd /\ fd # -1 /\ fd \in Nat
    BY <2>1, Owners, Descriptors
  <2> QED BY <2>1, <2>2
<1>f. /\ Talks(r0, sock[fd], x, sock[c].inq, local[c]) /\ r0 \in Objects /\ r0.nread_in <= ReqLen
      /\ r0.nread_in \in Nat /\ caa \in [Caa -> Objects]
      /\ sock \in [Fds -> Socks(Tokens)] /\ sock[fd].st \in {"open", "eof", "rst"}
      /\ k \in Clients /\ q \in Nat /\ x.sent \in 0 .. ReqLen - 1 /\ hi \in 1 .. ReqLen
      /\ (hi = ReqLen <=> x.sent = 0) /\ x.st = "connected"
  <2>1. r0 \in Objects /\ sock \in [Fds -> Socks(Tokens)] /\ x.reqs \in 0 .. Requests /\ Requests \in Nat
    <3>1. r0 \in Objects /\ sock \in [Fds -> Socks(Tokens)] /\ x.reqs \in 0 .. Requests
        BY <1>o, ExchangeFacts
    <3> QED BY <3>1, Numbers
  <2>2. r0.nread_in \in 0 .. BufIn /\ BufIn \in Nat /\ sock[fd].st \in {"open", "eof", "rst"}
    BY <2>1, Numbers DEF Objects, Socks
  <2>3. x.st = "connected"
    BY <1>o, Owners
  <2> QED BY <1>o, <2>1, <2>2, <2>3, ExchangeFacts
<1>s. space \in Nat \ {0} /\ ReqLen - r0.nread_in <= space
  <2>1. ReqLen \in Nat /\ BufIn \in Nat /\ ReqLen < BufIn
    BY Numbers, WellBehavedIs
  <2> QED BY <1>f, <2>1
<1>c. \/ /\ result = "data" /\ y.body = <<>>
         /\ caa' = [caa EXCEPT ![c] = r] /\ sock' = s
         /\ UNCHANGED <<caaPool, apFd, local, el, pc, stop, client>>
      \/ /\ result = "data" /\ y.body # <<>>
         /\ ForwardRequest(c, t, s) /\ UNCHANGED <<local, pc, stop>>
      \/ Crash \/ ReturnOnly
      \/ result = "error"
      \/ result = "eof" /\ ClientClosed(fd, c)
    BY <1>o, Zenon DEF read_from_consumer_agent
<1>e. /\ result = "data" => sock[fd].inq # <<>>
      /\ result = "eof" => sock[fd].st = "eof"
      /\ result = "error" => sock[fd].st = "rst"
  <2> HIDE DEF space
  <2> QED BY <1>f, <1>s, ReadEnds
<1> HIDE DEF space, result
<1>d. ASSUME result = "data"
      PROVE  /\ Asking(r0, sock[fd], x) /\ Silent(sock[c].inq, local[c])
             /\ r0.nread_in = lo /\ lo \in Nat /\ lo < hi /\ x.got = x.got
             /\ piece = Run(k, q, lo, hi) /\ s[fd].inq = <<>> /\ s[fd].st = sock[fd].st
             /\ ParsedTo(y, k, q, hi) /\ (hi <= HeadLen \/ hi = ReqLen) /\ Len(piece) = hi - lo
  <2>1. sock[fd].inq # <<>>
    BY <1>d, <1>e
  <2>2. Asking(r0, sock[fd], x) /\ Silent(sock[c].inq, local[c])
    BY <1>f, <2>1 DEF Talks, Resting, Sending, Invoking, Replying, Asked
  <2>3. /\ r0.nread_in = lo /\ lo \in 0 .. HeadLen /\ lo <= hi /\ x.sent <= HeadLen /\ ~r0.processing
        /\ sock[fd].inq = Run(k, q, lo, hi)
    BY <2>2 DEF Asking, Fresh
  <2>4. HeadLen \in Nat /\ ReqLen \in Nat /\ lo \in Nat /\ hi \in Nat /\ space \in Nat
    BY <1>f, <1>s, <2>3, Numbers
  <2> HIDE DEF lo, hi, q, k, s, piece, y
  <2>5. PICK mid \in lo .. hi : ReadUpTo(sock, s, fd, space, k, q, lo, mid, hi)
    <3>1. s = AfterRead(sock, fd, space)
        BY DEF s
    <3> QED BY <1>f, <2>3, <2>4, <3>1, RunRead
  <2>6. mid = hi
    <3>1. hi - lo <= space
        BY <1>f, <1>s, <2>3, <2>4
    <3> QED BY <2>5, <3>1 DEF ReadUpTo
  <2>7. piece = Run(k, q, lo, hi) /\ s[fd].inq = Run(k, q, hi, hi) /\ s[fd].st = sock[fd].st
    BY <2>5, <2>6 DEF ReadUpTo, piece
  <2>8. lo # hi /\ Run(k, q, hi, hi) = <<>>
    BY <2>1, <2>3, <2>4, EmptyRun
  <2>9. Len(piece) = hi - lo
    <3>1. RunFacts(k, q, lo, hi)
        BY <2>3, <2>4, RunIs
    <3> QED BY <2>7, <3>1 DEF RunFacts
  <2>10. hi <= HeadLen \/ hi = ReqLen
    BY <1>f, <2>3, <2>4 DEF hi, Sent
  <2>11. lo < hi
    BY <2>3, <2>4, <2>8
  <2>12. ParsedTo(y, k, q, hi)
    <3>1. r0.parser \in 0 .. HeadLen /\ r0.parser < hi /\ piece = Run(k, q, r0.parser, hi)
        BY <2>3, <2>7, <2>11 DEF lo
    <3>2. ~r0.processing /\ hi \in Nat
        BY <2>3, <2>4
    <3>3. ParsedTo(Parse(r0, piece), k, q, hi)
        BY <2>10, <3>1, <3>2, ParseRun, Zenon
    <3> QED BY <3>3 DEF y
  <2> QED BY <2>2, <2>3, <2>4, <2>7, <2>8, <2>9, <2>10, <2>11, <2>12
<1>h. /\ SameSockets(sock, s) /\ \A g \in Fds \ {fd} : s[g] = sock[g]
  <2>1. SameSockets(sock, s)
    BY <1>f, <1>s, ReadTakes
  <2>2. s = [sock EXCEPT ![fd].inq = Suffix(sock[fd].inq, ReadLen(sock[fd], space))]
    BY DEF AfterRead
  <2> QED BY <1>f, <2>1, <2>2
<1> HIDE DEF y, piece, s
<1>r. ASSUME result = "data"
      PROVE  /\ r.fd = fd /\ r.parser = y.pos /\ (r.processing <=> y.body # <<>>) /\ r.nread_in = hi
             /\ r.buf_req = NoReq /\ r.nwrite_req = 0 /\ r.buf_resp = <<>>
             /\ t.fd = fd /\ t.nread_in = hi /\ t.buf_req = DubboRequest(y.body)
             /\ t.nwrite_req = 0 /\ t.buf_resp = <<>>
  <2>1. nread = hi
    <3>1. ~y.short
        BY <1>r, <1>d DEF ParsedTo
    <3>2. r0.nread_in = lo /\ lo \in Nat /\ Len(piece) = hi - lo /\ hi \in Nat
        BY <1>f, <1>r, <1>d
    <3> HIDE DEF lo, hi
    <3>3. r0.nread_in + Len(piece) = hi
        BY <3>2
    <3> QED BY <3>1, <3>3
  <2>2. Fresh(r0)
    BY <1>r, <1>d DEF Asking
  <2> DEFINE req == DubboRequest(y.body)
  <2>3. t = [r EXCEPT !.buf_req = req]
    OBVIOUS
  <2> HIDE DEF nread, busy, req
  <2>4. /\ r.fd = r0.fd /\ r.parser = y.pos /\ r.processing = busy /\ r.nread_in = nread
        /\ r.buf_req = r0.buf_req /\ r.nwrite_req = r0.nwrite_req /\ r.buf_resp = r0.buf_resp
        /\ t.fd = r0.fd /\ t.nread_in = nread /\ t.buf_req = req
        /\ t.nwrite_req = r0.nwrite_req /\ t.buf_resp = r0.buf_resp
    BY <1>f, <2>3 DEF Objects
  <2>5. busy <=> y.body # <<>>
    BY <2>2 DEF busy, Fresh
  <2> QED BY <1>o, <2>1, <2>2, <2>4, <2>5 DEF Fresh, req
<1> HIDE DEF r, t
<1>l. UNCHANGED client => UNCHANGED Promise!fwdVars
    BY StepsUnseen DEF SeenSame
<1>a. ASSUME NEW z, z.fd = fd, caa' = [caa EXCEPT ![c] = z], sock' = s, UNCHANGED <<apFd, local, client>>
      PROVE  /\ caa'[c] = z /\ sock'[fd] = s[fd] /\ sock'[c] = sock[c] /\ Alone(c)
             /\ (Talks(z, s[fd], x, sock[c].inq, local[c]) => Exchange(c)')
  <2>1. caa'[c] = z /\ \A d \in Caa \ {c} : caa'[d] = caa[d]
    BY <1>f, <1>a
  <2>2. c # fd /\ c \in Fds
    BY <1>o, Owners
  <2>3. sock'[c] = sock[c] /\ sock'[fd] = s[fd]
    BY <1>a, <1>h, <2>2
  <2>4. Alone(c)
    BY <1>o, <1>a, <1>h, <2>1, <2>2, <2>3 DEF Alone
  <2>5. sock'[fd].peer = k
    BY <1>a, <1>h DEF SameSockets
  <2>6. Talks(z, s[fd], x, sock[c].inq, local[c]) => Exchange(c)'
    <3> SUFFICES ASSUME Talks(z, s[fd], x, sock[c].inq, local[c]) PROVE Exchange(c)'
        OBVIOUS
    <3>1. client'[k] = x /\ local'[c] = local[c]
        BY <1>a
    <3> HIDE DEF x, k
    <3> QED BY <1>o, <1>a, <2>1, <2>3, <2>5, <3>1 DEF Exchange
  <2> QED BY <2>1, <2>3, <2>4, <2>6
<1>u. ASSUME result = "data"
      PROVE  Unanswered(s[fd], x, 0) /\ s[fd].inq = <<>> /\ s[fd].peer = k
  <2>1. s[fd].st = sock[fd].st /\ s[fd].inq = <<>> /\ Unanswered(sock[fd], x, 0)
    BY <1>u, <1>d DEF Asking
  <2> QED BY <1>h, <2>1 DEF Unanswered, SameSockets
<1>1. CASE /\ result = "data" /\ y.body = <<>>
           /\ caa' = [caa EXCEPT ![c] = r] /\ sock' = s
           /\ UNCHANGED <<caaPool, apFd, local, el, pc, stop, client>>
  <2>1. hi <= HeadLen /\ y.pos = hi /\ hi # ReqLen
    <3>1. hi # ReqLen
        BY <1>1, <1>d, BodyIsWhole DEF ParsedTo
    <3> QED BY <1>1, <1>d, <3>1 DEF ParsedTo
  <2>2. Asking(r, s[fd], x)
    <3>1. Fresh(r) /\ r.parser = hi
        BY <1>1, <1>r, <2>1 DEF Fresh
    <3>2. x.sent <= HeadLen
        BY <1>1, <1>d DEF Asking
    <3>3. hi \in 0 .. HeadLen /\ hi <= hi /\ hi \in Nat
        BY <1>f, <2>1, Numbers
    <3>4. Run(k, q, hi, hi) = <<>>
        BY <3>3, EmptyRun
    <3> QED BY <1>1, <1>u, <3>1, <3>2, <3>3, <3>4 DEF Asking
  <2>3. Talks(r, s[fd], x, sock[c].inq, local[c])
    BY <1>1, <1>d, <2>2 DEF Talks
  <2>4. Alone(c) /\ Exchange(c)'
    BY <1>1, <1>r, <1>a, <2>3
  <2>5. Consistent(el')
    BY <1>1 DEF FInv
  <2> QED BY <1>o, <1>1, <1>l, <2>4, <2>5, AloneStep
<1>2. CASE /\ result = "data" /\ y.body # <<>>
           /\ ForwardRequest(c, t, s) /\ UNCHANGED <<local, pc, stop>>
  <2> DEFINE withW == FileEventCreated(el, c, {AE_WRITABLE}, "write_to_local_provider", c)
  <2>1. c \in Fds /\ c \in Nat /\ apFd[c] = c /\ ~CreateErr(c)
    BY Owners, Numbers, CreateSucceeds
  <2>2. /\ caa' = [caa EXCEPT ![c] = t] /\ sock' = s /\ UNCHANGED <<apFd, local, client>>
        /\ el' = FileEventCreated(withW, c, {AE_READABLE}, "read_from_local_provider", c)
    BY <1>2, <2>1, Zenon DEF ForwardRequest
  <2>3. Consistent(el')
    <3>1. /\ AE_READABLE \in ReadWrite /\ AE_WRITABLE \in ReadWrite /\ "read_from_local_provider" \in Procs
          /\ "write_to_local_provider" \in Procs /\ el \in AgentLoops /\ Consistent(el)
        BY DEF ReadWrite, Procs, IInv, PType, FInv
    <3>2. withW \in AgentLoops /\ Consistent(withW)
        BY <2>1, <3>1, CreatedConsistent
    <3> HIDE DEF withW
    <3> QED BY <2>1, <2>2, <3>1, <3>2, CreatedConsistent
  <2>4. hi = ReqLen /\ x.sent = 0 /\ DubboRequest(y.body) = <<k, q>>
    <3>1. hi = ReqLen
        BY <1>2, <1>d DEF ParsedTo
    <3>2. y.body = Run(k, q, HeadLen, ReqLen)
        BY <1>2, <1>d, <3>1 DEF ParsedTo
    <3> QED BY <1>f, <3>1, <3>2, BodyIsWhole
  <2>5. Sending(t, s[fd], x, sock[c].inq, local[c])
    <3>1. t.nread_in <= ReqLen
        BY <1>2, <1>r, <2>4, Numbers
    <3>2. Asked(t, s[fd], x)
        BY <1>2, <1>u, <2>4, <3>1 DEF Asked
    <3> QED BY <1>2, <1>d, <1>r, <1>u, <2>4, <3>2 DEF Sending
  <2>6. Talks(t, s[fd], x, sock[c].inq, local[c])
    BY <2>5 DEF Talks
  <2>7. Alone(c) /\ Exchange(c)'
    BY <1>2, <1>r, <1>a, <2>2, <2>6
  <2> QED BY <1>o, <1>l, <2>2, <2>3, <2>7, AloneStep
<1>3. CASE Crash \/ ReturnOnly
    BY <1>3, CrashTalks
<1>4. CASE result = "error"
    BY <1>f, <1>e, <1>4 DEF Talks, Resting, Asking, Sending, Invoking, Replying, Asked, Unanswered
<1>5. CASE result = "eof" /\ ClientClosed(fd, c)
  <2>1. Silent(sock[c].inq, local[c])
    BY <1>f, <1>e, <1>5 DEF Talks, Asking, Sending, Invoking, Replying, Asked, Unanswered
  <2> QED BY <1>o, <1>5, <2>1, ClientClosedTalks
<1> QED BY <1>c, <1>1, <1>2, <1>3, <1>4, <1>5

-----------------------------------------------------------------------------
(* accept_tcp_handler *)

LEMMA LinksArrive ==
    ASSUME ClientSockets, ClientsKnown, NEW f \in Fds, sock[f].kind = "free", NEW k \in Clients,
           client[k].st = "backlog", sock'[f].kind = "client", sock'[f].peer = k,
           \A g \in Fds \ {f} : sock'[g] = sock[g],
           client'[k].st = "connected", \A j \in Clients \ {k} : client'[j] = client[j]
    PROVE  ClientSockets' /\ ClientsKnown'
<1>0. \A g \in Fds : sock[g].kind = "client" => sock[g].peer # k
    BY DEF ClientSockets
<1>1. ClientSockets'
  <2> SUFFICES ASSUME NEW g \in Fds, sock'[g].kind = "client"
               PROVE  /\ sock'[g].peer \in Clients /\ client'[sock'[g].peer].st = "connected"
                      /\ \A h \in Fds : sock'[h].kind = "client" /\ sock'[h].peer = sock'[g].peer => h = g
    BY DEF ClientSockets
  <2>1. CASE g = f
    BY <1>0, <2>1
  <2>2. CASE g # f
    <3>1. sock'[g] = sock[g] /\ sock[g].peer # k
        BY <1>0, <2>2
    <3>2. /\ sock[g].peer \in Clients /\ client[sock[g].peer].st = "connected"
          /\ \A h \in Fds : sock[h].kind = "client" /\ sock[h].peer = sock[g].peer => h = g
        BY <3>1 DEF ClientSockets
    <3> QED BY <3>1, <3>2
  <2> QED BY <2>1, <2>2
<1>2. ClientsKnown'
  <2> SUFFICES ASSUME NEW j \in Clients
               PROVE  /\ client'[j].st = "connected" =>
                            \E g \in Fds : sock'[g].kind = "client" /\ sock'[g].peer = j
                      /\ client'[j].st \in {"idle", "backlog"} =>
                            client'[j].reqs = 0 /\ client'[j].sent = 0 /\ client'[j].got = <<>>
    BY DEF ClientsKnown
  <2>1. CASE j = k
    BY <2>1
  <2>2. CASE j # k
    <3>1. client'[j] = client[j] /\ \A g \in Fds : sock[g].kind = "client" => sock'[g] = sock[g]
        BY <2>2
    <3> QED BY <3>1 DEF ClientsKnown
  <2> QED BY <2>1, <2>2
<1> QED BY <1>1, <1>2

LEMMA AcceptTalks ==
    ASSUME WellBehaved, IInv, FInv, accept_tcp_handler
    PROVE  FInv' /\ [Promise!FwdNext]_(Promise!fwdVars)
<1>f. /\ caa \in [Caa -> Objects] /\ sock \in [Fds -> Socks(Tokens)] /\ client \in [Clients -> ClientType]
      /\ el \in AgentLoops /\ caaPool \in Pools(NumCaa, Caa) /\ DOMAIN sock = Fds
    BY DEF IInv, PType
<1>1. CASE ~CanAccept
  <2>1. ReturnOnly
    BY <1>1 DEF accept_tcp_handler
  <2> QED BY <2>1, CrashTalks
<1>2. CASE CanAccept
  <2>f. PICK f \in Fds : f = NewFd(sock) /\ sock[f].kind = "free"
    BY <1>f, <1>2, NewDescriptor DEF CanAccept
  <2>d. PICK c : c = PoolTop(caaPool)
    OBVIOUS
  <2> DEFINE r == [Closed EXCEPT !.fd = f]
  <2>1. PICK k \in Backlog :
          LET s == [sock EXCEPT ![f] = Sock("client", k)]
          IN \/ /\ client' = [client EXCEPT ![k].st = "closed"]
                /\ UNCHANGED <<ownVars, el, sock>>
             \/ Crash
             \/ /\ PoolHasElement(caaPool)
                /\ client' = [client EXCEPT ![k].st = "connected"]
                /\ sock' = s
                /\ caa' = [caa EXCEPT ![c] = r]
                /\ el' = FileEventCreated(el, f, {AE_READABLE}, "read_from_consumer_agent", c)
                /\ UNCHANGED <<apFd, local>>
             \/ CreateErr(f)
    BY <1>2, <2>f, <2>d, Zenon DEF accept_tcp_handler
  <2> DEFINE s == [sock EXCEPT ![f] = Sock("client", k)]
  <2>k. k \in Clients /\ client[k].st = "backlog" /\ client[k] \in ClientType
    BY <1>f DEF Backlog
  <2>s. /\ s[f] = Sock("client", k) /\ s[f].kind = "client" /\ s[f].peer = k
        /\ \A g \in Fds \ {f} : s[g] = sock[g]
    <3>1. Sock("client", k).kind = "client" /\ Sock("client", k).peer = k
        BY <2>k, NewSocket DEF Kinds
    <3> QED BY <1>f, <2>f, <3>1
  <2>g. /\ \A g \in Fds : sock[g].kind = "client" => sock[g].peer # k
        /\ \A d \in Caa : caa[d].fd # f
    <3>1. \A g \in Fds : sock[g].kind = "client" => client[sock[g].peer].st = "connected"
        BY DEF FInv, ClientSockets
    <3>2. \A d \in Caa : caa[d].fd # -1 => sock[caa[d].fd].kind = "client"
        BY Owners
    <3>3. f # -1
        BY Descriptors
    <3> QED BY <2>f, <2>k, <3>1, <3>2, <3>3
  <2>q. \A d \in Caa : caa[d].fd = -1 => Silent(sock[d].inq, local[d])
    <3> SUFFICES ASSUME NEW d \in Caa, caa[d].fd = -1 PROVE Silent(sock[d].inq, local[d])
        OBVIOUS
    <3>1. Exchange(d)
        BY Owners
    <3> QED BY <3>1 DEF Exchange
  <2> HIDE DEF r, s
  <2>2. CASE client' = [client EXCEPT ![k].st = "closed"] /\ UNCHANGED <<ownVars, el, sock>>
    <3>1. client'[k] = [client[k] EXCEPT !.st = "closed"] /\ \A j \in Clients \ {k} : client'[j] = client[j]
        BY <1>f, <2>k, <2>2
    <3>2. UNCHANGED <<caa, apFd, local>> /\ Consistent(el')
        BY <2>2 DEF ownVars, FInv
    <3>3. sock' = sock
        BY <2>2
    <3>4. Gone(f, k)
        BY <2>f, <2>k, <2>g, <2>q, <3>1, <3>2, <3>3 DEF Gone
    <3> QED BY <2>k, <3>2, <3>4, ClientGone
  <2>3. CASE Crash
    BY <2>3, CrashTalks
  <2>4. CASE CreateErr(f)
    BY <2>4, CreateSucceeds
  <2>5. CASE /\ PoolHasElement(caaPool)
             /\ client' = [client EXCEPT ![k].st = "connected"]
             /\ sock' = s
             /\ caa' = [caa EXCEPT ![c] = r]
             /\ el' = FileEventCreated(el, f, {AE_READABLE}, "read_from_consumer_agent", c)
             /\ UNCHANGED <<apFd, local>>
    <3>1. c \in Caa /\ caa[c].fd = -1
      <4>1. PoolHasElement(caaPool)
        BY <2>5
      <4>2. /\ Len(caaPool.alloc_stack) \in Nat \ {0} /\ c \in Caa
            /\ DOMAIN caaPool.alloc_stack = 1 .. Len(caaPool.alloc_stack)
            /\ c = caaPool.alloc_stack[Len(caaPool.alloc_stack)]
        <5>1. Len(caaPool.alloc_stack) \in Nat \ {0} /\ PoolTop(caaPool) \in Caa
            BY <1>f, <4>1, Pulled
        <5>2. DOMAIN caaPool.alloc_stack = 1 .. Len(caaPool.alloc_stack)
            BY <1>f, <4>1, Pulled
        <5> QED BY <2>d, <5>1, <5>2 DEF PoolTop
      <4>3. Len(caaPool.alloc_stack) \in DOMAIN caaPool.alloc_stack
        BY <4>2
      <4>4. apFd[c] # -1
        BY <4>2, Owners
      <4> QED BY <4>2, <4>3, <4>4 DEF IInv, DInv, PooledOnce
    <3>2. caa'[c] = r /\ \A d \in Caa \ {c} : caa'[d] = caa[d]
        BY <1>f, <2>5, <3>1
    <3>3. /\ client'[k].st = "connected" /\ client'[k].reqs = 0 /\ client'[k].sent = 0 /\ client'[k].got = <<>>
          /\ client[k].reqs = 0 /\ client[k].got = <<>> /\ \A j \in Clients \ {k} : client'[j] = client[j]
      <4>1. client[k].reqs = 0 /\ client[k].sent = 0 /\ client[k].got = <<>>
        BY <2>k DEF FInv, ClientsKnown
      <4> QED BY <1>f, <2>k, <2>5, <4>1 DEF ClientType, ClientTypes
    <3>s. /\ sock'[f] = Sock("client", k) /\ sock'[f].kind = "client" /\ sock'[f].peer = k
          /\ \A g \in Fds \ {f} : sock'[g] = sock[g]
        BY <2>s, <2>5
    <3>4. ClientSockets' /\ ClientsKnown'
        BY <2>f, <2>k, <3>3, <3>s, LinksArrive DEF FInv
    <3>5. Consistent(el')
      <4>1. AE_READABLE \in ReadWrite /\ "read_from_consumer_agent" \in Procs /\ c \in Nat /\ Consistent(el)
        BY <3>1, Numbers DEF ReadWrite, Procs, FInv
      <4> QED BY <1>f, <2>5, <4>1, CreatedConsistent
    <3>6. Exchange(c)'
      <4>1. r.fd = f /\ f # -1
        BY Descriptors DEF r, Closed
      <4>2. Resting(r, sock'[f], client'[k])
        <5>1. sock'[f].inq = <<>> /\ sock'[f].st = "open"
            BY <3>s DEF Sock, NoSock
        <5>2. 0 * RespLen = 0 /\ Len(<<>>) = 0
            BY Numbers, EmptySeq
        <5>3. Fresh(r) /\ r.parser = 0
            BY DEF r, Closed, Fresh
        <5> QED BY <3>3, <5>1, <5>2, <5>3 DEF Resting
      <4>3. Silent(sock'[c].inq, local'[c])
        <5>1. sock'[c] = sock[c] /\ local'[c] = local[c]
            BY <2>f, <2>5, <3>1, <3>s, Owners
        <5> QED BY <2>q, <3>1, <5>1
      <4> QED BY <3>2, <3>s, <4>1, <4>2, <4>3 DEF Exchange, Talks
    <3>7. ASSUME NEW d \in Caa PROVE apFd'[d] = d /\ sock'[d].st = "open" /\ (d # c => Exchange(d)')
      <4>1. d \in Fds /\ sock[d].kind = "ap" /\ Exchange(d) /\ apFd[d] = d /\ sock[d].st = "open"
        BY Owners
      <4>2. sock'[d] = sock[d] /\ local'[d] = local[d] /\ apFd'[d] = apFd[d]
        BY <2>f, <2>5, <3>s, <4>1
      <4>3. ASSUME d # c PROVE Exchange(d)'
        <5>1. caa'[d] = caa[d] /\ caa[d].fd # f
            BY <2>g, <3>2, <4>3
        <5>2. caa[d].fd # -1 => caa[d].fd \in Fds /\ sock[caa[d].fd].kind = "client" /\ sock[caa[d].fd].peer \in Clients
            BY Owners
        <5>3. caa[d].fd # -1 => /\ sock'[caa[d].fd] = sock[caa[d].fd]
                                /\ client'[sock[caa[d].fd].peer] = client[sock[caa[d].fd].peer]
            BY <2>g, <3>3, <3>s, <5>1, <5>2
        <5> QED BY <4>1, <4>2, <5>1, <5>3, SameExchange
      <4> QED BY <4>1, <4>2, <4>3
    <3>8. UNCHANGED Promise!fwdVars
      <4>1. \A j \in Clients : SeenSame(client[j], client'[j])
        BY <2>k, <3>3 DEF SeenSame
      <4> QED BY <4>1, StepsUnseen
    <3> QED BY <3>4, <3>5, <3>6, <3>7, <3>8 DEF FInv
  <2> QED BY <2>1, <2>2, <2>3, <2>4, <2>5 DEF s
<1> QED BY <1>1, <1>2

-----------------------------------------------------------------------------
(* write_to_local_provider *)

LEMMA TalksOn ==
    ASSUME WellBehaved, IInv, FInv, NEW c \in Caa, caa[c].fd # -1, Alone(c), Consistent(el'),
           Talks(caa'[c], sock'[caa[c].fd], client'[sock[caa[c].fd].peer], sock'[c].inq, local'[c])
    PROVE  FInv'
<1> DEFINE f == caa[c].fd
<1>1. caa'[c].fd = f /\ f \in Fds /\ sock'[f].peer = sock[f].peer
    BY Owners DEF Alone, SameSockets
<1>2. Exchange(c)'
  <2> HIDE DEF f
  <2>1. Talks(caa'[c], sock'[f], client'[sock'[f].peer], sock'[c].inq, local'[c])
    BY <1>1 DEF f
  <2>2. f # -1
    BY DEF f
  <2> QED BY <1>1, <2>1, <2>2 DEF Exchange
<1> QED BY <1>2, AloneStep

(* What remains of a dubbo request. *)
LEMMA LeftIsRun ==
    ASSUME NEW r, NEW k, NEW q, r.buf_req = <<k, q>>
    PROVE  RequestLeft(r) = Run(k, q, r.nwrite_req, DubboLen)
<1>1. r.buf_req # NoReq
    BY DEF NoReq
<1>2. r.buf_req[1] = k /\ r.buf_req[2] = q
    OBVIOUS
<1> QED BY <1>1, <1>2 DEF RequestLeft, Run

LEMMA WriteLocalTalks ==
    ASSUME WellBehaved, IInv, FInv, NEW c \in Caa, write_to_local_provider(c, c)
    PROVE  FInv' /\ [Promise!FwdNext]_(Promise!fwdVars)
<1> DEFINE r == caa[c]
           f == r.fd
           k == sock[f].peer
           x == client[k]
           rest == RequestLeft(r)
<1>1. CASE r.fd < 0
  <2>1. Ignore(c) /\ c \in Fds
    BY <1>1, Owners DEF write_to_local_provider
  <2> QED BY <2>1, IgnoreTalks
<1>2. CASE ~(r.fd < 0)
  <2>o. /\ c \in Fds /\ sock[c].kind = "ap" /\ sock[c].st = "open" /\ sock[c].peer = c /\ f # -1
        /\ f \in Fds /\ f # c /\ sock[f].kind = "client" /\ k \in Clients
    <3>1. f # -1 /\ sock[c].kind = "ap" /\ c \in Fds
        BY <1>2, Owners
    <3> QED BY <3>1, Owners
  <2>f. /\ r \in Objects /\ caa \in [Caa -> Objects] /\ local \in [Caa -> [inq : Seq(Tokens), out : Seq(Tokens)]]
        /\ sock \in [Fds -> Socks(Tokens)] /\ el \in AgentLoops /\ InRange(el) /\ Consistent(el)
        /\ Talks(r, sock[f], x, sock[c].inq, local[c])
    BY <2>o, ExchangeFacts DEF IInv, PType, FInv
  <2>w. ~WriteFails(c)
    BY <2>o DEF WriteFails
  <2>1. PICK n \in Writes(rest) :
          /\ sock' = AfterWrite(sock, c, n)
          /\ local' = IF sock[c].st = "open"
                      THEN [local EXCEPT ![sock[c].peer].inq = @ \o Prefix(rest, n)] ELSE local
          /\ caa' = [caa EXCEPT ![c].nwrite_req = @ + n]
          /\ el' = IF n = Len(rest) THEN FileEventDeleted(el, c, {AE_WRITABLE}) ELSE el
          /\ UNCHANGED <<caaPool, apFd, client>>
    BY <1>2, <2>w, Zenon DEF write_to_local_provider
  <2>2. sock' = sock
    <3>1. sock' = [sock EXCEPT ![c].st = IF @ = "eof" /\ n > 0 THEN "rst" ELSE @]
        BY <2>1 DEF AfterWrite
    <3> QED BY <2>o, <2>f, <3>1 DEF Socks
  <2>3. Consistent(el')
    <3>1. CASE el' = el
        BY <2>f, <3>1
    <3>2. CASE el' = FileEventDeleted(el, c, {AE_WRITABLE})
      <4>1. {AE_WRITABLE} \in SUBSET ReadWrite
        BY DEF ReadWrite
      <4> QED BY <2>o, <2>f, <3>2, <4>1, DeletedConsistent
    <3> QED BY <2>1, <3>1, <3>2
  <2> DEFINE all == local[c].inq \o Prefix(rest, n)
             w == r.nwrite_req + n
             y == [r EXCEPT !.nwrite_req = w]
  <2>4. local' = [local EXCEPT ![c].inq = all] /\ caa' = [caa EXCEPT ![c] = y]
    BY <2>o, <2>1
  <2>u. UNCHANGED Promise!fwdVars
    BY <2>1, StepsUnseen DEF SeenSame
  <2>5. CASE rest = <<>>
    <3>1. n = 0 /\ Prefix(<<>>, 0) = <<>>
      <4>1. n = 0
        BY <2>1, <2>5 DEF Writes
      <4>2. <<>> \in Seq(Tokens)
        BY EmptySeq
      <4> QED BY <4>1, <4>2, NothingRemains DEF AllWritten
    <3>2. all = local[c].inq
        BY <2>f, <2>5, <3>1
    <3>3. w = r.nwrite_req
      <4>1. r.nwrite_req \in Nat
        BY <2>f, Numbers DEF Objects
      <4> QED BY <3>1, <4>1
    <3> HIDE DEF all, w, rest
    <3>4. local' = local /\ caa' = caa
        BY <2>f, <2>4, <3>2, <3>3 DEF Objects
    <3>5. UNCHANGED <<ownVars, sock, client>>
        BY <2>1, <2>2, <3>4 DEF ownVars
    <3> QED BY <2>3, <2>u, <3>5, NothingTalks
  <2>6. CASE rest # <<>>
    <3>1. Sending(r, sock[f], x, sock[c].inq, local[c])
      <4>1. ~Fresh(r)
        BY <2>6 DEF Fresh, RequestLeft
      <4> QED BY <2>f, <2>6, <4>1 DEF Talks, Resting, Asking, Invoking, Replying
    <3> DEFINE q == x.reqs
    <3>2. r.buf_req = <<k, q>> /\ r.nwrite_req = 0 /\ Asked(r, sock[f], x) /\ r.buf_resp = <<>>
          /\ sock[c].inq = <<>> /\ local[c].inq = <<>> /\ local[c].out = <<>>
        BY <3>1 DEF Sending, Silent
    <3>3. rest = Run(k, q, 0, DubboLen) /\ n = Len(rest)
      <4>1. rest = Run(k, q, 0, DubboLen)
        BY <3>2, LeftIsRun
      <4> HIDE DEF rest
      <4> QED BY <2>1, <2>6, <4>1, WellBehavedIs DEF Writes
    <3>4. n = DubboLen /\ Prefix(rest, n) = rest /\ all = Run(k, q, 0, DubboLen)
      <4> HIDE DEF k, q
      <4>0. 0 \in Nat /\ DubboLen \in Nat /\ 0 <= DubboLen
        BY Numbers
      <4>1. RunStarts(k, q, DubboLen, DubboLen) /\ RunStarts(k, q, 0, DubboLen)
        BY <4>0, RunStart
      <4> QED BY <3>2, <3>3, <4>1 DEF RunStarts
    <3>5. w = DubboLen
        BY <3>2, <3>4, Numbers
    <3> HIDE DEF all, w, rest, q
    <3>6. /\ y.fd = f /\ y.buf_req = <<k, q>> /\ y.nwrite_req = DubboLen /\ y.buf_resp = <<>>
          /\ y.nread_in = r.nread_in
        BY <2>f, <3>2, <3>5 DEF Objects
    <3>7. RequestLeft(y) = <<>>
      <4>1. RequestLeft(y) = Run(k, q, y.nwrite_req, DubboLen)
        BY <3>6, LeftIsRun
      <4>2. Run(k, q, DubboLen, DubboLen) = <<>>
        BY EmptyRun, Numbers
      <4> QED BY <3>6, <4>1, <4>2
    <3>8. local'[c].inq = Run(k, q, 0, DubboLen) /\ local'[c].out = <<>> /\ \A d \in Caa \ {c} : local'[d] = local[d]
        BY <2>f, <2>4, <3>2, <3>4
    <3> HIDE DEF y
    <3>9. caa'[c] = y /\ \A d \in Caa \ {c} : caa'[d] = caa[d]
        BY <2>f, <2>4
    <3>10. Alone(c)
      <4>1. SameSockets(sock, sock') /\ UNCHANGED <<sock, client, apFd>>
        BY <2>1, <2>2 DEF SameSockets
      <4> QED BY <3>6, <3>8, <3>9, <4>1 DEF Alone
    <3>11. Invoking(y, sock[f], x, sock[c].inq, local'[c])
        BY <3>2, <3>6, <3>7, <3>8 DEF Invoking, Asked, q
    <3>12. Talks(caa'[c], sock'[f], client'[k], sock'[c].inq, local'[c])
        BY <2>1, <2>2, <3>9, <3>11 DEF Talks
    <3> QED BY <2>o, <2>3, <2>u, <3>10, <3>12, TalksOn
  <2> QED BY <2>5, <2>6
<1> QED BY <1>1, <1>2

-----------------------------------------------------------------------------
(* read_from_local_provider *)

(* What a read from the local provider takes. *)
Hears(r, s, aq, out, k, q, n, m) ==
    /\ n \in Nat /\ m \in n .. RespLen /\ r.buf_resp = Run(k, q, 0, n)
    /\ aq = Run(k, q, n, m) /\ out = Run(k, q, m, RespLen)

HeardUpTo(r, t, a, space, k, q, m) ==
    /\ space \in Nat \ {0} /\ r.buf_resp \o Received(sock[a], space) = Run(k, q, 0, m)
    /\ t[a].inq = <<>> /\ t[a].st = sock[a].st /\ \A g \in Fds \ {a} : t[g] = sock[g]

LEMMA ReplyGrows ==
    ASSUME WellBehaved, IInv, NEW c \in Caa, NEW a \in Fds, NEW k, NEW q, NEW n, NEW m,
           Hears(caa[c], sock[a], sock[a].inq, local[c].out, k, q, n, m),
           NEW space, space = BufResp - Len(caa[c].buf_resp), NEW t, t = AfterRead(sock, a, space)
    PROVE  HeardUpTo(caa[c], t, a, space, k, q, m)
<1>h. /\ n \in Nat /\ m \in n .. RespLen /\ caa[c].buf_resp = Run(k, q, 0, n)
      /\ sock[a].inq = Run(k, q, n, m)
    BY DEF Hears
<1>n. n \in Nat /\ m \in Nat /\ n <= m /\ m <= RespLen /\ RespLen \in Nat /\ BufResp \in Nat /\ RespLen < BufResp
    BY <1>h, Numbers, WellBehavedIs
<1>1. RunStarts(k, q, n, m)
    BY <1>n, RunStart
<1>2. Len(caa[c].buf_resp) = n
    BY <1>h, <1>1 DEF RunStarts
<1>3. space \in Nat \ {0} /\ m - n <= space
    BY <1>n, <1>2
<1>4. PICK mid \in n .. m : ReadUpTo(sock, t, a, space, k, q, n, mid, m)
  <2>1. sock \in [Fds -> Socks(Tokens)] /\ space \in Nat
    BY <1>3 DEF IInv, PType
  <2> QED BY <1>h, <1>n, <2>1, RunRead
<1>5. mid = m
    BY <1>3, <1>4 DEF ReadUpTo
<1>6. Received(sock[a], space) = Run(k, q, n, m) /\ t[a].inq = Run(k, q, m, m)
      /\ t[a].st = sock[a].st /\ \A g \in Fds \ {a} : t[g] = sock[g]
    BY <1>4, <1>5 DEF ReadUpTo
<1> QED BY <1>h, <1>1, <1>3, <1>6 DEF RunStarts, HeardUpTo

LEMMA ReadLocalTalks ==
    ASSUME WellBehaved, IInv, FInv, NEW c \in Caa, read_from_local_provider(c, c)
    PROVE  FInv' /\ [Promise!FwdNext]_(Promise!fwdVars)
<1> DEFINE r == caa[c]
           f == r.fd
           k == sock[f].peer
           x == client[k]
           q == x.reqs
           space == ResponseSpace(r)
           result == ReadResult(sock[c], space)
           all == r.buf_resp \o Received(sock[c], space)
           y == [r EXCEPT !.buf_resp = all]
           s == AfterRead(sock, c, space)
<1>1. CASE r.fd < 0
  <2>1. Ignore(c) /\ c \in Fds
    BY <1>1, Owners DEF read_from_local_provider
  <2> QED BY <2>1, IgnoreTalks
<1>2. CASE ~(r.fd < 0)
  <2>o. /\ c \in Fds /\ sock[c].kind = "ap" /\ sock[c].st = "open" /\ f # -1
        /\ f \in Fds /\ f # c /\ sock[f].kind = "client" /\ k \in Clients
    <3>1. f # -1 /\ sock[c].kind = "ap" /\ c \in Fds
        BY <1>2, Owners
    <3> QED BY <3>1, Owners
  <2>f. /\ r \in Objects /\ caa \in [Caa -> Objects] /\ sock \in [Fds -> Socks(Tokens)]
        /\ el \in AgentLoops /\ Consistent(el) /\ sock[c].st \in {"open", "eof", "rst"}
        /\ Talks(r, sock[f], x, sock[c].inq, local[c])
    <3>1. sock[c].st \in {"open", "eof", "rst"}
        BY <2>o
    <3> QED BY <2>o, <3>1, ExchangeFacts DEF IInv, PType, FInv
  <2>c. \/ /\ result = "data"
           /\ caa' = [caa EXCEPT ![c] = y] /\ sock' = s
           /\ \/ el' = FileEventCreated(el, f, {AE_WRITABLE}, "write_to_consumer_agent", c)
              \/ el' = el
           /\ UNCHANGED <<apFd, local, client>>
        \/ ReturnOnly
        \/ result \in {"error", "eof"}
    <3>1. ~CreateErr(f) /\ y.fd = f
        BY <2>o, <2>f, CreateSucceeds DEF Objects
    <3> HIDE DEF y, s, result
    <3> QED BY <1>2, <3>1 DEF read_from_local_provider, y, s, result
  <2>g. sock[c].inq # <<>> =>
            Replying(r, sock[f], x, sock[c].inq, local[c])
    BY <2>f DEF Talks, Silent, Sending, Invoking
  <2>s. space \in Nat \ {0}
    <3>1. CASE Replying(r, sock[f], x, sock[c].inq, local[c])
      <4>1. PICK n, m : Hears(r, sock[c], sock[c].inq, local[c].out, k, q, n, m)
        <5>1. Len(r.buf_resp) \in Nat
            BY <2>f, LenProperties DEF Objects
        <5> QED BY <3>1, <5>1 DEF Replying, Hears
      <4>2. space = BufResp - Len(caa[c].buf_resp)
        BY DEF ResponseSpace
      <4>3. s = AfterRead(sock, c, space)
        OBVIOUS
      <4> HIDE DEF space, q, k, s
      <4>4. HeardUpTo(caa[c], s, c, space, k, q, m)
        BY <2>o, <4>1, <4>2, <4>3, ReplyGrows
      <4> QED BY <4>4 DEF HeardUpTo
    <3>2. CASE r.buf_resp = <<>>
        BY <3>2, EmptySeq, Numbers DEF ResponseSpace
    <3> QED BY <2>f, <3>1, <3>2 DEF Talks, Resting, Asking, Fresh, Sending, Invoking
  <2>e. /\ result = "data" => sock[c].inq # <<>>
        /\ result = "eof" => sock[c].st = "eof"
        /\ result = "error" => sock[c].st = "rst"
    <3> HIDE DEF space
    <3> QED BY <2>f, <2>s, ReadEnds
  <2> HIDE DEF result
  <2>1. CASE ReturnOnly
    BY <2>1, CrashTalks
  <2>2. CASE result \in {"error", "eof"}
    BY <2>o, <2>e, <2>2
  <2>3. CASE /\ result = "data"
             /\ caa' = [caa EXCEPT ![c] = y] /\ sock' = s
             /\ \/ el' = FileEventCreated(el, f, {AE_WRITABLE}, "write_to_consumer_agent", c)
                \/ el' = el
             /\ UNCHANGED <<apFd, local, client>>
    <3>1. Replying(r, sock[f], x, sock[c].inq, local[c])
        BY <2>3, <2>e, <2>g
    <3>2. PICK n, m : Hears(r, sock[c], sock[c].inq, local[c].out, k, q, n, m)
      <4>1. Len(r.buf_resp) \in Nat
        BY <2>f, LenProperties DEF Objects
      <4> QED BY <3>1, <4>1 DEF Replying, Hears
    <3>3. /\ all = Run(k, q, 0, m) /\ s[c].inq = <<>> /\ s[c].st = sock[c].st
          /\ \A g \in Fds \ {c} : s[g] = sock[g]
      <4>1. space = BufResp - Len(caa[c].buf_resp)
        BY DEF ResponseSpace
      <4>2. s = AfterRead(sock, c, space)
        OBVIOUS
      <4> HIDE DEF space, q, k, s
      <4>3. HeardUpTo(caa[c], s, c, space, k, q, m)
        BY <2>o, <3>2, <4>1, <4>2, ReplyGrows
      <4> QED BY <4>3 DEF HeardUpTo
    <3>4. SameSockets(sock, s)
        BY <2>o, <2>f, <2>s, ReadTakes
    <3> HIDE DEF all, s
    <3>5. /\ y.fd = f /\ y.buf_resp = all /\ y.buf_req = r.buf_req /\ y.nwrite_req = r.nwrite_req
          /\ y.nread_in = r.nread_in
        BY <2>f DEF Objects
    <3> HIDE DEF y
    <3>6. caa'[c] = y /\ \A d \in Caa \ {c} : caa'[d] = caa[d]
        BY <2>f, <2>3
    <3>7. Alone(c)
        BY <2>o, <2>3, <3>3, <3>4, <3>5, <3>6 DEF Alone
    <3>8. Consistent(el')
      <4>1. CASE el' = el
        BY <2>f, <4>1
      <4>2. CASE el' = FileEventCreated(el, f, {AE_WRITABLE}, "write_to_consumer_agent", c)
        <5>1. AE_WRITABLE \in ReadWrite /\ "write_to_consumer_agent" \in Procs /\ c \in Nat
            BY Numbers DEF ReadWrite, Procs
        <5> HIDE DEF f
        <5> QED BY <2>o, <2>f, <4>2, <5>1, CreatedConsistent
      <4> QED BY <2>3, <4>1, <4>2
    <3>9. Replying(y, sock[f], x, <<>>, local[c])
      <4> HIDE DEF q, k
      <4>1. /\ m \in Nat /\ m <= RespLen /\ RespLen \in Nat /\ local[c].out = Run(k, q, m, RespLen)
        BY <3>2, Numbers DEF Hears
      <4>2. Len(Run(k, q, 0, m)) = m /\ Run(k, q, m, m) = <<>>
        BY <4>1, RunStart DEF RunStarts
      <4>3. Len(y.buf_resp) = m /\ y.buf_resp = Run(k, q, 0, m)
        BY <3>3, <3>5, <4>2
      <4>4. Asked(y, sock[f], x) /\ RequestLeft(y) = <<>> /\ local[c].inq = <<>>
        BY <3>1, <3>5 DEF Replying, Asked, RequestLeft
      <4>5. m \in m .. RespLen
        BY <4>1
      <4> QED BY <4>1, <4>2, <4>3, <4>4, <4>5 DEF Replying, q, k
    <3>10. Talks(caa'[c], sock'[f], client'[k], sock'[c].inq, local'[c])
      <4>1. sock'[f] = sock[f] /\ sock'[c].inq = <<>> /\ client'[k] = x /\ local'[c] = local[c]
        BY <2>o, <2>3, <3>3
      <4> HIDE DEF x
      <4> QED BY <3>6, <3>9, <4>1 DEF Talks
    <3>11. UNCHANGED Promise!fwdVars
        BY <2>3, StepsUnseen DEF SeenSame
    <3> QED BY <2>o, <3>7, <3>8, <3>10, <3>11, TalksOn
  <2> QED BY <2>c, <2>1, <2>2, <2>3
<1> QED BY <1>1, <1>2

-----------------------------------------------------------------------------
(* write_to_consumer_agent *)

(* The answer that is written is that to the request. *)
LEMMA AnswerIsWhole ==
    ASSUME NEW r, NEW k, NEW q, r.buf_resp = Run(k, q, 0, RespLen), NEW m \in Writes(HttpResponse(r)),
           "shortwrite" \notin Faults
    PROVE  HttpResponse(r) = Run(k, q, 0, RespLen) /\ m = RespLen /\ Len(HttpResponse(r)) = RespLen
           /\ Prefix(HttpResponse(r), m) = Run(k, q, 0, RespLen)
<1>n. RespLen \in Nat \ {0} /\ RespLen <= RespLen /\ 0 \in Nat /\ 0 <= RespLen
    BY Numbers
<1>1. RunStarts(k, q, RespLen, RespLen)
    BY <1>n, RunStart
<1>2. Run(k, q, 0, RespLen) # <<>>
    BY <1>n, EmptyRun
<1>3. HttpResponse(r) = Run(k, q, 0, RespLen)
    BY <1>1 DEF HttpResponse, RunStarts
<1>4. m = Len(HttpResponse(r))
    BY <1>2, <1>3 DEF Writes
<1> QED BY <1>1, <1>3, <1>4 DEF RunStarts

LEMMA WriteClientTalks ==
    ASSUME WellBehaved, IInv, FInv, NEW fd \in Fds, NEW c \in Caa, ClientEvent(el, sock, fd, c),
           AE_WRITABLE \in el.events[fd].mask, write_to_consumer_agent(fd, c)
    PROVE  FInv' /\ [Promise!FwdNext]_(Promise!fwdVars)
<1> DEFINE r == caa[c]
           k == sock[fd].peer
           x == client[k]
           q == x.reqs
           y == ResponseDone(r)
<1>o. r.fd = fd /\ fd # -1 /\ ~(r.fd < 0) /\ sock[fd].kind = "client"
  <2>1. sock[fd].kind = "client" /\ el.events[fd].clientData = c
    BY DEF ClientEvent
  <2>2. r.fd = fd /\ fd # -1 /\ fd \in Nat
    BY <2>1, Owners, Descriptors
  <2> QED BY <2>1, <2>2
<1>f. /\ Talks(r, sock[fd], x, sock[c].inq, local[c]) /\ r \in Objects /\ caa \in [Caa -> Objects]
      /\ sock \in [Fds -> Socks(Tokens)] /\ client \in [Clients -> ClientType] /\ k \in Clients /\ x \in ClientType
      /\ q \in Nat /\ x.got \in Seq(Tokens) /\ x.st = "connected"
      /\ el \in AgentLoops /\ InRange(el) /\ Consistent(el) /\ c \in Fds /\ c # fd
  <2>1. x.reqs \in 0 .. Requests /\ Requests \in Nat
    <3>1. x.reqs \in 0 .. Requests
        BY <1>o, ExchangeFacts
    <3> QED BY <3>1, Numbers
  <2>2. x.st = "connected" /\ c \in Fds /\ c # fd
    BY <1>o, Owners
  <2>3. /\ Talks(r, sock[fd], x, sock[c].inq, local[c]) /\ r \in Objects /\ caa \in [Caa -> Objects]
        /\ sock \in [Fds -> Socks(Tokens)] /\ client \in [Clients -> ClientType] /\ k \in Clients /\ x \in ClientType
        /\ x.got \in Seq(Tokens)
    BY <1>o, ExchangeFacts
  <2>4. el \in AgentLoops /\ InRange(el) /\ Consistent(el)
    BY DEF IInv, PType, FInv
  <2> QED BY <2>1, <2>2, <2>3, <2>4
<1>r. Len(r.buf_resp) >= RespLen
    BY <1>o DEF IInv, DInv, Whole
<1>1. /\ Asked(r, sock[fd], x) /\ r.buf_resp = Run(k, q, 0, RespLen) /\ Silent(sock[c].inq, local[c])
  <2>0. RespLen \in Nat \ {0} /\ Len(<<>>) = 0
    BY Numbers, EmptySeq
  <2>1. Replying(r, sock[fd], x, sock[c].inq, local[c])
    BY <1>f, <1>r, <2>0 DEF Talks, Resting, Asking, Fresh, Sending, Invoking
  <2> DEFINE n == Len(r.buf_resp)
  <2> HIDE DEF k, q
  <2>2. /\ Asked(r, sock[fd], x) /\ local[c].inq = <<>> /\ r.buf_resp = Run(k, q, 0, n)
        /\ \E m \in n .. RespLen : sock[c].inq = Run(k, q, n, m) /\ local[c].out = Run(k, q, m, RespLen)
    BY <2>1 DEF Replying, k, q
  <2>3. n = RespLen /\ \A m \in n .. RespLen : m = RespLen
    BY <1>f, <1>r, <2>0, <2>2, LenProperties DEF Objects
  <2>4. Run(k, q, RespLen, RespLen) = <<>>
    BY <2>0, EmptyRun
  <2> QED BY <2>2, <2>3, <2>4 DEF Silent
<1>n. sock[fd].st = "open" /\ q >= 1 /\ Len(x.got) = (q - 1) * RespLen + 0 /\ sock[fd].inq = <<>> /\ x.sent = 0
    BY <1>1 DEF Asked, Unanswered
<1>w. ~WriteFails(fd)
    BY <1>n DEF WriteFails
<1> HIDE DEF k, q
<1>2. PICK m \in Writes(HttpResponse(r)) :
        /\ sock' = AfterWrite(sock, fd, m)
        /\ client' = DeliverToClient(fd, Prefix(HttpResponse(r), m))
        /\ IF m = Len(HttpResponse(r))
           THEN /\ el' = FileEventDeleted(el, fd, {AE_WRITABLE})
                /\ caa' = [caa EXCEPT ![c] = ResponseDone(@)]
           ELSE UNCHANGED <<el, caa>>
        /\ UNCHANGED <<caaPool, apFd, local>>
    BY <1>o, <1>w, Zenon DEF write_to_consumer_agent
<1>3. m = Len(HttpResponse(r)) /\ Prefix(HttpResponse(r), m) = Run(k, q, 0, RespLen)
    BY <1>1, AnswerIsWhole, WellBehavedIs
<1>4. sock' = sock
  <2>1. sock' = [sock EXCEPT ![fd].st = IF @ = "eof" /\ m > 0 THEN "rst" ELSE @]
    BY <1>2 DEF AfterWrite
  <2> QED BY <1>n, <1>f, <2>1 DEF Socks
<1>5. caa' = [caa EXCEPT ![c] = y] /\ el' = FileEventDeleted(el, fd, {AE_WRITABLE}) /\ UNCHANGED <<apFd, local>>
    BY <1>2, <1>3
<1>6. /\ client'[k].got = x.got \o Run(k, q, 0, RespLen) /\ client'[k].reqs = q /\ client'[k].st = x.st
      /\ client'[k].sent = x.sent /\ \A j \in Clients \ {k} : client'[j] = client[j]
  <2> DEFINE new == x.got \o Run(k, q, 0, RespLen)
  <2>1. client' = [client EXCEPT ![k].got = new]
    BY <1>o, <1>n, <1>2, <1>3 DEF DeliverToClient, k
  <2> HIDE DEF new
  <2>2. /\ client'[k].got = new /\ client'[k].reqs = x.reqs /\ client'[k].st = x.st
        /\ client'[k].sent = x.sent /\ \A j \in Clients \ {k} : client'[j] = client[j]
    BY <1>f, <2>1 DEF ClientType, ClientTypes
  <2> QED BY <2>2 DEF new, q
<1>7. Promise!FwdNext /\ Len(client'[k].got) = (q - 1) * RespLen + RespLen
  <2>1. x.st # "left" /\ client'[k].st # "left"
    BY <1>f, <1>6
  <2>2. q \in Nat \ {0} /\ q = client[k].reqs
    BY <1>f, <1>n DEF q
  <2>3. \A j \in Clients \ {k} : SeenSame(client[j], client'[j])
    BY <1>6 DEF SeenSame
  <2> DEFINE lo == 0
             hi == RespLen
  <2>4. /\ lo \in Nat /\ hi \in Nat /\ lo < hi /\ hi <= RespLen /\ Len(x.got) = (q - 1) * RespLen + lo
        /\ client'[k].got = x.got \o Run(k, q, lo, hi)
    BY <1>n, <1>6, Numbers
  <2> HIDE DEF lo, hi
  <2>5. Promise!FwdNext /\ Len(client'[k].got) = (q - 1) * RespLen + hi
    BY <1>f, <1>6, <2>1, <2>2, <2>3, <2>4, StepAnswers
  <2> QED BY <2>5 DEF hi
<1>8. Consistent(el')
  <2>1. {AE_WRITABLE} \in SUBSET ReadWrite
    BY DEF ReadWrite
  <2> QED BY <1>f, <1>5, <2>1, DeletedConsistent
<1>9. y.fd = fd /\ Fresh(y) /\ y.parser = 0
  <2>1. y = [Closed EXCEPT !.fd = fd]
    BY <1>o DEF ResponseDone
  <2> QED BY <2>1 DEF Closed, Fresh
<1> HIDE DEF y
<1>10. caa'[c] = y /\ \A d \in Caa \ {c} : caa'[d] = caa[d]
    BY <1>f, <1>5
<1>11. Resting(y, sock[fd], client'[k])
  <2>1. (q - 1) * RespLen + RespLen = q * RespLen
    BY <1>f, <1>n, Numbers DEF q
  <2> QED BY <1>n, <1>6, <1>7, <1>9, <2>1 DEF Resting
<1>12. Alone(c)
  <2>1. SameSockets(sock, sock')
    BY <1>4 DEF SameSockets
  <2> QED BY <1>o, <1>4, <1>5, <1>6, <1>9, <1>10, <2>1 DEF Alone, k
<1>13. Talks(caa'[c], sock'[caa[c].fd], client'[sock[caa[c].fd].peer], sock'[c].inq, local'[c])
  <2>1. local'[c] = local[c] /\ sock'[c] = sock[c] /\ sock'[fd] = sock[fd]
    BY <1>4, <1>5
  <2>2. Talks(y, sock[fd], client'[k], sock[c].inq, local[c])
    BY <1>1, <1>11 DEF Talks
  <2> QED BY <1>o, <1>10, <2>1, <2>2 DEF k
<1>14. FInv'
    BY <1>o, <1>8, <1>12, <1>13, TalksOn
<1> QED BY <1>7, <1>14

-----------------------------------------------------------------------------
(* The clients *)

LEMMA ClientSocket ==
    ASSUME WellBehaved, IInv, FInv, NEW k \in Clients, client[k].st = "connected"
    PROVE  \E fd \in Fds, c \in Caa : /\ SocketOf("client", k) = fd /\ sock[fd].kind = "client"
                                      /\ sock[fd].peer = k /\ caa[c].fd = fd /\ fd # -1
<1>1. PICK fd \in Fds : sock[fd].kind = "client" /\ sock[fd].peer = k
    BY DEF FInv, ClientsKnown
<1>2. \A g \in Fds : sock[g].kind = "client" /\ sock[g].peer = k => g = fd
    BY <1>1 DEF FInv, ClientSockets
<1>3. SocketOf("client", k) = fd
    BY <1>1, <1>2 DEF SocketOf
<1>4. el.events[fd].clientData \in Caa /\ caa[el.events[fd].clientData].fd = fd /\ fd # -1
    BY <1>1, Owners, Descriptors
<1> QED BY <1>1, <1>3, <1>4

(* Nothing moves but the socket of one object's client and the client. *)
LEMMA ClientMoves ==
    ASSUME WellBehaved, IInv, FInv, NEW c \in Caa, NEW fd \in Fds, caa[c].fd = fd, fd # -1,
           NEW k \in Clients, sock[fd].peer = k, \A g \in Fds \ {fd} : sock'[g] = sock[g], SameSockets(sock, sock'),
           \A j \in Clients \ {k} : client'[j] = client[j], client'[k].st = client[k].st,
           UNCHANGED <<el, ownVars>>, Talks(caa[c], sock'[fd], client'[k], sock[c].inq, local[c])
    PROVE  FInv'
<1>u. UNCHANGED <<caa, local, apFd>>
    BY DEF ownVars
<1>1. c \in Fds /\ c # fd
    BY Owners
<1>2. sock'[c] = sock[c]
    BY <1>1
<1>3. Alone(c)
    BY <1>u, <1>2 DEF Alone
<1>4. Consistent(el')
    BY DEF FInv
<1>5. Talks(caa'[c], sock'[caa[c].fd], client'[sock[caa[c].fd].peer], sock'[c].inq, local'[c])
    BY <1>u, <1>2
<1> QED BY <1>3, <1>4, <1>5, TalksOn

LEMMA ConnectTalks ==
    ASSUME WellBehaved, IInv, FInv, Connect, UNCHANGED ownVars
    PROVE  FInv' /\ [Promise!FwdNext]_(Promise!fwdVars)
<1>1. PICK k \in Clients : client[k].st = "idle" /\ client' = [client EXCEPT ![k].st = "backlog"]
    BY DEF Connect
<1>u. UNCHANGED <<el, sock, caa, apFd, local>>
    BY DEF Connect, ownVars
<1>2. /\ client'[k].st = "backlog" /\ client'[k].reqs = client[k].reqs /\ client'[k].sent = client[k].sent
      /\ client'[k].got = client[k].got /\ \A j \in Clients \ {k} : client'[j] = client[j]
  <2>1. client \in [Clients -> ClientType]
    BY DEF IInv, PType
  <2> QED BY <1>1, <2>1 DEF ClientType, ClientTypes
<1>3. \A g \in Fds : sock[g].kind = "client" => sock[g].peer \in Clients /\ sock[g].peer # k
    BY <1>1 DEF FInv, ClientSockets
<1>4. ClientSockets'
    BY <1>u, <1>2, <1>3 DEF FInv, ClientSockets
<1>5. ClientsKnown'
    BY <1>u, <1>1, <1>2 DEF FInv, ClientsKnown
<1>6. Consistent(el') /\ \A c \in Caa : apFd'[c] = c /\ sock'[c].st = "open"
    BY <1>u DEF FInv
<1>7. ASSUME NEW c \in Caa PROVE Exchange(c)'
  <2>1. /\ Exchange(c)
        /\ caa[c].fd # -1 => client'[sock[caa[c].fd].peer] = client[sock[caa[c].fd].peer]
    BY <1>2, <1>3, Owners
  <2> QED BY <1>u, <2>1, SameExchange
<1>8. UNCHANGED Promise!fwdVars
  <2>1. \A j \in Clients : SeenSame(client[j], client'[j])
    BY <1>1, <1>2 DEF SeenSame
  <2> QED BY <2>1, StepsUnseen
<1> QED BY <1>4, <1>5, <1>6, <1>7, <1>8 DEF FInv

(* A client leaves, or asks again, only after its last answer. *)
LEMMA AnsweredRests ==
    ASSUME NEW r, NEW s, NEW x, NEW aq, NEW p, Talks(r, s, x, aq, p),
           x.reqs \in Nat, Len(x.got) \in Nat, Len(x.got) >= x.reqs * RespLen
    PROVE  Resting(r, s, x) /\ Silent(aq, p)
<1>n. RespLen \in Nat \ {0}
    BY Numbers
<1>1. ~Unanswered(s, x, 0)
  <2> SUFFICES ASSUME Unanswered(s, x, 0) PROVE FALSE
    OBVIOUS
  <2>1. Len(x.got) = (x.reqs - 1) * RespLen + 0 /\ x.reqs >= 1
    BY DEF Unanswered
  <2>2. (x.reqs - 1) * RespLen + RespLen = x.reqs * RespLen /\ (x.reqs - 1) * RespLen \in Nat
    BY <1>n, <2>1
  <2> QED BY <1>n, <2>1, <2>2
<1> QED BY <1>1 DEF Talks, Asking, Sending, Invoking, Replying, Asked

LEMMA DisconnectTalks ==
    ASSUME WellBehaved, IInv, FInv, NEW k \in Clients, Disconnect(k), UNCHANGED ownVars
    PROVE  FInv' /\ [Promise!FwdNext]_(Promise!fwdVars)
<1>1. client[k].st = "connected" /\ Answered(k) /\ client[k].sent = 0 /\ ClientLeaves(k, "eof")
    BY WellBehavedIs DEF Disconnect, Connected
<1>2. PICK fd \in Fds, c \in Caa : /\ SocketOf("client", k) = fd /\ sock[fd].kind = "client"
                                   /\ sock[fd].peer = k /\ caa[c].fd = fd /\ fd # -1
    BY <1>1, ClientSocket
<1>3. sock' = [sock EXCEPT ![fd].st = "eof"] /\ UNCHANGED <<el, client>>
    BY <1>1, <1>2 DEF ClientLeaves
<1>f. sock \in [Fds -> Socks(Tokens)]
    BY DEF IInv, PType
<1>4. /\ SameSockets(sock, sock') /\ sock'[fd].inq = sock[fd].inq /\ sock'[fd].st = "eof"
      /\ \A g \in Fds \ {fd} : sock'[g] = sock[g]
  <2>1. SameSockets(sock, sock')
    BY <1>f, <1>3, Turns
  <2> QED BY <1>f, <1>3, <2>1 DEF Socks
<1>5. Resting(caa[c], sock[fd], client[k]) /\ Silent(sock[c].inq, local[c])
  <2>1. /\ client[k].reqs \in Nat /\ Len(client[k].got) \in Nat /\ Len(client[k].got) >= client[k].reqs * RespLen
    <3>1. client[k].reqs \in 0 .. Requests /\ Len(client[k].got) \in Nat
        BY <1>2, ExchangeFacts
    <3>2. Len(client[k].got) >= client[k].reqs * RespLen
        BY <1>1 DEF Answered
    <3> QED BY <3>1, <3>2, Numbers
  <2>2. Talks(caa[c], sock[fd], client[k], sock[c].inq, local[c])
    BY <1>2, ExchangeFacts
  <2> QED BY <2>1, <2>2, AnsweredRests
<1>6. Talks(caa[c], sock'[fd], client'[k], sock[c].inq, local[c])
    BY <1>3, <1>4, <1>5 DEF Talks, Resting
<1>7. FInv'
    BY <1>2, <1>3, <1>4, <1>6, ClientMoves
<1>8. UNCHANGED Promise!fwdVars
    BY <1>3, StepsUnseen DEF SeenSame
<1> QED BY <1>7, <1>8

(* A client sends more of its request, or begins the next one. *)
LEMMA SendMore ==
    ASSUME NEW r, NEW s, NEW x, NEW aq, NEW p, Talks(r, s, x, aq, p),
           NEW t, NEW y, NEW k, s.peer = k, NEW n \in Nat, SendsOn(s, x, t, y, k, n), y.reqs = x.reqs,
           x.sent \in Nat, x.sent > 0, x.sent < n, y.sent <= HeadLen
    PROVE  Talks(r, t, y, aq, p)
<1> DEFINE q == x.reqs
           lo == x.sent
           b == r.parser
<1>s. Sent(x) = lo
    BY DEF Sent
<1>t. /\ t.st = s.st /\ t.peer = k /\ y.got = x.got /\ Sent(y) = n /\ t.inq = s.inq \o Run(k, q, lo, n)
    BY DEF SendsOn
<1>o. Asking(r, s, x) /\ Silent(aq, p)
    BY DEF Talks, Resting, Sending, Invoking, Replying, Asked
<1>1. /\ Fresh(r) /\ b \in 0 .. HeadLen /\ b <= lo /\ Unanswered(s, x, 0) /\ s.inq = Run(k, q, b, lo)
    BY <1>s, <1>o DEF Asking
<1>2. b \in Nat /\ b <= n /\ lo <= n
    BY <1>1
<1>3. RunCut(k, q, b, lo, n)
  <2>1. lo \in Nat
    OBVIOUS
  <2> HIDE DEF lo, q, b
  <2> QED BY <1>1, <1>2, <2>1, RunParts
<1>4. t.inq = Run(k, q, b, n)
  <2> HIDE DEF lo, q, b
  <2> QED BY <1>t, <1>1, <1>3 DEF RunCut
<1>5. Unanswered(t, y, 0)
    BY <1>t, <1>1 DEF Unanswered
<1>6. Asking(r, t, y)
    BY <1>t, <1>1, <1>2, <1>4, <1>5 DEF Asking
<1> QED BY <1>o, <1>6 DEF Talks

LEMMA SendFirst ==
    ASSUME NEW r, NEW s, NEW x, NEW aq, NEW p, Resting(r, s, x), Silent(aq, p),
           NEW t, NEW y, NEW k, s.peer = k, NEW n \in Nat, SendsOn(s, x, t, y, k, n),
           x.reqs \in Nat, y.reqs = x.reqs + 1, s.st = "open", y.sent <= HeadLen
    PROVE  Talks(r, t, y, aq, p)
<1> DEFINE q == y.reqs
<1>1. Fresh(r) /\ r.parser = 0 /\ s.inq = <<>> /\ x.sent = 0 /\ Len(x.got) = x.reqs * RespLen
    BY DEF Resting
<1>2. /\ t.st = s.st /\ t.peer = k /\ y.got = x.got /\ Sent(y) = n /\ t.inq = <<>> \o Run(k, q, 0, n)
    BY <1>1 DEF SendsOn
<1>3. t.inq = Run(k, q, 0, n)
  <2> HIDE DEF q
  <2>1. RunStarts(k, q, 0, n)
    BY RunStart
  <2> QED BY <1>2, <2>1 DEF RunStarts
<1>4. Unanswered(t, y, 0)
  <2>1. q - 1 = x.reqs /\ q >= 1 /\ x.reqs * RespLen + 0 = x.reqs * RespLen
    BY Numbers
  <2> QED BY <1>1, <1>2, <2>1 DEF Unanswered
<1>5. 0 \in 0 .. HeadLen /\ 0 <= n
    BY Numbers
<1>6. Asking(r, t, y)
    BY <1>1, <1>2, <1>3, <1>4, <1>5 DEF Asking
<1> QED BY <1>6 DEF Talks

LEMMA SendTalks ==
    ASSUME WellBehaved, IInv, FInv, NEW k \in Clients, SendRequest(k, Cuts), UNCHANGED ownVars
    PROVE  FInv' /\ [Promise!FwdNext]_(Promise!fwdVars)
<1> DEFINE x == client[k]
           lo == x.sent
           req == IF lo > 0 THEN x.reqs ELSE x.reqs + 1
<1>1. x.st = "connected"
    BY DEF SendRequest, Connected
<1>2. PICK fd \in Fds, c \in Caa : /\ SocketOf("client", k) = fd /\ sock[fd].kind = "client"
                                   /\ sock[fd].peer = k /\ caa[c].fd = fd /\ fd # -1
    BY <1>1, ClientSocket
<1>3. /\ sock[fd].st = "open" /\ (lo > 0 \/ (Answered(k) /\ x.reqs < Requests))
      /\ UNCHANGED el
    BY <1>2 DEF SendRequest
<1>4. PICK n \in Cuts :
           /\ n > lo
           /\ sock' = [sock EXCEPT ![fd].inq = @ \o Run(k, req, lo, n)]
           /\ client' = [client EXCEPT ![k].reqs = req, ![k].sent = IF n = ReqLen THEN 0 ELSE n]
    BY <1>2, Zenon DEF SendRequest, Run
<1>n. /\ n \in 1 .. ReqLen /\ n \in Nat /\ ReqLen \in Nat \ {0} /\ RespLen \in Nat /\ HeadLen \in Nat
      /\ n <= HeadLen \/ n = ReqLen
  <2>1. n \in 1 .. HeadLen \/ n = ReqLen
    BY <1>4, WellBehavedIs DEF Cuts
  <2>2. ReqLen \in Nat \ {0} /\ RespLen \in Nat /\ HeadLen \in Nat /\ HeadLen < ReqLen
    BY Numbers
  <2> QED BY <2>1, <2>2
<1>f. /\ x.reqs \in 0 .. Requests /\ x.reqs \in Nat /\ lo \in 0 .. ReqLen - 1 /\ lo \in Nat /\ Len(x.got) \in Nat
      /\ sock \in [Fds -> Socks(Tokens)] /\ client \in [Clients -> ClientType] /\ x \in ClientType
      /\ Talks(caa[c], sock[fd], x, sock[c].inq, local[c])
  <2>1. x.reqs \in 0 .. Requests /\ lo \in 0 .. ReqLen - 1 /\ Len(x.got) \in Nat
    BY <1>2, ExchangeFacts
  <2>2. /\ sock \in [Fds -> Socks(Tokens)] /\ client \in [Clients -> ClientType] /\ x \in ClientType
        /\ Talks(caa[c], sock[fd], x, sock[c].inq, local[c])
    BY <1>2, ExchangeFacts
  <2>3. x.reqs \in Nat /\ lo \in Nat
    BY <2>1, <1>n, Numbers
  <2> QED BY <2>1, <2>2, <2>3
<1>5. /\ SameSockets(sock, sock') /\ sock'[fd].inq = sock[fd].inq \o Run(k, req, lo, n)
      /\ sock'[fd].st = sock[fd].st /\ sock'[fd].peer = sock[fd].peer
      /\ \A g \in Fds \ {fd} : sock'[g] = sock[g]
  <2> DEFINE new == sock[fd].inq \o Run(k, req, lo, n)
  <2>1. sock' = [sock EXCEPT ![fd].inq = new]
    BY <1>4
  <2> HIDE DEF new
  <2>2. /\ sock'[fd].inq = new /\ sock'[fd].st = sock[fd].st /\ sock'[fd].peer = sock[fd].peer
        /\ sock'[fd].kind = sock[fd].kind
        /\ \A g \in Fds \ {fd} : sock'[g] = sock[g]
    BY <1>f, <2>1 DEF Socks
  <2>3. SameSockets(sock, sock')
    BY <2>2 DEF SameSockets
  <2> QED BY <2>2, <2>3 DEF new
<1>6. /\ client'[k].reqs = req /\ client'[k].sent = (IF n = ReqLen THEN 0 ELSE n)
      /\ client'[k].got = x.got /\ client'[k].st = x.st /\ \A j \in Clients \ {k} : client'[j] = client[j]
  <2> HIDE DEF req, lo
  <2> QED BY <1>4, <1>f DEF ClientType, ClientTypes
<1>7. Sent(client'[k]) = n /\ client'[k].sent <= HeadLen
    BY <1>n, <1>6 DEF Sent
<1>8. SendsOn(sock[fd], x, sock'[fd], client'[k], k, n)
  <2> HIDE DEF req
  <2> QED BY <1>5, <1>6, <1>7 DEF SendsOn
<1>9. ASSUME Talks(caa[c], sock'[fd], client'[k], sock[c].inq, local[c])
      PROVE  FInv'
    BY <1>2, <1>3, <1>5, <1>6, <1>9, ClientMoves
<1>10. CASE lo > 0
  <2>1. client'[k].reqs = x.reqs
    BY <1>6, <1>10
  <2>2. Talks(caa[c], sock'[fd], client'[k], sock[c].inq, local[c])
    <3>1. x.sent \in Nat /\ x.sent > 0 /\ x.sent < n
        BY <1>n, <1>f, <1>4, <1>10
    <3> HIDE DEF x
    <3> QED BY <1>2, <1>n, <1>f, <1>7, <1>8, <2>1, <3>1, SendMore
  <2>3. UNCHANGED Promise!fwdVars
    <3>1. \A j \in Clients : SeenSame(client[j], client'[j])
        BY <1>6, <2>1 DEF SeenSame
    <3> QED BY <3>1, StepsUnseen
  <2> QED BY <1>9, <2>2, <2>3
<1>11. CASE ~(lo > 0)
  <2>1. x.sent = 0 /\ Len(x.got) >= x.reqs * RespLen /\ client'[k].reqs = x.reqs + 1
    BY <1>3, <1>f, <1>6, <1>11 DEF Answered
  <2>2. Resting(caa[c], sock[fd], x) /\ Silent(sock[c].inq, local[c])
    <3> HIDE DEF x, lo
    <3> QED BY <1>f, <2>1, AnsweredRests
  <2>3. Talks(caa[c], sock'[fd], client'[k], sock[c].inq, local[c])
    <3> HIDE DEF x
    <3> QED BY <1>2, <1>3, <1>n, <1>f, <1>7, <1>8, <2>1, <2>2, SendFirst
  <2>4. Promise!FwdNext
    <3>1. /\ x.st # "left" /\ client'[k].st # "left" /\ Len(x.got) = x.reqs * RespLen
          /\ client'[k].got = x.got
        BY <1>1, <1>6, <2>2 DEF Resting
    <3>2. \A j \in Clients \ {k} : SeenSame(client[j], client'[j])
        BY <1>6 DEF SeenSame
    <3> QED BY <2>1, <3>1, <3>2, StepAsks
  <2> QED BY <1>9, <2>3, <2>4
<1> QED BY <1>10, <1>11

-----------------------------------------------------------------------------
(* The local provider *)

(* Nothing moves but the connection of one object to the local provider. *)
LEMMA LocalMoves ==
    ASSUME WellBehaved, IInv, FInv, NEW c \in Caa, caa[c].fd # -1,
           \A g \in Fds \ {c} : sock'[g] = sock[g], SameSockets(sock, sock'), sock'[c].st = sock[c].st,
           \A d \in Caa \ {c} : local'[d] = local[d], UNCHANGED <<el, client, caa, apFd>>,
           Talks(caa[c], sock[caa[c].fd], client[sock[caa[c].fd].peer], sock'[c].inq, local'[c])
    PROVE  FInv' /\ [Promise!FwdNext]_(Promise!fwdVars)
<1>1. caa[c].fd \in Fds /\ c # caa[c].fd
    BY Owners
<1>2. sock'[caa[c].fd] = sock[caa[c].fd]
    BY <1>1
<1>3. Alone(c)
    BY <1>2 DEF Alone
<1>4. Consistent(el')
    BY DEF FInv
<1>5. Talks(caa'[c], sock'[caa[c].fd], client'[sock[caa[c].fd].peer], sock'[c].inq, local'[c])
    BY <1>2
<1>6. FInv'
    BY <1>3, <1>4, <1>5, TalksOn
<1>7. UNCHANGED Promise!fwdVars
    BY StepsUnseen DEF SeenSame
<1> QED BY <1>6, <1>7

(* The answer to a request that is not garbled. *)
AnswerTo(rq) ==
    LET whole == \A i \in 1 .. DubboLen : rq[i] = <<rq[1][1], rq[1][2], i>>
    IN  [i \in 1 .. RespLen |-> <<rq[1][1], IF whole THEN rq[1][2] ELSE Garbled, i>>]
WholeRequest(rq, k, q) ==
    Suffix(rq, DubboLen) = <<>> /\ AnswerTo(rq) = Run(k, q, 0, RespLen)
LEMMA WholeRequestIs ==
    ASSUME NEW k, NEW q, NEW rq, rq = Run(k, q, 0, DubboLen)
    PROVE  WholeRequest(rq, k, q)
<1>n. DubboLen \in Nat \ {0} /\ RespLen \in Nat
    BY Numbers
<1>1. RunStarts(k, q, DubboLen, DubboLen)
    BY <1>n, RunStart
<1>2. RunFacts(k, q, 0, DubboLen)
    BY <1>n, RunIs
<1>3. \A i \in 1 .. DubboLen : rq[i] = <<k, q, i>>
    BY <1>n, <1>2 DEF RunFacts
<1>4. rq[1] = <<k, q, 1>>
    BY <1>n, <1>3
<1>5. rq[1][1] = k /\ rq[1][2] = q
    BY <1>4
<1>6. AnswerTo(rq) = [i \in 1 .. RespLen |-> <<k, q, i>>]
    BY <1>3, <1>5 DEF AnswerTo
<1>7. Run(k, q, 0, RespLen) = [i \in 1 .. RespLen |-> <<k, q, i>>]
    BY <1>n DEF Run
<1>8. Suffix(rq, DubboLen) = <<>>
    BY <1>1 DEF RunStarts
<1> QED BY <1>6, <1>7, <1>8 DEF WholeRequest

LEMMA LocalAnswerTalks ==
    ASSUME WellBehaved, IInv, FInv, NEW c \in Caa, LocalAnswer(c)
    PROVE  FInv' /\ [Promise!FwdNext]_(Promise!fwdVars)
<1> DEFINE rq == local[c].inq
           f == caa[c].fd
           k == sock[f].peer
           x == client[k]
           q == x.reqs
<1>n. DubboLen \in Nat \ {0} /\ RespLen \in Nat \ {0} /\ Len(<<>>) = 0
    BY Numbers, EmptySeq
<1>1. Len(rq) >= DubboLen /\ rq # <<>> /\ apFd[c] = c /\ UNCHANGED <<el, client, caa, apFd>>
  <2>1. Len(rq) >= DubboLen /\ UNCHANGED <<el, client, caa, apFd>>
    BY DEF LocalAnswer, EnvVars
  <2> QED BY <1>n, <2>1, Owners
<1>2. f # -1
  <2>1. Exchange(c)
    BY Owners
  <2> QED BY <1>1, <2>1 DEF Exchange, Silent
<1>f. /\ Talks(caa[c], sock[f], x, sock[c].inq, local[c]) /\ caa[c].buf_resp \in Seq(Tokens)
      /\ sock \in [Fds -> Socks(Tokens)] /\ c \in Fds
      /\ local \in [Caa -> [inq : Seq(Tokens), out : Seq(Tokens)]]
    BY <1>2, ExchangeFacts, Owners DEF Objects
<1>3. Invoking(caa[c], sock[f], x, sock[c].inq, local[c])
    BY <1>1, <1>f DEF Talks, Silent, Sending, Replying
<1>4. /\ Asked(caa[c], sock[f], x) /\ RequestLeft(caa[c]) = <<>> /\ caa[c].buf_resp = <<>>
      /\ sock[c].inq = <<>> /\ local[c].out = <<>> /\ rq = Run(k, q, 0, DubboLen)
    BY <1>3 DEF Invoking
<1>5. PICK m \in 1 .. RespLen :
           /\ sock' = [sock EXCEPT ![c].inq = @ \o Prefix(AnswerTo(rq), m)]
           /\ local' = [local EXCEPT ![c] = [inq |-> Suffix(rq, DubboLen), out |-> Suffix(AnswerTo(rq), m)]]
  <2>1. PICK m \in IF "splitresp" \in Faults THEN 1 .. RespLen ELSE {RespLen} :
           /\ sock' = [sock EXCEPT ![apFd[c]].inq = @ \o Prefix(AnswerTo(rq), m)]
           /\ local' = [local EXCEPT ![c] = [inq |-> Suffix(rq, DubboLen), out |-> Suffix(AnswerTo(rq), m)]]
    BY Zenon DEF LocalAnswer, AnswerTo
  <2>2. m \in 1 .. RespLen
    BY <1>n, <2>1
  <2>3. sock' = [sock EXCEPT ![c].inq = @ \o Prefix(AnswerTo(rq), m)]
    BY <1>1, <2>1
  <2> QED BY <2>1, <2>2, <2>3
<1>6. /\ <<>> \o Prefix(AnswerTo(rq), m) = Run(k, q, 0, m) /\ Suffix(AnswerTo(rq), m) = Run(k, q, m, RespLen)
      /\ Suffix(rq, DubboLen) = <<>> /\ Run(k, q, 0, 0) = <<>>
  <2> HIDE DEF rq, k, q
  <2>1. WholeRequest(rq, k, q)
    BY <1>4, WholeRequestIs
  <2>2. m \in Nat /\ m <= RespLen
    OBVIOUS
  <2>3. RunStarts(k, q, m, RespLen) /\ RunStarts(k, q, 0, m)
    BY <1>n, <2>2, RunStart
  <2> QED BY <2>1, <2>3 DEF RunStarts, WholeRequest
<1> DEFINE new == sock[c].inq \o Prefix(AnswerTo(rq), m)
           left == Suffix(AnswerTo(rq), m)
           end == [inq |-> <<>>, out |-> left]
<1>7. sock' = [sock EXCEPT ![c].inq = new] /\ new = Run(k, q, 0, m) /\ left = Run(k, q, m, RespLen)
      /\ local' = [local EXCEPT ![c] = end]
  <2>1. sock' = [sock EXCEPT ![c].inq = new]
    BY <1>5
  <2>2. local' = [local EXCEPT ![c] = end]
    BY <1>5, <1>6
  <2>3. new = Run(k, q, 0, m) /\ left = Run(k, q, m, RespLen)
    BY <1>4, <1>6
  <2> QED BY <2>1, <2>2, <2>3
<1> HIDE DEF new, left
<1>8. /\ sock'[c].inq = new /\ sock'[c].st = sock[c].st /\ sock'[c].kind = sock[c].kind
      /\ sock'[c].peer = sock[c].peer /\ \A g \in Fds \ {c} : sock'[g] = sock[g]
    BY <1>f, <1>7 DEF Socks
<1>9. local'[c].inq = <<>> /\ local'[c].out = left /\ \A d \in Caa \ {c} : local'[d] = local[d]
    BY <1>f, <1>7
<1>10. SameSockets(sock, sock')
    BY <1>8 DEF SameSockets
<1>11. Replying(caa[c], sock[f], x, sock'[c].inq, local'[c])
  <2>1. m \in 0 .. RespLen /\ Len(caa[c].buf_resp) = 0
    BY <1>n, <1>4
  <2> HIDE DEF f, x
  <2> QED BY <1>4, <1>6, <1>7, <1>8, <1>9, <2>1 DEF Replying, k, q
<1>12. Talks(caa[c], sock[f], x, sock'[c].inq, local'[c])
    BY <1>11 DEF Talks
<1> QED BY <1>1, <1>2, <1>8, <1>9, <1>10, <1>12, LocalMoves

LEMMA LocalContinueTalks ==
    ASSUME WellBehaved, IInv, FInv, NEW c \in Caa, LocalContinue(c)
    PROVE  FInv' /\ [Promise!FwdNext]_(Promise!fwdVars)
<1> DEFINE r == caa[c]
           f == r.fd
           k == sock[f].peer
           x == client[k]
           q == x.reqs
           n == Len(r.buf_resp)
           new == sock[c].inq \o local[c].out
<1>1. /\ local[c].out # <<>> /\ apFd[c] = c /\ UNCHANGED <<el, client, caa, apFd>>
      /\ sock' = [sock EXCEPT ![c].inq = new] /\ local' = [local EXCEPT ![c].out = <<>>]
    BY Owners DEF LocalContinue, EnvVars
<1>2. f # -1
  <2>1. Exchange(c)
    BY Owners
  <2> QED BY <1>1, <2>1 DEF Exchange, Silent
<1>f. /\ Talks(r, sock[f], x, sock[c].inq, local[c]) /\ n \in Nat
      /\ sock \in [Fds -> Socks(Tokens)] /\ c \in Fds
      /\ local \in [Caa -> [inq : Seq(Tokens), out : Seq(Tokens)]]
    BY <1>2, ExchangeFacts, Owners, LenProperties DEF Objects
<1>3. Replying(r, sock[f], x, sock[c].inq, local[c])
    BY <1>1, <1>f DEF Talks, Silent, Sending, Invoking
<1>4. /\ Asked(r, sock[f], x) /\ RequestLeft(r) = <<>> /\ local[c].inq = <<>> /\ r.buf_resp = Run(k, q, 0, n)
      /\ \E m \in n .. RespLen : sock[c].inq = Run(k, q, n, m) /\ local[c].out = Run(k, q, m, RespLen)
    BY <1>3 DEF Replying
<1>5. PICK m \in n .. RespLen : sock[c].inq = Run(k, q, n, m) /\ local[c].out = Run(k, q, m, RespLen)
    BY <1>4
<1>6. new = Run(k, q, n, RespLen) /\ Run(k, q, RespLen, RespLen) = <<>> /\ RespLen \in n .. RespLen
  <2>1. m \in Nat /\ n <= m /\ m <= RespLen /\ RespLen \in Nat /\ n <= RespLen
    BY <1>f, Numbers
  <2> HIDE DEF n, k, q
  <2>2. RunCut(k, q, n, m, RespLen)
    BY <1>f, <2>1, RunParts
  <2>3. Run(k, q, RespLen, RespLen) = <<>>
    BY <2>1, EmptyRun
  <2> QED BY <1>f, <1>5, <2>1, <2>2, <2>3 DEF RunCut
<1> HIDE DEF new
<1>7. /\ sock'[c].inq = new /\ sock'[c].st = sock[c].st /\ sock'[c].kind = sock[c].kind
      /\ sock'[c].peer = sock[c].peer /\ \A g \in Fds \ {c} : sock'[g] = sock[g]
    BY <1>1, <1>f DEF Socks
<1>8. local'[c].inq = local[c].inq /\ local'[c].out = <<>> /\ \A d \in Caa \ {c} : local'[d] = local[d]
    BY <1>1, <1>f
<1>9. SameSockets(sock, sock')
    BY <1>7 DEF SameSockets
<1>10. Replying(r, sock[f], x, sock'[c].inq, local'[c])
  <2> HIDE DEF f, x, r
  <2> QED BY <1>4, <1>6, <1>7, <1>8 DEF Replying, k, q, n
<1>11. Talks(r, sock[f], x, sock'[c].inq, local'[c])
    BY <1>10 DEF Talks
<1> QED BY <1>1, <1>2, <1>7, <1>8, <1>9, <1>11, LocalMoves

-----------------------------------------------------------------------------
LEMMA InitTalks ==
    ASSUME Init
    PROVE  FInv /\ Promise!FwdInit
<1>n. NumCaa \in Nat /\ NumCaa < NumFds /\ Caa = 1 .. NumCaa /\ NumFds \in Nat /\ "ap" \in {"ap", "apa"}
    BY Numbers, Descriptors DEF Caa
<1>i. /\ caa = [c \in Caa |-> Closed] /\ apFd = [c \in Caa |-> c]
      /\ local = [c \in Caa |-> [inq |-> <<>>, out |-> <<>>]]
      /\ client = [k \in Clients |-> [st |-> "idle", reqs |-> 0, sent |-> 0, got |-> <<>>]]
      /\ LoopInit("ap", NumCaa)
    BY DEF Init, LoopInit
<1>1. /\ sock[0].kind = "listen" /\ \A fd \in 1 .. NumCaa : sock[fd].kind = "ap"
      /\ \A fd \in Fds : fd # 0 /\ fd \notin 1 .. NumCaa => sock[fd].kind = "free"
    BY <1>n, <1>i, InitialSockets
<1>2. \A fd \in Fds : sock[fd].kind # "client"
    BY <1>n, <1>1
<1>3. ClientSockets
    BY <1>2 DEF ClientSockets
<1>4. ClientsKnown
    BY <1>i DEF ClientsKnown
<1>5. Consistent(el)
  <2>1. /\ el.setsize = SetSize /\ Agrees(el, 0)
        /\ \A fd \in Fds \ {0} : el.events[fd].mask = {} /\ el.epoll[fd] = NotMonitored
    BY <1>i, InitialLoop DEF LoopInit
  <2>2. \A fd \in Fds \ {0} : Agrees(el, fd)
    BY <2>1 DEF Agrees
  <2> QED BY <2>1, <2>2 DEF Consistent
<1>6. ASSUME NEW c \in Caa PROVE apFd[c] = c /\ sock[c].st = "open" /\ Exchange(c)
  <2>1. c \in Fds /\ c # 0 /\ c \in 1 .. NumCaa
    BY <1>n DEF Fds
  <2>2. sock[c].st = "open" /\ sock[c].inq = <<>>
    <3>1. sock[c] = Sock("ap", c)
        BY <1>i, <2>1 DEF LoopInit, ListenFd
    <3> QED BY <3>1 DEF Sock, NoSock
  <2>3. apFd[c] = c /\ local[c].inq = <<>> /\ local[c].out = <<>> /\ caa[c].fd = -1
    BY <1>i DEF Closed
  <2> QED BY <2>2, <2>3 DEF Exchange, Silent
<1>7. Promise!FwdInit
    BY <1>i DEF Promise!FwdInit
<1> QED BY <1>3, <1>4, <1>5, <1>6, <1>7 DEF FInv

(* The handler and object of a dispatched event. *)
LEMMA AgentTalks ==
    ASSUME WellBehaved, IInv, FInv, Agent
    PROVE  FInv' /\ [Promise!FwdNext]_(Promise!fwdVars)
<1>e. AE_READABLE \in ReadWrite /\ AE_WRITABLE \in ReadWrite
    BY DEF ReadWrite
<1>1. CASE Loop /\ UNCHANGED ownVars
  <2>1. UNCHANGED <<ownVars, el, sock, client>>
    BY <1>1 DEF Loop, Poll, Exit, DispatchNothing
  <2>2. Consistent(el')
    BY <2>1 DEF FInv
  <2> QED BY <2>1, <2>2, NothingTalks
<1>2. CASE DispatchAccept
    BY <1>2, AcceptTalks DEF DispatchAccept
<1>3. CASE DispatchReadFromConsumerAgent
  <2>1. PICK fd \in Fds : /\ Calls(fd, AE_READABLE, "read_from_consumer_agent")
                          /\ read_from_consumer_agent(fd, el.events[fd].clientData)
    BY <1>3 DEF DispatchReadFromConsumerAgent
  <2>2. PICK c \in Caa : c = el.events[fd].clientData
    BY <1>e, <2>1, ClientCalls
  <2>3. ClientEvent(el, sock, fd, c) /\ read_from_consumer_agent(fd, c)
    BY <1>e, <2>1, <2>2, ClientCalls
  <2> QED BY <2>2, <2>3, ReadClientTalks
<1>4. CASE DispatchWriteToLocalProvider
  <2>1. PICK fd \in Fds : /\ Calls(fd, AE_WRITABLE, "write_to_local_provider")
                          /\ write_to_local_provider(fd, el.events[fd].clientData)
    BY <1>4 DEF DispatchWriteToLocalProvider
  <2>2. PICK c \in Caa : c = el.events[fd].clientData
    BY <1>e, <2>1, LocalCalls
  <2>3. apFd[c] = fd
    BY <1>e, <2>1, <2>2, LocalCalls
  <2>4. fd = c
    BY <2>3, Owners
  <2>5. write_to_local_provider(c, c)
    BY <2>1, <2>2, <2>4
  <2> QED BY <2>5, WriteLocalTalks
<1>5. CASE DispatchReadFromLocalProvider
  <2>1. PICK fd \in Fds : /\ Calls(fd, AE_READABLE, "read_from_local_provider")
                          /\ read_from_local_provider(fd, el.events[fd].clientData)
    BY <1>5 DEF DispatchReadFromLocalProvider
  <2>2. PICK c \in Caa : c = el.events[fd].clientData
    BY <1>e, <2>1, LocalCalls
  <2>3. apFd[c] = fd
    BY <1>e, <2>1, <2>2, LocalCalls
  <2>4. fd = c
    BY <2>3, Owners
  <2>5. read_from_local_provider(c, c)
    BY <2>1, <2>2, <2>4
  <2> QED BY <2>5, ReadLocalTalks
<1>6. CASE DispatchWriteToConsumerAgent
  <2>1. PICK fd \in Fds : /\ Calls(fd, AE_WRITABLE, "write_to_consumer_agent")
                          /\ write_to_consumer_agent(fd, el.events[fd].clientData)
    BY <1>6 DEF DispatchWriteToConsumerAgent
  <2>2. PICK c \in Caa : c = el.events[fd].clientData
    BY <1>e, <2>1, ClientCalls
  <2>3. ClientEvent(el, sock, fd, c) /\ write_to_consumer_agent(fd, c) /\ AE_WRITABLE \in el.events[fd].mask
    BY <1>e, <2>1, <2>2, ClientCalls
  <2> QED BY <2>2, <2>3, WriteClientTalks
<1> QED BY <1>1, <1>2, <1>3, <1>4, <1>5, <1>6 DEF Agent

LEMMA StepTalks ==
    ASSUME WellBehaved, IInv, FInv, [Next]_vars
    PROVE  FInv' /\ [Promise!FwdNext]_(Promise!fwdVars)
<1>1. CASE Agent
    BY <1>1, AgentTalks
<1>2. CASE ClientStep /\ UNCHANGED ownVars
  <2>1. CASE Connect
    BY <1>2, <2>1, ConnectTalks
  <2>2. ASSUME NEW k \in Clients, SendRequest(k, Cuts)
        PROVE  FInv' /\ [Promise!FwdNext]_(Promise!fwdVars)
    BY <1>2, <2>2, SendTalks
  <2>3. ASSUME NEW k \in Clients, Disconnect(k)
        PROVE  FInv' /\ [Promise!FwdNext]_(Promise!fwdVars)
    BY <1>2, <2>3, DisconnectTalks
  <2>4. \A k \in Clients : ~Reset(k)
    BY WellBehavedIs DEF Reset
  <2> QED BY <1>2, <2>1, <2>2, <2>3, <2>4 DEF ClientStep
<1>3. ASSUME NEW c \in Caa, LocalAnswer(c) \/ LocalContinue(c) \/ LocalClose(c)
      PROVE  FInv' /\ [Promise!FwdNext]_(Promise!fwdVars)
  <2>1. ~LocalClose(c)
    BY WellBehavedIs DEF LocalClose
  <2> QED BY <1>3, <2>1, LocalAnswerTalks, LocalContinueTalks
<1>4. CASE UNCHANGED vars
  <2>1. UNCHANGED <<ownVars, el, sock, client>>
    BY <1>4 DEF vars, loopVars
  <2>2. Consistent(el')
    BY <2>1 DEF FInv
  <2> QED BY <2>1, <2>2, NothingTalks
<1> QED BY <1>1, <1>2, <1>3, <1>4 DEF Next, Environment

(* Among well-behaved peers every exchange between a client and the object *)
(* that serves it is in one of its stages, and the connection of an object *)
(* that serves nobody holds nothing of an earlier exchange.                *)
THEOREM ProviderTalks == ASSUME WellBehaved PROVE Spec => [](IInv /\ FInv)
<1>1. Init => IInv /\ FInv
    BY InitOK, InitTalks
<1>2. IInv /\ FInv /\ [Next]_vars => (IInv /\ FInv)'
    BY StepOK, StepTalks
<1> QED BY <1>1, <1>2, PTL DEF Spec

(* "transparent TCP forwarding" (README.md:29): every step of the agent,   *)
(* of a consumer agent or of the local provider is a step of the promise   *)
(* or is not seen by the consumer agents, although a dubbo response is     *)
(* matched to its request by the connection alone.                         *)
THEOREM ProviderForwards == ASSUME WellBehaved PROVE Spec => RefinesForwarding
<1>1. Init => Promise!FwdInit
    BY InitTalks
<1>2. IInv /\ FInv /\ [Next]_vars => [Promise!FwdNext]_(Promise!fwdVars)
    BY StepTalks
<1>3. Spec => [](IInv /\ FInv)
    BY ProviderTalks
<1> QED BY <1>1, <1>2, <1>3, PTL DEF Spec, RefinesForwarding, Promise!FwdSafety

=============================================================================
