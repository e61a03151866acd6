--------------------------- MODULE ConsumerAgent ---------------------------
(***************************************************************************)
(* The consumer agent (consumer.c) in its event loop, between consumers    *)
(* and provider agents.                                                    *)
(*                                                                         *)
(* Consumers connect, send requests and wait for the answer.  The agent    *)
(* pairs each consumer connection (connection_ca) with a connection to a   *)
(* provider agent (connection_apa) taken from an endpoint's pool for one   *)
(* request, and forwards bytes without looking at them.                    *)
(***************************************************************************)
EXTENDS AgentLoop, PoolOps, LoadBalance

CONSTANTS BufIn, BufOut,     \* CONSUMER_HTTP_REQ_BUF_SIZE, CONSUMER_HTTP_RESP_BUF_SIZE
          NumCa,             \* NUM_CONN_FOR_CONSUMER
          NumEp, NumApa,     \* num_endpoints, NUM_CONN_PER_PROVIDER
          Balance, Protect,  \* LOAD_BALANCE_THRESHOLD, LOAD_PROTECT_THRESHOLD
          Latencies          \* average latencies an endpoint may show

ASSUME ConsumerAssumption ==
    /\ {BufIn, BufOut, NumCa, NumEp, NumApa} \subseteq Nat \ {0}
    /\ {Balance, Protect} \subseteq Nat /\ Latencies \subseteq Nat
    /\ NumFds > NumEp * NumApa

Ca == 1 .. NumCa
Ep == 0 .. NumEp - 1
Apa == 1 .. NumEp * NumApa
EpOf(a) == (a - 1) \div NumApa

VARIABLES ca,        \* the connection_ca objects
          caPool,    \* connection_ca_pool
          apaFd,     \* fd of each connection_apa
          epPool,    \* conn_pool of each endpoint
          num_reqs,  \* num_reqs of each endpoint, up to Balance
          remote     \* the provider agents' ends of the connections

ownVars == <<ca, caPool, apaFd, epPool, num_reqs, remote>>
vars == <<loopVars, ownVars>>

(* A connection_ca: nread_in is Len(buf_in), nread_out is Len(buf_out).    *)
(* The fields other than fd are not read while fd < 0 and are cleared when *)
(* the object is taken from the pool, so a closed one is Closed.           *)
Closed == [fd |-> -1, buf_in |-> <<>>, nwrite_in |-> 0, buf_out |-> <<>>, nwrite_out |-> 0,
           conn_apa |-> NoConn]

(* The state monitor_accepts and consumer_init leave behind: every pool    *)
(* full and connected, the listening socket registered.                    *)
Init ==
    /\ ca = [c \in Ca |-> Closed]
    /\ caPool = FullPool([i \in 1 .. NumCa |-> i])
    /\ apaFd = [a \in Apa |-> a]
    /\ epPool = [e \in Ep |-> FullPool([i \in 1 .. NumApa |-> e * NumApa + i])]
    /\ num_reqs = [e \in Ep |-> IF Balance = 0 THEN 0 ELSE 1]
    /\ LoopInit("apa", NumEp * NumApa)
    /\ remote = [a \in Apa |-> [inq |-> <<>>, out |-> <<>>]]

-----------------------------------------------------------------------------
(* What the handlers share *)

(* A NULL conn_apa is dereferenced. *)
Crash == Segfault /\ UNCHANGED ownVars

ReturnOnly == UNCHANGED <<ownVars, el, sock, pc, stop, client>>

(* "Connection closed for socket, ignore": the events on fd are dropped. *)
Ignore(fd) ==
    /\ el' = FileEventDeleted(el, fd, ReadWrite)
    /\ UNCHANGED <<ownVars, sock, pc, stop, client>>

ApaFdOf(r) == IF r.conn_apa = NoConn THEN -1 ELSE apaFd[r.conn_apa]

(* Mutant: the events on the connection to the provider agent stay. *)
abort_connection_caM(c, r, s, pool, times) ==
    LET fds == {r.fd, ApaFdOf(r)} \cap Fds
    IN /\ el' = KernelForgets(DropEvents(el, r.fd), fds)
       /\ sock' = CloseFds(s, fds)
       /\ client' = Disconnected(s, r.fd)
       /\ ca' = [ca EXCEPT ![c] = Closed]
       /\ apaFd' = [a \in Apa |-> IF a = r.conn_apa THEN -1 ELSE apaFd[a]]
       /\ caPool' = IF times = 1 THEN PoolReturned(pool, c)
                                 ELSE PoolReturned(PoolReturned(pool, c), c)
(* Mutant: conn_ca->fd is not reset. *)
abort_connection_caN(c, r, s, pool, times) ==
    LET fds == {r.fd, ApaFdOf(r)} \cap Fds
    IN /\ el' = KernelForgets(DropEvents(DropEvents(el, r.fd), ApaFdOf(r)), fds)
       /\ sock' = CloseFds(s, fds)
       /\ client' = Disconnected(s, r.fd)
       /\ ca' = [ca EXCEPT ![c] = r]
       /\ apaFd' = [a \in Apa |-> IF a = r.conn_apa THEN -1 ELSE apaFd[a]]
       /\ caPool' = IF times = 1 THEN PoolReturned(pool, c)
                                 ELSE PoolReturned(PoolReturned(pool, c), c)
(* abort_connection_ca for the object c with the contents r, called        *)
(* `times' times in a row: both descriptors are dropped from the loop and  *)
(* closed, conn_ca goes back to its pool each time, conn_apa does not go   *)
(* back to its own (line 477 is commented out).  The second call passes    *)
(* fd -1 to aeDeleteFileEvent and to close: the kernel refuses -1, and the *)
(* memory before the slots that aeDeleteFileEvent looks at is not modelled. *)
abort_connection_ca(c, r, s, pool, times) ==
    LET fds == {r.fd, ApaFdOf(r)} \cap Fds
    IN /\ el' = KernelForgets(DropEvents(DropEvents(el, r.fd), ApaFdOf(r)), fds)
       /\ sock' = CloseFds(s, fds)
       /\ client' = Disconnected(s, r.fd)
       /\ ca' = [ca EXCEPT ![c] = Closed]
       /\ apaFd' = [a \in Apa |-> IF a = r.conn_apa THEN -1 ELSE apaFd[a]]
       /\ caPool' = IF times = 1 THEN PoolReturned(pool, c)
                                 ELSE PoolReturned(PoolReturned(pool, c), c)

AbortAndReturn(c) ==
    /\ abort_connection_ca(c, ca[c], sock, caPool, 1)
    /\ UNCHANGED <<epPool, num_reqs, pc, remote>>

-----------------------------------------------------------------------------
(* accept_tcp_handler: one accept per call (MAX_ACCEPTS_PER_CALL), which   *)
(* may find nobody or no free descriptor, then consumer_http_handler.  The *)
(* pool is created full, so PoolGet grows it only after an object has been *)
(* returned twice and a third one dropped; the instances have too few      *)
(* clients for that.                                                       *)
accept_tcp_handler ==
    IF ~CanAccept THEN ReturnOnly
    ELSE \E k \in Backlog :
        LET fd == NewFd(sock)
            s == [sock EXCEPT ![fd] = Sock("client", k)]
            c == PoolTop(caPool)
            r == [Closed EXCEPT !.fd = fd]
        IN /\ \/ /\ PoolExhausted(caPool)
                 /\ client' = [client EXCEPT ![k].st = "closed"]
                 /\ UNCHANGED <<ca, caPool, apaFd, epPool, num_reqs, el, sock>>
              \/ /\ PoolHasElement(caPool) /\ CreateOk(fd)
                 /\ client' = [client EXCEPT ![k].st = "connected"]
                 /\ sock' = s
                 /\ caPool' = PoolPull(caPool)
                 /\ ca' = [ca EXCEPT ![c] = r]
                 /\ el' = FileEventCreated(el, fd, {AE_READABLE}, "read_from_consumer", c)
                 /\ UNCHANGED <<apaFd, epPool, num_reqs>>
              \/ /\ PoolHasElement(caPool) /\ CreateErr(fd)
                 /\ abort_connection_ca(c, r, s, PoolPull(caPool), 1)
                 /\ UNCHANGED <<epPool, num_reqs>>
           /\ UNCHANGED <<pc, stop, remote>>

(* The second half of read_from_consumer: conn_ca, with the contents r, is *)
(* to be forwarded over r.conn_apa.  When the first registration fails the *)
(* connection is aborted and the code goes on; the second call then finds  *)
(* the descriptor closed, fails too, and the connection is aborted again.  *)
ForwardRequest(c, r, s) ==
    LET afd == apaFd[r.conn_apa]
        withW == FileEventCreated(el, afd, {AE_WRITABLE}, "write_to_remote_agent", c)
    IN \/ /\ CreateOk(afd)
          /\ ca' = [ca EXCEPT ![c] = r]
          /\ sock' = s
          /\ el' = FileEventCreated(withW, afd, {AE_READABLE}, "read_from_remote_agent", c)
          /\ UNCHANGED <<caPool, apaFd, client>>
       \/ /\ CreateErr(afd)
          /\ \E times \in IF CreateOk(afd) THEN 1 .. 2 ELSE {2} :
              abort_connection_ca(c, r, s, caPool, times)

(* The endpoints get_endpoint_min_latency may pick, whatever the latencies. *)
Outstanding == [e \in Ep |-> epPool[e].outstanding]
Choices ==
    {get_endpoint_min_latency(num_reqs, lat, Outstanding, Balance, Protect) :
        lat \in [Ep -> Latencies]}

(* Mutant: only the write position is reset. *)
ResetOutM(r) == [r EXCEPT !.nwrite_out = 0]
(* "Reset buf_out pointers" *)
ResetOut(r) == [r EXCEPT !.buf_out = <<>>, !.nwrite_out = 0]

read_from_consumer(fd, c) ==
    LET space == BufIn - Len(ca[c].buf_in)
        result == ReadResult(sock[fd], space)
        r == ResetOut([ca[c] EXCEPT !.buf_in = @ \o Received(sock[fd], space)])
        s == AfterRead(sock, fd, space)
    IN IF ca[c].fd < 0 THEN Ignore(fd) ELSE
       \/ /\ result = "data" /\ r.conn_apa # NoConn
          /\ ForwardRequest(c, r, s)
          /\ UNCHANGED <<epPool, num_reqs, pc, stop, remote>>
       \/ /\ result = "data" /\ r.conn_apa = NoConn
          /\ \E e \in Choices :
              IF PoolHasElement(epPool[e])
              THEN /\ ForwardRequest(c, [r EXCEPT !.conn_apa = PoolTop(epPool[e])], s)
                   /\ epPool' = [epPool EXCEPT ![e] = PoolPull(@)]
              ELSE /\ abort_connection_ca(c, r, s, caPool, 1)
                   /\ UNCHANGED epPool
          /\ UNCHANGED <<num_reqs, pc, stop, remote>>
       \/ /\ result = "again" /\ ReturnOnly
       \/ /\ result = "error" /\ AbortAndReturn(c) /\ UNCHANGED stop
       \/ /\ result = "eof"             \* conn_apa and its events are left as they are
          /\ el' = KernelForgets(FileEventDeleted(el, fd, ReadWrite), {fd})
          /\ caPool' = PoolReturned(caPool, c)
          /\ ca' = [ca EXCEPT ![c] = Closed]
          /\ sock' = CloseFds(sock, {fd})
          /\ client' = Disconnected(sock, fd)
          /\ UNCHANGED <<apaFd, epPool, num_reqs, pc, stop, remote>>

RequestWritten(r, n) == [r EXCEPT !.nwrite_in = @ + n]

write_to_remote_agent(fd, c) ==
    LET rest == Suffix(ca[c].buf_in, ca[c].nwrite_in)
    IN IF ca[c].fd < 0 THEN ReturnOnly         \* the event stays registered
       ELSE \/ \E n \in Writes(rest) :
               /\ ~WriteFails(fd)
               /\ sock' = AfterWrite(sock, fd, n)
               /\ remote' = IF sock[fd].st = "open"
                            THEN [remote EXCEPT ![sock[fd].peer].inq = @ \o Prefix(rest, n)]
                            ELSE remote
               /\ ca' = [ca EXCEPT ![c] = RequestWritten(@, n)]
               /\ IF ca'[c].nwrite_in = Len(ca[c].buf_in)
                  THEN /\ el' = FileEventDeleted(el, fd, {AE_WRITABLE})
                       /\ pc' = IF ca[c].conn_apa = NoConn THEN "crashed" ELSE pc
                  ELSE UNCHANGED <<el, pc>>
               /\ UNCHANGED <<caPool, apaFd, epPool, num_reqs, stop, client>>
            \/ WriteFails(fd) /\ AbortAndReturn(c) /\ MaySigpipe

CountRequest(a) == [num_reqs EXCEPT ![EpOf(a)] = IF @ < Balance THEN @ + 1 ELSE @]

(* Mutant: the write position is not reset. *)
ResetInM(r) == [r EXCEPT !.buf_in = <<>>]
(* Mutant: only the write position is reset. *)
ResetInN(r) == [r EXCEPT !.nwrite_in = 0]
(* "Reset buf_in pointers" *)
ResetIn(r) == [r EXCEPT !.buf_in = <<>>, !.nwrite_in = 0]

read_from_remote_agent(fd, c) ==
    LET space == BufOut - Len(ca[c].buf_out)
        result == ReadResult(sock[fd], space)
        r == ResetIn([ca[c] EXCEPT !.buf_out = @ \o Received(sock[fd], space)])
        s == AfterRead(sock, fd, space)
    IN IF ca[c].fd < 0 THEN Ignore(fd) ELSE
       \/ /\ result \in {"data", "eof"} /\ r.conn_apa = NoConn    \* "eof": by the log line,
          /\ Crash                                                \* unless built with NO_LOG
       \/ /\ result = "data" /\ r.conn_apa # NoConn
          /\ \/ /\ CreateOk(r.fd)
                /\ ca' = [ca EXCEPT ![c] = r]
                /\ sock' = s
                /\ el' = FileEventCreated(el, r.fd, {AE_WRITABLE}, "write_to_consumer", c)
                /\ UNCHANGED <<caPool, apaFd, client>>
             \/ CreateErr(r.fd) /\ abort_connection_ca(c, r, s, caPool, 1)
          /\ num_reqs' = CountRequest(r.conn_apa)
          /\ UNCHANGED <<epPool, pc, stop, remote>>
       \/ /\ result = "again" /\ ReturnOnly
       \/ /\ result \in {"error", "eof"}
          /\ AbortAndReturn(c) /\ UNCHANGED stop

(* Mutant: the connection is released while its events are registered. *)
ReleasedM(l, r) == FileEventDeleted(l, r.fd, {AE_WRITABLE})
(* The events dropped when the answer is written and conn_apa released. *)
Released(l, r) == DropEvents(FileEventDeleted(l, r.fd, {AE_WRITABLE}), ApaFdOf(r))

(* Mutant: the connection is not given back. *)
ApaReturnedM(a) == epPool
ApaReturned(a) ==
    IF a = NoConn THEN epPool ELSE [epPool EXCEPT ![EpOf(a)] = PoolReturned(@, a)]

(* All that has been read so far is written: conn_apa goes back to its     *)
(* pool, whether or not the answer is complete.                            *)
write_to_consumer(fd, c) ==
    LET r == ca[c]
        rest == Suffix(r.buf_out, r.nwrite_out)
        a == r.conn_apa
    IN IF r.fd < 0 THEN Ignore(fd) ELSE
       \/ \E n \in Writes(rest) :
          /\ ~WriteFails(fd)
          /\ sock' = AfterWrite(sock, fd, n)
          /\ client' = DeliverToClient(fd, Prefix(rest, n))
          /\ IF r.nwrite_out + n = Len(r.buf_out)
             THEN /\ el' = Released(el, r)
                  /\ ca' = [ca EXCEPT ![c].nwrite_out = @ + n, ![c].conn_apa = NoConn]
                  /\ epPool' = ApaReturned(a)
             ELSE /\ ca' = [ca EXCEPT ![c].nwrite_out = @ + n]
                  /\ UNCHANGED <<el, epPool>>
          /\ UNCHANGED <<caPool, apaFd, num_reqs, pc, stop, remote>>
       \/ /\ \/ WriteFails(fd) /\ MaySigpipe
             \/ "slow" \in Faults /\ UNCHANGED stop     \* EAGAIN falls through to the abort
          /\ AbortAndReturn(c)

-----------------------------------------------------------------------------
DispatchAccept == Calls(ListenFd, AE_READABLE, "accept_tcp_handler") /\ accept_tcp_handler

DispatchReadFromConsumer ==
    \E fd \in Fds : /\ Calls(fd, AE_READABLE, "read_from_consumer")
                   /\ read_from_consumer(fd, el.events[fd].clientData)
DispatchWriteToRemoteAgent ==
    \E fd \in Fds : /\ Calls(fd, AE_WRITABLE, "write_to_remote_agent")
                   /\ write_to_remote_agent(fd, el.events[fd].clientData)
DispatchReadFromRemoteAgent ==
    \E fd \in Fds : /\ Calls(fd, AE_READABLE, "read_from_remote_agent")
                   /\ read_from_remote_agent(fd, el.events[fd].clientData)
DispatchWriteToConsumer ==
    \E fd \in Fds : /\ Calls(fd, AE_WRITABLE, "write_to_consumer")
                   /\ write_to_consumer(fd, el.events[fd].clientData)

Agent ==
    \/ Loop /\ UNCHANGED ownVars
    \/ DispatchAccept
    \/ DispatchReadFromConsumer \/ DispatchWriteToRemoteAgent
    \/ DispatchReadFromRemoteAgent \/ DispatchWriteToConsumer

=============================================================================
