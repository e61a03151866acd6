--------------------------- MODULE ProviderAgent ---------------------------
(***************************************************************************)
(* The provider agent (provider.c) in its event loop, between the          *)
(* connections of consumer agents (its clients) and the local dubbo        *)
(* provider.                                                               *)
(*                                                                         *)
(* Every connection_caa object is bound for life to one connection_ap, a   *)
(* connection to the local provider; the pair is named by one number.  The *)
(* agent parses an HTTP request, makes a dubbo request of its body, frames *)
(* the dubbo response by the length in its header and writes it back.      *)
(*                                                                         *)
(* The first HeadLen tokens of a request are its HTTP head, the next       *)
(* SepLen ones the part of the body that the separators of the form are    *)
(* in, the rest the end of the argument.  Token 1 of a dubbo response is   *)
(* its header, token 1 of an HTTP response its head.                       *)
(***************************************************************************)
EXTENDS AgentLoop, PoolOps

CONSTANTS HeadLen, SepLen,
          DubboLen,     \* tokens of a dubbo request
          BufIn,        \* PROVIDER_HTTP_REQ_BUF_SIZE
          BufResp,      \* PROVIDER_DUBBO_RESP_BUF_SIZE
          NumCaa,       \* NUM_CONN_FOR_CONSUMER_AGENT, NUM_CONN_TO_PROVIDER
          MaxGot        \* bound: no short write to a client that has got as many tokens

ASSUME ProviderAssumption ==
    /\ {HeadLen, SepLen, DubboLen, BufIn, BufResp, NumCaa} \subseteq Nat \ {0}
    /\ HeadLen + SepLen <= ReqLen /\ RespLen > 1
    /\ NumFds > NumCaa

Caa == 1 .. NumCaa

VARIABLES caa,       \* the connection_caa objects
          caaPool,   \* connection_caa_pool
          apFd,      \* fd of each connection_ap
          local      \* the local provider's ends of the connections

ownVars == <<caa, caaPool, apFd, local>>
vars == <<loopVars, ownVars>>

(* A dubbo request says which HTTP request it was made of; Garbled stands  *)
(* for one that none was: a part of its argument is missing.               *)
Garbled == 0
NoReq == <<>>

(* A parser is the position in the message it is parsing, or ParserError   *)
(* (http_errno, which only http_parser_init clears).                       *)
ParserError == -1

(* A connection_caa: nread_resp is Len(buf_resp), len_req is 0 or          *)
(* DubboLen.  The fields other than fd are not read while fd < 0 and are   *)
(* set when the object is taken from the pool.                             *)
Closed == [fd |-> -1, nread_in |-> 0, parser |-> 0, processing |-> FALSE,
           buf_req |-> NoReq, nwrite_req |-> 0, buf_resp |-> <<>>]

(* What provider_init leaves behind: every connection_caa queued and bound *)
(* to a connected connection_ap.                                           *)
Init ==
    /\ caa = [c \in Caa |-> Closed]
    /\ caaPool = FullPool([i \in 1 .. NumCaa |-> i])
    /\ apFd = [c \in Caa |-> c]
    /\ LoopInit("ap", NumCaa)
    /\ local = [c \in Caa |-> [inq |-> <<>>, out |-> <<>>]]

-----------------------------------------------------------------------------
ReturnOnly == UNCHANGED <<ownVars, el, sock, pc, stop, client>>

(* "Connection closed for socket, ignore": the events on fd are dropped. *)
Ignore(fd) ==
    /\ el' = FileEventDeleted(el, fd, ReadWrite)
    /\ UNCHANGED <<ownVars, sock, pc, stop, client>>

Crash == Segfault /\ UNCHANGED ownVars

(* Mutant: the events on the connection to the local provider stay. *)
abort_connection_caaM(c, r, s, pool, times) ==
    LET fds == {r.fd, apFd[c]} \cap Fds
    IN /\ el' = KernelForgets(DropEvents(el, r.fd), fds)
       /\ sock' = CloseFds(s, fds)
       /\ client' = Disconnected(s, r.fd)
       /\ caa' = [caa EXCEPT ![c] = Closed]
       /\ apFd' = [apFd EXCEPT ![c] = -1]
       /\ caaPool' = PoolReturned(pool, c)
(* abort_connection_caa for the object c with the contents r, called       *)
(* `times' times in a row: both descriptors are dropped from the loop and  *)
(* closed, the object goes back to the pool each time, and connection_ap   *)
(* stays bound to it with the descriptor -1.                               *)
abort_connection_caa(c, r, s, pool, times) ==
    LET fds == {r.fd, apFd[c]} \cap Fds
    IN /\ el' = KernelForgets(DropEvents(DropEvents(el, r.fd), apFd[c]), fds)
       /\ sock' = CloseFds(s, fds)
       /\ client' = Disconnected(s, r.fd)
       /\ caa' = [caa EXCEPT ![c] = Closed]
       /\ apFd' = [apFd EXCEPT ![c] = -1]
       /\ caaPool' = IF times = 1 THEN PoolReturned(pool, c)
                                  ELSE PoolReturned(PoolReturned(pool, c), c)

AbortAndReturn(c) ==
    abort_connection_caa(c, caa[c], sock, caaPool, 1) /\ UNCHANGED <<pc, local>>

-----------------------------------------------------------------------------
(* accept_tcp_handler: one accept per call, then provider_http_handler.    *)
(* An object that PoolGet has to allocate (one was dropped after it had    *)
(* been returned twice) finds no connection_ap left, and                   *)
(* init_connection_caa aborts it by its uninitialised fields.              *)
accept_tcp_handler ==
    IF ~CanAccept THEN ReturnOnly
    ELSE \E k \in Backlog :
        LET fd == NewFd(sock)
            s == [sock EXCEPT ![fd] = Sock("client", k)]
            c == PoolTop(caaPool)
            r == [Closed EXCEPT !.fd = fd]
        IN \/ /\ PoolExhausted(caaPool)
              /\ client' = [client EXCEPT ![k].st = "closed"]
              /\ UNCHANGED <<ownVars, el, sock, pc, stop>>
           \/ ~PoolHasElement(caaPool) /\ PoolMayGrow(caaPool) /\ Crash
           \/ /\ PoolHasElement(caaPool) /\ CreateOk(fd)
              /\ client' = [client EXCEPT ![k].st = "connected"]
              /\ sock' = s
              /\ caaPool' = PoolPull(caaPool)
              /\ caa' = [caa EXCEPT ![c] = r]
              /\ el' = FileEventCreated(el, fd, {AE_READABLE}, "read_from_consumer_agent", c)
              /\ UNCHANGED <<apFd, local, pc, stop>>
           \/ /\ PoolHasElement(caaPool) /\ CreateErr(fd)
              /\ abort_connection_caa(c, r, s, PoolPull(caaPool), 1)
              /\ UNCHANGED <<local, pc, stop>>

-----------------------------------------------------------------------------
(* http_parser_execute, in the state r.parser, with on_http_body as its    *)
(* only callback, on a piece: the rest of a message and perhaps the        *)
(* beginning of the next.  The part of the body that is in the piece goes  *)
(* to on_http_body in one call, which returns true, an error of the parser *)
(* (HPE_CB_body), while the object is processing a request.  `short': the  *)
(* parser returns less than it was given, which is so unless the callback  *)
(* that fails was the one at the very end of the piece.                    *)
Parse(r, piece) ==
    LET fits == r.parser # ParserError /\ piece # <<>> /\ piece[1][3] = r.parser + 1
        end == r.parser + Len(piece)
        this == Prefix(piece, IF end < ReqLen THEN Len(piece) ELSE ReqLen - r.parser)
        next == Len(piece) - Len(this)
        body == Suffix(this, IF r.parser < HeadLen THEN HeadLen - r.parser ELSE 0)
        refused == body # <<>> /\ r.processing
        nextRefused == next > HeadLen          \* the first message is being processed
    IN IF ~fits THEN [pos |-> ParserError, body |-> <<>>, short |-> TRUE]
       ELSE [pos |-> IF refused \/ nextRefused THEN ParserError ELSE end % ReqLen,
             body |-> IF refused THEN <<>> ELSE body,
             short |-> (refused /\ end >= ReqLen) \/ (nextRefused /\ next >= ReqLen)]

(* The dubbo request on_http_body makes of a piece of a body.  strchr runs *)
(* past a piece that lacks a separator, into what the buffer held before.  *)
DubboRequest(body) ==
    <<body[1][1], IF Len(body) = ReqLen - HeadLen THEN body[1][2] ELSE Garbled>>

(* The end of on_http_body: the object c, with the contents r, is to be    *)
(* served by its connection_ap.  When the first registration fails the     *)
(* connection is aborted and the code goes on; the second fails as well.   *)
ForwardRequest(c, r, s) ==
    LET afd == apFd[c]
        withW == FileEventCreated(el, afd, {AE_WRITABLE}, "write_to_local_provider", c)
    IN \/ /\ CreateOk(afd)
          /\ caa' = [caa EXCEPT ![c] = r]
          /\ sock' = s
          /\ el' = FileEventCreated(withW, afd, {AE_READABLE}, "read_from_local_provider", c)
          /\ UNCHANGED <<caaPool, apFd, client>>
       \/ /\ CreateErr(afd)
          /\ \E times \in IF CreateOk(afd) THEN 1 .. 2 ELSE {2} :
              abort_connection_caa(c, r, s, caaPool, times)

(* Mutant: conn_caa->fd is not reset. *)
ClientClosedM(fd, c) ==
    /\ el' = KernelForgets(FileEventDeleted(el, fd, ReadWrite), {fd})
    /\ caaPool' = PoolReturned(caaPool, c)
    /\ sock' = CloseFds(sock, {fd})
    /\ client' = Disconnected(sock, fd)
    /\ UNCHANGED <<caa, apFd, local, pc, stop>>
(* "Consumer agent closed connection": connection_ap and its events are    *)
(* left as they are.                                                       *)
ClientClosed(fd, c) ==
    /\ el' = KernelForgets(FileEventDeleted(el, fd, ReadWrite), {fd})
    /\ caaPool' = PoolReturned(caaPool, c)
    /\ caa' = [caa EXCEPT ![c] = Closed]
    /\ sock' = CloseFds(sock, {fd})
    /\ client' = Disconnected(sock, fd)
    /\ UNCHANGED <<apFd, local, pc, stop>>

read_from_consumer_agent(fd, c) ==
    LET space == BufIn - caa[c].nread_in
        result == ReadResult(sock[fd], space)
        piece == Received(sock[fd], space)
        x == Parse(caa[c], piece)
        r == [caa[c] EXCEPT !.parser = x.pos, !.processing = @ \/ x.body # <<>>,
                            !.nread_in = IF x.short THEN 0 ELSE @ + Len(piece)]
        s == AfterRead(sock, fd, space)
    IN IF caa[c].fd < 0 THEN Ignore(fd) ELSE
       \/ /\ result = "data" /\ x.body = <<>>
          /\ caa' = [caa EXCEPT ![c] = r]
          /\ sock' = s
          /\ UNCHANGED <<caaPool, apFd, local, el, pc, stop, client>>
       \/ /\ result = "data" /\ x.body # <<>>
          /\ ForwardRequest(c, [r EXCEPT !.buf_req = DubboRequest(x.body)], s)
          /\ UNCHANGED <<local, pc, stop>>
       \/ result = "data" /\ x.body # <<>> /\ Len(x.body) < SepLen /\ Crash
       \/ result = "again" /\ ReturnOnly
       \/ result = "error" /\ AbortAndReturn(c) /\ UNCHANGED stop
       \/ result = "eof" /\ ClientClosed(fd, c)

(* buf_req from nwrite_req up to len_req. *)
RequestLeft(r) ==
    IF r.buf_req = NoReq THEN <<>>
    ELSE [i \in 1 .. DubboLen - r.nwrite_req |-> <<r.buf_req[1], r.buf_req[2], r.nwrite_req + i>>]

write_to_local_provider(fd, c) ==
    LET rest == RequestLeft(caa[c])
    IN IF caa[c].fd < 0 THEN Ignore(fd) ELSE
       \/ /\ ~WriteFails(fd)
          /\ \E n \in Writes(rest) :
              /\ sock' = AfterWrite(sock, fd, n)
              /\ local' = IF sock[fd].st = "open"
                          THEN [local EXCEPT ![sock[fd].peer].inq = @ \o Prefix(rest, n)] ELSE local
              /\ caa' = [caa EXCEPT ![c].nwrite_req = @ + n]
              /\ el' = IF n = Len(rest) THEN FileEventDeleted(el, fd, {AE_WRITABLE}) ELSE el
          /\ UNCHANGED <<caaPool, apFd, pc, stop, client>>
       \/ WriteFails(fd) /\ AbortAndReturn(c) /\ MaySigpipe

(* Mutant: a header is enough. *)
ResponseCompleteM(buf) == Len(buf) >= 1
(* The header and as much data as it announces have been read.  Its        *)
(* request id is not looked at.                                            *)
ResponseComplete(buf) == Len(buf) > 1 /\ Len(buf) >= RespLen

(* Mutant: what is in the buffer is not taken off. *)
ResponseSpaceM(r) == BufResp
ResponseSpace(r) == BufResp - Len(r.buf_resp)

read_from_local_provider(fd, c) ==
    LET space == ResponseSpace(caa[c])
        result == ReadResult(sock[fd], space)
        r == [caa[c] EXCEPT !.buf_resp = @ \o Received(sock[fd], space)]
        s == AfterRead(sock, fd, space)
    IN IF caa[c].fd < 0 THEN Ignore(fd) ELSE
       \/ /\ result = "data" /\ (ResponseComplete(r.buf_resp) => CreateOk(r.fd))
          /\ caa' = [caa EXCEPT ![c] = r]
          /\ sock' = s
          /\ el' = IF ResponseComplete(r.buf_resp)
                   THEN FileEventCreated(el, r.fd, {AE_WRITABLE}, "write_to_consumer_agent", c) ELSE el
          /\ UNCHANGED <<caaPool, apFd, local, pc, stop, client>>
       \/ /\ result = "data" /\ ResponseComplete(r.buf_resp) /\ CreateErr(r.fd)
          /\ abort_connection_caa(c, r, s, caaPool, 1)
          /\ UNCHANGED <<local, pc, stop>>
       \/ result = "again" /\ ReturnOnly
       \/ result \in {"error", "eof"} /\ AbortAndReturn(c) /\ UNCHANGED stop

(* The HTTP response made of buf_resp.  Its data is a string, which ends   *)
(* in the header of whatever follows the first response; the few bytes of  *)
(* that header, and a Content-Length that counts all of nread_resp, are    *)
(* abstracted.                                                             *)
HttpResponse(r) == Prefix(r.buf_resp, RespLen)

(* Mutant: the request stays in its buffer. *)
ResponseDoneM(r) == [Closed EXCEPT !.fd = r.fd, !.nread_in = r.nread_in]
(* Mutant: the response stays in its buffer. *)
ResponseDoneN(r) == [Closed EXCEPT !.fd = r.fd, !.buf_resp = r.buf_resp]
(* http_parser_init, "Reset buf pointer", processing = false *)
ResponseDone(r) == [Closed EXCEPT !.fd = r.fd]

(* The response is made and written from its beginning every time. *)
write_to_consumer_agent(fd, c) ==
    LET response == HttpResponse(caa[c])
    IN IF caa[c].fd < 0 THEN Ignore(fd) ELSE
       \/ /\ ~WriteFails(fd)
          /\ \E n \in Writes(response) :
              /\ n < Len(response) => Len(client[sock[fd].peer].got) < MaxGot
              /\ sock' = AfterWrite(sock, fd, n)
              /\ client' = DeliverToClient(fd, Prefix(response, n))
              /\ IF n = Len(response)
                 THEN /\ el' = FileEventDeleted(el, fd, {AE_WRITABLE})
                      /\ caa' = [caa EXCEPT ![c] = ResponseDone(@)]
                 ELSE UNCHANGED <<el, caa>>
          /\ UNCHANGED <<caaPool, apFd, local, pc, stop>>
       \/ WriteFails(fd) /\ AbortAndReturn(c) /\ MaySigpipe

-----------------------------------------------------------------------------
DispatchAccept == Calls(ListenFd, AE_READABLE, "accept_tcp_handler") /\ accept_tcp_handler

DispatchReadFromConsumerAgent ==
    \E fd \in Fds : /\ Calls(fd, AE_READABLE, "read_from_consumer_agent")
                    /\ read_from_consumer_agent(fd, el.events[fd].clientData)
DispatchWriteToLocalProvider ==
    \E fd \in Fds : /\ Calls(fd, AE_WRITABLE, "write_to_local_provider")
                    /\ write_to_local_provider(fd, el.events[fd].clientData)
DispatchReadFromLocalProvider ==
    \E fd \in Fds : /\ Calls(fd, AE_READABLE, "read_from_local_provider")
                    /\ read_from_local_provider(fd, el.events[fd].clientData)
DispatchWriteToConsumerAgent ==
    \E fd \in Fds : /\ Calls(fd, AE_WRITABLE, "write_to_consumer_agent")
                    /\ write_to_consumer_agent(fd, el.events[fd].clientData)

Agent ==
    \/ Loop /\ UNCHANGED ownVars
    \/ DispatchAccept
    \/ DispatchReadFromConsumerAgent \/ DispatchWriteToLocalProvider
    \/ DispatchReadFromLocalProvider \/ DispatchWriteToConsumerAgent
=============================================================================
