----------------------------- MODULE AgentLoop -----------------------------
(***************************************************************************)
(* What the two agents have in common: one process whose event loop polls  *)
(* a batch of ready descriptors and calls their handlers, the kernel's     *)
(* sockets, and the clients at the other end of the accepted connections.  *)
(* Clients are consumers for the consumer agent and consumer agents'       *)
(* connections for the provider agent.                                     *)
(*                                                                         *)
(* Handlers are called in any order (the kernel's ready list), readable    *)
(* before writable for one descriptor, each if it is still registered      *)
(* (see EventLoop).  A handler runs to its end in one step: one thread,    *)
(* and at most one read or write of a socket.                              *)
(*                                                                         *)
(* A byte is a token <<client, request, position>>; the answer to a        *)
(* request consists of tokens with the same client and request.            *)
(***************************************************************************)
EXTENDS AeOps, SockOps, FiniteSets

CONSTANTS Clients,          \* connections to the agent, each used once
          Requests,         \* requests per connection
          ReqLen, RespLen,  \* tokens of a request and of its answer
          NumFds,           \* descriptors the process may have
          SetSize,          \* EV_MAX_SET_SIZE
          Faults            \* what the environment may do

(* "midclose"    a client closes before its request is answered            *)
(* "reset"       a client's connection is reset                            *)
(* "peerclose"   a connection the agent has opened is closed at its other  *)
(*               end: by a provider agent, by the local provider           *)
(* "splithead"   a request arrives in pieces cut at the end of its HTTP    *)
(*               head or before                                            *)
(* "splitreq"    a request arrives in pieces cut anywhere                  *)
(* "splitresp"   an answer arrives in pieces                               *)
(* "shortwrite"  write takes fewer bytes than it was given                 *)
(* "slow"        a registered socket is not always writable                *)
(* "epoll"       epoll_ctl fails for want of kernel memory                 *)
AllFaults == {"midclose", "reset", "peerclose", "splithead", "splitreq", "splitresp",
              "shortwrite", "slow", "epoll"}
ASSUME FaultsAssumption == Faults \subseteq AllFaults
ASSUME LoopAssumption ==
    {Requests, ReqLen, RespLen, NumFds, SetSize} \subseteq Nat \ {0}

Fds == 0 .. NumFds - 1
ListenFd == 0
NoConn == 0

VARIABLES el,        \* the event loop
          sock,      \* the kernel's sockets by descriptor
          batch,     \* <<fd, event>> reported and not dispatched yet
          cur,       \* the descriptor whose writable event is next, or -1
          pc,        \* "running", "exited", "crashed"
          stop,      \* eventLoop->stop
          client     \* the clients

loopVars == <<el, sock, batch, cur, pc, stop, client>>

(* The state monitor_accepts leaves behind, with the connections 1 .. n    *)
(* that the agent has opened to its peers.                                 *)
LoopInit(kind, n) ==
    /\ sock = [fd \in Fds |-> CASE fd = ListenFd -> Sock("listen", NoConn)
                                [] fd \in 1 .. n -> Sock(kind, fd)
                                [] OTHER -> NoSock]
    /\ el = FileEventCreated(
              [setsize |-> SetSize, maxfd |-> -1,
               events |-> [fd \in Fds |-> EmptySlot("none", NoConn)],
               epoll |-> [fd \in Fds |-> NotMonitored]],
              ListenFd, {AE_READABLE}, "accept_tcp_handler", NoConn)
    /\ batch = {} /\ cur = -1 /\ pc = "running" /\ stop = FALSE
    /\ client = [k \in Clients |-> [st |-> "idle", reqs |-> 0, sent |-> 0, got |-> <<>>]]

-----------------------------------------------------------------------------
(* What the agents' handlers share *)

(* How many of the remaining tokens one write may take. *)
Writes(rest) ==
    IF rest = <<>> THEN {0}
    ELSE IF "shortwrite" \in Faults THEN 1 .. Len(rest) ELSE {Len(rest)}

(* A write that fails may raise SIGPIPE, whose handler calls aeStop. *)
MaySigpipe == stop' \in {stop, TRUE}

(* SIGSEGV, whose handler calls abort. *)
Segfault == pc' = "crashed" /\ UNCHANGED <<el, sock, stop, client>>

(* May a call of aeCreateFileEvent return AE_OK, may it return AE_ERR? *)
CreateOk(fd) == fd >= 0 /\ CreateAccepted(el, fd)
CreateErr(fd) == "epoll" \in Faults \/ ~CreateOk(fd)

DropEvents(l, fd) == IF fd < 0 THEN l ELSE FileEventDeleted(l, fd, ReadWrite)
(* close takes a descriptor out of the interest list. *)
KernelForgets(l, fds) == [l EXCEPT !.epoll = [fd \in Fds |-> IF fd \in fds THEN NotMonitored ELSE @[fd]]]

(* The connection fd of a client is closed: the client has "left" if it    *)
(* had closed or reset it before, and is "closed" if the agent closes      *)
(* first: in an abort, after a failed accept, or because a read into a     *)
(* full buffer returns 0.                                                  *)
Disconnected(s, fd) ==
    [k \in Clients |-> IF fd \in Fds /\ s[fd].kind = "client" /\ s[fd].peer = k
                       THEN [client[k] EXCEPT !.st = IF s[fd].st = "open" THEN "closed" ELSE "left"]
                       ELSE client[k]]

(* The peer has closed or reset the connection before the write. *)
WriteFails(fd) == sock[fd].st = "rst"
(* The tokens that the client at the other end of fd receives. *)
DeliverToClient(fd, tokens) ==
    IF sock[fd].st = "open" /\ sock[fd].kind = "client"
    THEN [client EXCEPT ![sock[fd].peer].got = @ \o tokens] ELSE client

Backlog == {k \in Clients : client[k].st = "backlog"}
(* anetTcpAccept finds somebody and a free descriptor. *)
CanAccept == Backlog # {} /\ FreeFds(sock) # {}

-----------------------------------------------------------------------------
(* aeMain, aeApiPoll and the dispatch of aeProcessEvents.  These actions   *)
(* say nothing of the agents' own variables.                               *)

Registered(fd, ev) == ev \in el.events[fd].mask

(* What epoll reports of a descriptor.  A reset is an EPOLLHUP, which      *)
(* aeApiPoll turns into AE_WRITABLE.                                       *)
Readable(fd) ==
    IF fd = ListenFd THEN Backlog # {} ELSE sock[fd].inq # <<>> \/ sock[fd].st # "open"
MustReport ==
    {<<fd, AE_READABLE>> : fd \in {f \in Fds : Registered(f, AE_READABLE) /\ Readable(f)}}
      \union {<<fd, AE_WRITABLE>> : fd \in {f \in Fds : el.events[f].mask # {} /\ sock[f].st = "rst"}}
MayReport == {<<fd, AE_WRITABLE>> : fd \in {f \in Fds : Registered(f, AE_WRITABLE)}}

Poll ==
    /\ pc = "running" /\ batch = {} /\ ~stop
    /\ \E writable \in IF "slow" \in Faults THEN SUBSET MayReport ELSE {MayReport} :
        batch' = MustReport \union writable
    /\ batch' # {}
    /\ UNCHANGED <<el, sock, cur, pc, stop, client>>

Exit ==
    /\ pc = "running" /\ batch = {} /\ stop
    /\ pc' = "exited"
    /\ UNCHANGED <<el, sock, batch, cur, stop, client>>

(* Take an entry of the batch: a descriptor's writable event directly      *)
(* follows its readable one.                                               *)
Take(fd, ev) ==
    /\ pc = "running" /\ <<fd, ev>> \in batch
    /\ cur \in {-1, fd}
    /\ ev = AE_WRITABLE => <<fd, AE_READABLE>> \notin batch
    /\ batch' = batch \ {<<fd, ev>>}
    /\ cur' = IF <<fd, AE_WRITABLE>> \in batch' THEN fd ELSE -1

Calls(fd, ev, proc) ==
    /\ Take(fd, ev)
    /\ Registered(fd, ev)
    /\ proc = IF ev = AE_READABLE THEN el.events[fd].rfileProc ELSE el.events[fd].wfileProc

(* An event that a handler called before has unregistered. *)
DispatchNothing ==
    \E fd \in Fds, ev \in ReadWrite :
        /\ Take(fd, ev)
        /\ ~Registered(fd, ev)
        /\ UNCHANGED <<el, sock, pc, stop, client>>

Loop == Poll \/ Exit \/ DispatchNothing

-----------------------------------------------------------------------------
(* The clients *)

SocketOf(kind, peer) == CHOOSE fd \in Fds : sock[fd].kind = kind /\ sock[fd].peer = peer
Answered(k) == Len(client[k].got) >= client[k].reqs * RespLen
Connected(k) == pc = "running" /\ client[k].st = "connected"

Connect ==
    /\ pc = "running"
    /\ \E k \in Clients :
        /\ client[k].st = "idle"
        /\ client' = [client EXCEPT ![k].st = "backlog"]
    /\ UNCHANGED <<el, sock, batch, cur, pc, stop>>

(* A client begins its next request when the last one is answered and      *)
(* sends it up to one of the positions `cuts' allows.                      *)
SendRequest(k, cuts) ==
    LET started == client[k].sent > 0
        req == IF started THEN client[k].reqs ELSE client[k].reqs + 1
        fd == SocketOf("client", k)
    IN /\ Connected(k) /\ sock[fd].st = "open"
       /\ started \/ (Answered(k) /\ client[k].reqs < Requests)
       /\ \E n \in cuts :
           /\ n > client[k].sent
           /\ sock' = [sock EXCEPT ![fd].inq =
                         @ \o [i \in 1 .. n - client[k].sent |-> <<k, req, client[k].sent + i>>]]
           /\ client' = [client EXCEPT ![k].reqs = req, ![k].sent = IF n = ReqLen THEN 0 ELSE n]
       /\ UNCHANGED <<el, batch, cur, pc, stop>>

ClientLeaves(k, st) ==
    /\ Connected(k)
    /\ sock' = [sock EXCEPT ![SocketOf("client", k)].st = st]
    /\ UNCHANGED <<el, batch, cur, pc, stop, client>>

Disconnect(k) ==
    /\ Connected(k) /\ sock[SocketOf("client", k)].st = "open"
    /\ "midclose" \in Faults \/ (Answered(k) /\ client[k].sent = 0)
    /\ ClientLeaves(k, "eof")

Reset(k) ==
    /\ "reset" \in Faults
    /\ Connected(k) /\ sock[SocketOf("client", k)].st # "rst"
    /\ ClientLeaves(k, "rst")

-----------------------------------------------------------------------------
Promise == INSTANCE Forwarding WITH
    asked <- [k \in Clients |-> client[k].reqs],
    got <- [k \in Clients |-> client[k].got],
    gone <- {k \in Clients : client[k].st = "left"}

(* Among well-behaved peers an agent keeps Forwarding's promise: over      *)
(* connections and objects that are shared in turn ("transparent TCP       *)
(* forwarding", README.md:29), every client gets the answers to its own    *)
(* requests, in their order, and nothing else.                             *)
RefinesForwarding == Promise!FwdSafety

(* And it gets all of them: an answer that is due goes on being written    *)
(* until it is complete, unless the client itself goes away.  The agent    *)
(* does not get out of it by closing the connection: a client that is      *)
(* "closed" has not left.                                                  *)
AnswersEveryRequest == Promise!FwdLiveness
=============================================================================
