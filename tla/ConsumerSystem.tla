--------------------------- MODULE ConsumerSystem ---------------------------
(***************************************************************************)
(* The consumer agent between its consumers and the provider agents, which *)
(* are not part of the program: what they may do, what the environment may *)
(* do to the connections, and what the agent guarantees.                   *)
(***************************************************************************)
EXTENDS ConsumerAgent

(* Where a consumer may pause in sending its request. *)
Cuts == IF "splitreq" \in Faults THEN 1 .. ReqLen ELSE {ReqLen}
EnvVars == <<el, batch, cur, pc, stop, ca, caPool, apaFd, epPool, num_reqs>>

(* A provider agent answers the request it has read to its end; with        *)
(* "splitresp" the answer leaves it in pieces.                              *)
IsRequest(q) ==
    Len(q) >= ReqLen /\ \A i \in 1 .. ReqLen : q[i] = <<q[1][1], q[1][2], i>>

RemoteAlive(a) == apaFd[a] >= 0 /\ sock[apaFd[a]].st = "open"

RemoteAnswer(a) ==
    LET q == remote[a].inq
    IN /\ pc = "running" /\ RemoteAlive(a) /\ remote[a].out = <<>> /\ IsRequest(q)
       /\ LET out == [i \in 1 .. RespLen |-> <<q[1][1], q[1][2], i>>]
              n == IF "splitresp" \in Faults THEN 1 .. RespLen ELSE {RespLen}
          IN \E m \in n :
              /\ sock' = [sock EXCEPT ![apaFd[a]].inq = @ \o Prefix(out, m)]
              /\ remote' = [remote EXCEPT ![a] = [inq |-> Suffix(q, ReqLen), out |-> Suffix(out, m)]]
       /\ UNCHANGED <<EnvVars, client>>

RemoteContinue(a) ==
    /\ pc = "running" /\ RemoteAlive(a) /\ remote[a].out # <<>>
    /\ sock' = [sock EXCEPT ![apaFd[a]].inq = @ \o remote[a].out]
    /\ remote' = [remote EXCEPT ![a].out = <<>>]
    /\ UNCHANGED <<EnvVars, client>>

RemoteClose(a) ==
    /\ pc = "running" /\ RemoteAlive(a)
    /\ "peerclose" \in Faults
    /\ sock' = [sock EXCEPT ![apaFd[a]].st = "eof"]
    /\ UNCHANGED <<EnvVars, client, remote>>

ClientStep ==
    \/ Connect
    \/ \E k \in Clients : SendRequest(k, Cuts) \/ Disconnect(k) \/ Reset(k)

Environment ==
    \/ ClientStep /\ UNCHANGED ownVars
    \/ \E a \in Apa : RemoteAnswer(a) \/ RemoteContinue(a) \/ RemoteClose(a)

Next == Agent \/ Environment

(* The agent is scheduled and provider agents answer; consumers need not do *)
(* anything, but a request begun is sent to its end.                        *)
Fairness ==
    /\ WF_vars(Agent)
    /\ \A a \in Apa : WF_vars(RemoteAnswer(a) \/ RemoteContinue(a))
    /\ \A k \in Clients : WF_vars(client[k].sent > 0 /\ SendRequest(k, Cuts) /\ UNCHANGED ownVars)

Spec == Init /\ [][Next]_vars /\ Fairness

-----------------------------------------------------------------------------
Bytes == Clients \X (1 .. Requests) \X (1 .. ReqLen + RespLen)

(* Types, and the buffer positions: nwrite never passes nread, which never  *)
(* passes the end of the buffer, whatever order events come in.             *)
TypeOK ==
    /\ \A c \in Ca :
        /\ ca[c].fd \in Fds \union {-1} /\ ca[c].conn_apa \in Apa \union {NoConn}
        /\ ca[c].buf_in \in Seq(Bytes) /\ ca[c].buf_out \in Seq(Bytes)
        /\ 0 <= ca[c].nwrite_in /\ ca[c].nwrite_in <= Len(ca[c].buf_in) /\ Len(ca[c].buf_in) <= BufIn
        /\ 0 <= ca[c].nwrite_out /\ ca[c].nwrite_out <= Len(ca[c].buf_out) /\ Len(ca[c].buf_out) <= BufOut
    /\ apaFd \in [Apa -> Fds \union {-1}]
    /\ pc \in {"running", "exited", "crashed"} /\ stop \in BOOLEAN

InPool(c) == \E i \in DOMAIN caPool.alloc_stack : caPool.alloc_stack[i] = c
Distinct(s) == \A i, j \in DOMAIN s : s[i] = s[j] => i = j

(* Every accepted socket belongs to exactly one connection_ca, which is out *)
(* of the pool and is what the socket's events point to; a pooled object    *)
(* owns nothing and is pooled once.                                         *)
ConnectionOwnership ==
    /\ Distinct(caPool.alloc_stack)
    /\ \A c \in Ca : InPool(c) <=> ca[c].fd = -1
    /\ \A fd \in Fds : sock[fd].kind = "client" =>
        \E c \in Ca :
            /\ \A d \in Ca : ca[d].fd = fd <=> d = c
            /\ Registered(fd, AE_READABLE) /\ el.events[fd].clientData = c
            /\ el.events[fd].rfileProc = "read_from_consumer"

(* `outstanding' is "counter of data items 'in use'" (pool.h:67) for the    *)
(* pool of consumer connections: no connection is returned twice.           *)
OutstandingInUse ==
    /\ caPool.outstanding = Cardinality({c \in Ca : ca[c].fd # -1})
    /\ caPool.allocated = NumCa

(* A connection to a provider agent that is in its pool is open, has no     *)
(* event registered, and no connection_ca refers to it: the next request    *)
(* that takes it has it for itself.                                         *)
PooledConnectionIdle ==
    \A e \in Ep :
        /\ Distinct(epPool[e].alloc_stack)
        /\ \A i \in DOMAIN epPool[e].alloc_stack :
            LET a == epPool[e].alloc_stack[i]
            IN /\ EpOf(a) = e /\ apaFd[a] >= 0
               /\ sock[apaFd[a]].kind = "apa" /\ sock[apaFd[a]].peer = a
               /\ el.events[apaFd[a]].mask = {}
               /\ \A c \in Ca : ca[c].conn_apa # a

(* A registered descriptor is an open socket, so that no handler runs on a  *)
(* closed one, and no two consumer connections share a provider connection. *)
NoStrayDescriptor ==
    /\ \A fd \in Fds : el.events[fd].mask # {} => sock[fd].kind # "free"
    /\ \A c, d \in Ca : c # d /\ ca[c].conn_apa # NoConn => ca[c].conn_apa # ca[d].conn_apa

(* The load balancer sends a request to an exhausted pool, and so aborts    *)
(* its connection, only when every pool is exhausted.                       *)
NoNeedlessAbort ==
    (\E e \in Choices : PoolExhausted(epPool[e])) => \A e \in Ep : PoolExhausted(epPool[e])

(* No handler dereferences a NULL conn_apa. *)
NoCrash == pc # "crashed"

(* A provider connection that is out of its pool is in use by a consumer    *)
(* connection: none is lost.                                                *)
NoLeak ==
    \A e \in Ep :
        epPool[e].outstanding = Cardinality({c \in Ca : ca[c].conn_apa # NoConn /\ EpOf(ca[c].conn_apa) = e})
=============================================================================
