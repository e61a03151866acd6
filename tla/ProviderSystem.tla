--------------------------- MODULE ProviderSystem ---------------------------
(***************************************************************************)
(* The provider agent between its clients and the local provider, which is *)
(* not part of the program: what it may do and what the agent guarantees.  *)
(***************************************************************************)
EXTENDS ProviderAgent

(* Where a client may pause in sending its request. *)
Cuts ==
    IF "splitreq" \in Faults THEN 1 .. ReqLen
    ELSE IF "splithead" \in Faults THEN 1 .. HeadLen \union {ReqLen} ELSE {ReqLen}
EnvVars == <<el, batch, cur, pc, stop, client, caa, caaPool, apFd>>

LocalAlive(c) == pc = "running" /\ apFd[c] >= 0 /\ sock[apFd[c]].st = "open"

(* The local provider answers what it has read; a frame that is put        *)
(* together from two requests gets an answer to neither.  With "splitresp" *)
(* the answer leaves it in pieces.                                         *)
LocalAnswer(c) ==
    LET q == local[c].inq
        whole == \A i \in 1 .. DubboLen : q[i] = <<q[1][1], q[1][2], i>>
        out == [i \in 1 .. RespLen |-> <<q[1][1], IF whole THEN q[1][2] ELSE Garbled, i>>]
    IN /\ LocalAlive(c) /\ local[c].out = <<>> /\ Len(q) >= DubboLen
       /\ \E m \in IF "splitresp" \in Faults THEN 1 .. RespLen ELSE {RespLen} :
           /\ sock' = [sock EXCEPT ![apFd[c]].inq = @ \o Prefix(out, m)]
           /\ local' = [local EXCEPT ![c] = [inq |-> Suffix(q, DubboLen), out |-> Suffix(out, m)]]
       /\ UNCHANGED EnvVars

LocalContinue(c) ==
    /\ LocalAlive(c) /\ local[c].out # <<>>
    /\ sock' = [sock EXCEPT ![apFd[c]].inq = @ \o local[c].out]
    /\ local' = [local EXCEPT ![c].out = <<>>]
    /\ UNCHANGED EnvVars

LocalClose(c) ==
    /\ LocalAlive(c)
    /\ "peerclose" \in Faults
    /\ sock' = [sock EXCEPT ![apFd[c]].st = "eof"]
    /\ UNCHANGED <<EnvVars, local>>

ClientStep ==
    \/ Connect
    \/ \E k \in Clients : SendRequest(k, Cuts) \/ Disconnect(k) \/ Reset(k)

Environment ==
    \/ ClientStep /\ UNCHANGED ownVars
    \/ \E c \in Caa : LocalAnswer(c) \/ LocalContinue(c) \/ LocalClose(c)

Next == Agent \/ Environment

(* The agent is scheduled and the local provider answers; clients need not *)
(* do anything, but a request begun is sent to its end.                    *)
Fairness ==
    /\ WF_vars(Agent)
    /\ \A c \in Caa : WF_vars(LocalAnswer(c) \/ LocalContinue(c))
    /\ \A k \in Clients : WF_vars(client[k].sent > 0 /\ SendRequest(k, Cuts) /\ UNCHANGED ownVars)

Spec == Init /\ [][Next]_vars /\ Fairness

-----------------------------------------------------------------------------
Tokens == Clients \X (0 .. Requests) \X (1 .. ReqLen + RespLen + DubboLen)

(* Types and buffer positions. *)
TypeOK ==
    /\ \A c \in Caa :
        /\ caa[c].fd \in Fds \union {-1} /\ caa[c].processing \in BOOLEAN
        /\ caa[c].nread_in \in 0 .. BufIn /\ caa[c].parser \in -1 .. ReqLen - 1
        /\ caa[c].nwrite_req \in 0 .. DubboLen
        /\ caa[c].buf_resp \in Seq(Tokens) /\ Len(caa[c].buf_resp) <= BufResp
    /\ apFd \in [Caa -> Fds \union {-1}]
    /\ pc \in {"running", "exited", "crashed"} /\ stop \in BOOLEAN

(* An event on a descriptor is one of the object that owns it or of the    *)
(* connection to the local provider bound to that object, and a registered *)
(* descriptor is an open socket.                                           *)
NoStrayDescriptor ==
    /\ \A fd \in Fds : el.events[fd].mask # {} => sock[fd].kind # "free"
    /\ \A c \in Caa : apFd[c] >= 0 =>
        /\ sock[apFd[c]].kind = "ap" /\ sock[apFd[c]].peer = c
        /\ el.events[apFd[c]].mask # {} => el.events[apFd[c]].clientData = c

Owns(c, fd) == caa[c].fd = fd
InPool(c) == \E i \in DOMAIN caaPool.alloc_stack : caaPool.alloc_stack[i] = c

(* As long as no connection to the local provider has been aborted, every  *)
(* accepted socket belongs to exactly one object, out of the pool and      *)
(* counted there once.                                                     *)
HealthyOwnership ==
    (\A c \in Caa : apFd[c] >= 0) =>
        /\ \A c \in Caa : InPool(c) <=> caa[c].fd = -1
        /\ \A fd \in Fds : sock[fd].kind = "client" =>
            \E c \in Caa : \A d \in Caa : Owns(d, fd) <=> d = c
        /\ caaPool.outstanding = Cardinality({c \in Caa : caa[c].fd # -1})

(* `outstanding' is the "counter of data items 'in use'" (pool.h:67) for   *)
(* the pool of connections from consumer agents.                           *)
OutstandingInUse == caaPool.outstanding = Cardinality({c \in Caa : caa[c].fd # -1})

(* A writable event is registered for a consumer agent only while the      *)
(* object that serves it holds a whole response, also when the object and  *)
(* its connection to the local provider have had another client before.    *)
OnlyWholeResponses ==
    \A fd \in Fds, c \in Caa :
        caa[c].fd = fd /\ Registered(fd, AE_WRITABLE) => Len(caa[c].buf_resp) >= RespLen
=============================================================================
