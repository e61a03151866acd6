----------------------------- MODULE Forwarding -----------------------------
(***************************************************************************)
(* What an agent promises the clients connected to it, be they consumers   *)
(* or consumer agents: each client asks one request at a time and is sent  *)
(* the answer to that request, to its end and in order, and nothing else;  *)
(* a request that has been asked is answered unless the client itself goes *)
(* away.  An implementation may close a connection, but owes the answer.   *)
(*                                                                         *)
(* Both agents implement it among well-behaved peers (ConsumerSystem,      *)
(* ProviderSystem).  What the provider agent promises here is what         *)
(* ConsumerSystem expects of the other end of its connections.             *)
(***************************************************************************)
EXTENDS Integers, Sequences

CONSTANTS Clients, RespLen

VARIABLES asked,   \* requests each client has begun to send
          got,     \* what each client has been sent
          gone     \* the clients that have left of their own accord

fwdVars == <<asked, got, gone>>

(* The i-th token a client is to receive. *)
Due(k, i) == <<k, 1 + (i - 1) \div RespLen, 1 + ((i - 1) % RespLen)>>

FwdInit ==
    /\ asked = [k \in Clients |-> 0]
    /\ got = [k \in Clients |-> <<>>]
    /\ gone = {}

Ask(k) ==
    /\ k \notin gone /\ Len(got[k]) = asked[k] * RespLen
    /\ asked' = [asked EXCEPT ![k] = @ + 1]
    /\ UNCHANGED <<got, gone>>

(* The next part of the answer. *)
Answer(k) ==
    /\ k \notin gone
    /\ \E n \in Len(got[k]) + 1 .. asked[k] * RespLen :
        got' = [got EXCEPT ![k] = [i \in 1 .. n |-> IF i <= Len(@) THEN @[i] ELSE Due(k, i)]]
    /\ UNCHANGED <<asked, gone>>

Leave(k) ==
    /\ k \notin gone
    /\ gone' = gone \union {k}
    /\ UNCHANGED <<asked, got>>

FwdNext == \E k \in Clients : Ask(k) \/ Answer(k) \/ Leave(k)

(* What is sent, and that it is sent. *)
FwdSafety == FwdInit /\ [][FwdNext]_fwdVars
FwdLiveness == \A k \in Clients : WF_fwdVars(Answer(k))
=============================================================================
