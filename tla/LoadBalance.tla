---------------------------- MODULE LoadBalance ----------------------------
(***************************************************************************)
(* The consumer agent's choice of an endpoint (consumer.c).  An endpoint   *)
(* list is a function from 0 .. n-1; outstanding gives the items in use of *)
(* each endpoint's connection pool.                                        *)
(***************************************************************************)
EXTENDS Integers

(* The scan both selections make: an entry replaces the best one so far    *)
(* only when it is smaller, so the first of the smallest is found.         *)
FirstMin(f) ==
    CHOOSE i \in DOMAIN f : \A j \in DOMAIN f : f[i] < f[j] \/ (f[i] = f[j] /\ i <= j)

get_endpoint_least_loaded(outstanding) == FirstMin(outstanding)

(* Mutant: the protection threshold is left out. *)
get_endpoint_min_latencyM(num_reqs, latency, outstanding, balance, protect) ==
    IF num_reqs[0] < balance THEN get_endpoint_least_loaded(outstanding)
    ELSE FirstMin(latency)
(* The average latency decides once endpoint 0 has served `balance'        *)
(* requests, unless the fastest endpoint already has `protect' connections *)
(* in use.  latency[i] is total_ms / num_reqs.                             *)
get_endpoint_min_latency(num_reqs, latency, outstanding, balance, protect) ==
    IF num_reqs[0] < balance THEN get_endpoint_least_loaded(outstanding)
    ELSE LET fastest == FirstMin(latency)
         IN IF outstanding[fastest] >= protect
            THEN get_endpoint_least_loaded(outstanding)
            ELSE fastest
=============================================================================
