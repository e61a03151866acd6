----------------------------- MODULE Lifecycle ------------------------------
(***************************************************************************)
(* The life of the agents of a mesh: main.c, the start-up and the clean-up *)
(* of consumer.c and provider.c, and etcd.c, the client of the registry    *)
(* through which a consumer agent finds the provider agents.               *)
(*                                                                         *)
(* A provider agent listens, registers, connects to its local provider     *)
(* (retrying once a second) and serves; stopped by a signal it deregisters *)
(* and exits.  The consumer agent reads the registered keys once and       *)
(* connects to each before it serves.  Any of them may be killed, and      *)
(* started again.                                                          *)
(***************************************************************************)
EXTENDS Naturals, Sequences, FiniteSets, SequencesExt

CONSTANTS Providers, Consumer,
          NumConn,          \* NUM_CONN_PER_PROVIDER, NUM_CONN_TO_PROVIDER
          MaxStarts         \* starts of agents in all

Agents == Providers \cup {Consumer}
MaxEndpoints == 3           \* the array endpoints

(* on_etcd_service_endpoint does not test num_endpoints.                   *)
ASSUME LifecycleAssumption ==
    /\ Consumer \notin Providers /\ IsFiniteSet(Providers)
    /\ Cardinality(Providers) <= MaxEndpoints
    /\ NumConn \in Nat \ {0} /\ MaxStarts \in Nat

VARIABLES pc,         \* where each agent is in main
          loop,       \* agents with the_event_loop # NULL
          stop,       \* agents with the_event_loop->stop set
          listening,  \* agents whose listening socket is open
          found,      \* the keys the consumer agent has still to connect to
          conns,      \* connections each agent has opened, by provider
          store,      \* etcd: each provider agent's key
          directory,  \* etcd: the service's directory exists
          dubbo,      \* provider agents whose local provider accepts connections
          starts,     \* starts of agents so far
          unclean     \* agents that ended without removing their key (history)

process == <<pc, loop, stop, listening, found, conns>>
etcd == <<store, directory, unclean>>
vars == <<process, etcd, dubbo, starts>>

Ended == {"off", "exited", "failed", "crashed"}
Alive(a) == pc[a] \notin Ended

Init == /\ pc = [a \in Agents |-> "off"]
        /\ loop = {} /\ stop = {} /\ listening = {} /\ found = <<>>
        /\ conns = [a \in Agents |-> [e \in Providers |-> 0]]
        /\ store = [e \in Providers |-> "absent"]
        /\ directory = FALSE /\ dubbo = {} /\ unclean = {}
        /\ starts = 0

-----------------------------------------------------------------------------
(* The registry and its client.                                            *)

(* What becomes of a request performed by curl: answered, never arrived,   *)
(* done but its answer lost (curl gives up after 10 s), answered with      *)
(* something that is not etcd's JSON.                                      *)
Outcomes == {"ok", "refused", "lost", "junk"}
performRequest(outcome) == [curl |-> outcome \in {"ok", "junk"},
                            json |-> outcome = "ok",
                            done |-> outcome \in {"ok", "lost"}]

Expiring(ttl) == IF ttl > 0 THEN "leased" ELSE "kept"

(* etcd_set and etcd_del return 0 only for an answer with the node.  The   *)
(* URLs they build are not modelled; unlike etcd_set, etcd_del leaves the  *)
(* leading "/" of the key in it.                                           *)
etcd_set(e, ttl, r) ==
    IF r.done THEN store' = [store EXCEPT ![e] = Expiring(ttl)] /\ directory' = TRUE
              ELSE UNCHANGED <<store, directory>>

etcd_del(e, r) ==
    /\ store' = IF r.done THEN [store EXCEPT ![e] = "absent"] ELSE store
    /\ unclean' = IF r.done THEN unclean \ {e} ELSE unclean \cup {e}
    /\ UNCHANGED directory

Registered == {e \in Providers : store[e] # "absent"}

(* etcd_get_directory: what it returns, and the keys it calls back with.   *)
(* Every node has a modified index, so an empty directory is told by the   *)
(* index 0; a directory that does not exist, like a failed request, has no *)
(* "node" and returns 0.  (2 stands for the code's -1.)                    *)
etcd_get_directory(r) ==
    [ret |-> CASE ~r.curl -> 0
               [] r.curl /\ ~r.json -> 2
               [] r.json /\ ~directory -> 0
               [] r.json /\ directory -> IF Registered = {} THEN 1 ELSE 0,
     keys |-> IF r.json THEN Registered ELSE {}]

(* The lease runs out; nothing renews it.                                  *)
Expire(e) == /\ store[e] = "leased"
             /\ store' = [store EXCEPT ![e] = "absent"]
             /\ unclean' = unclean \ {e}
             /\ UNCHANGED <<process, directory, dubbo, starts>>

-----------------------------------------------------------------------------
(* What the end of a process leaves behind.                                *)
End(a, how) ==
    /\ pc' = [pc EXCEPT ![a] = how]
    /\ loop' = loop \ {a} /\ stop' = stop \ {a} /\ listening' = listening \ {a}
    /\ found' = IF a = Consumer THEN <<>> ELSE found
    /\ conns' = [conns EXCEPT ![a] = [e \in Providers |-> 0]]
    /\ UNCHANGED <<dubbo, starts>>

Abort(a) == /\ End(a, "crashed")
            /\ unclean' = unclean \cup ({a} \cap Registered)
            /\ UNCHANGED <<store, directory>>

(* main up to init_signals and etcd_init, whose status is not looked at.   *)
Start(a) ==
    /\ ~Alive(a) /\ starts < MaxStarts
    /\ pc' = [pc EXCEPT ![a] = "started"]
    /\ starts' = starts + 1
    /\ UNCHANGED <<loop, stop, listening, found, conns, etcd, dubbo>>

do_listen(a) ==
    /\ pc[a] = "started"
    /\ \/ /\ pc' = [pc EXCEPT ![a] = "bound"]
          /\ listening' = listening \cup {a}
          /\ UNCHANGED <<loop, stop, found, conns, etcd, dubbo, starts>>
       \/ End(a, "failed") /\ UNCHANGED etcd

(* The event loop and its first event; without memory for the loop the     *)
(* NULL is used.                                                           *)
monitor_accepts(a) ==
    /\ pc[a] = "bound"
    /\ \/ /\ pc' = [pc EXCEPT ![a] = "init"]
          /\ loop' = loop \cup {a}
          /\ UNCHANGED <<stop, listening, found, conns, etcd, dubbo, starts>>
       \/ End(a, "failed") /\ UNCHANGED etcd
       \/ Abort(a)

(* Mutant: the key is kept for ever. *)
register_etcd_serviceM(a) ==
    /\ pc[a] = "init" /\ a \in Providers
    /\ \E o \in Outcomes : etcd_set(a, 0, performRequest(o))
    /\ pc' = [pc EXCEPT ![a] = "connect"]
    /\ UNCHANGED <<loop, stop, listening, found, conns, unclean, dubbo, starts>>
(* A failure is logged, and the agent goes on unregistered.                *)
register_etcd_service(a) ==
    /\ pc[a] = "init" /\ a \in Providers
    /\ \E o \in Outcomes : etcd_set(a, 3600, performRequest(o))
    /\ pc' = [pc EXCEPT ![a] = "connect"]
    /\ UNCHANGED <<loop, stop, listening, found, conns, unclean, dubbo, starts>>

(* A non-zero result ends the consumer agent; the keys come in the order   *)
(* of etcd's listing.                                                      *)
discover_etcd_services(a) ==
    /\ pc[a] = "init" /\ a = Consumer
    /\ \E o \in Outcomes :
          LET got == etcd_get_directory(performRequest(o))
          IN  \/ /\ got.ret = 0
                 /\ pc' = [pc EXCEPT ![a] = "connect"]
                 /\ \E keys \in SetToSeqs(got.keys) : found' = keys
                 /\ UNCHANGED <<loop, stop, listening, conns, dubbo, starts>>
              \/ got.ret # 0 /\ End(a, "failed")
    /\ UNCHANGED etcd

(* Mutant: one attempt, whether it succeeds or not. *)
init_connection_apaM(a) ==
    /\ pc[a] = "connect" /\ a = Consumer /\ found # <<>>
    /\ LET e == Head(found)
           n == conns[a][e] + (IF e \in listening THEN 1 ELSE 0)
       IN  /\ conns' = [conns EXCEPT ![a][e] = n]
           /\ found' = Tail(found)
    /\ UNCHANGED <<pc, loop, stop, listening, etcd, dubbo, starts>>
(* Mutant: tries again only while the key is registered. *)
init_connection_apaKeyedM(a) ==
    /\ pc[a] = "connect" /\ a = Consumer /\ found # <<>>
    /\ LET e == Head(found)
       IN  /\ e \in listening /\ e \in Registered
           /\ conns' = [conns EXCEPT ![a][e] = @ + 1]
           /\ found' = IF conns[a][e] + 1 = NumConn THEN Tail(found) ELSE found
    /\ UNCHANGED <<pc, loop, stop, listening, etcd, dubbo, starts>>
(* on_etcd_service_endpoint fills the pool of one key at a time; a refused *)
(* connection is tried again after a second.                               *)
init_connection_apa(a) ==
    /\ pc[a] = "connect" /\ a = Consumer /\ found # <<>>
    /\ LET e == Head(found)
       IN  /\ e \in listening
           /\ conns' = [conns EXCEPT ![a][e] = @ + 1]
           /\ found' = IF conns[a][e] + 1 = NumConn THEN Tail(found) ELSE found
    /\ UNCHANGED <<pc, loop, stop, listening, etcd, dubbo, starts>>

(* The pool of connections to the local provider.                          *)
init_connection_ap(a) ==
    /\ pc[a] = "connect" /\ a \in Providers /\ conns[a][a] < NumConn
    /\ a \in dubbo
    /\ conns' = [conns EXCEPT ![a][a] = @ + 1]
    /\ UNCHANGED <<pc, loop, stop, listening, found, etcd, dubbo, starts>>

(* The rest of consumer_init or provider_init, and aeMain, which clears    *)
(* the stop flag.                                                          *)
aeMain(a) ==
    /\ pc[a] = "connect"
    /\ IF a = Consumer THEN found = <<>> ELSE conns[a][a] = NumConn
    /\ pc' = [pc EXCEPT ![a] = "serving"]
    /\ stop' = stop \ {a}
    /\ UNCHANGED <<loop, listening, found, conns, etcd, dubbo, starts>>

aeMainReturns(a) ==
    /\ pc[a] = "serving" /\ a \in stop
    /\ pc' = [pc EXCEPT ![a] = "cleanup"]
    /\ UNCHANGED <<loop, stop, listening, found, conns, etcd, dubbo, starts>>

(* Mutant: only the consumer agent's clean-up is called. *)
CleanupM(a) == pc[a] = "cleanup" /\ End(a, "exited") /\ UNCHANGED etcd
(* consumer_cleanup does nothing, provider_cleanup calls                   *)
(* deregister_etcd_service, which logs a failure.                          *)
Cleanup(a) ==
    /\ pc[a] = "cleanup"
    /\ IF a = Consumer THEN UNCHANGED etcd
       ELSE \E o \in Outcomes : etcd_del(a, performRequest(o))
    /\ End(a, "exited")

(* signal_handler: every signal but SIGSEGV stops the event loop, which    *)
(* may not exist yet.                                                      *)
signal_handler(a) ==
    /\ Alive(a)
    /\ IF a \in loop
       THEN /\ stop' = stop \cup {a}
            /\ UNCHANGED <<pc, loop, listening, found, conns, etcd, dubbo, starts>>
       ELSE Abort(a)

(* SIGSEGV, SIGKILL, or the machine is lost.                               *)
Killed(a) == Alive(a) /\ Abort(a)

(* The local provider starts or stops accepting connections.               *)
DubboChanges(e) ==
    /\ dubbo' = IF e \in dubbo THEN dubbo \ {e} ELSE dubbo \cup {e}
    /\ UNCHANGED <<process, etcd, starts>>

-----------------------------------------------------------------------------
Run(a) == \/ do_listen(a) \/ monitor_accepts(a)
          \/ register_etcd_service(a) \/ discover_etcd_services(a)
          \/ init_connection_apa(a) \/ init_connection_ap(a)
          \/ aeMain(a) \/ aeMainReturns(a) \/ Cleanup(a)

Next == \/ \E a \in Agents : Start(a) \/ Run(a) \/ signal_handler(a) \/ Killed(a)
        \/ \E e \in Providers : Expire(e) \/ DubboChanges(e)

(* A process that can run does; etcd expires leases.                       *)
Spec == /\ Init /\ [][Next]_vars
        /\ \A a \in Agents : WF_vars(Run(a))
        /\ \A e \in Providers : WF_vars(Expire(e))

-----------------------------------------------------------------------------
(* A key in etcd names a provider agent that accepts connections, or one   *)
(* that was killed or could not remove its key: an agent listens before it *)
(* registers, no failure of its start-up leaves a key behind, and an       *)
(* orderly exit removes it.                                                *)
RegisteredIsListening == \A e \in Registered : e \in listening \/ e \in unclean

(* An agent that serves has what its handlers take for granted (the        *)
(* initial states of ConsumerAgent and ProviderAgent): an event loop, and  *)
(* every connection of every pool opened, whatever was refused on the way. *)
ServingIsReady ==
    \A a \in Agents : pc[a] = "serving" =>
        /\ a \in loop /\ a \in listening
        /\ IF a = Consumer THEN \A e \in Providers : conns[a][e] \in {0, NumConn}
                           ELSE conns[a][a] = NumConn

(* Start-up does not get stuck on connections that were refused at first:  *)
(* once all the peers an agent connects to stay up, it goes on.            *)
PeersUp(a) == IF a = Consumer THEN \A i \in DOMAIN found : found[i] \in listening
                              ELSE a \in dubbo
StartUpProgress ==
    \A a \in Agents : <>[]PeersUp(a) => (pc[a] = "connect" ~> pc[a] # "connect")

(* The key of an agent that is gone disappears, also when the agent was    *)
(* killed or could not reach etcd.                                         *)
KeysVanish ==
    \A e \in Providers : (~Alive(e) /\ e \in Registered) ~> (Alive(e) \/ e \notin Registered)
=============================================================================
