--------------------------- MODULE LifecycleProofs ---------------------------
(***************************************************************************)
(* Proofs about Lifecycle for every set of at most three provider agents,  *)
(* every pool size and any number of starts.                               *)
(*                                                                         *)
(* RegisteredIsListening is not inductive: an agent that is started again  *)
(* and fails before it registers stops listening, which is harmless only   *)
(* because a key that is there so early was left by a life that ended      *)
(* uncleanly (KeyHistory).  ServingIsReady needs what the start-up loops   *)
(* know: where in main an agent has its event loop and its socket          *)
(* (Progress), and that the consumer agent's pools are either full or      *)
(* untouched but for the key it is working on (PoolsFilled).               *)
(***************************************************************************)
EXTENDS Lifecycle, SequenceTheorems, FiniteSetTheorems, TLAPS

Early == Ended \cup {"started", "bound", "init"}
Places == Early \cup {"connect", "serving", "cleanup"}

LifeType ==
    /\ pc \in [Agents -> Places]
    /\ found \in Seq(Providers)
    /\ conns \in [Agents -> [Providers -> Nat]]
    /\ store \in [Providers -> {"absent", "leased", "kept"}]

(* What an agent has at each place of main. *)
Progress ==
    \A a \in Agents :
        /\ pc[a] \in {"bound", "init", "connect", "serving", "cleanup"} <=> a \in listening
        /\ pc[a] \in {"init", "connect", "serving", "cleanup"} => a \in loop

(* A key found before the agent has registered is that of an earlier life. *)
KeyHistory ==
    \A e \in Providers : pc[e] \in Early /\ store[e] # "absent" => e \in unclean

(* A provider agent's pool is filled in "connect" and before it serves. *)
LocalPools ==
    \A e \in Providers : /\ pc[e] \in Early => conns[e][e] = 0
                         /\ pc[e] = "serving" => conns[e][e] = NumConn

(* The consumer agent's pools: full, untouched, or that of the first key   *)
(* still to be connected to; each key is there once.                       *)
PoolsFilled ==
    /\ \A e \in Providers :
        conns[Consumer][e] \in {0, NumConn} \/ (found # <<>> /\ e = found[1])
    /\ \A i \in 1 .. Len(found) : IF i = 1 THEN conns[Consumer][found[i]] < NumConn
                                  ELSE conns[Consumer][found[i]] = 0
    /\ \A i, j \in 1 .. Len(found) : found[i] = found[j] => i = j
    /\ pc[Consumer] \in Early =>
        found = <<>> /\ \A e \in Providers : conns[Consumer][e] = 0
    /\ pc[Consumer] # "connect" => found = <<>>

IInv == LifeType /\ Progress /\ KeyHistory /\ LocalPools /\ PoolsFilled /\ RegisteredIsListening

-----------------------------------------------------------------------------
(* The initial state: nobody runs, nothing is registered. *)
LEMMA InitIInv == Init => IInv
<1> SUFFICES ASSUME Init PROVE IInv
    OBVIOUS
<1>1. /\ pc = [a \in Agents |-> "off"] /\ found = <<>> /\ listening = {}
      /\ conns = [a \in Agents |-> [e \in Providers |-> 0]]
      /\ store = [e \in Providers |-> "absent"]
    BY DEF Init
<1>2. /\ \A a \in Agents : pc[a] = "off" /\ \A e \in Providers : conns[a][e] = 0
      /\ \A e \in Providers : store[e] = "absent"
      /\ Consumer \in Agents /\ Providers \subseteq Agents
    BY <1>1 DEF Agents
<1>3. LifeType
    BY <1>1 DEF LifeType, Places, Early, Ended
<1>4. Progress /\ KeyHistory /\ LocalPools /\ RegisteredIsListening
    BY <1>1, <1>2 DEF Progress, KeyHistory, LocalPools, RegisteredIsListening, Registered, Early, Ended
<1>5. PoolsFilled
    BY <1>1, <1>2 DEF PoolsFilled, Early, Ended
<1> QED BY <1>3, <1>4, <1>5 DEF IInv

(* The parts of IInv that speak of one agent, for an agent a that moves to *)
(* place w while the others stay where they are.                           *)
LEMMA MoveStep ==
    ASSUME IInv, NEW a \in Agents, NEW w \in Places, pc' = [pc EXCEPT ![a] = w]
    PROVE  /\ pc' \in [Agents -> Places] /\ pc'[a] = w
           /\ \A b \in Agents : b # a => pc'[b] = pc[b]
BY DEF IInv, LifeType

(* The end of a process, whatever brings it about: its socket is closed,   *)
(* so its key must be gone or be known to be stale.                        *)
LEMMA EndStep ==
    ASSUME IInv, NEW a \in Agents, NEW how \in Ended, End(a, how),
           store' \in [Providers -> {"absent", "leased", "kept"}],
           \A e \in Providers : e # a => store'[e] = store[e] /\ (e \in unclean => e \in unclean'),
           a \in Providers /\ store'[a] # "absent" => a \in unclean'
    PROVE  IInv'
<1>1. /\ pc' = [pc EXCEPT ![a] = how] /\ loop' = loop \ {a} /\ listening' = listening \ {a}
      /\ found' = IF a = Consumer THEN <<>> ELSE found
      /\ conns' = [conns EXCEPT ![a] = [e \in Providers |-> 0]]
    BY DEF End
<1>2. /\ pc' \in [Agents -> Places] /\ pc'[a] = how
      /\ \A b \in Agents : b # a => pc'[b] = pc[b]
    BY <1>1, MoveStep DEF Places, Early
<1>3. /\ conns' \in [Agents -> [Providers -> Nat]]
      /\ \A e \in Providers : conns'[a][e] = 0
      /\ \A b \in Agents : b # a => conns'[b] = conns[b]
    BY <1>1 DEF IInv, LifeType
<1>4. Providers \subseteq Agents /\ Consumer \in Agents /\ how \in Early
    BY DEF Agents, Early
<1>5. how \notin {"started", "bound", "init", "connect", "serving", "cleanup"}
    BY DEF Ended
<1>6. LifeType'
  <2>1. found' \in Seq(Providers)
    BY <1>1 DEF IInv, LifeType
  <2> QED BY <1>2, <1>3, <2>1 DEF LifeType
<1>7. Progress'
    BY <1>1, <1>2, <1>5 DEF IInv, Progress
<1>8. KeyHistory'
    BY <1>2, <1>4 DEF IInv, KeyHistory
<1>9. LocalPools'
    BY <1>2, <1>3, <1>4, <1>5 DEF IInv, LocalPools
<1>10. PoolsFilled'
  <2>1. CASE a = Consumer
    <3>1. found' = <<>> /\ \A e \in Providers : conns'[Consumer][e] = 0
      BY <1>1, <1>3, <2>1
    <3> QED BY <1>2, <3>1 DEF PoolsFilled
  <2>2. CASE a # Consumer
    <3>1. found' = found /\ conns'[Consumer] = conns[Consumer] /\ pc'[Consumer] = pc[Consumer]
      BY <1>1, <1>2, <1>3, <1>4, <2>2
    <3> QED BY <3>1 DEF IInv, PoolsFilled
  <2> QED BY <2>1, <2>2
<1>11. RegisteredIsListening'
  <2> SUFFICES ASSUME NEW e \in Providers, store'[e] # "absent"
               PROVE  e \in listening' \/ e \in unclean'
    BY DEF RegisteredIsListening, Registered
  <2>1. CASE e = a
    BY <2>1
  <2>2. CASE e # a
    BY <1>1, <2>2 DEF IInv, RegisteredIsListening, Registered
  <2> QED BY <2>1, <2>2
<1> QED BY <1>6, <1>7, <1>8, <1>9, <1>10, <1>11 DEF IInv

(* A process that is killed, or that a signal ends, leaves its key behind. *)
LEMMA AbortStep == ASSUME IInv, NEW a \in Agents, Abort(a) PROVE IInv'
<1>1. End(a, "crashed") /\ unclean' = unclean \cup ({a} \cap Registered) /\ store' = store
    BY DEF Abort
<1>2. store \in [Providers -> {"absent", "leased", "kept"}]
    BY DEF IInv, LifeType
<1>3. a \in Providers /\ store'[a] # "absent" => a \in unclean'
    BY <1>1 DEF Registered
<1>4. "crashed" \in Ended
    BY DEF Ended
<1> QED BY <1>1, <1>2, <1>3, <1>4, EndStep

(* A start-up that fails before the agent has registered. *)
LEMMA FailStep ==
    ASSUME IInv, NEW a \in Agents, a \in Providers => pc[a] \in Early,
           End(a, "failed"), UNCHANGED etcd
    PROVE  IInv'
<1>1. store' = store /\ unclean' = unclean
    BY DEF etcd
<1>2. store \in [Providers -> {"absent", "leased", "kept"}]
    BY DEF IInv, LifeType
<1>3. a \in Providers /\ store'[a] # "absent" => a \in unclean'
    BY <1>1 DEF IInv, KeyHistory
<1>4. "failed" \in Ended
    BY DEF Ended
<1> QED BY <1>1, <1>2, <1>3, <1>4, EndStep

(* provider_cleanup: the key is removed, or the failure is on record. *)
LEMMA CleanupStep == ASSUME IInv, NEW a \in Agents, Cleanup(a) PROVE IInv'
<1>1. End(a, "exited") /\ "exited" \in Ended
    BY DEF Cleanup, Ended
<1>2. store \in [Providers -> {"absent", "leased", "kept"}]
    BY DEF IInv, LifeType
<1>3. CASE a = Consumer
  <2>1. store' = store /\ unclean' = unclean /\ a \notin Providers
    BY <1>3, LifecycleAssumption DEF Cleanup, etcd
  <2> QED BY <1>1, <1>2, <2>1, EndStep
<1>4. CASE a # Consumer
  <2>1. PICK o \in Outcomes : etcd_del(a, performRequest(o))
    BY <1>4 DEF Cleanup
  <2>2. a \in Providers
    BY <1>4 DEF Agents
  <2>3. \/ store' = [store EXCEPT ![a] = "absent"] /\ unclean' = unclean \ {a}
        \/ store' = store /\ unclean' = unclean \cup {a}
    BY <2>1 DEF etcd_del
  <2>4. store' \in [Providers -> {"absent", "leased", "kept"}]
    BY <1>2, <2>3
  <2>5. /\ \A e \in Providers : e # a => store'[e] = store[e] /\ (e \in unclean => e \in unclean')
        /\ store'[a] # "absent" => a \in unclean'
    BY <1>2, <2>2, <2>3
  <2> QED BY <1>1, <2>4, <2>5, EndStep
<1> QED BY <1>3, <1>4

-----------------------------------------------------------------------------
(* The steps forward.                                                      *)

(* A step that moves agent a from one place to another and changes neither *)
(* keys, keys found nor connections: Start, do_listen, monitor_accepts,    *)
(* aeMain and aeMainReturns.                                               *)
LEMMA AdvanceStep ==
    ASSUME IInv, NEW a \in Agents, NEW w \in Places, pc' = [pc EXCEPT ![a] = w],
           found' = found, conns' = conns, store' = store, unclean' = unclean,
           listening' = listening \/ listening' = listening \cup {a},
           loop' = loop \/ loop' = loop \cup {a},
           w \in {"bound", "init", "connect", "serving", "cleanup"} <=> a \in listening',
           w \in {"init", "connect", "serving", "cleanup"} => a \in loop',
           w \in Early <=> pc[a] \in Early,
           w = "serving" /\ a \in Providers => conns[a][a] = NumConn,
           w # "connect" /\ a = Consumer => found = <<>>
    PROVE  IInv'
<1>1. /\ pc' \in [Agents -> Places] /\ pc'[a] = w
      /\ \A b \in Agents : b # a => pc'[b] = pc[b]
    BY MoveStep
<1>2. Providers \subseteq Agents /\ Consumer \in Agents
    BY DEF Agents
<1>3. \A b \in Agents : pc'[b] \in Early <=> pc[b] \in Early
    BY <1>1
<1>4. LifeType'
    BY <1>1 DEF IInv, LifeType
<1>5. Progress'
    BY <1>1 DEF IInv, Progress
<1>6. KeyHistory'
    BY <1>2, <1>3 DEF IInv, KeyHistory
<1>7. LocalPools'
    BY <1>1, <1>2, <1>3 DEF IInv, LocalPools
<1>8. PoolsFilled'
    BY <1>1, <1>2, <1>3 DEF IInv, PoolsFilled
<1>9. RegisteredIsListening'
    BY DEF IInv, RegisteredIsListening, Registered
<1> QED BY <1>4, <1>5, <1>6, <1>7, <1>8, <1>9 DEF IInv

(* main up to the listening socket and the event loop. *)
LEMMA EarlySteps ==
    ASSUME IInv, NEW a \in Agents, Start(a) \/ do_listen(a) \/ monitor_accepts(a)
    PROVE  IInv'
<1> USE DEF Places, Early, Ended
<1>1. pc[a] \in Places /\ (pc[a] \in {"bound", "init", "connect", "serving", "cleanup"} <=> a \in listening)
      /\ (pc[a] \in Early /\ a = Consumer => found = <<>>)
    BY DEF IInv, LifeType, Progress, PoolsFilled
<1>2. CASE Start(a)
  <2>1. /\ pc[a] \in Ended /\ pc' = [pc EXCEPT ![a] = "started"] /\ listening' = listening /\ loop' = loop
        /\ found' = found /\ conns' = conns /\ store' = store /\ unclean' = unclean
    BY <1>2 DEF Start, Alive, etcd
  <2> QED BY <1>1, <2>1, AdvanceStep
<1>3. CASE do_listen(a)
  <2>1. CASE End(a, "failed") /\ UNCHANGED etcd
    BY <1>3, <2>1, FailStep DEF do_listen
  <2>2. CASE ~(End(a, "failed") /\ UNCHANGED etcd)
    <3>1. /\ pc[a] = "started" /\ pc' = [pc EXCEPT ![a] = "bound"] /\ listening' = listening \cup {a}
          /\ loop' = loop /\ found' = found /\ conns' = conns /\ store' = store /\ unclean' = unclean
      BY <1>3, <2>2 DEF do_listen, etcd
    <3> QED BY <1>1, <3>1, AdvanceStep
  <2> QED BY <2>1, <2>2
<1>4. CASE monitor_accepts(a)
  <2>1. CASE End(a, "failed") /\ UNCHANGED etcd
    BY <1>4, <2>1, FailStep DEF monitor_accepts
  <2>2. CASE Abort(a)
    BY <2>2, AbortStep
  <2>3. CASE ~(End(a, "failed") /\ UNCHANGED etcd) /\ ~Abort(a)
    <3>1. /\ pc[a] = "bound" /\ pc' = [pc EXCEPT ![a] = "init"] /\ listening' = listening
          /\ loop' = loop \cup {a} /\ found' = found /\ conns' = conns /\ store' = store
          /\ unclean' = unclean
      BY <1>4, <2>3 DEF monitor_accepts, etcd
    <3> QED BY <1>1, <3>1, AdvanceStep
  <2> QED BY <2>1, <2>2, <2>3
<1> QED BY <1>2, <1>3, <1>4

(* register_etcd_service: the agent listens already. *)
LEMMA RegisterStep == ASSUME IInv, NEW a \in Agents, register_etcd_service(a) PROVE IInv'
<1>1. /\ pc[a] = "init" /\ a \in Providers /\ pc' = [pc EXCEPT ![a] = "connect"]
      /\ listening' = listening /\ loop' = loop /\ found' = found /\ conns' = conns
      /\ unclean' = unclean
    BY DEF register_etcd_service
<1>2. /\ pc' \in [Agents -> Places] /\ pc'[a] = "connect"
      /\ \A b \in Agents : b # a => pc'[b] = pc[b]
    BY <1>1, MoveStep DEF Places
<1>3. Providers \subseteq Agents /\ Consumer \in Agents /\ Consumer # a
    BY <1>1, LifecycleAssumption DEF Agents
<1>4. /\ store' \in [Providers -> {"absent", "leased", "kept"}]
      /\ \A e \in Providers : e # a => store'[e] = store[e]
  <2>1. store' = store \/ store' = [store EXCEPT ![a] = Expiring(3600)]
    BY DEF register_etcd_service, etcd_set
  <2>2. Expiring(3600) \in {"absent", "leased", "kept"}
    BY DEF Expiring
  <2>3. store \in [Providers -> {"absent", "leased", "kept"}]
    BY DEF IInv, LifeType
  <2> QED BY <1>1, <2>1, <2>2, <2>3
<1>5. LifeType'
    BY <1>1, <1>2, <1>4 DEF IInv, LifeType
<1>6. a \in listening /\ a \in loop
    BY <1>1 DEF IInv, Progress
<1>7. Progress'
    BY <1>1, <1>2, <1>6 DEF IInv, Progress
<1>8. "connect" \notin Early
    BY DEF Early, Ended
<1>9. KeyHistory'
    BY <1>1, <1>2, <1>3, <1>4, <1>8 DEF IInv, KeyHistory
<1>10. LocalPools'
    BY <1>1, <1>2, <1>3, <1>8 DEF IInv, LocalPools
<1>11. PoolsFilled'
    BY <1>1, <1>2, <1>3 DEF IInv, PoolsFilled
<1>12. RegisteredIsListening'
    BY <1>1, <1>4, <1>6 DEF IInv, RegisteredIsListening, Registered
<1> QED BY <1>5, <1>7, <1>9, <1>10, <1>11, <1>12 DEF IInv

(* The keys of a listing: each registered key once. *)
LEMMA ListingIs ==
    ASSUME NEW K \in SUBSET Providers, NEW s \in SetToSeqs(K)
    PROVE  s \in Seq(Providers) /\ \A i, j \in 1 .. Len(s) : s[i] = s[j] => i = j
<1> DEFINE n == Cardinality(K)
<1>1. n \in Nat
  <2>1. IsFiniteSet(K)
    BY LifecycleAssumption, FS_Subset
  <2> QED BY <2>1, FS_CardinalityType
<1>2. s \in [1 .. n -> K] /\ \A i, j \in 1 .. n : i # j => s[i] # s[j]
    BY Zenon DEF SetToSeqs
<1> HIDE DEF n
<1>3. s \in [1 .. n -> Providers]
    BY <1>2
<1>4. s \in Seq(Providers)
    BY <1>1, <1>3, SeqDef
<1>5. Len(s) = n
    BY <1>1, <1>3, <1>4
<1> QED BY <1>2, <1>4, <1>5

(* discover_etcd_services: nothing is connected yet. *)
LEMMA DiscoverStep == ASSUME IInv, NEW a \in Agents, discover_etcd_services(a) PROVE IInv'
<1>1. pc[a] = "init" /\ a = Consumer /\ UNCHANGED etcd /\ a \notin Providers
    BY LifecycleAssumption DEF discover_etcd_services
<1>2. CASE End(a, "failed")
    BY <1>1, <1>2, FailStep
<1>3. CASE ~End(a, "failed")
  <2>1. PICK o \in Outcomes :
            /\ pc' = [pc EXCEPT ![a] = "connect"]
            /\ \E keys \in SetToSeqs(etcd_get_directory(performRequest(o)).keys) : found' = keys
            /\ UNCHANGED <<loop, stop, listening, conns, dubbo, starts>>
    BY <1>3 DEF discover_etcd_services
  <2> DEFINE K == etcd_get_directory(performRequest(o)).keys
  <2>2. K \in SUBSET Providers
    BY DEF etcd_get_directory, Registered
  <2> HIDE DEF K
  <2>3. /\ found' \in Seq(Providers)
        /\ \A i, j \in 1 .. Len(found') : found'[i] = found'[j] => i = j
    <3>1. \E keys \in SetToSeqs(K) : found' = keys
      BY <2>1 DEF K
    <3> QED BY <2>2, <3>1, ListingIs
  <2>4. /\ pc' \in [Agents -> Places] /\ pc'[a] = "connect"
        /\ \A b \in Agents : b # a => pc'[b] = pc[b]
    BY <2>1, MoveStep DEF Places
  <2>5. /\ listening' = listening /\ loop' = loop /\ conns' = conns /\ store' = store
        /\ unclean' = unclean
    BY <1>1, <2>1 DEF etcd
  <2>6. \A e \in Providers : conns[Consumer][e] = 0 /\ e # a /\ e \in Agents
    BY <1>1 DEF IInv, PoolsFilled, Early, Agents
  <2>7. LifeType'
    BY <2>3, <2>4, <2>5 DEF IInv, LifeType
  <2>8. Progress'
    BY <1>1, <2>4, <2>5 DEF IInv, Progress
  <2>9. KeyHistory' /\ LocalPools'
    BY <2>4, <2>5, <2>6 DEF IInv, KeyHistory, LocalPools
  <2>10. PoolsFilled'
    <3>1. \A i \in 1 .. Len(found') : found'[i] \in Providers
      BY <2>3
    <3>2. 0 < NumConn
      BY LifecycleAssumption
    <3>3. "connect" \notin Early
      BY DEF Early, Ended
    <3> QED BY <1>1, <2>3, <2>4, <2>5, <2>6, <3>1, <3>2, <3>3 DEF PoolsFilled
  <2>11. RegisteredIsListening'
    BY <2>5 DEF IInv, RegisteredIsListening, Registered
  <2> QED BY <2>7, <2>8, <2>9, <2>10, <2>11 DEF IInv
<1> QED BY <1>2, <1>3

(* init_connection_apa: one more connection to the first key; the key is   *)
(* done with when its pool is full.                                        *)
LEMMA ConnectApaStep == ASSUME IInv, NEW a \in Agents, init_connection_apa(a) PROVE IInv'
<1> DEFINE e == found[1]
           n == conns[Consumer][e]
<1>1. /\ pc[a] = "connect" /\ a = Consumer /\ found # <<>> /\ found \in Seq(Providers)
      /\ conns' = [conns EXCEPT ![Consumer][e] = n + 1]
      /\ found' = IF n + 1 = NumConn THEN Tail(found) ELSE found
      /\ UNCHANGED <<pc, loop, listening, store, unclean>>
    BY DEF init_connection_apa, IInv, LifeType, etcd
<1>2. /\ Consumer \in Agents /\ Consumer \notin Providers /\ Providers \subseteq Agents
      /\ NumConn \in Nat \ {0}
    BY LifecycleAssumption DEF Agents
<1>3. e \in Providers /\ Len(found) \in Nat /\ Len(found) >= 1
    BY <1>1
<1>4. n \in Nat /\ n < NumConn
    BY <1>2, <1>3 DEF IInv, PoolsFilled, LifeType
<1> HIDE DEF n, e
<1>5. /\ conns' \in [Agents -> [Providers -> Nat]]
      /\ \A b \in Agents : b # Consumer => conns'[b] = conns[b]
      /\ \A f \in Providers : conns'[Consumer][f] = IF f = e THEN n + 1 ELSE conns[Consumer][f]
  <2> DEFINE g == [conns[Consumer] EXCEPT ![e] = n + 1]
  <2>1. conns \in [Agents -> [Providers -> Nat]] /\ conns[Consumer] \in [Providers -> Nat]
    BY <1>2 DEF IInv, LifeType
  <2>2. /\ g \in [Providers -> Nat]
        /\ \A f \in Providers : g[f] = IF f = e THEN n + 1 ELSE conns[Consumer][f]
    BY <1>3, <1>4, <2>1
  <2>3. conns' = [conns EXCEPT ![Consumer] = g]
    BY <1>1
  <2> HIDE DEF g
  <2>4. conns'[Consumer] = g /\ conns' \in [Agents -> [Providers -> Nat]]
    BY <1>2, <2>1, <2>2, <2>3
  <2> QED BY <2>1, <2>2, <2>3, <2>4
<1>6. \A i \in 1 .. Len(found) :
        /\ found[i] \in Providers
        /\ i # 1 => found[i] # e /\ conns[Consumer][found[i]] = 0
  <2>1. 1 \in 1 .. Len(found) /\ \A i \in 1 .. Len(found) : found[i] \in Providers
    BY <1>1, <1>3
  <2>2. \A i, j \in 1 .. Len(found) : found[i] = found[j] => i = j
    BY DEF IInv, PoolsFilled
  <2>3. \A i \in 1 .. Len(found) : i # 1 => conns[Consumer][found[i]] = 0
    BY DEF IInv, PoolsFilled
  <2> QED BY <2>1, <2>2, <2>3 DEF e
<1>7. "connect" \notin Early
    BY DEF Early, Ended
<1>8. found' \in Seq(Providers)
    BY <1>1
<1>9. PoolsFilled'
  <2>1. CASE n + 1 = NumConn
    <3>1. /\ found' = Tail(found) /\ Len(found') = Len(found) - 1
          /\ \A i \in 1 .. Len(found') : found'[i] = found[i + 1]
      BY <1>1, <1>3, <2>1
    <3>2. \A i \in 1 .. Len(found') : i + 1 \in 1 .. Len(found) /\ i + 1 # 1
      BY <1>3, <3>1
    <3>3. \A i \in 1 .. Len(found') : conns'[Consumer][found'[i]] = 0
      <4> SUFFICES ASSUME NEW i \in 1 .. Len(found') PROVE conns'[Consumer][found'[i]] = 0
        OBVIOUS
      <4> DEFINE f == found[i + 1]
      <4>1. f \in Providers /\ f # e /\ conns[Consumer][f] = 0 /\ found'[i] = f
        <5>1. i + 1 \in 1 .. Len(found) /\ i + 1 # 1 /\ found'[i] = f
          BY <3>1, <3>2
        <5> DEFINE j == i + 1
        <5> HIDE DEF j
        <5>2. found[j] \in Providers /\ found[j] # e /\ conns[Consumer][found[j]] = 0
          BY <1>6, <5>1 DEF j
        <5> QED BY <5>1, <5>2 DEF j
      <4> HIDE DEF f
      <4> QED BY <1>5, <4>1
    <3>4. \A f \in Providers : conns'[Consumer][f] \in {0, NumConn}
      <4>1. \A f \in Providers : f # e => conns[Consumer][f] \in {0, NumConn}
        BY DEF IInv, PoolsFilled, e
      <4> QED BY <1>5, <2>1, <4>1
    <3>5. \A i, j \in 1 .. Len(found') : found'[i] = found'[j] => i = j
      <4>1. \A i, j \in 1 .. Len(found) : found[i] = found[j] => i = j
        BY DEF IInv, PoolsFilled
      <4>2. \A i, j \in 1 .. Len(found') : found'[i] = found'[j] => i + 1 = j + 1
        BY <3>1, <3>2, <4>1
      <4> QED BY <4>2
    <3> QED BY <1>1, <1>2, <1>7, <3>3, <3>4, <3>5 DEF PoolsFilled
  <2>2. CASE n + 1 # NumConn
    <3>1. found' = found /\ n + 1 < NumConn
      BY <1>1, <1>2, <1>4, <2>2
    <3>2. \A i \in 1 .. Len(found) : IF i = 1 THEN conns'[Consumer][found[i]] < NumConn
                                     ELSE conns'[Consumer][found[i]] = 0
      <4>1. conns'[Consumer][e] < NumConn
        BY <1>3, <1>5, <3>1
      <4>2. ASSUME NEW i \in 1 .. Len(found), i # 1 PROVE conns'[Consumer][found[i]] = 0
        <5>1. found[i] \in Providers /\ found[i] # e /\ conns[Consumer][found[i]] = 0
          BY <1>6, <4>2
        <5> QED BY <1>5, <5>1
      <4> QED BY <4>1, <4>2 DEF e
    <3>3. \A f \in Providers : conns'[Consumer][f] \in {0, NumConn} \/ f = e
      <4>1. \A f \in Providers : f # e => conns[Consumer][f] \in {0, NumConn}
        BY DEF IInv, PoolsFilled, e
      <4> QED BY <1>5, <4>1
    <3>4. \A i, j \in 1 .. Len(found) : found[i] = found[j] => i = j
      BY DEF IInv, PoolsFilled
    <3> QED BY <1>1, <1>7, <3>1, <3>2, <3>3, <3>4 DEF PoolsFilled, e
  <2> QED BY <2>1, <2>2
<1>10. LifeType'
    BY <1>1, <1>5, <1>8 DEF IInv, LifeType
<1>11. LocalPools'
    BY <1>1, <1>2, <1>5 DEF IInv, LocalPools
<1>12. Progress' /\ KeyHistory' /\ RegisteredIsListening'
    BY <1>1 DEF IInv, Progress, KeyHistory, RegisteredIsListening, Registered
<1> QED BY <1>9, <1>10, <1>11, <1>12 DEF IInv

(* init_connection_ap: one more connection to the local provider. *)
LEMMA ConnectApStep == ASSUME IInv, NEW a \in Agents, init_connection_ap(a) PROVE IInv'
<1>1. /\ pc[a] = "connect" /\ a \in Providers
      /\ conns' = [conns EXCEPT ![a][a] = conns[a][a] + 1]
      /\ UNCHANGED <<pc, loop, listening, found, store, unclean>>
    BY DEF init_connection_ap, etcd
<1>2. Consumer \in Agents /\ Consumer # a /\ Providers \subseteq Agents
    BY <1>1, LifecycleAssumption DEF Agents
<1>3. /\ conns' \in [Agents -> [Providers -> Nat]]
      /\ \A b \in Agents : b # a => conns'[b] = conns[b]
    BY <1>1 DEF IInv, LifeType
<1>4. "connect" \notin Early
    BY DEF Early, Ended
<1>5. LifeType'
    BY <1>1, <1>3 DEF IInv, LifeType
<1>6. LocalPools'
    BY <1>1, <1>2, <1>3, <1>4 DEF IInv, LocalPools
<1>7. PoolsFilled'
    BY <1>1, <1>2, <1>3 DEF IInv, PoolsFilled
<1>8. Progress' /\ KeyHistory' /\ RegisteredIsListening'
    BY <1>1 DEF IInv, Progress, KeyHistory, RegisteredIsListening, Registered
<1> QED BY <1>5, <1>6, <1>7, <1>8 DEF IInv

(* Into aeMain and out of it. *)
LEMMA MainSteps == ASSUME IInv, NEW a \in Agents, aeMain(a) \/ aeMainReturns(a) PROVE IInv'
<1> USE DEF Places, Early, Ended
<1>1. /\ pc[a] \in {"bound", "init", "connect", "serving", "cleanup"} <=> a \in listening
      /\ pc[a] \in {"init", "connect", "serving", "cleanup"} => a \in loop
    BY DEF IInv, Progress
<1>2. CASE aeMain(a)
  <2>1. /\ pc[a] = "connect" /\ pc' = [pc EXCEPT ![a] = "serving"]
        /\ IF a = Consumer THEN found = <<>> ELSE conns[a][a] = NumConn
        /\ listening' = listening /\ loop' = loop /\ found' = found /\ conns' = conns
        /\ store' = store /\ unclean' = unclean
    BY <1>2 DEF aeMain, etcd
  <2>2. a \in Providers => a # Consumer
    BY LifecycleAssumption
  <2> QED BY <1>1, <2>1, <2>2, AdvanceStep
<1>3. CASE aeMainReturns(a)
  <2>1. /\ pc[a] = "serving" /\ pc' = [pc EXCEPT ![a] = "cleanup"]
        /\ listening' = listening /\ loop' = loop /\ found' = found /\ conns' = conns
        /\ store' = store /\ unclean' = unclean
    BY <1>3 DEF aeMainReturns, etcd
  <2>2. a = Consumer => found = <<>>
    BY <2>1 DEF IInv, PoolsFilled
  <2> QED BY <1>1, <2>1, <2>2, AdvanceStep
<1> QED BY <1>2, <1>3

(* Steps that move no agent. *)
LEMMA StayStep ==
    ASSUME IInv, UNCHANGED <<pc, loop, listening, found, conns>>,
           store' \in [Providers -> {"absent", "leased", "kept"}],
           \A e \in Providers : store'[e] # "absent" =>
                store[e] # "absent" /\ (e \in unclean => e \in unclean')
    PROVE  IInv'
<1>1. LifeType' /\ Progress' /\ LocalPools' /\ PoolsFilled'
    BY DEF IInv, LifeType, Progress, LocalPools, PoolsFilled
<1>2. KeyHistory' /\ RegisteredIsListening'
    BY DEF IInv, KeyHistory, RegisteredIsListening, Registered
<1> QED BY <1>1, <1>2 DEF IInv

(* The invariant is kept by every step of every agent and of etcd. *)
LEMMA NextIInv == IInv /\ [Next]_vars => IInv'
<1> SUFFICES ASSUME IInv, [Next]_vars PROVE IInv'
    OBVIOUS
<1>1. store \in [Providers -> {"absent", "leased", "kept"}]
    BY DEF IInv, LifeType
<1>2. ASSUME NEW a \in Agents, signal_handler(a) PROVE IInv'
  <2>1. CASE Abort(a)
    BY <2>1, AbortStep
  <2>2. CASE ~Abort(a)
    <3>1. UNCHANGED <<pc, loop, listening, found, conns>> /\ store' = store /\ unclean' = unclean
      BY <1>2, <2>2 DEF signal_handler, etcd
    <3> QED BY <1>1, <3>1, StayStep
  <2> QED BY <2>1, <2>2
<1>3. ASSUME NEW e \in Providers, Expire(e) PROVE IInv'
  <2>1. /\ UNCHANGED <<pc, loop, listening, found, conns>> /\ unclean' = unclean \ {e}
        /\ store' = [store EXCEPT ![e] = "absent"]
    BY <1>3 DEF Expire, process
  <2>2. store' \in [Providers -> {"absent", "leased", "kept"}]
    BY <1>1, <2>1
  <2>3. \A f \in Providers : store'[f] = IF f = e THEN "absent" ELSE store[f]
    BY <1>1, <2>1
  <2> QED BY <2>1, <2>2, <2>3, StayStep
<1>4. ASSUME (\E e \in Providers : DubboChanges(e)) \/ UNCHANGED vars PROVE IInv'
  <2>1. UNCHANGED <<pc, loop, listening, found, conns>> /\ store' = store /\ unclean' = unclean
    BY <1>4 DEF DubboChanges, process, etcd, vars
  <2> QED BY <1>1, <2>1, StayStep
<1>5. ASSUME NEW a \in Agents, Run(a) PROVE IInv'
    BY <1>5, EarlySteps, RegisterStep, DiscoverStep, ConnectApaStep, ConnectApStep, MainSteps,
       CleanupStep DEF Run
<1>6. ASSUME NEW a \in Agents, Start(a) \/ Killed(a) PROVE IInv'
    BY <1>6, EarlySteps, AbortStep DEF Killed
<1> QED BY <1>2, <1>3, <1>4, <1>5, <1>6 DEF Next

-----------------------------------------------------------------------------
(* The invariant holds whatever fails, is killed and is started again. *)
THEOREM LifecycleInvariant == Spec => []IInv
BY InitIInv, NextIInv, PTL DEF Spec

(* A registered key names an agent that accepts connections, or one whose  *)
(* last life ended without removing it: register_etcd_service follows      *)
(* do_listen, and provider_cleanup removes the key.                        *)
THEOREM KeysNameListeners == Spec => []RegisteredIsListening
<1>1. IInv => RegisteredIsListening
    BY DEF IInv
<1> QED BY <1>1, LifecycleInvariant, PTL

(* When aeMain runs, the event loop is there and every pool is full. *)
THEOREM ServersAreReady == Spec => []ServingIsReady
<1>1. IInv => ServingIsReady
  <2> SUFFICES ASSUME IInv, NEW a \in Agents, pc[a] = "serving"
               PROVE  /\ a \in loop /\ a \in listening
                      /\ IF a = Consumer THEN \A e \in Providers : conns[a][e] \in {0, NumConn}
                                         ELSE conns[a][a] = NumConn
    BY DEF ServingIsReady
  <2>1. a \in loop /\ a \in listening
    BY DEF IInv, Progress
  <2>2. a = Consumer => \A e \in Providers : conns[a][e] \in {0, NumConn}
    BY DEF IInv, PoolsFilled
  <2>3. a # Consumer => conns[a][a] = NumConn
    BY DEF IInv, LocalPools, Agents
  <2> QED BY <2>1, <2>2, <2>3
<1> QED BY <1>1, LifecycleInvariant, PTL
=============================================================================
