# A TLA+ development of the dubbo service-mesh agent

The program (`src/src/`, C) is a sidecar process. Run as **consumer agent** it
accepts HTTP connections of the local consumer application and forwards each
request over a pooled TCP connection to one of several provider agents. Run as
**provider agent** it takes those requests, turns them into dubbo requests for
the local provider and turns the responses back into HTTP. Providers are
registered in, and discovered from, etcd. One thread runs everything from an
epoll event loop.

This directory holds TLA+ modules of the parts that carry the program's own
logic, TLC runs over small instances, and TLAPS proofs. `PROJECT.json` lists,
by module, the source lines each definition stands for.

## Inventory

| component | state it keeps | operations | talks to | hard because | correct when |
|---|---|---|---|---|---|
| object pool (`pool.c`) | alloc list, empty list, `allocated`, `outstanding`, the preallocated block | PoolInit, PoolGet, PoolReturn, PoolFree | callbacks Alloc, Init, Cleanup, Free | failures half-way, limits, uint32 counters | no element in two places; counters exact; everything cleaned once and freed |
| event loop (`ae.c`, `opt/ae_epoll.c`) | slots by descriptor, `maxfd`, the kernel's interest list, the batch of fired events, `stop` | create/delete file event, resize, poll, dispatch, stop | handlers call back into it; signals set `stop` | the batch is stale while it is dispatched; descriptors are reused; signals interleave anywhere | kernel and slots agree; `maxfd` exact; no handler for a closed descriptor; a batch ends; a signal ends the program |
| consumer agent (`consumer.c`) | `connection_ca` objects (buffers and positions), `connection_apa` per endpoint, pools of both | accept, four read/write handlers, abort | event loop, pools, load balancer, sockets | peers close, reset, split and delay; objects are reused; conn_ca and conn_apa refer to each other through event data | one owner per socket; pooled connections are idle; a consumer gets its own answers; nothing is lost; no NULL is dereferenced |
| load balancing (`consumer.c`) | `num_reqs`, `total_ms` per endpoint | least loaded, minimal latency | `outstanding` of the endpoint pools | thresholds, exhausted pools, stale statistics | a request is refused only when every pool is exhausted |
| provider agent (`provider.c`) | `connection_caa` objects bound for life to a `connection_ap`, parser, buffers | accept, on_http_body, four handlers, abort | event loop, pools, HTTP parser, local provider | bodies and responses in pieces; aborted objects are reused; late responses | a response answers the request of the connection it goes to; one owner per socket |
| HTTP parser (`http_parser.c`, request side) | state, header state, index, flags, `nread`, `content_length`, marks | http_parser_init, http_parser_execute | on_http_body | pieces cut anywhere, integer limits, re-executed bytes | the decoded bodies do not depend on the cuts; only what is wrong is refused; a call returns |
| life cycle (`main.c`, start-up of both agents) | where an agent is in main, its loop, its connections | start, listen, register or discover, connect, serve, signals, clean up | etcd, both agents | signals and crashes at every point, retries, partial failure of etcd | a registered key names a listening agent; an agent serves only when ready; keys of dead agents vanish |
| etcd client (`etcd.c`) | server address | get directory, set, delete | libcurl, jansson | blocking, lost answers | errors reported as documented |
| support code (`anet.c`, `zmalloc.c`, `log.c`, `debug.c`, `util.c`, other `opt/ae_*.c`) | | | | | not modelled |

The hazards found while reading are listed, each at its line, in
`PROJECT.json`.

## Modules

| module | what it is |
|---|---|
| `PoolOps` | the pool's operations as operators on a record; used by `Pool` and by the agents' modules |
| `Pool` | the pool as a state machine with one client; Alloc, Init and malloc may fail at every call |
| `PoolAbs` | what a pool promises: free and used elements, taken and given back one at a time |
| `PoolProofs` | the TLAPS proofs about `Pool`: its invariant, its refinement of `PoolAbs`, what it cleans and frees |
| `AeOps` | aeCreateFileEvent, aeDeleteFileEvent, aeResizeSetSize as operators on an event-loop record that also holds the kernel's interest list |
| `EventLoop` | aeMain and aeProcessEvents over epoll, with handlers and signals |
| `SockOps` | the kernel's non-blocking sockets (external) |
| `AgentLoop` | what the agents share: the loop's poll and dispatch over `AeOps` and `SockOps`, and the clients at the other end of accepted connections |
| `Forwarding` | what an agent promises its clients, as an abstract specification with a safety and a liveness part; only a client that leaves of its own accord frees the agent from its answer |
| `LoadBalance` | the two endpoint selections |
| `ConsumerAgent`, `ConsumerSystem` | the consumer agent's handlers, accept and abort on top of `AgentLoop`, `PoolOps` and `LoadBalance`; the system adds the provider agents' ends, fairness and properties |
| `ProviderAgent`, `ProviderSystem` | the same for the provider agent, with the local provider around it |
| `Lifecycle` | the processes of a mesh from start to end around etcd |
| `HttpTokens` | the character classes, words, methods and URL automaton of the parser |
| `HttpRequests` | what the bytes on a connection mean; independent of the parser |
| `HttpParser` | http_parser_execute, one action per case of its switch, and its properties |
| `AeLemmas`, `EventLoopProofs` | lemmas about `AeOps`, and the proofs about `EventLoop` |
| `LifecycleProofs` | the proofs about `Lifecycle` |
| `AgentLemmas` | lemmas both agents' proofs need: events, sockets, pools and clients of `AgentLoop`, `SockOps` and `PoolOps` |
| `ProviderProofs`, `ConsumerProofs` | the proofs about `ProviderSystem` and `ConsumerSystem`, for all faults and then among well-behaved peers |
| `HttpParserProofs` | the proofs about `HttpParser` |
| `MCPool`, `MCEventLoop`, `MCConsumer`, `MCProvider`, `MCHttpParser` | instances for TLC (`Lifecycle` is run as it is) |

How they fit together: `AgentLoop` dispatches a batch as `EventLoop` does, in
larger steps, and applies `AeOps` to the agent's loop, so that what `EventLoop`
shows of those operators (kernel and slots agree) is what the agents rely on.
Both agents refine `Forwarding`; that promise of the provider agent is what
`ConsumerSystem` assumes of the other end of its connections (`RemoteAnswer`:
whole requests are answered in order with their own answers, possibly in
pieces). `Lifecycle!ServingIsReady` establishes the initial states of the two
agents. `ProviderAgent` summarises the parser by `Parse` (position in the
message, refusal of a body while a request is being processed, what is left
unread), and `HttpParser` shows case by case that the bodies do not depend on
how the bytes arrive.

### Pool

`p` is `struct Pool_`; the alloc list is a sequence with its top last, the
empty list only its length, because `PoolGet` clears a bucket's data. An
element is its address in units of `elt_size` relative to `data_buffer`, so
that `PoolDataPreAllocated` is the arithmetic of the code: `0 .. Prealloc-1` is
the block and `Heap` is where malloc may place an element. `cleaned` counts
Cleanup calls since the last Init call on an element; `heap` is what malloc has
handed out. The error paths of `PoolInit` are actions of their own, and each
includes the `PoolFree` at label `error`. An invalid parameter combination
(lines 99-110) returns NULL before anything happens; the assumption
`SizeAssumption` excludes it. The client returns only what it holds, as the
agents should; where they do not, the agents' modules show it. The counters
are integers: where a `uint32_t` would wrap, they become negative.

### EventLoop

A handler is a phase: while `pc = "handler"` the program may create and delete
file events, open descriptors and close them (always after deleting both
directions, as every close in the agents does), any number of times. `pc`
separates the test of `stop`, the entry into epoll_wait and the wait itself,
because a signal has a different effect in each: inside the wait it makes
epoll_wait return (`sa_flags` has no SA_RESTART, and epoll_wait is never
restarted), elsewhere it only sets the flag. epoll reports any non-empty subset
of monitored descriptors in any order; error and hang-up may be reported at any
time and become AE_WRITABLE. Calls refused
with AE_ERR change nothing and are not steps.

### ConsumerAgent and ConsumerSystem

A byte is a token `<<client, request, position>>`, so that a misrouted byte is
visible. Buffers are sequences; `nread_in` and `nread_out` are their lengths
and the code's "reset pointers" empties them. A handler runs to its end in one
step: the process has one thread, and each handler makes at most one read or
write, so that nothing interleaves with it but signals. The kernel reports
readable and writable events when they hold; with the fault `slow` writable is
reported at the kernel's discretion. Entries of a batch are dispatched in any
order, a descriptor's readable before its writable one, each if it is still
registered, as `EventLoop` does in more detail. EAGAIN in the two handlers that
ignore it is the same as the event not having been reported; in
`write_to_consumer` it falls through to the abort, which `slow` allows.

The constant `Faults` names what the environment may do. A peer's close is a
full close (no half-open connections): data written to it is answered by a
reset. A write to a reset connection may raise SIGPIPE, which stops the loop.
A NULL `conn_apa` that is dereferenced ends the process (`pc = "crashed"`).
The record of a client tells one that left (`"left"`: it closed or reset its
connection before the agent closed the socket) from one whose connection the
agent closed (`"closed"`). `Forwarding`'s `gone` are those that left, so that an
agent's abort does not free it from the answer it owes: `AnswersEveryRequest`
fails for an agent that closes a connection that waits.
`memset` at accept clears every field, and no handler reads a field of an
object whose `fd` is negative, so a closed object is the constant `Closed`.
`num_reqs` is kept up to `Balance`, which is all the selection reads of it; the
latencies are arbitrary at each choice (set `Latencies`). Growth of the
connection-object pool, possible only after an object was returned twice, is
not modelled; the instances have too few clients to reach it. In a second
`abort_connection_ca` in a row `aeDeleteFileEvent` looks at the memory before
its slots (`events[-1]`); what is there is not modelled.

### ProviderAgent and ProviderSystem

A `connection_caa` and the `connection_ap` bound to it have one number. A
request is `HeadLen` tokens of head and a body whose first `SepLen` tokens hold
the separators of the form; the parser's state is the position in the message
or an error, which only `http_parser_init` clears. `on_http_body` refuses a
body while the object is processing, which is an error of the parser
(`HPE_CB_body`); the agent then drops what the parser has not consumed
(`nread_in = 0`). A dubbo request made of a part of a body is `Garbled`; when
even the separators are missing, `strchr` runs into what the buffer held before
and may find nothing (`Crash`). The local provider answers what it has read in
order. A response is complete when as much as its header says has been read;
the request id is not looked at, in the code as in the model.

`write_to_consumer_agent` formats the response and writes it from its beginning
at every call; `MaxGot` bounds how many short writes a client sees. A pool that
has dropped an object (returned twice before) may have to allocate one, whose
`init_connection_caa` finds no `connection_ap` and aborts an object with
uninitialised fields (`Crash`). The size of the static buffer the response is
formatted into (provider.c:21) is not modelled, nor is the value of
Content-Length, which counts all that was read (provider.c:401-406).

### Lifecycle

`pc` is where an agent is in `main`: off, started, bound, init, connect,
serving, cleanup, then exited, failed or crashed. A request to etcd is
answered, never arrives, is done with its answer lost, or is answered with
something that is not JSON; `etcd_set`, `etcd_del` and `etcd_get_directory`
return what the code makes of each. `etcd_del` does not strip the leading "/" of
the key (etcd.c:416), which `etcd_set` does because "etcd cannot handle this"
(etcd.c:242); URLs are not modelled, and a delete that etcd refuses is among the
outcomes. Keys have a lease (`ttl=3600`) that nothing
renews. A signal sets `stop` when the loop exists and makes `aeStop(NULL)`
crash before; SIGSEGV, SIGKILL and machine failures are `Killed`. The local
provider comes and goes. `unclean` records agents that ended without removing
their key. At most three provider agents (`LifecycleAssumption`), which is the
size of `endpoints`.

### HttpParser

A wire is a sequence of requests as records (`HttpRequests`), encoded to bytes;
a byte is a one-letter string or the name of a control character. Each group of
cases of the switch is an action on `parser`, `p` and the marks; the loops over
a name and a value go byte by byte, and the `memchr` of `h_general` in one
step, as in the code. `hist` records what a caller can see: bodies delivered,
message ends, errors, bytes dropped. Only `on_body` is a callback, and it may
refuse. `Renew` is the `http_parser_init` after a response.

## Runs

Passing runs:

| run | bounds | shows |
|---|---|---|
| `pool_bounded` | size 4, 2 preallocated, 4 heap addresses on both sides of the block | types, no aliasing, exact counters, an exact limit, Cleanup once, nothing left, refinement of `PoolAbs`; the pool grows, is exhausted and refills |
| `pool_unlimited` | size 0 | Cleanup once for a pool whose buckets and elements are all malloc'd; `PoolReturn` drops elements |
| `loop` | 2 descriptors, set sizes 1 and 2, 2 handlers, masks R, W, W with barrier | slots, `maxfd`, interest list and dispatch order; resizing loses no registration; a batch completes; a signal ends a busy program |
| `consumer_clean` | 2 consumers with 2 requests each, 2 endpoints of 1 connection; requests in pieces, short writes | `Forwarding` is implemented, its safety part (`RefinesForwarding`: only own answers, in order) and its liveness part (`AnswersEveryRequest`: the agent answers all of them and closes no connection that waits for an answer); no provider connection is lost |
| `consumer_faults` | 2 consumers, all faults, failing epoll_ctl included | buffer positions; no event on a closed descriptor; pooled connections are idle; no needless abort |
| `consumer_reuse` | 3 consumers over 2 objects, set size below the number of descriptors | one owner per socket and pool counters that say what is in use, when everything is reused and registration fails with ERANGE |
| `provider_clean` | 3 clients with 2 requests each over 2 objects; heads and responses in pieces; an input buffer one larger than a request | `Forwarding` is implemented, both parts |
| `provider_faults` | 3 clients over 1 object, all faults but slow sockets | buffer positions; no event on a closed descriptor or another object's; one owner per socket while no provider connection has been aborted; only whole responses are written |
| `lifecycle` | 2 provider agents and the consumer agent, 2 connections per pool, 3 starts | registered keys name listening or uncleanly ended agents; serving agents are ready; start-up survives refused connections; keys vanish |
| `http_parser` | the wires of `MCHttpParser` in at most 3 pieces cut anywhere; `uint64_t` of 5 bits, header limit 64 | the parser's assertions; exact decoding; header size bound; calls return |

Two descriptors, two objects or two connections are what it takes for one to be
reused while an event or a reference to its former use is pending; messages of
two tokens are what it takes to split one; in the runs with faults the buffers are
full after one message. Two endpoints of one connection reach "chosen endpoint exhausted,
other one free" and "all exhausted". Three clients over one provider object see
it returned twice and given out again. Three starts are each agent once, or one
agent restarted beside another. Three pieces put a cut on both sides of any
byte; with 5 bits (`ULLONG_MAX` 31) the lengths of the wires (1 to 3, 29 to 32, 999;
chunks up to 32) lie on both sides of the overflow tests and of the "no length" mark, and 64 bytes of header
are reached by the longer wires and not by the others. Counters that the code
lets grow are bounded by the number of clients and requests.

Runs that show a disagreement between the code and what it says of itself, each
described under "findings" in `PROJECT.json`:

| run | disagreement |
|---|---|
| `consumer_crash` | a consumer that closes early leaves events that point to its recycled object: the agent dereferences a NULL `conn_apa` |
| `provider_reset` | an aborted object goes back to its pool bound to a closed connection; its next user is aborted twice in one handler and `outstanding` no longer counts what is in use |

Observations that have no run of their own, found while modelling:

- Pool: `PoolDataPreAllocated` (pool.c:72) tests `>` where `>=` is meant: an
  element malloc places right behind the block counts as preallocated and is
  never freed. With `Prealloc` in `Heap`, `PoolFreeFreesAll` fails. The agents'
  pools never grow in normal use, so it is latent.
- Event loop: a signal between the test of `stop` and epoll_wait leaves an idle
  program waiting until the next event; a signal before `aeMain` is forgotten,
  because line 502 of ae.c resets `stop`. `SignalEndsBusyProgram` therefore
  speaks of signals after it and of a loop that goes on returning.
  `aeResizeSetSize` accepts a set size of `maxfd + 1`, which its comment says it
  refuses. The test at ae.c:447 compares masks, not identities: an event polled
  for a closed descriptor reaches the handler of a descriptor that got its
  number within the same batch.
- Signals: the comment at main.c:153 says SIGHUP is ignored, but it reaches
  `aeStop` like every other; so does SIGPIPE, raised by a write to a reset
  connection; a signal before the loop exists calls `aeStop(NULL)`.
- Consumer agent: the first piece of an answer, once written, releases the
  provider connection (consumer.c:359), and the second piece is written to the
  consumer whose request gets that connection next: with `MCConsumerCrash.cfg`,
  two objects and the fault `splitresp`, `RefinesForwarding` fails. An abort closes the
  connection to the provider agent without returning or reconnecting it (the
  PoolReturn at consumer.c:477 is commented out), so that the endpoint's pool
  shrinks and `outstanding`, which the load balancer reads, counts it for ever:
  `NoLeak` fails with the fault `reset`. When the first of two registrations
  fails the object is returned twice. The early close behind `consumer_crash`
  can also send the answer to the next consumer that gets the object.
  `consumer_clean` has none of these faults for these reasons, and
  `consumer_reuse` no failing epoll_ctl.
- Provider agent: the response to a client that closed is written to the client
  that gets its object, although that client has asked nothing (provider.c:157):
  with `MCProviderReset.cfg`, one object and the fault `midclose`,
  `RefinesForwarding` fails. A short write restarts the response; a body in
  pieces goes out truncated. For these reasons `provider_clean` splits heads and
  responses but not bodies, and has no short writes or early closes.
- Start-up: `etcd_get_directory` returns 0 when the request fails or the
  directory is missing (etcd.h:70 says non-zero), so the consumer agent then
  serves with no endpoints; leases are never renewed, so a provider agent
  disappears from the registry after an hour; one registered key of a dead agent
  blocks a consumer agent's start-up until that agent is back.
- HTTP parser: control characters in a header value are only looked for at the
  first byte of a run that `memchr` skips; a folded line after `close` or
  `chunked` loses what the line said; a tab after a comma in `Connection` is not
  skipped as a space is; `LOWER` turns "_" into DEL, so that after a token that
  begins with it the rest of a `Connection` line is ignored (http_parser.c:1559);
  `nread` counts one byte too many for each cut inside a
  name or value and is not reset after a trailer; the overflow tests refuse
  lengths a few below the largest representable one.

Deadlock checking is off in all runs: a freed pool, an exited program and
clients that have done all their requests really stop.

### Fairness

`EventLoop` assumes weak fairness of the loop's own steps and of handlers
returning: one thread that the kernel schedules, and handlers that do not
block. It assumes nothing of epoll_wait, signals or what handlers do.
`SignalEndsBusyProgram` says explicitly that epoll_wait goes on returning.
`ConsumerSystem` and `ProviderSystem` assume the same of the agent, that the
servers behind it (provider agents, local provider) answer complete requests,
and that a client finishes a request it has begun to send; clients need not
connect, send or close. `Lifecycle` assumes that a process that can run does
(a blocking connect that is refused cannot) and that etcd expires leases;
nothing makes a local provider or an agent come up, nothing sends signals.
`HttpParser` assumes that a call of http_parser_execute goes on; nothing feeds
it.

## Proofs

Every theorem holds for all values of the constants that the named assumptions
of the modules allow: any number of descriptors, objects, endpoints, clients,
starts, any set of faults. Ten theorems have a hypothesis of their own, given
below. Each safety proof has the same shape: an inductive invariant `IInv`, a
lemma for the initial states, one lemma per action or handler, and a corollary
per property that a run also checks. `PROJECT.json` lists the theorems with the
properties they state.

**Pool** (`PoolProofs`). The assumptions are `SizeAssumption`
(the parameters PoolInit accepts) and `HeapAssumption` (malloc never returns the
inside of the block). `IInv` adds to the properties themselves what they need to
be inductive: every heap element the pool or the client has is still allocated
(`HeapTracked`), without which an address malloc returns could already be on the
alloc list; `PoolInit` has queued exactly the first `u32` slices
(`FillProgress`), without which the next slice or its bucket could be in use;
and the client's set is finite, so that it can be counted. On top of it,
`PoolImplementsPoolAbs` shows that Init maps to the abstract Init and every step
to an abstract step or a stutter (free elements are those of the alloc list,
used ones are the client's), and `CleanedOnce` that nothing Init opened is left
or cleaned twice. `AllMemoryFreed` assumes `Size = 0` or that malloc never places
an element at the very end of the data buffer: the comparison in
PoolDataPreAllocated includes the address after the last slice, and an element
that malloc put there would be taken for a slice and not freed.

**Event loop** (`AeLemmas`, `EventLoopProofs`). `AeLemmas` says what
`FileEventCreated`, `FileEventDeleted`, `Resized` and the rescan for maxfd
return. The invariants hold each other up: maxfd is exact only because the
rescan of aeDeleteFileEvent starts below the highest slot in use, a resize keeps
the kernel's list and the slots in step only because maxfd is exact, and a close
leaves no slot behind only because taking AE_WRITABLE away takes AE_BARRIER
away too. `BarrierOrder` is not inductive: `StageOrder` says which handlers may
have been called at each stage of an entry's dispatch. `ResizeIsSafe` is an
action property.

**Life cycle** (`LifecycleProofs`), for any set of at most `MaxEndpoints`
provider agents. `RegisteredIsListening` needs `KeyHistory`: a key that is there
before its agent has registered was left by a life that ended uncleanly.
`ServingIsReady` needs what an agent has at each place of main (`Progress`) and
how far the start-up loops have come (`LocalPools`, `PoolsFilled`: each pool of
the consumer agent is full or empty but the one of the key it is working on).

**Provider agent** (`ProviderProofs`). After a failed registration an object may
be in its pool twice, so that two sockets have events that point to it. The
invariant therefore cannot say that every socket has an owner. It says that a
connection_ap is closed by every abort and never opened again, so that an object
that was put back twice has no local provider any more and its clients never get
a response (`Abandoned`), and that an object that has one is the only owner of
the sockets whose events point to it (`Bound`) and is in the pool only when
closed and only once (`PooledOnce`). `Whole` (a writable event means a whole
response) is inductive only together with these. `Healthy` is the ownership that
holds until the first abort.

**Consumer agent** (`ConsumerProofs`). A connection_ca may leave its
connection_apa behind with its events registered, serve another consumer and
take another connection, so that the events of several connections point to one
object; objects may be returned twice here too. What holds rests on `conn_apa`:
at most one object refers to a connection_apa, and only an open object refers to
an open one (`Apart`); one in its pool is referred to by none and has no event
(`Idle`); it leaves the pool only for the object that takes it, is closed only
by the object that refers to it and given back only by that one after its events
are dropped. `Counts` says that at least as many connections of an endpoint are
outstanding as objects refer to, so that no return finds the pool full and an
element is never dropped. This proves `TypeOK`, `NoStrayDescriptor` and
`PooledConnectionIdle` for all faults. Hypotheses of the others:

- `BalancerFindsConnection`: `Protect <= NumApa`. LOAD_PROTECT_THRESHOLD is 100
  and NUM_CONN_PER_PROVIDER 512 (consumer.c:8, 14); with a larger threshold the
  fastest endpoint would be chosen although it is exhausted.
- `OwnershipHolds`, `OutstandingHolds`: `Reliable`, that is, epoll_ctl does not
  fail and the descriptors of consumer_init are below the set size (3 * 512 of
  EV_MAX_SET_SIZE 2048, main.c:14). Without it a failed registration in
  read_from_consumer aborts the connection twice. Registrations of accepted
  sockets may still fail because the set size runs out. `Owned` is the part of
  the invariant that holds then.

**Forwarding** (second part of `ConsumerProofs` and `ProviderProofs`). Both
agents implement the safety part of `Forwarding`: nobody gets a byte that is not
the next one of the answer to his own request, however requests, heads, answers
and writes are cut and the handlers of all objects are interleaved. That is only
so among well-behaved peers, and the hypothesis `WellBehaved` of each proof says
which these are:

- consumer agent: the faults are among requests in pieces and short writes; all descriptors of consumer_init fit the event loop; a
  request is shorter than its buffer and an answer than its buffer;
- provider agent: the faults are among heads in pieces and dubbo responses in
  pieces; every descriptor fits the event loop; the same about the buffers.

"Shorter" and not "at most": a read with no room left returns 0, which the
handlers take for the end of the connection, and the proof excludes it. The list
of observations above says what goes wrong with the other faults.

The invariant `FInv` says where every byte under way is. In the consumer agent
an object that serves somebody is resting, being asked, passing the request on,
replied to (the answer is in its provider connection) or answering; each stage
fixes the contents of both sockets, both buffers and the provider agent's queue
as runs of one request's or one answer's bytes, and a connection no object refers
to holds none (`Quiet`). In the provider agent the stages are resting, asking,
sending, invoking and replying, and the local connection of an object that serves
nobody is silent (`Silent`): the response is matched to its request by the
connection alone. No read finds the bytes of two messages, since a client asks
again only when it has its answer. `StepTalks` shows for each action that the
stages are kept and that the step is one of `Forwarding` or changes none of its
variables; the agent's own close of a client's socket changes none, and closing the socket of
a client that has left is the client's `Leave` (`StepCloses`). `NoConnectionLeaks` and `ConsumerNeverCrashes` follow from the same
invariant; `consumer_crash` shows that the second needs its hypothesis.

**HTTP parser** (`HttpParserProofs`), for any bytes, any pieces, any `uint64_t`
of at least five bits and any header limit (`ParserAssumption`; `WiresAssumption`
says that a wire carries a sequence of bytes). Each assertion of
http_parser_execute is made in one state about what an earlier state, perhaps in
an earlier call, left behind. `Sound` says what the parser holds in each state
(the word being matched, F_CHUNKED in all chunk states, a length that is neither
0 nor "none" while a body is read), `Marks` which mark may be set there, so that
at most one is left at the end of a piece, and `Counting` that `nread` is within
its limit and restarts before each chunk size. The arithmetic is that the
overflow test of a chunk size leaves room for one more digit and for the mark
ULLONG_MAX (`ChunkDigit`), and that what is read of a body is at least one byte
and at most what is left, so that the unsigned difference never wraps
(`ToReadFacts`).

The proofs cover both agents' environment actions as well (clients, provider
agents, local provider), so nothing is assumed of the peers beyond the model and
the hypotheses named.

Only model-checked:

- all liveness and fairness, the liveness part of `Forwarding`
  (`AnswersEveryRequest`) included: the prover handles neither ENABLED nor
  leads-to under fairness;
- `DecodesRequests`, which compares what is delivered with the meaning of the
  whole input, and `HeaderSizeBounded`, which counts the bytes seen outside
  bodies and so needs the same: both are induction over data. `HttpTokens` and
  `HttpRequests` are operators evaluated on the instance's inputs.

No module declares a RECURSIVE operator.

## Plan

Done: all modules of the table, the proofs above. What could come next is the
exact decoding of one request of arbitrary length (`DecodesRequests`), which
takes an induction over the bytes of a wire, and a weaker promise than
`Forwarding` that holds when a peer closes early.

## Not modelled

- Time events and `aeWait` (no caller); `get_endpoint_min_latency_prob` (no
  caller) and the arithmetic of the average latency.
- The response side of the HTTP parser, `http_parser_parse_url`,
  `http_parser_pause` (no caller); bytes above 127.
- `etcd_get`, `etcd_set_with_check`, `etcd_watch` (no caller), building of URLs (the "/" left by `etcd_del` included)
  and JSON.
- The wording of HTTP and dubbo messages, URL decoding of the argument, the size
  of the static buffer for a response and the value of its Content-Length.
- Memory before an array (`events[-1]`) and what a wild access does besides
  ending the process.
- Socket wrapper, allocator, logging, address look-up and the clock; the other
  polling back ends, which are not compiled on Linux.
