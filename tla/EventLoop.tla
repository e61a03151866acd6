----------------------------- MODULE EventLoop -----------------------------
(***************************************************************************)
(* aeMain and aeProcessEvents (ae.c) over epoll (opt/ae_epoll.c), with     *)
(* handlers that may make any sequence of calls to the file-event API and  *)
(* open and close descriptors, and signals that call aeStop.               *)
(*                                                                         *)
(* A handler is a phase, not a step: between its call and its return it    *)
(* does what the agents' handlers do, so that the entries of the batch     *)
(* that are still to be dispatched may be stale when their turn comes.     *)
(***************************************************************************)
EXTENDS AeOps, Sequences, FiniteSets

CONSTANTS NumFds,     \* descriptors the kernel hands out: 0 .. NumFds-1
          SetSizes,   \* set sizes asked for; the first one by aeCreateEventLoop
          Procs,      \* handler functions
          NewMasks    \* masks passed to aeCreateFileEvent

ASSUME NumFdsAssumption == NumFds \in Nat
ASSUME SetSizesAssumption == SetSizes \subseteq 1 .. NumFds /\ SetSizes # {}
ASSUME NewMasksAssumption == NewMasks \subseteq Masks /\ {} \notin NewMasks

Fds == 0 .. NumFds - 1

VARIABLES el,       \* the event loop record of AeOps
          open,     \* the open descriptors
          pc,       \* "setup", "check", "enter", "wait", "dispatch", "handler", "exited"
          fired,    \* the entries of the batch still to be dispatched, the current one first
          stage,    \* where the dispatch of the current entry stands: "first", "write", "last"
          invert,   \* AE_BARRIER was set when that dispatch began
          called,   \* handlers called for the current entry, in order
          stop      \* eventLoop->stop

vars == <<el, open, pc, fired, stage, invert, called, stop>>
batchVars == <<fired, stage, invert, called>>

None == "none"
Blank == EmptySlot(None, None)
(* What a slot outside the allocated array may hold. *)
Garbage == [Blank EXCEPT !.mask = {AE_READABLE}]

Init ==
    /\ \E n \in SetSizes :
        el = [setsize |-> n, maxfd |-> -1,
              events |-> [fd \in Fds |-> IF fd < n THEN Blank ELSE Garbage],
              epoll |-> [fd \in Fds |-> NotMonitored]]
    /\ open = {}
    /\ pc = "setup"
    /\ fired = <<>> /\ stage = "first" /\ invert = FALSE /\ called = <<>>
    /\ stop = FALSE

-----------------------------------------------------------------------------
(* Calls made by the program: by main before aeMain, by handlers after.    *)

InProgram == pc \in {"setup", "handler"}

(* accept, socket: the kernel hands out the lowest free descriptor. *)
Open ==
    /\ InProgram
    /\ \E fd \in Fds \ open :
        /\ \A k \in Fds \ open : fd <= k
        /\ open' = open \union {fd}
    /\ UNCHANGED <<el, pc, batchVars, stop>>

(* The program always drops both directions before it closes; close takes  *)
(* the descriptor out of the kernel's interest list.                       *)
DeleteAndClose ==
    /\ InProgram
    /\ \E fd \in open :
        /\ el' = [FileEventDeleted(el, fd, ReadWrite) EXCEPT !.epoll[fd] = NotMonitored]
        /\ open' = open \ {fd}
    /\ UNCHANGED <<pc, batchVars, stop>>

aeCreateFileEvent ==
    /\ InProgram
    /\ \E fd \in open, mask \in NewMasks, proc \in Procs :
        /\ CreateAccepted(el, fd)
        /\ el' = FileEventCreated(el, fd, mask, proc, None)
    /\ UNCHANGED <<open, pc, batchVars, stop>>

aeDeleteFileEvent ==
    /\ InProgram
    /\ \E fd \in open, mask \in {{AE_READABLE}, {AE_WRITABLE}, ReadWrite} :
        el' = FileEventDeleted(el, fd, mask)
    /\ UNCHANGED <<open, pc, batchVars, stop>>

(* Not called by a handler: the batch being dispatched is in the array     *)
(* that is reallocated.                                                    *)
aeResizeSetSize ==
    /\ pc = "setup"
    /\ \E n \in SetSizes :
        /\ ResizeAccepted(el, n)
        /\ el' = Resized(el, n, Blank, Garbage)
    /\ UNCHANGED <<open, pc, batchVars, stop>>

-----------------------------------------------------------------------------
(* aeMain *)

aeMainEnter ==
    /\ pc = "setup"
    /\ pc' = "check"
    /\ stop' = FALSE
    /\ UNCHANGED <<el, open, batchVars>>

(* Mutant: the flag is not looked at. *)
WhileNotStopM ==
    /\ pc = "check"
    /\ pc' = IF el.maxfd # -1 THEN "enter" ELSE "check"
    /\ UNCHANGED <<el, open, batchVars, stop>>
(* while (!eventLoop->stop), and aeProcessEvents' test of maxfd, without   *)
(* which there is nothing to wait for.                                     *)
WhileNotStop ==
    /\ pc = "check"
    /\ pc' = IF stop THEN "exited" ELSE IF el.maxfd # -1 THEN "enter" ELSE "check"
    /\ UNCHANGED <<el, open, batchVars, stop>>

(* The program is inside epoll_wait with timeout -1. *)
EpollWait ==
    /\ pc = "enter"
    /\ pc' = "wait"
    /\ UNCHANGED <<el, open, batchVars, stop>>

(* What epoll may report of a descriptor: events asked for, and EPOLLERR   *)
(* or EPOLLHUP at any time; aeApiPoll turns those into AE_WRITABLE.        *)
Reports(fd) ==
    IF el.epoll[fd] = NotMonitored THEN {}
    ELSE (SUBSET el.epoll[fd] \union {m \union {AE_WRITABLE} : m \in SUBSET el.epoll[fd]}) \ {{}}

(* The batch: each of these descriptors once, in the order of the kernel's *)
(* ready list, with what is reported of it.                                *)
Orders(fds) ==
    {s \in [1 .. Cardinality(fds) -> fds] : \A i, j \in DOMAIN s : s[i] = s[j] => i = j}
Batches(fds) ==
    {[i \in DOMAIN s |-> [fd |-> s[i], mask |-> m[s[i]]]] :
        s \in Orders(fds),
        m \in {f \in [fds -> SUBSET ReadWrite] : \A fd \in fds : f[fd] \in Reports(fd)}}

(* epoll_wait returns a batch. *)
aeApiPoll ==
    /\ pc = "wait"
    /\ \E fds \in SUBSET {fd \in Fds : Reports(fd) # {}} :
        /\ fds # {}
        /\ fired' \in Batches(fds)
    /\ pc' = "dispatch"
    /\ stage' = "first" /\ invert' = FALSE /\ called' = <<>>
    /\ UNCHANGED <<el, open, stop>>

-----------------------------------------------------------------------------
(* The body of aeProcessEvents' loop *)

Slot == el.events[fired[1].fd]
(* fe->mask & mask: what was reported and is still asked for. *)
Live == Slot.mask \cap fired[1].mask

Call(which) ==
    /\ pc' = "handler"
    /\ called' = Append(called, which)

Skip == UNCHANGED <<pc, called>>

(* if (!invert && fe->mask & mask & AE_READABLE) *)
DispatchFirst ==
    /\ pc = "dispatch" /\ fired # <<>> /\ stage = "first"
    /\ invert' = (AE_BARRIER \in Slot.mask)
    /\ IF ~invert' /\ AE_READABLE \in Live THEN Call(AE_READABLE) ELSE Skip
    /\ stage' = "write"
    /\ UNCHANGED <<el, open, fired, stop>>

(* A handler registered for both directions is called once. *)
NotYet == called = <<>> \/ Slot.wfileProc # Slot.rfileProc

(* if (fe->mask & mask & AE_WRITABLE) *)
DispatchWrite ==
    /\ pc = "dispatch" /\ fired # <<>> /\ stage = "write"
    /\ IF AE_WRITABLE \in Live /\ NotYet THEN Call(AE_WRITABLE) ELSE Skip
    /\ stage' = "last"
    /\ UNCHANGED <<el, open, fired, invert, stop>>

(* Mutant: the readable event is always fired last as well. *)
DispatchLastM ==
    /\ pc = "dispatch" /\ fired # <<>> /\ stage = "last"
    /\ IF AE_READABLE \in Live /\ NotYet THEN Call(AE_READABLE) ELSE Skip
    /\ stage' = "done"
    /\ UNCHANGED <<el, open, fired, invert, stop>>
(* if (invert && fe->mask & mask & AE_READABLE) *)
DispatchLast ==
    /\ pc = "dispatch" /\ fired # <<>> /\ stage = "last"
    /\ IF invert /\ AE_READABLE \in Live /\ NotYet THEN Call(AE_READABLE) ELSE Skip
    /\ stage' = "done"
    /\ UNCHANGED <<el, open, fired, invert, stop>>

(* Mutant: the index is not advanced. *)
NextEntryM ==
    /\ pc = "dispatch" /\ fired # <<>> /\ stage = "done"
    /\ stage' = "first" /\ invert' = FALSE /\ called' = <<>>
    /\ UNCHANGED <<el, open, pc, fired, stop>>
NextEntry ==
    /\ pc = "dispatch" /\ fired # <<>> /\ stage = "done"
    /\ fired' = Tail(fired)
    /\ stage' = "first" /\ invert' = FALSE /\ called' = <<>>
    /\ UNCHANGED <<el, open, pc, stop>>

(* aeProcessEvents returns to aeMain. *)
BatchDone ==
    /\ pc = "dispatch" /\ fired = <<>>
    /\ pc' = "check"
    /\ UNCHANGED <<el, open, batchVars, stop>>

HandlerReturns ==
    /\ pc = "handler"
    /\ pc' = "dispatch"
    /\ UNCHANGED <<el, open, batchVars, stop>>

(* signal_handler calls aeStop.  A signal that finds the program inside    *)
(* epoll_wait makes it return (EINTR, no events); at any other point it    *)
(* only sets the flag.                                                     *)
Signal ==
    /\ pc # "exited"
    /\ stop' = TRUE
    /\ pc' = IF pc = "wait" THEN "check" ELSE pc
    /\ UNCHANGED <<el, open, batchVars>>

Program == Open \/ DeleteAndClose \/ aeCreateFileEvent \/ aeDeleteFileEvent \/ aeResizeSetSize
Loop ==
    \/ aeMainEnter \/ WhileNotStop \/ EpollWait
    \/ DispatchFirst \/ DispatchWrite \/ DispatchLast \/ NextEntry \/ BatchDone
    \/ HandlerReturns

Next == Program \/ Loop \/ aeApiPoll \/ Signal

(* The loop's own steps are taken, handlers return.  Nothing makes a       *)
(* descriptor ready and nothing sends a signal.                            *)
Fairness == WF_vars(Loop)

Spec == Init /\ [][Next]_vars /\ Fairness

-----------------------------------------------------------------------------
Slots == [mask : Masks, rfileProc : Procs \union {None}, wfileProc : Procs \union {None},
          clientData : {None}]

(* Types. *)
TypeOK ==
    /\ el \in [setsize : SetSizes, maxfd : Fds \union {-1}, events : [Fds -> Slots],
               epoll : [Fds -> (SUBSET ReadWrite) \union {NotMonitored}]]
    /\ open \subseteq Fds
    /\ pc \in {"setup", "check", "enter", "wait", "dispatch", "handler", "exited"}
    /\ fired \in Seq([fd : Fds, mask : Masks])
    /\ stage \in {"first", "write", "last", "done"}
    /\ invert \in BOOLEAN /\ called \in Seq(ReadWrite)
    /\ stop \in BOOLEAN

(* The kernel's interest list says what the slots say, across every        *)
(* interleaving of add, modify, delete, close and reuse: so epoll_ctl is   *)
(* never asked to ADD what it has or to MOD what it has not, and nothing   *)
(* is reported that nobody registered.                                     *)
KernelMirrorsSlots ==
    \A fd \in Fds :
        el.epoll[fd] = IF fd < el.setsize /\ el.events[fd].mask # {}
                       THEN el.events[fd].mask \cap ReadWrite ELSE NotMonitored

(* "highest file descriptor currently registered" (ae.h:98), which the     *)
(* rescan of aeDeleteFileEvent, and the resize that trusts it, keep exact. *)
MaxfdExact ==
    /\ \A fd \in Fds : fd < el.setsize /\ el.events[fd].mask # {} => fd <= el.maxfd
    /\ el.maxfd # -1 => el.maxfd < el.setsize /\ el.events[el.maxfd].mask # {}

(* A descriptor whose slot is in use is open: the dispatcher never calls a *)
(* handler for a closed one, although entries of the batch may name it.    *)
RegisteredIsOpen ==
    \A fd \in Fds : fd < el.setsize /\ el.events[fd].mask # {} => fd \in open

(* With AE_BARRIER set when its dispatch begins, a descriptor's writable   *)
(* handler never runs after its readable one in the same iteration, and no *)
(* handler runs twice for one entry.                                       *)
BarrierOrder ==
    /\ invert => ~(Len(called) = 2 /\ called[1] = AE_READABLE)
    /\ Len(called) <= 2 /\ (Len(called) = 2 => called[1] # called[2])

(* aeResizeSetSize never drops a registration.                             *)
ResizeKeepsSlots ==
    [][el'.setsize # el.setsize =>
        \A fd \in Fds : fd < el.setsize /\ el.events[fd].mask # {} =>
            fd < el'.setsize /\ el'.events[fd] = el.events[fd]]_vars

(* Every entry of a batch is dispatched: the loop returns to its test.     *)
BatchCompletes == (pc = "dispatch") ~> (pc = "check")

(* Once aeMain runs, a signal ends the program as long as epoll_wait goes  *)
(* on returning: aeStop's flag is not lost and is seen after the batch.    *)
SignalEndsBusyProgram == []<>(pc # "wait") => ((stop /\ pc # "setup") ~> (pc = "exited"))
=============================================================================
