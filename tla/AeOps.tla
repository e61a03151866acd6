------------------------------- MODULE AeOps -------------------------------
(***************************************************************************)
(* The file-event API of the ae event library (ae.c, opt/ae_epoll.c) as    *)
(* operators on one event loop.  EventLoop.tla makes a state machine of    *)
(* them, the agents' modules apply them to the agent's event loop.         *)
(*                                                                         *)
(* An event loop is a record:                                              *)
(*   setsize  the number of slots allocated                                *)
(*   maxfd    highest file descriptor currently registered, -1 for none    *)
(*   events   the slots: [mask, rfileProc, wfileProc, clientData] by fd    *)
(*   epoll    the kernel's interest list: by fd, NotMonitored or the set   *)
(*            of events asked for                                          *)
(* A mask is a subset of {"R", "W", "B"}: AE_READABLE, AE_WRITABLE and     *)
(* AE_BARRIER; AE_NONE is the empty set.                                   *)
(***************************************************************************)
EXTENDS Integers

AE_READABLE == "R"
AE_WRITABLE == "W"
AE_BARRIER == "B"
Masks == SUBSET {AE_READABLE, AE_WRITABLE, AE_BARRIER}
ReadWrite == {AE_READABLE, AE_WRITABLE}

(* Not in the interest list.  (EPOLLERR and EPOLLHUP are always reported,  *)
(* so being monitored for nothing is something else.)                      *)
NotMonitored == {"none"}

(* A slot with mask AE_NONE; its other fields are not read. *)
EmptySlot(noproc, nodata) ==
    [mask |-> {}, rfileProc |-> noproc, wfileProc |-> noproc, clientData |-> nodata]

(* aeApiAddEvent picks EPOLL_CTL_ADD for a slot with mask AE_NONE and      *)
(* EPOLL_CTL_MOD otherwise; the kernel refuses to ADD what it monitors and *)
(* to MOD what it does not.                                                *)
EpollCtlOk(el, fd) ==
    IF el.events[fd].mask = {} THEN el.epoll[fd] = NotMonitored
                               ELSE el.epoll[fd] # NotMonitored

(* The fd is within the set size (else ERANGE) and epoll_ctl accepts it.   *)
CreateAccepted(el, fd) == fd < el.setsize /\ EpollCtlOk(el, fd)

(* Mutant: the mask goes to the kernel as it is. *)
FileEventCreatedM(el, fd, mask, proc, data) ==
    LET merged == el.events[fd].mask \union mask
    IN [el EXCEPT
        !.events[fd] = [mask |-> merged, rfileProc |-> proc, wfileProc |-> proc, clientData |-> data],
        !.epoll[fd] = merged,
        !.maxfd = IF fd > @ THEN fd ELSE @]
(* aeCreateFileEvent when it returns AE_OK.  clientData is one field for   *)
(* both directions: the later registration wins.                           *)
FileEventCreated(el, fd, mask, proc, data) ==
    LET old == el.events[fd]
        merged == old.mask \union mask
    IN [el EXCEPT
        !.events[fd] = [mask |-> merged,
                        rfileProc |-> IF AE_READABLE \in mask THEN proc ELSE old.rfileProc,
                        wfileProc |-> IF AE_WRITABLE \in mask THEN proc ELSE old.wfileProc,
                        clientData |-> data],
        !.epoll[fd] = merged \cap ReadWrite,
        !.maxfd = IF fd > @ THEN fd ELSE @]

(* The rescan of aeDeleteFileEvent: the highest slot below fd in use. *)
MaxfdBelow(el, fd) ==
    LET used == {j \in DOMAIN el.events : j < fd /\ el.events[j].mask # {}}
    IN IF used = {} THEN -1 ELSE CHOOSE j \in used : \A k \in used : k <= j

(* Mutant: AE_BARRIER survives the removal of AE_WRITABLE. *)
RemovedM(mask) == mask
(* "We want to always remove AE_BARRIER if set when AE_WRITABLE is removed" *)
Removed(mask) == IF AE_WRITABLE \in mask THEN mask \union {AE_BARRIER} ELSE mask

(* Mutant: maxfd is lowered only when the slot of maxfd - 1 is in use. *)
FileEventDeletedM(el, fd, mask) ==
    LET left == el.events[fd].mask \ Removed(mask)
        lower == fd = el.maxfd /\ left = {} /\ fd - 1 \in DOMAIN el.events /\ el.events[fd - 1].mask # {}
    IN IF fd >= el.setsize \/ el.events[fd].mask = {} THEN el
       ELSE [el EXCEPT
              !.events[fd].mask = left,
              !.epoll[fd] = IF left = {} THEN NotMonitored ELSE left \cap ReadWrite,
              !.maxfd = IF lower THEN fd - 1 ELSE @]
(* Mutant: the kernel is not told. *)
FileEventDeletedN(el, fd, mask) ==
    LET left == el.events[fd].mask \ Removed(mask)
    IN IF fd >= el.setsize \/ el.events[fd].mask = {} THEN el
       ELSE [el EXCEPT
              !.events[fd].mask = left,
              !.maxfd = IF fd = @ /\ left = {} THEN MaxfdBelow(el, fd) ELSE @]
(* aeDeleteFileEvent. *)
FileEventDeleted(el, fd, mask) ==
    LET left == el.events[fd].mask \ Removed(mask)
    IN IF fd >= el.setsize \/ el.events[fd].mask = {} THEN el
       ELSE [el EXCEPT
              !.events[fd].mask = left,
              !.epoll[fd] = IF left = {} THEN NotMonitored ELSE left \cap ReadWrite,
              !.maxfd = IF fd = @ /\ left = {} THEN MaxfdBelow(el, fd) ELSE @]

(* Mutant: the size of the new array is not compared with maxfd. *)
ResizeAcceptedM(el, n) == TRUE
(* aeResizeSetSize refuses to lose a registered slot. *)
ResizeAccepted(el, n) == n = el.setsize \/ el.maxfd < n

(* aeResizeSetSize when it returns AE_OK: the slots above maxfd start      *)
(* empty, the ones beyond the set size are not the loop's memory any more. *)
Resized(el, n, blank, garbage) ==
    IF n = el.setsize THEN el
    ELSE [el EXCEPT
           !.setsize = n,
           !.events = [fd \in DOMAIN el.events |->
                         IF fd >= n THEN garbage
                         ELSE IF fd > el.maxfd THEN blank ELSE el.events[fd]]]
=============================================================================
