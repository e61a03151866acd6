------------------------------ MODULE SockOps ------------------------------
(***************************************************************************)
(* The kernel's side of the agents' non-blocking sockets, as operators on  *)
(* a table of sockets by descriptor.  A socket says what it is, which peer *)
(* is at its other end, what that peer has sent and the agent has not read *)
(* yet, and whether the peer has closed ("eof") or reset ("rst") it.       *)
(***************************************************************************)
EXTENDS Integers, Sequences

NoSock == [kind |-> "free", peer |-> 0, inq |-> <<>>, st |-> "open"]
Sock(kind, peer) == [NoSock EXCEPT !.kind = kind, !.peer = peer]

Prefix(s, n) == SubSeq(s, 1, n)
Suffix(s, n) == SubSeq(s, n + 1, Len(s))

(* accept and socket hand out the lowest free descriptor. *)
FreeFds(sock) == {fd \in DOMAIN sock : sock[fd].kind = "free"}
NewFd(sock) == CHOOSE fd \in FreeFds(sock) : \A g \in FreeFds(sock) : fd <= g

(* read into `space' bytes.  No space reads as 0, like the end of file;    *)
(* what was received before a reset is still read.                         *)
ReadResult(s, space) ==
    CASE space = 0 -> "eof"
      [] space > 0 /\ s.inq # <<>> -> "data"
      [] space > 0 /\ s.inq = <<>> -> [open |-> "again", eof |-> "eof", rst |-> "error"][s.st]
ReadLen(s, space) == IF Len(s.inq) < space THEN Len(s.inq) ELSE space
Received(s, space) == Prefix(s.inq, ReadLen(s, space))
AfterRead(sock, fd, space) == [sock EXCEPT ![fd].inq = Suffix(@, ReadLen(sock[fd], space))]

(* n bytes written to a peer that has closed are answered by a reset. *)
AfterWrite(sock, fd, n) == [sock EXCEPT ![fd].st = IF @ = "eof" /\ n > 0 THEN "rst" ELSE @]

CloseFds(sock, fds) == [fd \in DOMAIN sock |-> IF fd \in fds THEN NoSock ELSE sock[fd]]
=============================================================================
