-------------------------- MODULE HttpParserProofs --------------------------
(***************************************************************************)
(* Proof that the assertions of http_parser_execute hold for every input:  *)
(* any bytes, cut into any number of pieces, any width of uint64_t and any *)
(* limit on headers.                                                       *)
(*                                                                         *)
(* Each assertion is made in one state about what an earlier state left    *)
(* behind, possibly calls ago.  Sound says for each state what the parser  *)
(* holds there; Marks says which mark may be set there, so that a mark     *)
(* never outlives its state.                                               *)
(***************************************************************************)
EXTENDS HttpParser, WellFoundedInduction, TLAPS

(* The fields of an http_parser, and those that are counted with. *)
IsParser(q) ==
    /\ q = [state |-> q.state, header_state |-> q.header_state, index |-> q.index,
            flags |-> q.flags, nread |-> q.nread, content_length |-> q.content_length,
            method |-> q.method, http_major |-> q.http_major, http_minor |-> q.http_minor,
            upgrade |-> q.upgrade, http_errno |-> q.http_errno]
    /\ q.nread \in Int /\ q.content_length \in 0 .. ULLONG_MAX

FieldStates == {"h_general", "h_C", "h_CO", "h_CON", "h_matching_connection",
                "h_matching_proxy_connection", "h_matching_content_length",
                "h_matching_transfer_encoding", "h_matching_upgrade", "h_connection",
                "h_content_length", "h_transfer_encoding", "h_upgrade"}
ChunkStates == {"s_chunk_size_start", "s_chunk_size", "s_chunk_parameters",
                "s_chunk_size_almost_done", "s_chunk_data", "s_chunk_data_almost_done",
                "s_chunk_data_done"}

(* What the parser holds in each state. *)
Sound(q) ==
    /\ q.state = "s_header_field" => q.header_state \in FieldStates
    /\ q.state = "s_header_value" => q.header_state \notin {"h_connection", "h_transfer_encoding"}
    /\ q.state \in ChunkStates => "F_CHUNKED" \in q.flags
    /\ q.state \in {"s_body_identity", "s_chunk_data"} =>
           q.content_length \notin {0, ULLONG_MAX}
    /\ q.state \in {"s_chunk_size", "s_chunk_parameters", "s_chunk_size_almost_done"} =>
           q.content_length # ULLONG_MAX
    /\ q.state = "s_chunk_data_almost_done" => q.content_length = 0

(* The marks that may be set in a state. *)
Marks(s) ==
    CASE s \in UrlStart \cup UrlRest -> {"url"}
      [] s = "s_header_field" -> {"header_field"}
      [] s = "s_header_value" -> {"header_value"}
      [] s \in {"s_body_identity", "s_chunk_data", "s_chunk_data_almost_done"} -> {"body"}
      [] OTHER -> {}

(* While there is no error, the header count is within its limit, and it   *)
(* restarts before each chunk size.                                        *)
Counting ==
    parser.http_errno = "HPE_OK" =>
        /\ parser.nread <= HTTP_MAX_HEADER_SIZE
        /\ parser.state = "s_chunk_size_start" => parser.nread = IF pc = "switch" THEN 1 ELSE 0

(* Where the loop is. *)
Running ==
    /\ pc # "idle" => /\ parser.http_errno = "HPE_OK" /\ p <= end
                      /\ marks \subseteq Marks(parser.state)
    /\ pc = "switch" => p < end
    /\ pc = "field" => parser.state = "s_header_field"
    /\ pc = "value" => parser.state = "s_header_value"

PType ==
    /\ IsParser(parser) /\ p \in Nat /\ end \in Nat /\ start \in Nat
    /\ Len(data) \in Nat
    /\ pc \in {"idle", "loop", "switch", "field", "value"}

IInv == PType /\ Sound(parser) /\ Counting /\ Running

-----------------------------------------------------------------------------
(* Operators. *)

(* Every non-empty set of naturals has a least element. *)
LEMMA LeastPosition ==
    ASSUME NEW S \in SUBSET Nat, S # {}
    PROVE  \E m \in S : \A k \in S : m <= k
<1>1. PICK m \in S : \A k \in S : ~(<<k, m>> \in OpToRel(<, Nat))
    BY WFMin, NatLessThanWellFounded, Zenon
<1>2. \A k \in S : ~(k < m)
    BY <1>1, Zenon DEF OpToRel
<1>3. \A k \in S : k \in Nat /\ m \in Nat
    OBVIOUS
<1>4. \A k \in S : m <= k
    BY <1>2, <1>3
<1> QED BY <1>4

(* A decimal digit has a value from 0 to 9. *)
LEMMA DigitValue ==
    ASSUME NEW c, IS_NUM(c)
    PROVE  Position(Digits, c) \in 1 .. 10
<1>1. \E i \in DOMAIN Digits : Digits[i] = c
    BY DEF IS_NUM, ToSet
<1>2. DOMAIN Digits = 1 .. 10
    BY DEF Digits
<1> QED BY <1>1, <1>2 DEF Position

(* A hexadecimal digit has a value from 0 to 15. *)
LEMMA HexValue ==
    ASSUME NEW c, IsHex(c)
    PROVE  unhex(c) \in 0 .. 15
<1>1. CASE IS_NUM(LowerCase(c))
    BY <1>1, DigitValue DEF unhex
<1>2. CASE ~IS_NUM(LowerCase(c))
  <2>1. \E i \in DOMAIN HexLetters : HexLetters[i] = LowerCase(c)
      BY <1>2 DEF IsHex, IS_NUM, ToSet
  <2>2. DOMAIN HexLetters = 1 .. 6
      BY DEF HexLetters
  <2>3. Position(HexLetters, LowerCase(c)) \in 1 .. 6
      BY <2>1, <2>2 DEF Position
  <2> QED BY <1>2, <2>3 DEF unhex
<1> QED BY <1>1, <1>2

(* The overflow test of a chunk size leaves room for one more digit and    *)
(* for the "no length" mark.                                               *)
LEMMA ChunkDigit ==
    ASSUME NEW n \in Nat, NEW k \in 0 .. 15, (ULLONG_MAX - 16) \div 16 >= n
    PROVE  (n * 16 + k) % (ULLONG_MAX + 1) \in 0 .. ULLONG_MAX - 1
<1>1. n * 16 + k <= ULLONG_MAX - 1
    BY ParserAssumption
<1> QED BY <1>1, ParserAssumption

(* A uint64_t stays one. *)
LEMMA Wrapped ==
    ASSUME NEW n \in Int
    PROVE  n % (ULLONG_MAX + 1) \in 0 .. ULLONG_MAX
BY ParserAssumption

(* What is left of a length after a part of it. *)
LEMMA LeftOver ==
    ASSUME NEW n \in 0 .. ULLONG_MAX, NEW k \in 0 .. n
    PROVE  (n - k) % (ULLONG_MAX + 1) = n - k
BY ParserAssumption

(* Another state. *)
LEMMA ToFacts ==
    ASSUME NEW q, IsParser(q), NEW s
    PROVE  /\ IsParser(To(q, s))
           /\ To(q, s).state = s
           /\ To(q, s).header_state = q.header_state
           /\ To(q, s).flags = q.flags
           /\ To(q, s).content_length = q.content_length
           /\ To(q, s).nread = q.nread
           /\ To(q, s).http_errno = q.http_errno
BY DEF To, IsParser

(* One field is assigned.  Alike: no field the invariant speaks of. *)
Alike(r, q) ==
    /\ r.state = q.state /\ r.header_state = q.header_state /\ r.flags = q.flags
    /\ r.content_length = q.content_length /\ r.nread = q.nread /\ r.http_errno = q.http_errno

LEMMA OtherFields ==
    ASSUME NEW q, IsParser(q), NEW x
    PROVE  /\ IsParser([q EXCEPT !.index = x]) /\ Alike([q EXCEPT !.index = x], q)
           /\ IsParser([q EXCEPT !.method = x]) /\ Alike([q EXCEPT !.method = x], q)
           /\ IsParser([q EXCEPT !.http_major = x]) /\ Alike([q EXCEPT !.http_major = x], q)
           /\ IsParser([q EXCEPT !.http_minor = x]) /\ Alike([q EXCEPT !.http_minor = x], q)
           /\ IsParser([q EXCEPT !.upgrade = x]) /\ Alike([q EXCEPT !.upgrade = x], q)
<1>1. IsParser([q EXCEPT !.index = x]) /\ Alike([q EXCEPT !.index = x], q)
    BY DEF IsParser, Alike
<1>2. IsParser([q EXCEPT !.method = x]) /\ Alike([q EXCEPT !.method = x], q)
    BY DEF IsParser, Alike
<1>3. IsParser([q EXCEPT !.http_major = x]) /\ Alike([q EXCEPT !.http_major = x], q)
    BY DEF IsParser, Alike
<1>4. IsParser([q EXCEPT !.http_minor = x]) /\ Alike([q EXCEPT !.http_minor = x], q)
    BY DEF IsParser, Alike
<1>5. IsParser([q EXCEPT !.upgrade = x]) /\ Alike([q EXCEPT !.upgrade = x], q)
    BY DEF IsParser, Alike
<1> QED BY <1>1, <1>2, <1>3, <1>4, <1>5

LEMMA HeaderStateFacts ==
    ASSUME NEW q, IsParser(q), NEW x
    PROVE  /\ IsParser([q EXCEPT !.header_state = x])
           /\ [q EXCEPT !.header_state = x].state = q.state
           /\ [q EXCEPT !.header_state = x].header_state = x
           /\ [q EXCEPT !.header_state = x].flags = q.flags
           /\ [q EXCEPT !.header_state = x].content_length = q.content_length
           /\ [q EXCEPT !.header_state = x].nread = q.nread
           /\ [q EXCEPT !.header_state = x].http_errno = q.http_errno
BY DEF IsParser

LEMMA FlagsFacts ==
    ASSUME NEW q, IsParser(q), NEW x
    PROVE  /\ IsParser([q EXCEPT !.flags = x])
           /\ [q EXCEPT !.flags = x].state = q.state
           /\ [q EXCEPT !.flags = x].header_state = q.header_state
           /\ [q EXCEPT !.flags = x].flags = x
           /\ [q EXCEPT !.flags = x].content_length = q.content_length
           /\ [q EXCEPT !.flags = x].nread = q.nread
           /\ [q EXCEPT !.flags = x].http_errno = q.http_errno
BY DEF IsParser

LEMMA LengthFacts ==
    ASSUME NEW q, IsParser(q), NEW x \in 0 .. ULLONG_MAX
    PROVE  /\ IsParser([q EXCEPT !.content_length = x])
           /\ [q EXCEPT !.content_length = x].state = q.state
           /\ [q EXCEPT !.content_length = x].header_state = q.header_state
           /\ [q EXCEPT !.content_length = x].flags = q.flags
           /\ [q EXCEPT !.content_length = x].content_length = x
           /\ [q EXCEPT !.content_length = x].nread = q.nread
           /\ [q EXCEPT !.content_length = x].http_errno = q.http_errno
BY DEF IsParser

LEMMA NreadFacts ==
    ASSUME NEW q, IsParser(q), NEW x \in Int
    PROVE  /\ IsParser([q EXCEPT !.nread = x])
           /\ [q EXCEPT !.nread = x].state = q.state
           /\ [q EXCEPT !.nread = x].header_state = q.header_state
           /\ [q EXCEPT !.nread = x].flags = q.flags
           /\ [q EXCEPT !.nread = x].content_length = q.content_length
           /\ [q EXCEPT !.nread = x].nread = x
           /\ [q EXCEPT !.nread = x].http_errno = q.http_errno
BY DEF IsParser

(* The states about which nothing is claimed. *)
Plain(s) ==
    /\ s \notin ChunkStates \cup {"s_header_field", "s_header_value", "s_body_identity"}
    /\ s \notin UrlStart \cup UrlRest

LEMMA PlainIsSound ==
    ASSUME NEW q, Plain(q.state)
    PROVE  Sound(q) /\ Marks(q.state) = {} /\ q.state # "s_chunk_size_start"
BY DEF Plain, Sound, Marks, ChunkStates

(* A URL goes on in a state of the URL or is refused. *)
LEMMA UrlStates ==
    ASSUME NEW s \in UrlStart \cup UrlRest \cup {"s_req_spaces_before_url"}, NEW c
    PROVE  parse_url_char(s, c) \in UrlStart \cup UrlRest \cup {"s_dead"}
BY DEF parse_url_char, UrlStart, UrlRest

LEMMA UrlIsSound ==
    ASSUME NEW q, q.state \in UrlStart \cup UrlRest
    PROVE  Sound(q) /\ Marks(q.state) = {"url"} /\ q.state # "s_chunk_size_start"
BY DEF UrlStart, UrlRest, Sound, Marks, ChunkStates

-----------------------------------------------------------------------------
(* How a step ends. *)

(* The loop may go on with parser q and marks m. *)
Fit(q, m) ==
    /\ IsParser(q) /\ Sound(q)
    /\ q.http_errno = "HPE_OK" /\ q.nread <= HTTP_MAX_HEADER_SIZE
    /\ q.state = "s_chunk_size_start" => q.nread = 0
    /\ m \subseteq Marks(q.state)

LEMMA SwitchFacts ==
    ASSUME IInv, pc = "switch"
    PROVE  /\ IsParser(parser) /\ Sound(parser)
           /\ p \in Nat /\ end \in Nat /\ start \in Nat /\ p < end
           /\ parser.http_errno = "HPE_OK" /\ parser.nread <= HTTP_MAX_HEADER_SIZE
           /\ parser.nread \in Int
           /\ marks \subseteq Marks(parser.state)
           /\ parser.state # "s_chunk_size_start" => Fit(parser, marks)
<1>1. IsParser(parser) /\ Sound(parser) /\ p \in Nat /\ end \in Nat /\ start \in Nat
    BY DEF IInv, PType
<1>2. p < end /\ parser.http_errno = "HPE_OK" /\ marks \subseteq Marks(parser.state)
    BY DEF IInv, Running
<1>3. parser.nread <= HTTP_MAX_HEADER_SIZE
    BY <1>2 DEF IInv, Counting
<1>4. parser.nread \in Int
    BY <1>1 DEF IsParser
<1> QED BY <1>1, <1>2, <1>3, <1>4 DEF Fit

(* A state about which nothing is claimed, without a mark. *)
LEMMA PlainFits ==
    ASSUME NEW q, IsParser(q), NEW m, Plain(q.state), m = {},
           q.http_errno = "HPE_OK", q.nread <= HTTP_MAX_HEADER_SIZE
    PROVE  Fit(q, m)
BY PlainIsSound DEF Fit

LEMMA PlainHasNoMark ==
    ASSUME IInv, pc = "switch", Plain(parser.state)
    PROVE  marks = {}
BY SwitchFacts, PlainIsSound

(* The next byte, from the switch or from the loops over names and values. *)
LEMMA AdvanceKeeps ==
    ASSUME IInv, NEW q, Advance(q), p < end, Fit(q, marks'),
           wire' = wire, end' = end, start' = start
    PROVE  IInv'
<1>1. PType'
    BY DEF IInv, PType, Advance, Fit
<1>2. Sound(parser')
    BY DEF Advance, Fit
<1>3. Counting'
    BY DEF Advance, Fit, Counting
<1>4. Running'
    BY DEF IInv, PType, Advance, Fit, Running
<1> QED BY <1>1, <1>2, <1>3, <1>4 DEF IInv

LEMMA BreakKeeps ==
    ASSUME IInv, NEW q, Break(q), pc = "switch", Fit(q, marks), wire' = wire, end' = end
    PROVE  IInv'
<1>1. marks' = marks /\ start' = start /\ Advance(q)
    BY DEF Break, locals
<1> QED BY <1>1, AdvanceKeeps, SwitchFacts

LEMMA ReexecuteKeeps ==
    ASSUME IInv, NEW q, Reexecute(q), pc = "switch", Fit(q, marks),
           q.state # "s_chunk_size_start", wire' = wire, end' = end
    PROVE  IInv'
<1>1. marks' = marks /\ start' = start /\ p' = p /\ parser' = q /\ pc' = "switch"
    BY DEF Reexecute, locals
<1>2. PType'
    BY <1>1 DEF IInv, PType, Fit
<1>3. Sound(parser')
    BY <1>1 DEF Fit
<1>4. Counting'
    BY <1>1 DEF Fit, Counting
<1>5. Running'
    BY <1>1, SwitchFacts DEF IInv, PType, Fit, Running
<1> QED BY <1>2, <1>3, <1>4, <1>5 DEF IInv

LEMMA ErrnoFacts ==
    ASSUME NEW q, IsParser(q), Sound(q), NEW e
    PROVE  /\ IsParser([q EXCEPT !.http_errno = e])
           /\ [q EXCEPT !.http_errno = e].http_errno = e
           /\ [q EXCEPT !.http_errno = e].state = q.state
           /\ [q EXCEPT !.http_errno = e].nread = q.nread
           /\ Sound([q EXCEPT !.http_errno = e])
<1> DEFINE r == [q EXCEPT !.http_errno = e]
<1>1. /\ IsParser(r) /\ r.http_errno = e /\ r.state = q.state /\ r.nread = q.nread
      /\ r.header_state = q.header_state /\ r.flags = q.flags
      /\ r.content_length = q.content_length
    BY DEF IsParser
<1> HIDE DEF r
<1>2. Sound(r)
    BY <1>1 DEF Sound
<1> QED BY <1>1, <1>2 DEF r

(* The call has returned, with or without an error. *)
LEMMA ReturnKeeps ==
    ASSUME IInv, IsParser(parser'), Sound(parser'), pc' = "idle", p' \in Nat,
           wire' = wire, end' = end, start' = start,
           parser'.http_errno = "HPE_OK" =>
               /\ parser'.nread <= HTTP_MAX_HEADER_SIZE
               /\ parser'.state = "s_chunk_size_start" => parser'.nread = 0
    PROVE  IInv'
<1>1. PType'
    BY DEF IInv, PType
<1>2. Counting'
    BY DEF Counting
<1>3. Running'
    BY DEF Running
<1> QED BY <1>1, <1>2, <1>3 DEF IInv

LEMMA FailKeeps ==
    ASSUME IInv, NEW q, IsParser(q), NEW e, Fail(q, e), Sound(q), e # "HPE_OK",
           wire' = wire, end' = end
    PROVE  IInv'
<1>1. parser' = [q EXCEPT !.http_errno = e] /\ pc' = "idle" /\ p' = p /\ start' = start
    BY DEF Fail, locals
<1>2. IsParser(parser') /\ Sound(parser') /\ parser'.http_errno = e
    BY <1>1, ErrnoFacts
<1>3. p' \in Nat
    BY <1>1 DEF IInv, PType
<1> QED BY <1>1, <1>2, <1>3, ReturnKeeps

-----------------------------------------------------------------------------
(* Outside the switch. *)

LEMMA InitialParser == IsParser(http_parser_init) /\ Plain(http_parser_init.state)
<1>1. IsParser(http_parser_init)
    BY ParserAssumption DEF http_parser_init, IsParser
<1>2. http_parser_init.state = "s_start_req"
    BY DEF http_parser_init
<1> QED BY <1>1, <1>2 DEF Plain, ChunkStates, UrlStart, UrlRest

LEMMA InitKeeps == Init => IInv
<1> SUFFICES ASSUME Init PROVE IInv
    OBVIOUS
<1>1. parser = http_parser_init /\ pc = "idle" /\ p = 0 /\ end = 0 /\ start = 0
    BY DEF Init
<1>2. Len(data) \in Nat
  <2>1. PICK i \in DOMAIN Wires : wire = Carried(Wires[i])
      BY DEF Init
  <2>2. data \in Seq(STRING)
      BY <2>1, WiresAssumption DEF data
  <2> QED BY <2>2
<1>3. PType
    BY <1>1, <1>2, InitialParser DEF PType
<1>4. Sound(parser)
    BY <1>1, InitialParser, PlainIsSound
<1>5. Counting
    BY <1>1, InitialParser, PlainIsSound, ParserAssumption DEF Counting, http_parser_init
<1>6. Running
    BY <1>1 DEF Running
<1> QED BY <1>3, <1>4, <1>5, <1>6 DEF IInv

LEMMA FeedKeeps == ASSUME IInv, Feed PROVE IInv'
<1>1. PICK n \in 1 .. Len(data) - end : Execute(n)
    BY DEF Feed
<1>2. n \in Nat
    BY <1>1 DEF IInv, PType
<1>3. /\ pc = "idle" /\ p' = end /\ end' = end + n /\ start' = 0 /\ wire' = wire
      /\ parser' = parser
    BY <1>1 DEF Execute
<1>4. pc' \in {"loop", "idle"} /\ (pc' # "idle" => parser.http_errno = "HPE_OK")
    BY <1>1 DEF Execute
<1>5. marks' \subseteq Marks(parser.state)
    BY <1>1 DEF Execute, Marks, UrlStart, UrlRest
<1>6. PType'
    BY <1>2, <1>3, <1>4 DEF IInv, PType
<1>7. Sound(parser') /\ Counting'
    BY <1>3, <1>4 DEF IInv, Counting
<1>8. Running'
    BY <1>2, <1>3, <1>4, <1>5 DEF IInv, PType, Running
<1> QED BY <1>6, <1>7, <1>8 DEF IInv

LEMMA EofKeeps == ASSUME IInv, Eof PROVE IInv'
<1>1. /\ parser' = [parser EXCEPT !.http_errno = "HPE_INVALID_EOF_STATE"]
      /\ pc = "idle" /\ pc' = pc /\ p' = p /\ end' = end /\ wire' = wire /\ start' = start
    BY DEF Eof, locals
<1>2. IsParser(parser') /\ Sound(parser') /\ parser'.http_errno # "HPE_OK"
    BY <1>1, ErrnoFacts DEF IInv, PType
<1> QED BY <1>1, <1>2, ReturnKeeps DEF IInv, PType

LEMMA RenewKeeps == ASSUME IInv, Renew PROVE IInv'
<1>1. /\ parser' = http_parser_init
      /\ pc = "idle" /\ pc' = pc /\ p' = p /\ end' = end /\ wire' = wire /\ start' = start
    BY DEF Renew, locals
<1>2. /\ IsParser(parser') /\ Sound(parser') /\ parser'.state # "s_chunk_size_start"
    BY <1>1, InitialParser, PlainIsSound
<1>3. parser'.nread <= HTTP_MAX_HEADER_SIZE
    BY <1>1, ParserAssumption DEF http_parser_init
<1> QED BY <1>1, <1>2, <1>3, ReturnKeeps DEF IInv, PType

(* COUNT_HEADER_SIZE changes nothing else. *)
LEMMA CountedFacts ==
    ASSUME NEW q, IsParser(q), Sound(q), NEW n \in Int
    PROVE  /\ IsParser(Counted(q, n)) /\ Sound(Counted(q, n))
           /\ Counted(q, n).nread = q.nread + n /\ Counted(q, n).state = q.state
           /\ Counted(q, n).http_errno = q.http_errno
           /\ Counted(q, n).header_state = q.header_state
           /\ Counted(q, n).flags = q.flags /\ Counted(q, n).content_length = q.content_length
<1> DEFINE r == Counted(q, n)
<1>1. /\ IsParser(r) /\ r.nread = q.nread + n /\ r.state = q.state
      /\ r.http_errno = q.http_errno /\ r.header_state = q.header_state /\ r.flags = q.flags
      /\ r.content_length = q.content_length
    BY DEF IsParser, Counted
<1> HIDE DEF r
<1>2. Sound(r)
    BY <1>1 DEF Sound
<1> QED BY <1>1, <1>2 DEF r

LEMMA NextByteKeeps == ASSUME IInv, NextByte PROVE IInv'
<1> DEFINE n == IF PARSING_HEADER(parser.state) THEN 1 ELSE 0
<1>1. /\ IsParser(parser) /\ Sound(parser) /\ p \in Nat /\ end \in Nat /\ start \in Nat
      /\ p < end /\ pc = "loop" /\ parser.http_errno = "HPE_OK"
      /\ marks \subseteq Marks(parser.state) /\ parser.nread \in Int
      /\ parser.nread <= HTTP_MAX_HEADER_SIZE
      /\ parser.state = "s_chunk_size_start" => parser.nread = 0
    BY DEF IInv, PType, Running, Counting, NextByte, IsParser
<1>2. wire' = wire /\ end' = end
    BY DEF NextByte
<1>3. /\ IsParser(Counted(parser, n)) /\ Sound(Counted(parser, n))
      /\ Counted(parser, n).nread = parser.nread + n
      /\ Counted(parser, n).state = parser.state
      /\ Counted(parser, n).http_errno = "HPE_OK"
  <2>1. n \in Int
      OBVIOUS
  <2> HIDE DEF n
  <2> QED BY <2>1, <1>1, CountedFacts
<1>4. CASE n = 1 /\ Overflows(parser, n)
  <2>1. Fail(Counted(parser, n), "HPE_HEADER_OVERFLOW")
      BY <1>4 DEF NextByte
  <2> QED BY <2>1, <1>2, <1>3, FailKeeps
<1>5. CASE ~(n = 1 /\ Overflows(parser, n))
  <2>1. parser' = Counted(parser, n) /\ pc' = "switch" /\ p' = p /\ marks' = marks /\ start' = start
      BY <1>5 DEF NextByte, locals
  <2>2. parser.state = "s_chunk_size_start" => n = 1
      BY DEF PARSING_HEADER, BodyStates
  <2>3. parser.nread + n <= HTTP_MAX_HEADER_SIZE
      BY <1>1, <1>5, ParserAssumption DEF Overflows
  <2> HIDE DEF n
  <2>4. PType'
      BY <1>1, <1>2, <1>3, <2>1 DEF IInv, PType
  <2>5. Counting'
      BY <1>1, <1>3, <2>1, <2>2, <2>3 DEF Counting
  <2>6. Running'
      BY <1>1, <1>2, <1>3, <2>1 DEF Running
  <2> QED BY <1>3, <2>1, <2>4, <2>5, <2>6 DEF IInv
<1> QED BY <1>4, <1>5

(* Out of bytes: the call returns; a refused body is an error. *)
LEMMA EndOfPieceKeeps == ASSUME IInv, EndOfPiece PROVE IInv'
<1>1. /\ IsParser(parser) /\ Sound(parser) /\ p \in Nat /\ pc = "loop"
      /\ parser.http_errno = "HPE_OK" /\ parser.nread <= HTTP_MAX_HEADER_SIZE
      /\ parser.state = "s_chunk_size_start" => parser.nread = 0
    BY DEF IInv, PType, Running, Counting, EndOfPiece
<1>2. wire' = wire /\ end' = end /\ start' = start
    BY DEF EndOfPiece
<1>3. CASE "body" \in marks
  <2>1. PICK refused \in Refusals :
            /\ parser' = [parser EXCEPT !.http_errno = IF refused THEN "HPE_CB_body" ELSE @]
            /\ pc' = IF refused THEN "idle" ELSE "idle"
            /\ p' = IF refused THEN p ELSE p
      BY <1>3 DEF EndOfPiece, CallbackBody
  <2>2. pc' = "idle" /\ p' = p
      BY <2>1
  <2>3. /\ IsParser(parser') /\ Sound(parser')
        /\ parser'.state = parser.state /\ parser'.nread = parser.nread
      BY <1>1, <2>1, ErrnoFacts
  <2> QED BY <1>1, <1>2, <2>2, <2>3, ReturnKeeps
<1>4. CASE "body" \notin marks
  <2>1. pc' = "idle" /\ parser' = parser /\ p' = p
      BY <1>4 DEF EndOfPiece
  <2> QED BY <1>1, <1>2, <2>1, ReturnKeeps
<1> QED BY <1>3, <1>4

-----------------------------------------------------------------------------
(* The request line. *)

LEMMA CaseFacts ==
    ASSUME NEW S, Case(S)
    PROVE  pc = "switch" /\ parser.state \in S /\ wire' = wire /\ end' = end
BY DEF Case

(* A plain state is left for another one, or kept. *)
LEMMA PlainBreak ==
    ASSUME IInv, pc = "switch", wire' = wire, end' = end, Plain(parser.state),
           NEW q, IsParser(q), Plain(q.state), q.http_errno = parser.http_errno,
           q.nread = parser.nread, Break(q)
    PROVE  IInv'
<1>1. marks = {}
    BY PlainHasNoMark
<1>2. Fit(q, marks)
    BY <1>1, SwitchFacts, PlainFits
<1> QED BY <1>2, BreakKeeps

LEMMA PlainFail ==
    ASSUME IInv, pc = "switch", wire' = wire, end' = end, NEW q, IsParser(q), Plain(q.state),
           NEW e, e # "HPE_OK", Fail(q, e)
    PROVE  IInv'
BY PlainIsSound, FailKeeps

LEMMA DeadKeeps == ASSUME IInv, s_dead PROVE IInv'
<1>1. pc = "switch" /\ parser.state = "s_dead" /\ wire' = wire /\ end' = end
    BY CaseFacts DEF s_dead
<1>2. Plain(parser.state) /\ IsParser(parser)
    BY <1>1, SwitchFacts DEF Plain, ChunkStates, UrlStart, UrlRest
<1>3. CASE Break(parser)
    BY <1>1, <1>2, <1>3, PlainBreak
<1>4. CASE Fail(parser, "HPE_CLOSED_CONNECTION")
    BY <1>1, <1>2, <1>4, PlainFail
<1> QED BY <1>3, <1>4 DEF s_dead

LEMMA StartReqKeeps == ASSUME IInv, s_start_req PROVE IInv'
<1> DEFINE q == [parser EXCEPT !.flags = {}, !.content_length = ULLONG_MAX]
<1>c. Case({"s_start_req"})
    BY DEF s_start_req
<1>1. pc = "switch" /\ parser.state = "s_start_req" /\ wire' = wire /\ end' = end
    BY <1>c, CaseFacts
<1>2. Plain(parser.state) /\ IsParser(parser)
    BY <1>1, SwitchFacts DEF Plain, ChunkStates, UrlStart, UrlRest
<1>3. /\ IsParser(q) /\ q.state = parser.state /\ q.http_errno = parser.http_errno
      /\ q.nread = parser.nread
  <2> DEFINE r == [parser EXCEPT !.flags = {}]
  <2>1. /\ IsParser(r) /\ r.state = parser.state /\ r.http_errno = parser.http_errno
        /\ r.nread = parser.nread
      BY <1>2, FlagsFacts
  <2>2. q = [r EXCEPT !.content_length = ULLONG_MAX] /\ ULLONG_MAX \in 0 .. ULLONG_MAX
      BY ParserAssumption
  <2> HIDE DEF r, q
  <2> QED BY <2>1, <2>2, LengthFacts
<1>4. CASE Break(parser)
    BY <1>1, <1>2, <1>4, PlainBreak
<1>5. CASE Fail(q, "HPE_INVALID_METHOD")
    BY <1>1, <1>2, <1>3, <1>5, PlainFail
<1>6. ASSUME NEW m, Break([To(q, "s_req_method") EXCEPT !.method = m, !.index = 1])
      PROVE  IInv'
  <2> HIDE DEF q
  <2> DEFINE r == [To(q, "s_req_method") EXCEPT !.method = m, !.index = 1]
  <2>1. /\ IsParser(r) /\ r.state = "s_req_method" /\ r.http_errno = parser.http_errno
        /\ r.nread = parser.nread
    <3>1. IsParser(To(q, "s_req_method"))
        BY <1>3, ToFacts
    <3>2. r = [[To(q, "s_req_method") EXCEPT !.method = m] EXCEPT !.index = 1]
        OBVIOUS
    <3> DEFINE u == To(q, "s_req_method")
               v == [u EXCEPT !.method = m]
    <3>3. IsParser(v) /\ Alike(v, u)
        BY <3>1, OtherFields
    <3> HIDE DEF v
    <3>4. IsParser([v EXCEPT !.index = 1]) /\ Alike([v EXCEPT !.index = 1], v)
        BY <3>3, OtherFields
    <3>5. r = [v EXCEPT !.index = 1]
        BY <3>2 DEF v
    <3> HIDE DEF r
    <3>6. IsParser(r) /\ Alike(r, v)
        BY <3>4, <3>5
    <3> QED BY <1>3, <3>3, <3>6, ToFacts DEF Alike
  <2> HIDE DEF r
  <2>2. Plain(r.state)
      BY <2>1 DEF Plain, ChunkStates, UrlStart, UrlRest
  <2>3. Break(r)
      BY <1>6 DEF r
  <2> QED BY <1>1, <1>2, <2>1, <2>2, <2>3, PlainBreak
<1> QED BY <1>4, <1>5, <1>6 DEF s_start_req

LEMMA MethodKeeps == ASSUME IInv, s_req_method PROVE IInv'
<1>c. Case({"s_req_method"})
    BY DEF s_req_method
<1>1. pc = "switch" /\ parser.state = "s_req_method" /\ wire' = wire /\ end' = end
    BY <1>c, CaseFacts
<1>2. Plain(parser.state) /\ IsParser(parser)
    BY <1>1, SwitchFacts DEF Plain, ChunkStates, UrlStart, UrlRest
<1>3. ASSUME NEW s \in {"s_req_spaces_before_url", "s_req_method"}, NEW n,
             Break([Goto(s) EXCEPT !.index = n])
      PROVE  IInv'
  <2> DEFINE r == [Goto(s) EXCEPT !.index = n]
  <2>1. /\ IsParser(r) /\ r.state = s /\ r.http_errno = parser.http_errno
        /\ r.nread = parser.nread
    <3>1. IsParser(To(parser, s)) /\ r = [To(parser, s) EXCEPT !.index = n]
        BY <1>2, ToFacts DEF Goto
    <3> HIDE DEF r
    <3>2. IsParser(r) /\ Alike(r, To(parser, s))
        BY <3>1, OtherFields
    <3> QED BY <1>2, <3>2, ToFacts DEF Alike
  <2>2. Break(r)
      BY <1>3
  <2> HIDE DEF r
  <2>3. Plain(r.state)
      BY <2>1 DEF Plain, ChunkStates, UrlStart, UrlRest
  <2> QED BY <1>1, <1>2, <2>1, <2>2, <2>3, PlainBreak
<1>4. ASSUME NEW m, NEW n, Break([parser EXCEPT !.method = m, !.index = n])
      PROVE  IInv'
  <2> DEFINE r == [parser EXCEPT !.method = m, !.index = n]
  <2>1. /\ IsParser(r) /\ r.state = parser.state /\ r.http_errno = parser.http_errno
        /\ r.nread = parser.nread
    <3>1. r = [[parser EXCEPT !.method = m] EXCEPT !.index = n]
        OBVIOUS
    <3> DEFINE v == [parser EXCEPT !.method = m]
    <3>2. IsParser(v) /\ Alike(v, parser)
        BY <1>2, OtherFields
    <3> HIDE DEF v, r
    <3>3. r = [v EXCEPT !.index = n]
        BY <3>1 DEF v
    <3>4. IsParser(r) /\ Alike(r, v)
        BY <3>2, <3>3, OtherFields
    <3> QED BY <3>2, <3>4 DEF Alike
  <2>2. Break(r)
      BY <1>4
  <2> HIDE DEF r
  <2> QED BY <1>1, <1>2, <2>1, <2>2, PlainBreak
<1>5. CASE Fail(parser, "HPE_INVALID_METHOD")
    BY <1>1, <1>2, <1>5, PlainFail
<1> QED BY <1>3, <1>4, <1>5 DEF s_req_method

LEMMA SpacesKeeps == ASSUME IInv, s_req_spaces_before_url PROVE IInv'
<1> DEFINE from == IF parser.method = "CONNECT" THEN "s_req_server_start" ELSE parser.state
           next == parse_url_char(from, ch)
<1>c. Case({"s_req_spaces_before_url"})
    BY DEF s_req_spaces_before_url
<1>1. pc = "switch" /\ parser.state = "s_req_spaces_before_url" /\ wire' = wire /\ end' = end
    BY <1>c, CaseFacts
<1>2. Plain(parser.state) /\ IsParser(parser)
    BY <1>1, SwitchFacts DEF Plain, ChunkStates, UrlStart, UrlRest
<1>3. next \in UrlStart \cup UrlRest \cup {"s_dead"}
  <2>1. from \in UrlStart \cup UrlRest \cup {"s_req_spaces_before_url"}
      BY <1>1 DEF UrlStart
  <2> QED BY <2>1, UrlStates
<1>4. \/ Break(parser)
      \/ next # "s_dead" /\ MARK("url") /\ Advance(Goto(next))
      \/ next = "s_dead" /\ Fail(Goto(next), "HPE_INVALID_URL")
    BY DEF s_req_spaces_before_url
<1> HIDE DEF next
<1>5. CASE Break(parser)
    BY <1>1, <1>2, <1>5, PlainBreak
<1>6. CASE next # "s_dead" /\ MARK("url") /\ Advance(Goto(next))
  <2> DEFINE q == Goto(next)
  <2>1. /\ IsParser(q) /\ q.state \in UrlStart \cup UrlRest
        /\ q.http_errno = parser.http_errno /\ q.nread = parser.nread
      BY <1>2, <1>3, <1>6, ToFacts DEF Goto
  <2>2. marks' = {"url"} /\ start' = start
      BY <1>1, <1>2, <1>6, PlainHasNoMark DEF MARK
  <2>3. Advance(q)
      BY <1>6
  <2> HIDE DEF q
  <2>4. Fit(q, marks')
      BY <1>1, <2>1, <2>2, UrlIsSound, SwitchFacts DEF Fit
  <2> QED BY <1>1, <2>2, <2>3, <2>4, AdvanceKeeps, SwitchFacts
<1>7. CASE next = "s_dead" /\ Fail(Goto(next), "HPE_INVALID_URL")
  <2>1. IsParser(Goto(next)) /\ Goto(next).state = "s_dead"
      BY <1>2, <1>7, ToFacts DEF Goto
  <2>2. Plain(Goto(next).state)
      BY <2>1 DEF Plain, ChunkStates, UrlStart, UrlRest
  <2> QED BY <1>1, <1>7, <2>1, <2>2, PlainFail
<1> QED BY <1>4, <1>5, <1>6, <1>7

LEMMA UrlKeeps == ASSUME IInv, s_req_url PROVE IInv'
<1> DEFINE next == parse_url_char(parser.state, ch)
           after == CASE ch = " " -> Goto("s_req_http_start")
                      [] ch = "CR" -> [Goto("s_req_line_almost_done") EXCEPT
                                         !.http_major = 0, !.http_minor = 9]
                      [] OTHER -> [Goto("s_header_field_start") EXCEPT
                                     !.http_major = 0, !.http_minor = 9]
<1>c. Case(UrlStart \cup UrlRest)
    BY DEF s_req_url
<1>1. pc = "switch" /\ parser.state \in UrlStart \cup UrlRest /\ wire' = wire /\ end' = end
    BY <1>c, CaseFacts
<1>2. IsParser(parser) /\ marks \subseteq {"url"}
    BY <1>1, SwitchFacts, UrlIsSound
<1>3. next \in UrlStart \cup UrlRest \cup {"s_dead"}
    BY <1>1, UrlStates
<1>4. \/ Advance(after) /\ Unmark("url")
      \/ next # "s_dead" /\ Break(Goto(next))
      \/ next = "s_dead" /\ Fail(Goto(next), "HPE_INVALID_URL")
    BY DEF s_req_url
<1>5. CASE Advance(after) /\ Unmark("url")
  <2>1. /\ IsParser(after) /\ Plain(after.state)
        /\ after.http_errno = parser.http_errno /\ after.nread = parser.nread
    <3>1. ASSUME NEW s \in {"s_req_http_start", "s_req_line_almost_done", "s_header_field_start"}
          PROVE  /\ IsParser(Goto(s)) /\ Plain(Goto(s).state)
                 /\ Goto(s).http_errno = parser.http_errno /\ Goto(s).nread = parser.nread
      <4>1. IsParser(Goto(s)) /\ Goto(s).state = s
          BY <1>2, ToFacts DEF Goto
      <4>2. Plain(s)
          BY DEF Plain, ChunkStates, UrlStart, UrlRest
      <4> QED BY <1>2, <4>1, <4>2, ToFacts DEF Goto
    <3>2. ASSUME NEW q, IsParser(q)
          PROVE  /\ IsParser([q EXCEPT !.http_major = 0, !.http_minor = 9])
                 /\ Alike([q EXCEPT !.http_major = 0, !.http_minor = 9], q)
      <4> DEFINE v == [q EXCEPT !.http_major = 0]
      <4>1. IsParser(v) /\ Alike(v, q)
          BY <3>2, OtherFields
      <4> HIDE DEF v
      <4>2. IsParser([v EXCEPT !.http_minor = 9]) /\ Alike([v EXCEPT !.http_minor = 9], v)
          BY <4>1, OtherFields
      <4>3. [q EXCEPT !.http_major = 0, !.http_minor = 9] = [v EXCEPT !.http_minor = 9]
          BY DEF v
      <4> QED BY <4>1, <4>2, <4>3 DEF Alike
    <3>3. CASE ch = " "
        BY <3>1, <3>3
    <3>4. CASE ch = "CR"
      <4>1. after = [Goto("s_req_line_almost_done") EXCEPT !.http_major = 0, !.http_minor = 9]
          BY <3>4
      <4> HIDE DEF after
      <4> QED BY <3>1, <3>2, <4>1 DEF Alike
    <3>5. CASE ch # " " /\ ch # "CR"
      <4>1. after = [Goto("s_header_field_start") EXCEPT !.http_major = 0, !.http_minor = 9]
          BY <3>5
      <4> HIDE DEF after
      <4> QED BY <3>1, <3>2, <4>1 DEF Alike
    <3> QED BY <3>3, <3>4, <3>5
  <2> HIDE DEF after
  <2>2. marks' = {} /\ start' = start
      BY <1>2, <1>5 DEF Unmark
  <2>3. Fit(after, marks')
      BY <1>1, <2>1, <2>2, PlainFits, SwitchFacts
  <2> QED BY <1>1, <1>5, <2>2, <2>3, AdvanceKeeps, SwitchFacts
<1>6. CASE next # "s_dead" /\ Break(Goto(next))
  <2> HIDE DEF next
  <2> DEFINE q == Goto(next)
  <2>1. /\ IsParser(q) /\ q.state \in UrlStart \cup UrlRest
        /\ q.http_errno = parser.http_errno /\ q.nread = parser.nread
      BY <1>2, <1>3, <1>6, ToFacts DEF Goto
  <2>2. Break(q)
      BY <1>6
  <2> HIDE DEF q
  <2>3. Fit(q, marks)
      BY <1>1, <1>2, <2>1, UrlIsSound, SwitchFacts DEF Fit
  <2> QED BY <1>1, <2>2, <2>3, BreakKeeps
<1>7. CASE next = "s_dead" /\ Fail(Goto(next), "HPE_INVALID_URL")
  <2> HIDE DEF next
  <2>1. IsParser(Goto(next)) /\ Goto(next).state = "s_dead"
      BY <1>2, <1>7, ToFacts DEF Goto
  <2>2. Plain(Goto(next).state)
      BY <2>1 DEF Plain, ChunkStates, UrlStart, UrlRest
  <2> QED BY <1>1, <1>7, <2>1, <2>2, PlainFail
<1> QED BY <1>4, <1>5, <1>6, <1>7

LEMMA HttpVersionKeeps == ASSUME IInv, s_req_http PROVE IInv'
<1> DEFINE Letter == [s_req_http_H |-> <<"T", "s_req_http_HT">>,
                      s_req_http_HT |-> <<"T", "s_req_http_HTT">>,
                      s_req_http_HTT |-> <<"P", "s_req_http_HTTP">>,
                      s_req_http_HTTP |-> <<"/", "s_req_http_major">>,
                      s_req_http_dot |-> <<".", "s_req_http_minor">>,
                      s_req_line_almost_done |-> <<"LF", "s_header_field_start">>]
           n == Position(Digits, ch) - 1
           s == parser.state
           refusal == CASE s = "s_req_http_start" -> "HPE_INVALID_CONSTANT"
                        [] s = "s_req_line_almost_done" -> "HPE_LF_EXPECTED"
                        [] s \in {"s_req_http_major", "s_req_http_dot", "s_req_http_minor",
                                  "s_req_http_end"} -> "HPE_INVALID_VERSION"
                        [] OTHER -> "HPE_STRICT"
           next == CASE s = "s_req_http_start" /\ ch = "H" -> {Goto("s_req_http_H")}
                     [] s = "s_req_http_start" /\ ch = " " -> {parser}
                     [] s \in DOMAIN Letter -> {Goto(Letter[s][2]) : x \in {Letter[s][1]} \cap {ch}}
                     [] s = "s_req_http_major" /\ IS_NUM(ch) ->
                          {[Goto("s_req_http_dot") EXCEPT !.http_major = n]}
                     [] s = "s_req_http_minor" /\ IS_NUM(ch) ->
                          {[Goto("s_req_http_end") EXCEPT !.http_minor = n]}
                     [] s = "s_req_http_end" /\ ch = "CR" -> {Goto("s_req_line_almost_done")}
                     [] s = "s_req_http_end" /\ ch = "LF" -> {Goto("s_header_field_start")}
                     [] OTHER -> {}
           Targets == {"s_req_http_H", "s_req_http_HT", "s_req_http_HTT", "s_req_http_HTTP",
                       "s_req_http_major", "s_req_http_dot", "s_req_http_minor",
                       "s_req_http_end", "s_req_line_almost_done", "s_header_field_start"}
<1>c. Case(Version)
    BY DEF s_req_http
<1>1. pc = "switch" /\ s \in Version /\ wire' = wire /\ end' = end
    BY <1>c, CaseFacts
<1>2. Plain(s) /\ IsParser(parser)
    BY <1>1, SwitchFacts DEF Plain, ChunkStates, UrlStart, UrlRest, Version
<1>3. \/ \E q \in next : Break(q)
      \/ Fail(parser, refusal)
    BY DEF s_req_http
<1>4. refusal # "HPE_OK"
    OBVIOUS
<1>5. \A q \in next : \/ q = parser
                      \/ \E t \in Targets : \/ q = Goto(t)
                                            \/ q = [Goto(t) EXCEPT !.http_major = n]
                                            \/ q = [Goto(t) EXCEPT !.http_minor = n]
  <2>1. \A t \in DOMAIN Letter : Letter[t][2] \in Targets
      OBVIOUS
  <2>2. CASE s \in DOMAIN Letter
    <3>1. next = {Goto(Letter[s][2]) : x \in {Letter[s][1]} \cap {ch}}
        BY <2>2
    <3> HIDE DEF next, Letter, Targets
    <3> QED BY <2>1, <2>2, <3>1
  <2>3. CASE s \notin DOMAIN Letter
    <3>1. next \in {{}, {parser}, {Goto("s_req_http_H")}, {Goto("s_req_line_almost_done")},
                    {Goto("s_header_field_start")},
                    {[Goto("s_req_http_dot") EXCEPT !.http_major = n]},
                    {[Goto("s_req_http_end") EXCEPT !.http_minor = n]}}
      <4> HIDE DEF Letter, n
      <4> QED BY <2>3
    <3> HIDE DEF next, n
    <3> QED BY <3>1
  <2> QED BY <2>2, <2>3
<1>6. \A t \in Targets : Plain(t)
    BY DEF Plain, ChunkStates, UrlStart, UrlRest
<1> HIDE DEF next, refusal, Letter, n, Targets
<1>7. ASSUME NEW q \in next, Break(q) PROVE IInv'
  <2>1. /\ IsParser(q) /\ Plain(q.state)
        /\ q.http_errno = parser.http_errno /\ q.nread = parser.nread
    <3>1. CASE q = parser
        BY <3>1, <1>2
    <3>2. ASSUME NEW t \in Targets,
                 \/ q = Goto(t)
                 \/ q = [Goto(t) EXCEPT !.http_major = n]
                 \/ q = [Goto(t) EXCEPT !.http_minor = n]
          PROVE  /\ IsParser(q) /\ Plain(q.state)
                 /\ q.http_errno = parser.http_errno /\ q.nread = parser.nread
      <4>1. /\ IsParser(Goto(t)) /\ Goto(t).state = t
            /\ Goto(t).http_errno = parser.http_errno /\ Goto(t).nread = parser.nread
          BY <1>2, ToFacts DEF Goto
      <4>2. IsParser(q) /\ Alike(q, Goto(t))
        <5>1. CASE q = Goto(t)
            BY <5>1, <4>1 DEF Alike
        <5>2. CASE q = [Goto(t) EXCEPT !.http_major = n]
            BY <5>2, <4>1, OtherFields
        <5>3. CASE q = [Goto(t) EXCEPT !.http_minor = n]
            BY <5>3, <4>1, OtherFields
        <5> QED BY <3>2, <5>1, <5>2, <5>3
      <4> QED BY <1>6, <4>1, <4>2 DEF Alike
    <3> QED BY <1>5, <3>1, <3>2
  <2> QED BY <1>1, <1>2, <1>7, <2>1, PlainBreak
<1>8. CASE Fail(parser, refusal)
    BY <1>1, <1>2, <1>4, <1>8, PlainFail
<1> QED BY <1>3, <1>7, <1>8

-----------------------------------------------------------------------------
(* Header lines. *)

(* r is q but for the index and the header state, which is one of S. *)
Matched(r, q, S) ==
    /\ IsParser(r) /\ r.header_state \in S /\ r.state = q.state /\ r.flags = q.flags
    /\ r.content_length = q.content_length /\ r.nread = q.nread /\ r.http_errno = q.http_errno

LEMMA MatchingFacts ==
    ASSUME NEW q, IsParser(q), NEW i, NEW S, NEW h \in S
    PROVE  Matched([q EXCEPT !.index = i, !.header_state = h], q, S)
<1> DEFINE v == [q EXCEPT !.index = i]
           r == [q EXCEPT !.index = i, !.header_state = h]
<1>1. IsParser(v) /\ Alike(v, q)
    BY OtherFields
<1> HIDE DEF v
<1>2. r = [v EXCEPT !.header_state = h]
    BY DEF v
<1> HIDE DEF r
<1>3. /\ IsParser(r) /\ r.header_state = h /\ r.state = v.state /\ r.flags = v.flags
      /\ r.content_length = v.content_length /\ r.nread = v.nread
      /\ r.http_errno = v.http_errno
    BY <1>1, <1>2, HeaderStateFacts
<1>4. Matched(r, q, S)
    BY <1>1, <1>3 DEF Alike, Matched
<1> QED BY <1>4 DEF r

LEMMA MatchFacts ==
    ASSUME NEW q, IsParser(q), NEW c, NEW word, NEW matched, NEW other
    PROVE  Matched(Match(q, c, word, matched, other), q, {matched, other, q.header_state})
<1> DEFINE at == q.index + 1
           h == CASE at >= Len(word) -> other
                  [] at < Len(word) /\ c # word[at + 1] -> other
                  [] at = Len(word) - 1 /\ c = word[at + 1] -> matched
                  [] OTHER -> q.header_state
<1>1. h \in {matched, other, q.header_state}
    OBVIOUS
<1>2. Match(q, c, word, matched, other) = [q EXCEPT !.index = at, !.header_state = h]
    BY DEF Match
<1> HIDE DEF h, at
<1>3. Matched([q EXCEPT !.index = at, !.header_state = h], q, {matched, other, q.header_state})
    BY <1>1, MatchingFacts, Zenon
<1> QED BY <1>2, <1>3, Zenon

LEMMA FieldLetterFacts ==
    ASSUME NEW q, IsParser(q), q.header_state \in FieldStates, NEW c
    PROVE  Matched(FieldLetter(q, c), q, FieldStates)
<1> DEFINE h == q.header_state
           Prefix(letters) == [q EXCEPT !.index = @ + 1,
                                 !.header_state = IF c \in DOMAIN letters THEN letters[c]
                                                  ELSE "h_general"]
<1>1. ASSUME NEW letters, \A x \in DOMAIN letters : letters[x] \in FieldStates
      PROVE  Matched(Prefix(letters), q, FieldStates)
  <2> DEFINE g == IF c \in DOMAIN letters THEN letters[c] ELSE "h_general"
  <2>1. g \in FieldStates
      BY <1>1 DEF FieldStates
  <2>2. Prefix(letters) = [q EXCEPT !.index = q.index + 1, !.header_state = g]
      OBVIOUS
  <2> HIDE DEF g, Prefix
  <2>3. Matched([q EXCEPT !.index = q.index + 1, !.header_state = g], q, FieldStates)
      BY <2>1, MatchingFacts, Zenon
  <2> QED BY <2>2, <2>3, Zenon
<1>2. ASSUME NEW word, NEW matched \in FieldStates
      PROVE  Matched(Match(q, c, word, matched, "h_general"), q, FieldStates)
  <2>1. "h_general" \in FieldStates
      BY DEF FieldStates
  <2> QED BY <2>1, MatchFacts DEF Matched
<1>3. /\ "h_connection" \in FieldStates /\ "h_content_length" \in FieldStates
      /\ "h_transfer_encoding" \in FieldStates /\ "h_upgrade" \in FieldStates
    BY DEF FieldStates
<1>4. /\ \A x \in DOMAIN [o |-> "h_CO"] : [o |-> "h_CO"][x] \in FieldStates
      /\ \A x \in DOMAIN [n |-> "h_CON"] : [n |-> "h_CON"][x] \in FieldStates
      /\ \A x \in DOMAIN [n |-> "h_matching_connection", t |-> "h_matching_content_length"] :
             [n |-> "h_matching_connection", t |-> "h_matching_content_length"][x] \in FieldStates
    BY DEF FieldStates
<1>5. CASE h = "h_C"
  <2>1. FieldLetter(q, c) = Prefix([o |-> "h_CO"])
      BY <1>5 DEF FieldLetter
  <2> HIDE DEF Prefix
  <2> QED BY <2>1, <1>1, <1>4
<1>6. CASE h = "h_CO"
  <2>1. FieldLetter(q, c) = Prefix([n |-> "h_CON"])
      BY <1>6 DEF FieldLetter
  <2> HIDE DEF Prefix
  <2> QED BY <2>1, <1>1, <1>4
<1>7. CASE h = "h_CON"
  <2>1. FieldLetter(q, c) = Prefix([n |-> "h_matching_connection", t |-> "h_matching_content_length"])
      BY <1>7 DEF FieldLetter
  <2> HIDE DEF Prefix
  <2> QED BY <2>1, <1>1, <1>4
<1>8. CASE h = "h_matching_connection"
    BY <1>2, <1>3, <1>8 DEF FieldLetter
<1>9. CASE h = "h_matching_proxy_connection"
    BY <1>2, <1>3, <1>9 DEF FieldLetter
<1>10. CASE h = "h_matching_content_length"
    BY <1>2, <1>3, <1>10 DEF FieldLetter
<1>11. CASE h = "h_matching_transfer_encoding"
    BY <1>2, <1>3, <1>11 DEF FieldLetter
<1>12. CASE h = "h_matching_upgrade"
    BY <1>2, <1>3, <1>12 DEF FieldLetter
<1>13. CASE h \notin {"h_C", "h_CO", "h_CON", "h_matching_connection",
                      "h_matching_proxy_connection", "h_matching_content_length",
                      "h_matching_transfer_encoding", "h_matching_upgrade"}
  <2>1. FieldLetter(q, c) = [q EXCEPT !.header_state = "h_general"]
      BY <1>13 DEF FieldLetter
  <2>2. "h_general" \in FieldStates
      BY DEF FieldStates
  <2> QED BY <2>1, <2>2, HeaderStateFacts DEF Matched
<1> QED BY <1>5, <1>6, <1>7, <1>8, <1>9, <1>10, <1>11, <1>12, <1>13

LEMMA FieldStartKeeps == ASSUME IInv, s_header_field_start PROVE IInv'
<1> DEFINE c == TOKEN(ch)
           begun == CASE c = "c" -> "h_C"
                      [] c = "p" -> "h_matching_proxy_connection"
                      [] c = "t" -> "h_matching_transfer_encoding"
                      [] c = "u" -> "h_matching_upgrade"
                      [] OTHER -> "h_general"
           q == [Goto("s_header_field") EXCEPT !.index = 0, !.header_state = begun]
<1>c. Case({"s_header_field_start"})
    BY DEF s_header_field_start
<1>1. pc = "switch" /\ parser.state = "s_header_field_start" /\ wire' = wire /\ end' = end
    BY <1>c, CaseFacts
<1>2. Plain(parser.state) /\ IsParser(parser)
    BY <1>1, SwitchFacts DEF Plain, ChunkStates, UrlStart, UrlRest
<1>3. begun \in FieldStates
    BY DEF FieldStates
<1>4. \/ Break(Goto("s_headers_almost_done"))
      \/ Reexecute(Goto("s_headers_almost_done"))
      \/ MARK("header_field") /\ Advance(q)
      \/ Fail(parser, "HPE_INVALID_HEADER_TOKEN")
    BY DEF s_header_field_start
<1>5. /\ IsParser(Goto("s_headers_almost_done")) /\ Plain(Goto("s_headers_almost_done").state)
      /\ Goto("s_headers_almost_done").http_errno = parser.http_errno
      /\ Goto("s_headers_almost_done").nread = parser.nread
      /\ Goto("s_headers_almost_done").state = "s_headers_almost_done"
  <2>1. Plain("s_headers_almost_done")
      BY DEF Plain, ChunkStates, UrlStart, UrlRest
  <2> QED BY <1>2, <2>1, ToFacts DEF Goto
<1>6. CASE Break(Goto("s_headers_almost_done"))
    BY <1>1, <1>2, <1>5, <1>6, PlainBreak
<1>7. CASE Reexecute(Goto("s_headers_almost_done"))
  <2>1. Fit(Goto("s_headers_almost_done"), marks)
      BY <1>1, <1>2, <1>5, PlainFits, PlainHasNoMark, SwitchFacts
  <2> QED BY <1>1, <1>5, <1>7, <2>1, ReexecuteKeeps
<1>8. CASE MARK("header_field") /\ Advance(q)
  <2>1. IsParser(Goto("s_header_field"))
      BY <1>2, ToFacts DEF Goto
  <2> HIDE DEF begun
  <2>2. Matched(q, Goto("s_header_field"), FieldStates)
      BY <1>3, <2>1, MatchingFacts, Zenon
  <2>3. Advance(q)
      BY <1>8
  <2> HIDE DEF q
  <2>4. /\ q.state = "s_header_field" /\ q.http_errno = parser.http_errno /\ IsParser(q)
        /\ q.nread = parser.nread /\ q.header_state \in FieldStates
      BY <1>2, <2>2, ToFacts DEF Goto, Matched
  <2>5. marks' = {"header_field"} /\ start' = start
      BY <1>1, <1>2, <1>8, PlainHasNoMark DEF MARK
  <2>6. Sound(q)
      BY <2>4 DEF Sound, ChunkStates
  <2>7. Marks(q.state) = {"header_field"}
      BY <2>4 DEF Marks, UrlStart, UrlRest
  <2>8. Fit(q, marks')
      BY <1>1, <2>4, <2>5, <2>6, <2>7, SwitchFacts DEF Fit
  <2> QED BY <1>1, <2>3, <2>5, <2>8, AdvanceKeeps, SwitchFacts
<1>9. CASE Fail(parser, "HPE_INVALID_HEADER_TOKEN")
    BY <1>1, <1>2, <1>9, PlainFail
<1> QED BY <1>4, <1>6, <1>7, <1>8, <1>9

LEMMA EnterLoopKeeps ==
    ASSUME IInv, NEW s, NEW loop, EnterLoop(s, loop),
           \/ s = "s_header_field" /\ loop = "field"
           \/ s = "s_header_value" /\ loop = "value"
    PROVE  IInv'
<1>1. /\ pc = "switch" /\ parser.state = s /\ pc' = loop /\ start' = p
      /\ parser' = parser /\ p' = p /\ marks' = marks /\ wire' = wire /\ end' = end
    BY CaseFacts DEF EnterLoop
<1>2. PType'
    BY <1>1 DEF IInv, PType
<1>3. Sound(parser') /\ Counting'
    BY <1>1 DEF IInv, Counting
<1>4. Running'
    BY <1>1 DEF IInv, PType, Running
<1> QED BY <1>2, <1>3, <1>4 DEF IInv

(* In the loop over a name or a value. *)
LEMMA LoopFacts ==
    ASSUME IInv, pc \in {"field", "value"}
    PROVE  /\ IsParser(parser) /\ Sound(parser) /\ parser.nread \in Int
           /\ p \in Nat /\ end \in Nat /\ start \in Nat /\ p <= end
           /\ parser.http_errno = "HPE_OK" /\ parser.nread <= HTTP_MAX_HEADER_SIZE
           /\ marks \subseteq Marks(parser.state)
           /\ parser.state = IF pc = "field" THEN "s_header_field" ELSE "s_header_value"
<1>1. IsParser(parser) /\ Sound(parser) /\ p \in Nat /\ end \in Nat /\ start \in Nat
    BY DEF IInv, PType
<1>2. parser.nread \in Int
    BY <1>1 DEF IsParser
<1>3. /\ p <= end /\ parser.http_errno = "HPE_OK" /\ marks \subseteq Marks(parser.state)
      /\ parser.state = IF pc = "field" THEN "s_header_field" ELSE "s_header_value"
    BY DEF IInv, Running
<1>4. parser.nread <= HTTP_MAX_HEADER_SIZE
    BY <1>3 DEF IInv, Counting
<1> QED BY <1>1, <1>2, <1>3, <1>4

(* The loop goes on. *)
LEMMA LoopKeeps ==
    ASSUME IInv, pc \in {"field", "value"}, IsParser(parser'), Sound(parser'), p' \in p .. end,
           parser'.state = parser.state, parser'.http_errno = parser.http_errno,
           parser'.nread = parser.nread,
           pc' = pc, marks' = marks, start' = start, wire' = wire, end' = end
    PROVE  IInv'
<1>1. p' \in Nat /\ p' <= end
    BY LoopFacts
<1>2. PType'
    BY <1>1 DEF IInv, PType
<1>3. Counting'
    BY LoopFacts DEF Counting
<1>4. Running'
    BY <1>1, LoopFacts DEF Running
<1> QED BY <1>2, <1>3, <1>4 DEF IInv

LEMMA FieldLetterKeeps == ASSUME IInv, HeaderFieldLetter PROVE IInv'
<1>1. /\ pc = "field" /\ p < end /\ parser' = FieldLetter(parser, TOKEN(ch)) /\ p' = p + 1
      /\ pc' = pc /\ marks' = marks /\ start' = start /\ wire' = wire /\ end' = end
    BY DEF HeaderFieldLetter, InLoop, locals
<1>2. parser.state = "s_header_field" /\ parser.header_state \in FieldStates /\ IsParser(parser)
    BY <1>1, LoopFacts DEF Sound
<1>3. Matched(parser', parser, FieldStates)
    BY <1>1, <1>2, FieldLetterFacts
<1>4. /\ IsParser(parser') /\ parser'.state = parser.state
      /\ parser'.http_errno = parser.http_errno /\ parser'.nread = parser.nread
      /\ parser'.header_state \in FieldStates
    BY <1>3 DEF Matched
<1>5. Sound(parser')
    BY <1>2, <1>4 DEF Sound, ChunkStates
<1>6. p' \in p .. end
    BY <1>1, LoopFacts
<1> QED BY <1>1, <1>4, <1>5, <1>6, LoopKeeps

(* The count at the end of the loop over a name or a value. *)
LEMMA LoopCounts ==
    ASSUME IInv, pc \in {"field", "value"}
    PROVE  LET q == Counted(parser, p - start)
           IN  /\ IsParser(q) /\ Sound(q) /\ q.state = parser.state
               /\ q.http_errno = parser.http_errno /\ q.nread \in Int
               /\ ~Overflows(parser, p - start) => q.nread <= HTTP_MAX_HEADER_SIZE
<1>1. p - start \in Int
    BY LoopFacts
<1>2. /\ IsParser(Counted(parser, p - start)) /\ Sound(Counted(parser, p - start))
      /\ Counted(parser, p - start).state = parser.state
      /\ Counted(parser, p - start).http_errno = parser.http_errno
      /\ Counted(parser, p - start).nread = parser.nread + (p - start)
    BY <1>1, LoopFacts, CountedFacts
<1>3. parser.nread + (p - start) \in Int
    BY <1>1, LoopFacts
<1>4. ~Overflows(parser, p - start) => parser.nread + (p - start) <= HTTP_MAX_HEADER_SIZE
    BY <1>3, ParserAssumption DEF Overflows
<1> QED BY <1>2, <1>3, <1>4

(* The piece ends inside a name or a value. *)
LEMMA LoopLeft ==
    ASSUME IInv, pc \in {"field", "value"}, ~Overflows(parser, p - start),
           parser' = Counted(parser, p - start), pc' = "loop",
           p' = p, marks' = marks, start' = start, wire' = wire, end' = end
    PROVE  IInv'
<1>1. /\ IsParser(parser') /\ Sound(parser') /\ parser'.state = parser.state
      /\ parser'.http_errno = "HPE_OK" /\ parser'.nread <= HTTP_MAX_HEADER_SIZE
    BY LoopCounts, LoopFacts
<1>2. PType'
    BY <1>1 DEF IInv, PType
<1>3. Counting'
    BY <1>1, LoopFacts DEF Counting
<1>4. Running'
    BY <1>1, LoopFacts DEF Running
<1> QED BY <1>1, <1>2, <1>3, <1>4 DEF IInv

LEMMA FieldEndKeeps == ASSUME IInv, HeaderFieldEnd PROVE IInv'
<1> DEFINE q == Counted(parser, p - start)
           r == To(q, "s_header_value_discard_ws")
<1>1. pc = "field" /\ wire' = wire /\ end' = end
    BY DEF HeaderFieldEnd, InLoop
<1>2. \/ Fail(q, "HPE_HEADER_OVERFLOW")
      \/ /\ ~Overflows(parser, p - start)
         /\ parser' = q /\ pc' = "loop" /\ UNCHANGED <<p, locals, hist>>
      \/ /\ ~Overflows(parser, p - start) /\ p < end
         /\ Advance(r) /\ Unmark("header_field")
      \/ Fail(q, "HPE_INVALID_HEADER_TOKEN")
    BY DEF HeaderFieldEnd
<1>3. /\ IsParser(q) /\ Sound(q) /\ q.state = "s_header_field" /\ q.http_errno = "HPE_OK"
      /\ ~Overflows(parser, p - start) => q.nread <= HTTP_MAX_HEADER_SIZE
    BY <1>1, LoopCounts, LoopFacts
<1>4. CASE Fail(q, "HPE_HEADER_OVERFLOW")
    BY <1>1, <1>3, <1>4, FailKeeps
<1>5. CASE /\ ~Overflows(parser, p - start)
           /\ parser' = q /\ pc' = "loop" /\ UNCHANGED <<p, locals, hist>>
  <2>1. p' = p /\ marks' = marks /\ start' = start
      BY <1>5 DEF locals
  <2> QED BY <1>1, <1>5, <2>1, LoopLeft
<1>6. CASE /\ ~Overflows(parser, p - start) /\ p < end
           /\ Advance(r) /\ Unmark("header_field")
  <2> HIDE DEF q
  <2>1. /\ IsParser(r) /\ r.state = "s_header_value_discard_ws" /\ r.http_errno = "HPE_OK"
        /\ r.nread <= HTTP_MAX_HEADER_SIZE
      BY <1>3, <1>6, ToFacts
  <2>2. Marks(parser.state) = {"header_field"}
      BY <1>1, LoopFacts DEF Marks, UrlStart, UrlRest
  <2>3. marks' = {} /\ start' = start
      BY <1>1, <1>6, <2>2, LoopFacts DEF Unmark
  <2> HIDE DEF r
  <2>4. Plain(r.state)
      BY <2>1 DEF Plain, ChunkStates, UrlStart, UrlRest
  <2>5. Fit(r, marks')
      BY <2>1, <2>3, <2>4, PlainFits
  <2> QED BY <1>1, <1>6, <2>3, <2>5, AdvanceKeeps
<1>7. CASE Fail(q, "HPE_INVALID_HEADER_TOKEN")
    BY <1>1, <1>3, <1>7, FailKeeps
<1> QED BY <1>2, <1>4, <1>5, <1>6, <1>7

(* r differs from q in what a value says: flags, length and header state. *)
ValueOf(r, q, h) ==
    /\ IsParser(r) /\ r.state = q.state /\ r.header_state = h
    /\ r.nread = q.nread /\ r.http_errno = q.http_errno

LEMMA ValueFacts ==
    ASSUME NEW q, IsParser(q), NEW F, NEW L \in 0 .. ULLONG_MAX, NEW h
    PROVE  /\ ValueOf([q EXCEPT !.header_state = h], q, h)
           /\ ValueOf([q EXCEPT !.flags = F, !.header_state = h], q, h)
           /\ ValueOf([q EXCEPT !.flags = F, !.content_length = L, !.header_state = h], q, h)
           /\ ValueOf([q EXCEPT !.header_state = h, !.content_length = L], q, h)
           /\ ValueOf([q EXCEPT !.flags = F], q, q.header_state)
<1>1. ASSUME NEW v, IsParser(v), v.state = q.state, v.nread = q.nread, v.http_errno = q.http_errno
      PROVE  ValueOf([v EXCEPT !.header_state = h], q, h)
    BY <1>1, HeaderStateFacts DEF ValueOf
<1> DEFINE f == [q EXCEPT !.flags = F]
           g == [f EXCEPT !.content_length = L]
           k == [q EXCEPT !.header_state = h]
<1>2. /\ IsParser(f) /\ f.state = q.state /\ f.nread = q.nread /\ f.http_errno = q.http_errno
      /\ f.header_state = q.header_state
    BY FlagsFacts
<1> HIDE DEF f
<1>3. IsParser(g) /\ g.state = q.state /\ g.nread = q.nread /\ g.http_errno = q.http_errno
    BY <1>2, LengthFacts
<1> HIDE DEF g
<1>4. /\ IsParser(k) /\ k.state = q.state /\ k.nread = q.nread /\ k.http_errno = q.http_errno
      /\ k.header_state = h
    BY HeaderStateFacts
<1> HIDE DEF k
<1>5. ValueOf([q EXCEPT !.header_state = h], q, h)
    BY <1>1
<1>6. ValueOf([f EXCEPT !.header_state = h], q, h)
    BY <1>1, <1>2
<1>7. [q EXCEPT !.flags = F, !.header_state = h] = [f EXCEPT !.header_state = h]
    BY DEF f
<1>8. ValueOf([g EXCEPT !.header_state = h], q, h)
    BY <1>1, <1>3
<1>9. [q EXCEPT !.flags = F, !.content_length = L, !.header_state = h] = [g EXCEPT !.header_state = h]
    BY DEF f, g
<1>10. ValueOf([k EXCEPT !.content_length = L], q, h)
    BY <1>4, LengthFacts DEF ValueOf
<1>11. [q EXCEPT !.header_state = h, !.content_length = L] = [k EXCEPT !.content_length = L]
    BY DEF k
<1>12. ValueOf([q EXCEPT !.flags = F], q, q.header_state)
    BY <1>2 DEF ValueOf, f
<1> QED BY <1>5, <1>6, <1>7, <1>8, <1>9, <1>10, <1>11, <1>12, Zenon

(* In a value the header state is none that only a name has. *)
LEMMA ValueIsSound ==
    ASSUME NEW q, q.state = "s_header_value",
           q.header_state \notin {"h_connection", "h_transfer_encoding"}
    PROVE  Sound(q) /\ Marks(q.state) = {"header_value"}
BY DEF Sound, Marks, ChunkStates, UrlStart, UrlRest

LEMMA ValueStartKeeps ==
    ASSUME IInv, pc = "switch", wire' = wire, end' = end, Plain(parser.state), ValueStart
    PROVE  IInv'
<1> DEFINE c == LOWER(ch)
           h == parser.header_state
           q == [Goto("s_header_value") EXCEPT !.index = 0]
           token == CASE c = "k" -> "h_matching_connection_keep_alive"
                      [] c = "c" -> "h_matching_connection_close"
                      [] c = "u" -> "h_matching_connection_upgrade"
                      [] OTHER -> "h_matching_connection_token"
           begun == CASE h = "h_upgrade" ->
                           [q EXCEPT !.flags = @ \cup {"F_UPGRADE"}, !.header_state = "h_general"]
                      [] h = "h_transfer_encoding" /\ c = "c" ->
                           [q EXCEPT !.header_state = "h_matching_transfer_encoding_chunked"]
                      [] h = "h_content_length" ->
                           [q EXCEPT !.flags = @ \cup {"F_CONTENTLENGTH"},
                                     !.content_length = Position(Digits, ch) - 1,
                                     !.header_state = "h_content_length_num"]
                      [] h = "h_connection" -> [q EXCEPT !.header_state = token]
                      [] h = "h_matching_connection_token_start" -> q
                      [] OTHER -> [q EXCEPT !.header_state = "h_general"]
<1>1. \/ h = "h_content_length" /\ Fail(q, "HPE_INVALID_CONTENT_LENGTH")
      \/ h = "h_content_length" /\ Fail(q, "HPE_UNEXPECTED_CONTENT_LENGTH")
      \/ /\ h = "h_content_length" => IS_NUM(ch)
         /\ MARK("header_value") /\ Advance(begun)
    BY DEF ValueStart
<1>2. /\ IsParser(q) /\ q.state = "s_header_value" /\ q.header_state = h
      /\ q.http_errno = "HPE_OK" /\ q.nread = parser.nread
  <2> DEFINE v == Goto("s_header_value")
  <2>1. /\ IsParser(v) /\ v.state = "s_header_value" /\ v.header_state = h
        /\ v.http_errno = "HPE_OK" /\ v.nread = parser.nread
      BY SwitchFacts, ToFacts DEF Goto
  <2> HIDE DEF v
  <2>2. IsParser(q) /\ Alike(q, v)
    <3>1. IsParser([v EXCEPT !.index = 0]) /\ Alike([v EXCEPT !.index = 0], v)
        BY <2>1, OtherFields
    <3> QED BY <3>1 DEF v
  <2> HIDE DEF q
  <2> QED BY <2>1, <2>2 DEF Alike
<1>3. h = "h_content_length" => Sound(q)
  <2> HIDE DEF q
  <2> QED BY <1>2, ValueIsSound
<1>4. CASE h = "h_content_length" /\ Fail(q, "HPE_INVALID_CONTENT_LENGTH")
  <2> HIDE DEF q
  <2> QED BY <1>2, <1>3, <1>4, FailKeeps
<1>5. CASE h = "h_content_length" /\ Fail(q, "HPE_UNEXPECTED_CONTENT_LENGTH")
  <2> HIDE DEF q
  <2> QED BY <1>2, <1>3, <1>5, FailKeeps
<1>6. CASE /\ h = "h_content_length" => IS_NUM(ch)
           /\ MARK("header_value") /\ Advance(begun)
  <2> HIDE DEF q
  <2>1. token \notin {"h_connection", "h_transfer_encoding"}
      OBVIOUS
  <2> HIDE DEF token
  <2>2. \E g : g \notin {"h_connection", "h_transfer_encoding"} /\ ValueOf(begun, q, g)
    <3>1. CASE h = "h_upgrade"
      <4>1. begun = [q EXCEPT !.flags = q.flags \cup {"F_UPGRADE"}, !.header_state = "h_general"]
          BY <3>1
      <4>2. 0 \in 0 .. ULLONG_MAX
          BY ParserAssumption
      <4>3. ValueOf([q EXCEPT !.flags = q.flags \cup {"F_UPGRADE"}, !.header_state = "h_general"],
                    q, "h_general")
          BY <1>2, <4>2, ValueFacts, Zenon
      <4> HIDE DEF begun
      <4> QED BY <4>1, <4>3
    <3>2. CASE h = "h_content_length"
      <4> DEFINE L == Position(Digits, ch) - 1
                 r == [q EXCEPT !.flags = q.flags \cup {"F_CONTENTLENGTH"},
                                !.content_length = L, !.header_state = "h_content_length_num"]
      <4>1. begun = r
          BY <3>2
      <4>2. L \in 0 .. ULLONG_MAX
          BY <1>6, <3>2, DigitValue, ParserAssumption
      <4> HIDE DEF begun, L
      <4>3. ValueOf(r, q, "h_content_length_num")
          BY <1>2, <4>2, ValueFacts, Zenon
      <4> QED BY <4>1, <4>3
    <3>3. CASE h = "h_matching_connection_token_start"
      <4>1. begun = q
          BY <3>3
      <4> HIDE DEF begun
      <4> QED BY <1>2, <3>3, <4>1 DEF ValueOf
    <3>4. CASE h \notin {"h_upgrade", "h_content_length", "h_matching_connection_token_start"}
      <4>1. PICK g : g \notin {"h_connection", "h_transfer_encoding"}
                     /\ begun = [q EXCEPT !.header_state = g]
        <5>1. CASE h = "h_transfer_encoding" /\ c = "c"
            BY <5>1
        <5>2. CASE h = "h_connection"
            BY <2>1, <5>2
        <5>3. CASE ~(h = "h_transfer_encoding" /\ c = "c") /\ h # "h_connection"
            BY <3>4, <5>3
        <5> QED BY <5>1, <5>2, <5>3
      <4> HIDE DEF begun
      <4> QED BY <1>2, <4>1, HeaderStateFacts DEF ValueOf
    <3> QED BY <3>1, <3>2, <3>3, <3>4
  <2>3. Advance(begun) /\ marks' = {"header_value"} /\ start' = start
      BY <1>6, PlainHasNoMark DEF MARK
  <2> HIDE DEF begun
  <2>4. /\ IsParser(begun) /\ begun.state = "s_header_value"
        /\ begun.header_state \notin {"h_connection", "h_transfer_encoding"}
        /\ begun.http_errno = "HPE_OK" /\ begun.nread = parser.nread
      BY <1>2, <2>2 DEF ValueOf
  <2>5. Fit(begun, marks')
      BY <2>3, <2>4, ValueIsSound, SwitchFacts DEF Fit
  <2> QED BY <2>3, <2>5, AdvanceKeeps, SwitchFacts
<1> QED BY <1>1, <1>4, <1>5, <1>6

LEMMA PlainStates ==
    \A s \in {"s_dead", "s_start_req", "s_header_field_start", "s_header_value_discard_ws",
              "s_header_value_discard_ws_almost_done", "s_header_value_discard_lws",
              "s_header_value_start", "s_header_value_lws", "s_header_almost_done",
              "s_headers_almost_done", "s_headers_done", "s_message_done"} : Plain(s)
BY DEF Plain, ChunkStates, UrlStart, UrlRest

(* From a plain state to a plain state. *)
LEMMA PlainGoto ==
    ASSUME IInv, pc = "switch", NEW s, Plain(s)
    PROVE  /\ IsParser(Goto(s)) /\ Goto(s).state = s /\ Plain(Goto(s).state)
           /\ Goto(s).http_errno = parser.http_errno /\ Goto(s).nread = parser.nread
           /\ Plain(parser.state) => Fit(Goto(s), marks)
<1>1. /\ IsParser(Goto(s)) /\ Goto(s).state = s
      /\ Goto(s).http_errno = parser.http_errno /\ Goto(s).nread = parser.nread
    BY SwitchFacts, ToFacts DEF Goto
<1>2. Plain(parser.state) => Fit(Goto(s), marks)
    BY <1>1, PlainFits, PlainHasNoMark, SwitchFacts
<1> QED BY <1>1, <1>2

LEMMA DiscardWsKeeps == ASSUME IInv, s_header_value_discard_ws PROVE IInv'
<1>c. Case({"s_header_value_discard_ws"})
    BY DEF s_header_value_discard_ws
<1>1. pc = "switch" /\ parser.state = "s_header_value_discard_ws" /\ wire' = wire /\ end' = end
    BY <1>c, CaseFacts
<1>2. Plain(parser.state) /\ IsParser(parser)
    BY <1>1, SwitchFacts, PlainStates
<1>3. CASE Break(parser)
    BY <1>1, <1>2, <1>3, PlainBreak
<1>4. CASE Break(Goto("s_header_value_discard_ws_almost_done"))
    BY <1>1, <1>2, <1>4, PlainGoto, PlainStates, BreakKeeps
<1>5. CASE Break(Goto("s_header_value_discard_lws"))
    BY <1>1, <1>2, <1>5, PlainGoto, PlainStates, BreakKeeps
<1>6. CASE ValueStart
    BY <1>1, <1>2, <1>6, ValueStartKeeps
<1> QED BY <1>3, <1>4, <1>5, <1>6 DEF s_header_value_discard_ws

LEMMA ValueBeginKeeps == ASSUME IInv, s_header_value_start PROVE IInv'
<1>1. pc = "switch" /\ parser.state = "s_header_value_start" /\ wire' = wire /\ end' = end
    BY CaseFacts DEF s_header_value_start
<1> QED BY <1>1, PlainStates, ValueStartKeeps DEF s_header_value_start

LEMMA AlmostDoneKeeps == ASSUME IInv, s_header_almost_done PROVE IInv'
<1>c. Case({"s_header_almost_done"})
    BY DEF s_header_almost_done
<1>1. pc = "switch" /\ parser.state = "s_header_almost_done" /\ wire' = wire /\ end' = end
    BY <1>c, CaseFacts
<1>2. Plain(parser.state) /\ IsParser(parser)
    BY <1>1, SwitchFacts, PlainStates
<1>3. CASE Break(Goto("s_header_value_lws"))
    BY <1>1, <1>2, <1>3, PlainGoto, PlainStates, BreakKeeps
<1>4. CASE Fail(parser, "HPE_LF_EXPECTED")
    BY <1>1, <1>2, <1>4, PlainFail
<1> QED BY <1>3, <1>4 DEF s_header_almost_done

(* The flag a line sets changes nothing else. *)
LEMMA FlaggedFacts ==
    ASSUME NEW q, IsParser(q)
    PROVE  /\ IsParser(Flagged(q)) /\ Flagged(q).state = q.state
           /\ Flagged(q).nread = q.nread /\ Flagged(q).http_errno = q.http_errno
<1>1. PICK F : Flagged(q) = [q EXCEPT !.flags = F]
    BY DEF Flagged
<1> QED BY <1>1, FlagsFacts

LEMMA FlaggedFits ==
    ASSUME IInv, pc = "switch", Plain(parser.state)
    PROVE  /\ Fit(Flagged(Goto("s_header_field_start")), marks)
           /\ Flagged(Goto("s_header_field_start")).state = "s_header_field_start"
<1> DEFINE q == Flagged(Goto("s_header_field_start"))
<1>1. /\ IsParser(q) /\ q.state = "s_header_field_start"
      /\ q.nread = parser.nread /\ q.http_errno = parser.http_errno
    BY PlainStates, PlainGoto, FlaggedFacts
<1> HIDE DEF q
<1>2. Fit(q, marks)
    BY <1>1, PlainStates, PlainFits, PlainHasNoMark, SwitchFacts
<1> QED BY <1>1, <1>2 DEF q

LEMMA LwsKeeps == ASSUME IInv, s_header_value_lws PROVE IInv'
<1>c. Case({"s_header_value_lws"})
    BY DEF s_header_value_lws
<1>1. pc = "switch" /\ parser.state = "s_header_value_lws" /\ wire' = wire /\ end' = end
    BY <1>c, CaseFacts
<1>2. Plain(parser.state)
    BY <1>1, PlainStates
<1>3. CASE Reexecute(Goto("s_header_value_start"))
    BY <1>1, <1>2, <1>3, PlainGoto, PlainStates, ReexecuteKeeps
<1>4. CASE Reexecute(Flagged(Goto("s_header_field_start")))
    BY <1>1, <1>2, <1>4, FlaggedFits, ReexecuteKeeps
<1> QED BY <1>3, <1>4 DEF s_header_value_lws

LEMMA DiscardAlmostDoneKeeps == ASSUME IInv, s_header_value_discard_ws_almost_done PROVE IInv'
<1>c. Case({"s_header_value_discard_ws_almost_done"})
    BY DEF s_header_value_discard_ws_almost_done
<1>1. /\ pc = "switch" /\ parser.state = "s_header_value_discard_ws_almost_done"
      /\ wire' = wire /\ end' = end
    BY <1>c, CaseFacts
<1>2. Plain(parser.state) /\ IsParser(parser)
    BY <1>1, SwitchFacts, PlainStates
<1>3. CASE Break(Goto("s_header_value_discard_lws"))
    BY <1>1, <1>2, <1>3, PlainGoto, PlainStates, BreakKeeps
<1>4. CASE Fail(parser, "HPE_STRICT")
    BY <1>1, <1>2, <1>4, PlainFail
<1> QED BY <1>3, <1>4 DEF s_header_value_discard_ws_almost_done

LEMMA DiscardLwsKeeps == ASSUME IInv, s_header_value_discard_lws PROVE IInv'
<1>c. Case({"s_header_value_discard_lws"})
    BY DEF s_header_value_discard_lws
<1>1. pc = "switch" /\ parser.state = "s_header_value_discard_lws" /\ wire' = wire /\ end' = end
    BY <1>c, CaseFacts
<1>2. Plain(parser.state)
    BY <1>1, PlainStates
<1>3. CASE Break(Goto("s_header_value_discard_ws"))
    BY <1>1, <1>2, <1>3, PlainGoto, PlainStates, BreakKeeps
<1>4. CASE Reexecute(Flagged(Goto("s_header_field_start")))
    BY <1>1, <1>2, <1>4, FlaggedFits, ReexecuteKeeps
<1> QED BY <1>3, <1>4 DEF s_header_value_discard_lws

(* memchr finds a byte of the piece, or the loop goes to its end. *)
LEMMA SkipValueFacts ==
    ASSUME p \in Nat, end \in Nat, p < end
    PROVE  SkipValue \in p .. end
<1> DEFINE limit == IF end - p < HTTP_MAX_HEADER_SIZE THEN end - p ELSE HTTP_MAX_HEADER_SIZE
           eols == {i \in p .. p + limit - 1 : data[i + 1] \in {"CR", "LF"}}
<1>1. limit \in Nat /\ p + limit <= end
    BY ParserAssumption
<1> HIDE DEF limit
<1>2. eols \in SUBSET Nat /\ \A i \in eols : i \in p .. end
    BY <1>1
<1>3. SkipValue = IF eols = {} THEN end ELSE CHOOSE i \in eols : \A j \in eols : i <= j
    BY DEF SkipValue, limit
<1> HIDE DEF eols
<1>4. CASE eols = {}
    BY <1>3, <1>4
<1>5. CASE eols # {}
  <2>1. \E i \in eols : \A j \in eols : i <= j
      BY <1>2, <1>5, LeastPosition
  <2>2. SkipValue \in eols
      BY <1>3, <1>5, <2>1
  <2> QED BY <1>2, <2>2
<1> QED BY <1>4, <1>5

(* r is q after a byte of a value. *)
Letter(r, q) ==
    /\ IsParser(r) /\ r.state = q.state /\ r.nread = q.nread /\ r.http_errno = q.http_errno
    /\ r.header_state \notin {"h_connection", "h_transfer_encoding"}

LEMMA ValueLetterFacts ==
    ASSUME NEW q, IsParser(q), NEW b,
           q.header_state \notin {"h_connection", "h_transfer_encoding"}
    PROVE  Letter(ValueLetter(q, b), q)
<1> DEFINE c == LOWER(b)
           h == q.header_state
           Sees(state) == [q EXCEPT !.header_state = state]
           flag == [h_connection_keep_alive |-> "F_CONNECTION_KEEP_ALIVE",
                    h_connection_close |-> "F_CONNECTION_CLOSE",
                    h_connection_upgrade |-> "F_CONNECTION_UPGRADE"]
           other == "h_matching_connection_token"
           Flags == {"h_connection_keep_alive", "h_connection_close", "h_connection_upgrade"}
           begun == CASE c = "k" -> "h_matching_connection_keep_alive"
                      [] c = "c" -> "h_matching_connection_close"
                      [] c = "u" -> "h_matching_connection_upgrade"
                      [] c \notin {"k", "c", "u"} /\ TOKEN(c) # "none" -> other
                      [] c = " " -> h
                      [] OTHER -> "h_general"
<1>1. ASSUME NEW word, NEW m, NEW o, m \notin {"h_connection", "h_transfer_encoding"},
             o \notin {"h_connection", "h_transfer_encoding"}
      PROVE  Letter(Match(q, c, word, m, o), q)
  <2> HIDE DEF c
  <2>1. Matched(Match(q, c, word, m, o), q, {m, o, q.header_state})
      BY MatchFacts
  <2> QED BY <1>1, <2>1 DEF Matched, Letter
<1>2. ASSUME NEW s, s \notin {"h_connection", "h_transfer_encoding"}
      PROVE  /\ Letter(Sees(s), q)
             /\ Letter([Sees(s) EXCEPT !.index = 0], q)
             /\ \A F : Letter([Sees(s) EXCEPT !.index = 0, !.flags = F], q)
  <2> DEFINE v == Sees(s)
             w == [v EXCEPT !.index = 0]
  <2>1. Letter(v, q)
      BY <1>2, HeaderStateFacts DEF Letter
  <2> HIDE DEF v
  <2>2. IsParser(w) /\ Alike(w, v)
      BY <2>1, OtherFields DEF Letter
  <2> HIDE DEF w
  <2>3. Letter(w, q)
      BY <2>1, <2>2 DEF Alike, Letter
  <2>4. ASSUME NEW F PROVE Letter([w EXCEPT !.flags = F], q)
      BY <2>3, FlagsFacts DEF Letter
  <2>5. \A F : [v EXCEPT !.index = 0, !.flags = F] = [w EXCEPT !.flags = F]
      BY DEF w
  <2>6. \A F : Letter([v EXCEPT !.index = 0, !.flags = F], q)
      BY <2>4, <2>5, Zenon
  <2> QED BY <2>1, <2>3, <2>6 DEF v, w
<1>3. DOMAIN flag = Flags
    OBVIOUS
<1>4. begun \notin {"h_connection", "h_transfer_encoding"}
    OBVIOUS
<1>5. CASE h = "h_matching_transfer_encoding_chunked"
  <2>1. ValueLetter(q, b) = Match(q, c, CHUNKED, "h_transfer_encoding_chunked", "h_general")
      BY <1>5 DEF ValueLetter
  <2> QED BY <1>1, <2>1
<1>6. CASE h = "h_matching_connection_token_start"
  <2>1. ValueLetter(q, b) = Sees(begun)
      BY <1>6 DEF ValueLetter
  <2> HIDE DEF begun, Sees
  <2> QED BY <1>2, <1>4, <2>1
<1>7. CASE h = "h_matching_connection_keep_alive"
  <2>1. ValueLetter(q, b) = Match(q, c, KEEP_ALIVE, "h_connection_keep_alive", other)
      BY <1>7 DEF ValueLetter
  <2> QED BY <1>1, <2>1
<1>8. CASE h = "h_matching_connection_close"
  <2>1. ValueLetter(q, b) = Match(q, c, CLOSE, "h_connection_close", other)
      BY <1>8 DEF ValueLetter
  <2> QED BY <1>1, <2>1
<1>9. CASE h = "h_matching_connection_upgrade"
  <2>1. ValueLetter(q, b) = Match(q, c, UPGRADE, "h_connection_upgrade", other)
      BY <1>9 DEF ValueLetter
  <2> QED BY <1>1, <2>1
<1>10. CASE h = "h_matching_connection_token"
  <2>1. ValueLetter(q, b) = IF b = "," THEN [Sees("h_matching_connection_token_start") EXCEPT !.index = 0]
                                      ELSE q
      BY <1>10 DEF ValueLetter
  <2>2. Letter(q, q)
      BY DEF Letter
  <2> HIDE DEF Sees
  <2> QED BY <1>2, <2>1, <2>2
<1>11. CASE h \in Flags
  <2>1. \/ \E F : ValueLetter(q, b) = [Sees("h_matching_connection_token_start") EXCEPT
                                         !.index = 0, !.flags = F]
        \/ ValueLetter(q, b) = Sees(other)
        \/ ValueLetter(q, b) = q
    <3>1. CASE b = ","
      <4>1. ValueLetter(q, b) = [Sees("h_matching_connection_token_start") EXCEPT
                                   !.index = 0,
                                   !.flags = Sees("h_matching_connection_token_start").flags \cup {flag[h]}]
          BY <1>3, <1>11, <3>1 DEF ValueLetter
      <4> QED BY <4>1
    <3>2. CASE b # "," /\ b # " "
        BY <1>3, <1>11, <3>2 DEF ValueLetter
    <3>3. CASE b = " "
        BY <1>3, <1>11, <3>3 DEF ValueLetter
    <3> QED BY <3>1, <3>2, <3>3
  <2>2. Letter(q, q)
      BY DEF Letter
  <2>3. "h_matching_connection_token_start" \notin {"h_connection", "h_transfer_encoding"}
        /\ other \notin {"h_connection", "h_transfer_encoding"}
      OBVIOUS
  <2> HIDE DEF Sees, other
  <2>4. \A F : Letter([Sees("h_matching_connection_token_start") EXCEPT !.index = 0, !.flags = F], q)
      BY <1>2, <2>3, Zenon
  <2>5. Letter(Sees(other), q)
      BY <1>2, <2>3, Zenon
  <2> QED BY <2>1, <2>2, <2>4, <2>5, Zenon
<1>12. CASE h \notin Flags \cup {"h_matching_transfer_encoding_chunked",
                 "h_matching_connection_token_start", "h_matching_connection_keep_alive",
                 "h_matching_connection_close", "h_matching_connection_upgrade",
                 "h_matching_connection_token"}
  <2>1. ValueLetter(q, b) \in {Sees("h_general"), q}
      BY <1>3, <1>12 DEF ValueLetter
  <2>2. Letter(q, q)
      BY DEF Letter
  <2> HIDE DEF Sees
  <2> QED BY <1>2, <2>1, <2>2
<1> QED BY <1>5, <1>6, <1>7, <1>8, <1>9, <1>10, <1>11, <1>12

LEMMA ValueByteKeeps == ASSUME IInv, HeaderValueLetter PROVE IInv'
<1> DEFINE h == parser.header_state
           digits == h \in {"h_content_length", "h_content_length_num"}
           blank == ch = " " /\ (digits \/ h = "h_content_length_ws")
           t == (parser.content_length * 10 + Position(Digits, ch) - 1) % (ULLONG_MAX + 1)
           wrong == \/ digits /\ ch # " " /\ ~IS_NUM(ch)
                    \/ digits /\ IS_NUM(ch) /\ (ULLONG_MAX - 10) \div 10 < parser.content_length
                    \/ h = "h_content_length_ws" /\ ch # " "
           next == CASE blank /\ h = "h_content_length_num" ->
                          [parser EXCEPT !.header_state = "h_content_length_ws"]
                     [] digits /\ ~blank ->
                          [parser EXCEPT !.header_state = "h_content_length_num",
                                         !.content_length = t]
                     [] blank /\ h # "h_content_length_num" -> parser
                     [] OTHER -> ValueLetter(parser, ch)
<1>1. pc = "value" /\ p < end /\ wire' = wire /\ end' = end
    BY DEF HeaderValueLetter, InLoop
<1>2. \/ Fail(parser, "HPE_INVALID_HEADER_TOKEN")
      \/ Fail(parser, "HPE_INVALID_CONTENT_LENGTH")
      \/ /\ ~wrong /\ parser' = next
         /\ p' = IF h = "h_general" THEN SkipValue ELSE p + 1
         /\ UNCHANGED <<pc, locals, hist>>
    BY DEF HeaderValueLetter
<1>3. /\ IsParser(parser) /\ Sound(parser) /\ parser.state = "s_header_value"
      /\ h \notin {"h_connection", "h_transfer_encoding"}
    BY <1>1, LoopFacts DEF Sound
<1>4. CASE Fail(parser, "HPE_INVALID_HEADER_TOKEN")
    BY <1>1, <1>3, <1>4, FailKeeps
<1>5. CASE Fail(parser, "HPE_INVALID_CONTENT_LENGTH")
    BY <1>1, <1>3, <1>5, FailKeeps
<1>6. CASE /\ ~wrong /\ parser' = next
           /\ p' = IF h = "h_general" THEN SkipValue ELSE p + 1
           /\ UNCHANGED <<pc, locals, hist>>
  <2>1. Letter(parser, parser)
      BY <1>3 DEF Letter
  <2>2. Letter(next, parser)
    <3>1. CASE blank /\ h = "h_content_length_num"
      <4>1. next = [parser EXCEPT !.header_state = "h_content_length_ws"]
          BY <3>1
      <4> HIDE DEF next
      <4> QED BY <1>3, <4>1, HeaderStateFacts DEF Letter
    <3>2. CASE digits /\ ~blank
      <4>1. next = [parser EXCEPT !.header_state = "h_content_length_num", !.content_length = t]
          BY <3>2
      <4>2. IS_NUM(ch)
          BY <1>6, <3>2
      <4>3. t \in 0 .. ULLONG_MAX
        <5>1. parser.content_length \in Nat
            BY <1>3, ParserAssumption DEF IsParser
        <5>2. parser.content_length * 10 + Position(Digits, ch) - 1 \in Int
            BY <4>2, <5>1, DigitValue
        <5> QED BY <5>2, Wrapped
      <4> HIDE DEF next, t
      <4>4. ValueOf([parser EXCEPT !.header_state = "h_content_length_num", !.content_length = t],
                    parser, "h_content_length_num")
          BY <1>3, <4>3, ValueFacts, Zenon
      <4>5. ValueOf(next, parser, "h_content_length_num")
          BY <4>1, <4>4, Zenon
      <4> QED BY <4>5 DEF ValueOf, Letter
    <3>3. CASE blank /\ h # "h_content_length_num"
      <4>1. next = parser
          BY <3>3
      <4> QED BY <2>1, <4>1
    <3>4. CASE ~blank /\ ~digits
      <4>1. next = ValueLetter(parser, ch)
          BY <3>4
      <4> HIDE DEF next
      <4> QED BY <1>3, <4>1, ValueLetterFacts
    <3> QED BY <3>1, <3>2, <3>3, <3>4
  <2> HIDE DEF next
  <2>3. p' \in p .. end
    <3>1. p \in Nat /\ end \in Nat /\ p < end
        BY <1>1, LoopFacts
    <3>2. SkipValue \in p .. end
        BY <3>1, SkipValueFacts
    <3>3. p' = SkipValue \/ p' = p + 1
        BY <1>6
    <3> QED BY <3>1, <3>2, <3>3
  <2>4. /\ IsParser(parser') /\ parser'.state = parser.state
        /\ parser'.http_errno = parser.http_errno /\ parser'.nread = parser.nread
        /\ parser'.header_state \notin {"h_connection", "h_transfer_encoding"}
      BY <1>6, <2>2 DEF Letter
  <2>5. Sound(parser')
      BY <1>3, <2>4, ValueIsSound
  <2>6. pc' = pc /\ marks' = marks /\ start' = start
      BY <1>6 DEF locals
  <2> QED BY <1>1, <2>3, <2>4, <2>5, <2>6, LoopKeeps
<1> QED BY <1>2, <1>4, <1>5, <1>6

LEMMA ValueEndKeeps == ASSUME IInv, HeaderValueEnd PROVE IInv'
<1> DEFINE q == Counted(parser, p - start)
           r == To(q, "s_header_almost_done")
<1>1. pc = "value" /\ wire' = wire /\ end' = end
    BY DEF HeaderValueEnd, InLoop
<1>2. \/ Fail(q, "HPE_HEADER_OVERFLOW")
      \/ /\ ~Overflows(parser, p - start)
         /\ parser' = q /\ pc' = "loop" /\ UNCHANGED <<p, locals, hist>>
      \/ /\ ~Overflows(parser, p - start) /\ p < end
         /\ parser' = r /\ Unmark("header_value")
         /\ IF ch = "CR" THEN p' = p + 1 /\ pc' = "loop" ELSE p' = p /\ pc' = "switch"
    BY DEF HeaderValueEnd
<1>3. /\ IsParser(q) /\ Sound(q) /\ q.state = "s_header_value" /\ q.http_errno = "HPE_OK"
      /\ ~Overflows(parser, p - start) => q.nread <= HTTP_MAX_HEADER_SIZE
    BY <1>1, LoopCounts, LoopFacts
<1>4. CASE Fail(q, "HPE_HEADER_OVERFLOW")
    BY <1>1, <1>3, <1>4, FailKeeps
<1>5. CASE /\ ~Overflows(parser, p - start)
           /\ parser' = q /\ pc' = "loop" /\ UNCHANGED <<p, locals, hist>>
  <2>1. p' = p /\ marks' = marks /\ start' = start
      BY <1>5 DEF locals
  <2> QED BY <1>1, <1>5, <2>1, LoopLeft
<1>6. CASE /\ ~Overflows(parser, p - start) /\ p < end
           /\ parser' = r /\ Unmark("header_value")
           /\ IF ch = "CR" THEN p' = p + 1 /\ pc' = "loop" ELSE p' = p /\ pc' = "switch"
  <2> HIDE DEF q
  <2>1. /\ IsParser(r) /\ r.state = "s_header_almost_done" /\ r.http_errno = "HPE_OK"
        /\ r.nread <= HTTP_MAX_HEADER_SIZE
      BY <1>3, <1>6, ToFacts
  <2>2. Marks(parser.state) = {"header_value"}
      BY <1>1, LoopFacts DEF Marks, UrlStart, UrlRest
  <2>3. marks' = {} /\ start' = start
      BY <1>1, <1>6, <2>2, LoopFacts DEF Unmark
  <2>4. parser' = r
      BY <1>6
  <2> HIDE DEF r
  <2>5. Plain(r.state)
      BY <2>1, PlainStates
  <2>6. Sound(r) /\ r.state # "s_chunk_size_start"
      BY <2>5, PlainIsSound
  <2>7. /\ p' \in Nat /\ p' <= end /\ pc' \in {"loop", "switch"} /\ (pc' = "switch" => p' < end)
      BY <1>1, <1>6, LoopFacts
  <2>8. PType'
      BY <1>1, <2>1, <2>3, <2>4, <2>7 DEF IInv, PType
  <2>9. Counting'
      BY <2>1, <2>4, <2>6 DEF Counting
  <2>10. Running'
      BY <1>1, <2>1, <2>3, <2>4, <2>7 DEF Running
  <2> QED BY <2>4, <2>6, <2>8, <2>9, <2>10 DEF IInv
<1> QED BY <1>2, <1>4, <1>5, <1>6

LEMMA HeadersAlmostDoneKeeps == ASSUME IInv, s_headers_almost_done PROVE IInv'
<1> DEFINE upgrade == IF {"F_UPGRADE", "F_CONNECTION_UPGRADE"} \subseteq parser.flags
                      THEN TRUE ELSE parser.method = "CONNECT"
           q == [Goto("s_headers_done") EXCEPT !.upgrade = upgrade]
<1>c. Case({"s_headers_almost_done"})
    BY DEF s_headers_almost_done
<1>1. pc = "switch" /\ parser.state = "s_headers_almost_done" /\ wire' = wire /\ end' = end
    BY <1>c, CaseFacts
<1>2. Plain(parser.state) /\ IsParser(parser)
    BY <1>1, SwitchFacts, PlainStates
<1>3. \/ Fail(parser, "HPE_STRICT")
      \/ Reexecute(Goto("s_message_done"))
      \/ Fail(parser, "HPE_UNEXPECTED_CONTENT_LENGTH")
      \/ Reexecute(q)
    BY DEF s_headers_almost_done
<1> HIDE DEF upgrade
<1>4. CASE Fail(parser, "HPE_STRICT")
    BY <1>1, <1>2, <1>4, PlainFail
<1>5. CASE Reexecute(Goto("s_message_done"))
    BY <1>1, <1>2, <1>5, PlainGoto, PlainStates, ReexecuteKeeps
<1>6. CASE Fail(parser, "HPE_UNEXPECTED_CONTENT_LENGTH")
    BY <1>1, <1>2, <1>6, PlainFail
<1>7. CASE Reexecute(q)
  <2>1. /\ IsParser(Goto("s_headers_done")) /\ Goto("s_headers_done").state = "s_headers_done"
        /\ Goto("s_headers_done").http_errno = parser.http_errno
        /\ Goto("s_headers_done").nread = parser.nread
      BY <1>1, PlainGoto, PlainStates
  <2>2. IsParser(q) /\ Alike(q, Goto("s_headers_done"))
      BY <2>1, OtherFields
  <2> HIDE DEF q
  <2>3. /\ q.state = "s_headers_done" /\ q.http_errno = parser.http_errno
        /\ q.nread = parser.nread
      BY <2>1, <2>2 DEF Alike
  <2>4. Fit(q, marks)
      BY <1>1, <1>2, <2>2, <2>3, PlainFits, PlainHasNoMark, PlainStates, SwitchFacts
  <2> QED BY <1>1, <1>7, <2>3, <2>4, ReexecuteKeeps
<1> QED BY <1>3, <1>4, <1>5, <1>6, <1>7

(* A new message begins, or the connection is to be closed. *)
LEMMA NewMessageFacts ==
    ASSUME NEW q, IsParser(q)
    PROVE  /\ IsParser(NEW_MESSAGE(q)) /\ Plain(NEW_MESSAGE(q).state)
           /\ NEW_MESSAGE(q).http_errno = q.http_errno /\ NEW_MESSAGE(q).nread = q.nread
<1>1. PICK s \in {"s_start_req", "s_dead"} : NEW_MESSAGE(q) = To(q, s)
    BY DEF NEW_MESSAGE
<1> QED BY <1>1, ToFacts, PlainStates

LEMMA HeadersDoneKeeps == ASSUME IInv, s_headers_done PROVE IInv'
<1> DEFINE q == [parser EXCEPT !.nread = 0]
           n == parser.content_length
           hasBody == "F_CHUNKED" \in parser.flags \/ (n > 0 /\ n # ULLONG_MAX)
           body == To(q, IF "F_CHUNKED" \in parser.flags THEN "s_chunk_size_start"
                         ELSE "s_body_identity")
<1>c. Case({"s_headers_done"}) /\ UNCHANGED locals
    BY DEF s_headers_done
<1>1. /\ pc = "switch" /\ parser.state = "s_headers_done" /\ wire' = wire /\ end' = end
      /\ marks' = marks /\ start' = start
    BY <1>c, CaseFacts DEF locals
<1>2. Plain(parser.state) /\ IsParser(parser) /\ marks = {}
    BY <1>1, SwitchFacts, PlainStates, PlainHasNoMark
<1>3. \/ ReturnAfter(NEW_MESSAGE(q))
      \/ hasBody /\ Advance(body)
      \/ Advance(NEW_MESSAGE(q))
    BY DEF s_headers_done
<1>4. /\ IsParser(q) /\ q.nread = 0 /\ q.http_errno = "HPE_OK" /\ q.flags = parser.flags
      /\ q.content_length = n
    BY <1>1, <1>2, NreadFacts, SwitchFacts
<1> HIDE DEF q
<1>5. /\ IsParser(NEW_MESSAGE(q)) /\ Plain(NEW_MESSAGE(q).state)
      /\ NEW_MESSAGE(q).http_errno = "HPE_OK" /\ NEW_MESSAGE(q).nread = 0
    BY <1>4, NewMessageFacts
<1>6. CASE ReturnAfter(NEW_MESSAGE(q))
  <2>1. parser' = NEW_MESSAGE(q) /\ pc' = "idle" /\ p' \in Nat
      BY <1>1, <1>6, SwitchFacts DEF ReturnAfter
  <2> QED BY <1>1, <1>5, <2>1, PlainIsSound, ParserAssumption, ReturnKeeps
<1>7. CASE hasBody /\ Advance(body)
  <2>1. /\ IsParser(body) /\ body.nread = 0 /\ body.http_errno = "HPE_OK"
        /\ body.flags = parser.flags /\ body.content_length = n
        /\ body.state = IF "F_CHUNKED" \in parser.flags THEN "s_chunk_size_start"
                        ELSE "s_body_identity"
      BY <1>4, ToFacts
  <2> HIDE DEF body
  <2>2. Sound(body)
      BY <1>7, <2>1 DEF Sound, ChunkStates
  <2>3. Fit(body, marks')
      BY <1>1, <1>2, <2>1, <2>2, ParserAssumption DEF Fit
  <2> QED BY <1>1, <1>7, <2>3, AdvanceKeeps, SwitchFacts
<1>8. CASE Advance(NEW_MESSAGE(q))
  <2>1. Fit(NEW_MESSAGE(q), marks')
      BY <1>1, <1>2, <1>5, PlainFits, ParserAssumption
  <2> QED BY <1>1, <1>8, <2>1, AdvanceKeeps, SwitchFacts
<1> QED BY <1>3, <1>6, <1>7, <1>8

-----------------------------------------------------------------------------
(* Bodies. *)

(* What is read of a body is at least one byte, in the piece and in the    *)
(* body, and the length left is what was not read.                         *)
LEMMA ToReadFacts ==
    ASSUME IInv, pc = "switch", parser.content_length \notin {0, ULLONG_MAX}
    PROVE  /\ ToRead \in Nat /\ ToRead >= 1 /\ p + ToRead <= end
           /\ (parser.content_length - ToRead) % (ULLONG_MAX + 1) = parser.content_length - ToRead
           /\ parser.content_length - ToRead \in 0 .. ULLONG_MAX - 1
<1>1. parser.content_length \in 1 .. ULLONG_MAX - 1
    BY SwitchFacts, ParserAssumption DEF IsParser
<1>2. p \in Nat /\ end \in Nat /\ p < end
    BY SwitchFacts
<1>3. /\ ToRead \in Nat /\ ToRead >= 1 /\ p + ToRead <= end
      /\ ToRead <= parser.content_length
    BY <1>1, <1>2, ParserAssumption DEF ToRead
<1>4. parser.content_length - ToRead \in 0 .. ULLONG_MAX - 1
    BY <1>1, <1>3, ParserAssumption
<1>5. (parser.content_length - ToRead) % (ULLONG_MAX + 1) = parser.content_length - ToRead
  <2>1. ToRead \in 0 .. parser.content_length /\ parser.content_length \in 0 .. ULLONG_MAX
      BY <1>1, <1>3, ParserAssumption
  <2> QED BY <2>1, LeftOver
<1> QED BY <1>3, <1>4, <1>5

LEMMA BodyIdentityKeeps == ASSUME IInv, s_body_identity PROVE IInv'
<1> DEFINE left == (parser.content_length - ToRead) % (ULLONG_MAX + 1)
           q == [parser EXCEPT !.content_length = left]
           last == p + ToRead - 1
<1>c. Case({"s_body_identity"}) /\ UNCHANGED start
    BY DEF s_body_identity
<1>1. /\ pc = "switch" /\ parser.state = "s_body_identity" /\ wire' = wire /\ end' = end
      /\ start' = start
    BY <1>c, CaseFacts
<1>2. /\ IsParser(parser) /\ marks \subseteq {"body"}
      /\ parser.content_length \notin {0, ULLONG_MAX}
    BY <1>1, SwitchFacts DEF Sound, Marks, UrlStart, UrlRest
<1>3. /\ left \in 0 .. ULLONG_MAX - 1 /\ last \in Nat /\ last + 1 <= end
  <2>1. /\ ToRead \in Nat /\ ToRead >= 1 /\ p + ToRead <= end /\ p \in Nat /\ end \in Nat
      BY <1>1, <1>2, ToReadFacts, SwitchFacts
  <2>2. left \in 0 .. ULLONG_MAX - 1
      BY <1>1, <1>2, ToReadFacts
  <2> QED BY <2>1, <2>2
<1>4. /\ IsParser(q) /\ q.state = "s_body_identity" /\ q.content_length = left
      /\ q.http_errno = "HPE_OK" /\ q.nread = parser.nread /\ q.flags = parser.flags
  <2>1. left \in 0 .. ULLONG_MAX
      BY <1>3, ParserAssumption
  <2> HIDE DEF left
  <2> QED BY <1>1, <1>2, <2>1, LengthFacts, SwitchFacts
<1>5. CASE left = 0
  <2>1. PICK refused \in Refusals :
           /\ parser' = [To(q, "s_message_done") EXCEPT
                           !.http_errno = IF refused THEN "HPE_CB_body" ELSE @]
           /\ pc' = IF refused THEN "idle" ELSE "switch"
           /\ p' = last
           /\ marks' = marks \ {"body"}
      BY <1>5 DEF s_body_identity
  <2> HIDE DEF left, q, last
  <2> DEFINE r == To(q, "s_message_done")
  <2>2. /\ IsParser(r) /\ r.state = "s_message_done" /\ r.http_errno = "HPE_OK"
        /\ r.nread = parser.nread
      BY <1>4, ToFacts
  <2> HIDE DEF r
  <2>3. Plain(r.state) /\ Sound(r) /\ r.state # "s_chunk_size_start"
      BY <2>2, PlainStates, PlainIsSound
  <2>4. parser' = [r EXCEPT !.http_errno = IF refused THEN "HPE_CB_body" ELSE r.http_errno]
      BY <2>1 DEF r
  <2>5. /\ IsParser(parser') /\ Sound(parser') /\ parser'.state = r.state
        /\ parser'.nread = r.nread
        /\ parser'.http_errno = IF refused THEN "HPE_CB_body" ELSE "HPE_OK"
      BY <2>2, <2>3, <2>4, ErrnoFacts
  <2>6. CASE refused
      BY <1>1, <1>3, <2>1, <2>5, <2>6, ReturnKeeps
  <2>7. CASE ~refused
    <3>1. /\ pc' = "switch" /\ p' = last /\ marks' = {} /\ parser'.http_errno = "HPE_OK"
        BY <1>2, <2>1, <2>5, <2>7
    <3>2. PType'
        BY <1>1, <1>3, <2>5, <3>1 DEF IInv, PType
    <3>3. Counting'
        BY <1>1, <2>2, <2>3, <2>5, SwitchFacts DEF Counting
    <3>4. Running'
      <4>1. p' < end'
          BY <1>1, <1>3, <3>1, SwitchFacts
      <4>2. p' <= end'
          BY <1>1, <1>3, <3>1, SwitchFacts
      <4> QED BY <3>1, <4>1, <4>2 DEF Running
    <3> QED BY <2>5, <3>2, <3>3, <3>4 DEF IInv
  <2> QED BY <2>6, <2>7
<1>6. CASE left # 0
  <2>1. parser' = q /\ pc' = "loop" /\ p' = last + 1 /\ marks' = marks \cup {"body"}
      BY <1>6 DEF s_body_identity
  <2> HIDE DEF left, q, last
  <2>2. Sound(q)
      BY <1>3, <1>4, <1>6, ParserAssumption DEF Sound, ChunkStates
  <2>3. Marks(q.state) = {"body"}
      BY <1>4 DEF Marks, UrlStart, UrlRest
  <2>4. PType'
      BY <1>1, <1>3, <1>4, <2>1 DEF IInv, PType
  <2>5. Counting'
      BY <1>1, <1>4, <2>1, SwitchFacts DEF Counting
  <2>6. Running'
      BY <1>1, <1>2, <1>3, <1>4, <2>1, <2>3 DEF Running
  <2> QED BY <2>1, <2>2, <2>4, <2>5, <2>6 DEF IInv
<1> QED BY <1>5, <1>6

LEMMA MessageDoneKeeps == ASSUME IInv, s_message_done PROVE IInv'
<1>c. Case({"s_message_done"}) /\ UNCHANGED locals
    BY DEF s_message_done
<1>1. /\ pc = "switch" /\ parser.state = "s_message_done" /\ wire' = wire /\ end' = end
      /\ marks' = marks /\ start' = start
    BY <1>c, CaseFacts DEF locals
<1>2. Plain(parser.state) /\ IsParser(parser) /\ marks = {}
    BY <1>1, SwitchFacts, PlainStates, PlainHasNoMark
<1>3. /\ IsParser(NEW_MESSAGE(parser)) /\ Plain(NEW_MESSAGE(parser).state)
      /\ NEW_MESSAGE(parser).http_errno = "HPE_OK"
      /\ NEW_MESSAGE(parser).nread = parser.nread
    BY <1>1, <1>2, NewMessageFacts, SwitchFacts
<1>4. \/ parser' = NEW_MESSAGE(parser) /\ pc' = "idle" /\ p' = p + 1
      \/ Advance(NEW_MESSAGE(parser))
    BY DEF s_message_done
<1>5. CASE parser' = NEW_MESSAGE(parser) /\ pc' = "idle" /\ p' = p + 1
  <2>1. p' \in Nat
      BY <1>1, <1>5, SwitchFacts
  <2> QED BY <1>1, <1>3, <1>5, <2>1, PlainIsSound, SwitchFacts, ReturnKeeps
<1>6. CASE Advance(NEW_MESSAGE(parser))
  <2>1. Fit(NEW_MESSAGE(parser), marks')
      BY <1>1, <1>2, <1>3, PlainFits, SwitchFacts
  <2> QED BY <1>1, <1>6, <2>1, AdvanceKeeps, SwitchFacts
<1> QED BY <1>4, <1>5, <1>6

(* In the states of a chunk. *)
LEMMA ChunkFacts ==
    ASSUME IInv, pc = "switch",
           parser.state \in ChunkStates \ {"s_chunk_data", "s_chunk_data_almost_done"}
    PROVE  marks = {} /\ "F_CHUNKED" \in parser.flags
<1>1. marks \subseteq Marks(parser.state) /\ Sound(parser)
    BY SwitchFacts
<1>2. Marks(parser.state) = {}
    BY DEF Marks, ChunkStates, UrlStart, UrlRest
<1> QED BY <1>1, <1>2 DEF Sound

(* A chunk's size or what follows it. *)
LEMMA ChunkSizeFits ==
    ASSUME IInv, pc = "switch", "F_CHUNKED" \in parser.flags, marks = {},
           NEW s \in {"s_chunk_size", "s_chunk_parameters", "s_chunk_size_almost_done"},
           NEW n \in 0 .. ULLONG_MAX - 1
    PROVE  /\ Fit([Goto(s) EXCEPT !.content_length = n], marks)
           /\ parser.content_length = n => Fit(Goto(s), marks)
<1> DEFINE q == Goto(s)
           r == [q EXCEPT !.content_length = n]
<1>1. /\ IsParser(q) /\ q.state = s /\ q.flags = parser.flags /\ q.nread = parser.nread
      /\ q.http_errno = "HPE_OK" /\ q.content_length = parser.content_length
    BY SwitchFacts, ToFacts DEF Goto
<1> HIDE DEF q
<1>2. n \in 0 .. ULLONG_MAX /\ n # ULLONG_MAX
    BY ParserAssumption
<1>3. /\ IsParser(r) /\ r.state = s /\ r.flags = parser.flags /\ r.nread = parser.nread
      /\ r.http_errno = "HPE_OK" /\ r.content_length = n
    BY <1>1, <1>2, LengthFacts
<1> HIDE DEF r
<1>4. Sound(r) /\ (parser.content_length = n => Sound(q))
    BY <1>1, <1>2, <1>3 DEF Sound, ChunkStates
<1>5. Fit(r, marks)
    BY <1>3, <1>4, SwitchFacts DEF Fit
<1>6. parser.content_length = n => Fit(q, marks)
    BY <1>1, <1>4, SwitchFacts DEF Fit
<1> QED BY <1>5, <1>6 DEF q, r

LEMMA ChunkSizeKeeps == ASSUME IInv, s_chunk_size PROVE IInv'
<1> DEFINE n == parser.content_length
           t == (n * 16 + unhex(ch)) % (ULLONG_MAX + 1)
           s == parser.state
<1>c. Case({"s_chunk_size_start", "s_chunk_size"})
    BY DEF s_chunk_size
<1>1. /\ pc = "switch" /\ s \in {"s_chunk_size_start", "s_chunk_size"}
      /\ wire' = wire /\ end' = end
    BY <1>c, CaseFacts
<1>2. /\ IsParser(parser) /\ Sound(parser) /\ n \in Nat /\ n \in 0 .. ULLONG_MAX
    BY <1>1, SwitchFacts, ParserAssumption DEF IsParser
<1>3. marks = {} /\ "F_CHUNKED" \in parser.flags
    BY <1>1, ChunkFacts DEF ChunkStates
<1>4. s = "s_chunk_size" => n \in 0 .. ULLONG_MAX - 1
  <2>1. s = "s_chunk_size" => n # ULLONG_MAX
      BY <1>2 DEF Sound
  <2> QED BY <1>2, <2>1, ParserAssumption
<1>5. \/ IsHex(ch) /\ Break([Goto("s_chunk_size") EXCEPT !.content_length = unhex(ch)])
      \/ /\ s = "s_chunk_size" /\ IsHex(ch) /\ (ULLONG_MAX - 16) \div 16 >= n
         /\ Break([parser EXCEPT !.content_length = t])
      \/ Fail(parser, "HPE_INVALID_CONTENT_LENGTH")
      \/ s = "s_chunk_size" /\ Break(Goto("s_chunk_size_almost_done"))
      \/ s = "s_chunk_size" /\ Break(Goto("s_chunk_parameters"))
      \/ Fail(parser, "HPE_INVALID_CHUNK_SIZE")
    BY DEF s_chunk_size
<1>6. CASE IsHex(ch) /\ Break([Goto("s_chunk_size") EXCEPT !.content_length = unhex(ch)])
  <2>1. unhex(ch) \in 0 .. ULLONG_MAX - 1
      BY <1>6, HexValue, ParserAssumption
  <2>2. Fit([Goto("s_chunk_size") EXCEPT !.content_length = unhex(ch)], marks)
      BY <1>1, <1>3, <2>1, ChunkSizeFits
  <2> QED BY <1>1, <1>6, <2>2, BreakKeeps
<1>7. CASE /\ s = "s_chunk_size" /\ IsHex(ch) /\ (ULLONG_MAX - 16) \div 16 >= n
           /\ Break([parser EXCEPT !.content_length = t])
  <2> DEFINE k == unhex(ch)
             q == [parser EXCEPT !.content_length = t]
  <2>1. k \in 0 .. 15
      BY <1>7, HexValue
  <2>2. t \in 0 .. ULLONG_MAX - 1
    <3> HIDE DEF k, n
    <3>1. (ULLONG_MAX - 16) \div 16 >= n /\ n \in Nat
        BY <1>2, <1>7
    <3>2. (n * 16 + k) % (ULLONG_MAX + 1) \in 0 .. ULLONG_MAX - 1
        BY <2>1, <3>1, ChunkDigit
    <3> QED BY <3>2 DEF k
  <2> HIDE DEF t
  <2>3. t \in 0 .. ULLONG_MAX /\ t # ULLONG_MAX
      BY <2>2, ParserAssumption
  <2>4. /\ IsParser(q) /\ q.state = s /\ q.flags = parser.flags /\ q.nread = parser.nread
        /\ q.http_errno = parser.http_errno /\ q.content_length = t
      BY <1>2, <2>3, LengthFacts
  <2>q. Break(q)
      BY <1>7
  <2> HIDE DEF q
  <2>5. Sound(q)
      BY <1>3, <1>7, <2>3, <2>4 DEF Sound, ChunkStates
  <2>6. Fit(q, marks)
      BY <1>1, <1>3, <1>7, <2>4, <2>5, SwitchFacts DEF Fit
  <2> QED BY <1>1, <2>q, <2>6, BreakKeeps
<1>8. CASE Fail(parser, "HPE_INVALID_CONTENT_LENGTH")
    BY <1>1, <1>2, <1>8, FailKeeps
<1>9. CASE s = "s_chunk_size" /\ Break(Goto("s_chunk_size_almost_done"))
  <2>1. Fit(Goto("s_chunk_size_almost_done"), marks)
      BY <1>1, <1>3, <1>4, <1>9, ChunkSizeFits
  <2> QED BY <1>1, <1>9, <2>1, BreakKeeps
<1>10. CASE s = "s_chunk_size" /\ Break(Goto("s_chunk_parameters"))
  <2>1. Fit(Goto("s_chunk_parameters"), marks)
      BY <1>1, <1>3, <1>4, <1>10, ChunkSizeFits
  <2> QED BY <1>1, <1>10, <2>1, BreakKeeps
<1>11. CASE Fail(parser, "HPE_INVALID_CHUNK_SIZE")
    BY <1>1, <1>2, <1>11, FailKeeps
<1> QED BY <1>5, <1>6, <1>7, <1>8, <1>9, <1>10, <1>11

LEMMA ChunkParametersKeeps == ASSUME IInv, s_chunk_parameters PROVE IInv'
<1>c. Case({"s_chunk_parameters"})
    BY DEF s_chunk_parameters
<1>1. pc = "switch" /\ parser.state = "s_chunk_parameters" /\ wire' = wire /\ end' = end
    BY <1>c, CaseFacts
<1>2. marks = {} /\ "F_CHUNKED" \in parser.flags /\ Fit(parser, marks)
    BY <1>1, ChunkFacts, SwitchFacts DEF ChunkStates
<1>3. parser.content_length \in 0 .. ULLONG_MAX - 1
  <2>1. parser.content_length \in 0 .. ULLONG_MAX
      BY <1>1, SwitchFacts DEF IsParser
  <2>2. parser.content_length # ULLONG_MAX
      BY <1>1, SwitchFacts DEF Sound
  <2> QED BY <2>1, <2>2, ParserAssumption
<1>4. Break(Goto("s_chunk_size_almost_done")) \/ Break(parser)
    BY DEF s_chunk_parameters
<1>5. CASE Break(Goto("s_chunk_size_almost_done"))
  <2>1. Fit(Goto("s_chunk_size_almost_done"), marks)
      BY <1>1, <1>2, <1>3, ChunkSizeFits
  <2> QED BY <1>1, <1>5, <2>1, BreakKeeps
<1>6. CASE Break(parser)
    BY <1>1, <1>2, <1>6, BreakKeeps
<1> QED BY <1>4, <1>5, <1>6

LEMMA ChunkSizeAlmostDoneKeeps == ASSUME IInv, s_chunk_size_almost_done PROVE IInv'
<1> DEFINE q == [parser EXCEPT !.nread = 0]
           a == To(q, "s_header_field_start")
           last == [a EXCEPT !.flags = a.flags \cup {"F_TRAILING"}]
           more == To(q, "s_chunk_data")
<1>c. Case({"s_chunk_size_almost_done"})
    BY DEF s_chunk_size_almost_done
<1>1. pc = "switch" /\ parser.state = "s_chunk_size_almost_done" /\ wire' = wire /\ end' = end
    BY <1>c, CaseFacts
<1>2. /\ marks = {} /\ "F_CHUNKED" \in parser.flags /\ IsParser(parser) /\ Sound(parser)
    BY <1>1, ChunkFacts, SwitchFacts DEF ChunkStates
<1>3. \/ Fail(parser, "HPE_STRICT")
      \/ Advance(last) /\ UNCHANGED locals
      \/ parser.content_length # 0 /\ Advance(more) /\ UNCHANGED locals
    BY DEF s_chunk_size_almost_done
<1>4. /\ IsParser(q) /\ q.nread = 0 /\ q.http_errno = "HPE_OK" /\ q.flags = parser.flags
      /\ q.content_length = parser.content_length
    BY <1>1, <1>2, NreadFacts, SwitchFacts
<1> HIDE DEF q
<1>5. CASE Fail(parser, "HPE_STRICT")
    BY <1>1, <1>2, <1>5, FailKeeps
<1>6. CASE Advance(last) /\ UNCHANGED locals
  <2>1. /\ IsParser(a) /\ a.state = "s_header_field_start" /\ a.nread = 0
        /\ a.http_errno = "HPE_OK"
      BY <1>4, ToFacts
  <2> HIDE DEF a
  <2>2. /\ IsParser(last) /\ last.state = "s_header_field_start" /\ last.nread = 0
        /\ last.http_errno = "HPE_OK"
      BY <2>1, FlagsFacts
  <2> HIDE DEF last
  <2>3. marks' = {} /\ start' = start
      BY <1>2, <1>6 DEF locals
  <2>4. Fit(last, marks')
      BY <2>2, <2>3, PlainFits, PlainStates, ParserAssumption
  <2> QED BY <1>1, <1>6, <2>3, <2>4, AdvanceKeeps, SwitchFacts
<1>7. CASE parser.content_length # 0 /\ Advance(more) /\ UNCHANGED locals
  <2>1. /\ IsParser(more) /\ more.state = "s_chunk_data" /\ more.nread = 0
        /\ more.http_errno = "HPE_OK" /\ more.flags = parser.flags
        /\ more.content_length = parser.content_length
      BY <1>4, ToFacts
  <2> HIDE DEF more
  <2>2. parser.content_length # ULLONG_MAX
      BY <1>1, <1>2 DEF Sound
  <2>3. Sound(more)
      BY <1>2, <1>7, <2>1, <2>2 DEF Sound
  <2>4. marks' = {} /\ start' = start
      BY <1>2, <1>7 DEF locals
  <2>5. Fit(more, marks')
      BY <2>1, <2>3, <2>4, ParserAssumption DEF Fit
  <2> QED BY <1>1, <1>7, <2>4, <2>5, AdvanceKeeps, SwitchFacts
<1> QED BY <1>3, <1>5, <1>6, <1>7

LEMMA ChunkDataKeeps == ASSUME IInv, s_chunk_data PROVE IInv'
<1> DEFINE left == (parser.content_length - ToRead) % (ULLONG_MAX + 1)
           q == [parser EXCEPT !.content_length = left]
           r == To(q, "s_chunk_data_almost_done")
<1>c. Case({"s_chunk_data"})
    BY DEF s_chunk_data
<1>1. pc = "switch" /\ parser.state = "s_chunk_data" /\ wire' = wire /\ end' = end
    BY <1>c, CaseFacts
<1>2. /\ marks' = marks \cup {"body"} /\ start' = start /\ p' = p + ToRead /\ pc' = "loop"
      /\ parser' = IF left = 0 THEN r ELSE q
    BY DEF s_chunk_data
<1>3. /\ IsParser(parser) /\ marks \subseteq {"body"} /\ "F_CHUNKED" \in parser.flags
      /\ parser.content_length \notin {0, ULLONG_MAX}
    BY <1>1, SwitchFacts DEF Sound, Marks, UrlStart, UrlRest, ChunkStates
<1>4. left \in 0 .. ULLONG_MAX - 1
    BY <1>1, <1>3, ToReadFacts
<1>5. p' \in Nat /\ p' <= end
    BY <1>1, <1>2, <1>3, ToReadFacts, SwitchFacts
<1> HIDE DEF left
<1>6. left \in 0 .. ULLONG_MAX /\ left # ULLONG_MAX
    BY <1>4, ParserAssumption
<1>7. /\ IsParser(q) /\ q.state = "s_chunk_data" /\ q.content_length = left
      /\ q.http_errno = "HPE_OK" /\ q.nread = parser.nread /\ q.flags = parser.flags
    BY <1>1, <1>3, <1>6, LengthFacts, SwitchFacts
<1> HIDE DEF q
<1>8. /\ IsParser(r) /\ r.state = "s_chunk_data_almost_done" /\ r.content_length = left
      /\ r.http_errno = "HPE_OK" /\ r.nread = parser.nread /\ r.flags = parser.flags
    BY <1>7, ToFacts
<1> HIDE DEF r
<1>9. /\ IsParser(parser') /\ parser'.http_errno = "HPE_OK" /\ parser'.nread = parser.nread
      /\ parser'.state \in {"s_chunk_data", "s_chunk_data_almost_done"}
    BY <1>2, <1>7, <1>8
<1>10. Sound(parser')
  <2>1. CASE left = 0
      BY <1>2, <1>3, <1>8, <2>1 DEF Sound
  <2>2. CASE left # 0
      BY <1>2, <1>3, <1>6, <1>7, <2>2 DEF Sound
  <2> QED BY <2>1, <2>2
<1>11. Marks(parser'.state) = {"body"}
    BY <1>9 DEF Marks, UrlStart, UrlRest
<1>12. PType'
    BY <1>1, <1>2, <1>5, <1>9 DEF IInv, PType
<1>13. Counting'
    BY <1>1, <1>9, SwitchFacts DEF Counting
<1>14. Running'
    BY <1>1, <1>2, <1>3, <1>5, <1>9, <1>11 DEF Running
<1> QED BY <1>10, <1>12, <1>13, <1>14 DEF IInv

(* The body's mark is dropped in the state that follows a chunk's data. *)
LEMMA ChunkDataAlmostDoneKeeps == ASSUME IInv, s_chunk_data_almost_done PROVE IInv'
<1> DEFINE q == Goto("s_chunk_data_done")
<1>c. Case({"s_chunk_data_almost_done"})
    BY DEF s_chunk_data_almost_done
<1>1. pc = "switch" /\ parser.state = "s_chunk_data_almost_done" /\ wire' = wire /\ end' = end
    BY <1>c, CaseFacts
<1>2. /\ IsParser(parser) /\ Sound(parser) /\ marks \subseteq {"body"}
      /\ "F_CHUNKED" \in parser.flags
    BY <1>1, SwitchFacts DEF Sound, Marks, UrlStart, UrlRest, ChunkStates
<1>3. \/ Fail(parser, "HPE_STRICT")
      \/ CallbackBody(q, p, "loop", p + 1) /\ UNCHANGED <<start, body_mark>>
      \/ "body" \notin marks /\ Break(q)
    BY DEF s_chunk_data_almost_done
<1>4. /\ IsParser(q) /\ q.state = "s_chunk_data_done" /\ q.flags = parser.flags
      /\ q.http_errno = "HPE_OK" /\ q.nread = parser.nread
    BY <1>1, <1>2, ToFacts, SwitchFacts DEF Goto
<1> HIDE DEF q
<1>5. Sound(q)
    BY <1>2, <1>4 DEF Sound
<1>6. Fit(q, {})
    BY <1>1, <1>4, <1>5, SwitchFacts DEF Fit
<1>7. CASE Fail(parser, "HPE_STRICT")
    BY <1>1, <1>2, <1>7, FailKeeps
<1>8. CASE CallbackBody(q, p, "loop", p + 1) /\ UNCHANGED <<start, body_mark>>
  <2>1. PICK refused \in Refusals :
            /\ parser' = [q EXCEPT !.http_errno = IF refused THEN "HPE_CB_body" ELSE @]
            /\ pc' = IF refused THEN "idle" ELSE "loop"
            /\ p' = IF refused THEN p ELSE p + 1
            /\ marks' = IF refused THEN marks ELSE marks \ {"body"}
      BY <1>8 DEF CallbackBody
  <2>2. parser' = [q EXCEPT !.http_errno = IF refused THEN "HPE_CB_body" ELSE q.http_errno]
      BY <2>1
  <2>3. /\ IsParser(parser') /\ Sound(parser') /\ parser'.state = q.state
        /\ parser'.nread = q.nread
        /\ parser'.http_errno = IF refused THEN "HPE_CB_body" ELSE "HPE_OK"
      BY <1>4, <1>5, <2>2, ErrnoFacts
  <2>4. CASE refused
      BY <1>1, <1>8, <2>1, <2>3, <2>4, ReturnKeeps, SwitchFacts
  <2>5. CASE ~refused
    <3>1. /\ pc' = "loop" /\ p' = p + 1 /\ marks' = {} /\ start' = start
          /\ parser'.http_errno = "HPE_OK"
        BY <1>2, <1>8, <2>1, <2>3, <2>5
    <3>2. Fit(parser', marks')
        BY <1>1, <1>4, <2>3, <3>1, SwitchFacts DEF Fit
    <3>3. Advance(parser')
        BY <3>1 DEF Advance
    <3> QED BY <1>1, <3>1, <3>2, <3>3, AdvanceKeeps, SwitchFacts
  <2> QED BY <2>4, <2>5
<1>9. CASE "body" \notin marks /\ Break(q)
  <2>1. marks = {}
      BY <1>2, <1>9
  <2> QED BY <1>1, <1>6, <1>9, <2>1, BreakKeeps
<1> QED BY <1>3, <1>7, <1>8, <1>9

LEMMA ChunkDataDoneKeeps == ASSUME IInv, s_chunk_data_done PROVE IInv'
<1> DEFINE a == Goto("s_chunk_size_start")
           q == [a EXCEPT !.nread = 0]
<1>c. Case({"s_chunk_data_done"})
    BY DEF s_chunk_data_done
<1>1. pc = "switch" /\ parser.state = "s_chunk_data_done" /\ wire' = wire /\ end' = end
    BY <1>c, CaseFacts
<1>2. marks = {} /\ "F_CHUNKED" \in parser.flags /\ IsParser(parser) /\ Sound(parser)
    BY <1>1, ChunkFacts, SwitchFacts DEF ChunkStates
<1>3. Fail(parser, "HPE_STRICT") \/ (Advance(q) /\ UNCHANGED locals)
    BY DEF s_chunk_data_done
<1>4. CASE Fail(parser, "HPE_STRICT")
    BY <1>1, <1>2, <1>4, FailKeeps
<1>5. CASE Advance(q) /\ UNCHANGED locals
  <2>1. /\ IsParser(a) /\ a.state = "s_chunk_size_start" /\ a.flags = parser.flags
        /\ a.http_errno = "HPE_OK"
      BY <1>1, <1>2, ToFacts, SwitchFacts DEF Goto
  <2> HIDE DEF a
  <2>2. /\ IsParser(q) /\ q.state = "s_chunk_size_start" /\ q.flags = parser.flags
        /\ q.http_errno = "HPE_OK" /\ q.nread = 0
      BY <2>1, NreadFacts
  <2> HIDE DEF q
  <2>3. Sound(q)
      BY <1>2, <2>2 DEF Sound
  <2>4. marks' = {} /\ start' = start
      BY <1>2, <1>5 DEF locals
  <2>5. Fit(q, marks')
      BY <2>2, <2>3, <2>4, ParserAssumption DEF Fit
  <2> QED BY <1>1, <1>5, <2>4, <2>5, AdvanceKeeps, SwitchFacts
<1> QED BY <1>3, <1>4, <1>5

-----------------------------------------------------------------------------
(* Every step. *)

LEMMA RequestLineKeeps ==
    ASSUME IInv,
           \/ s_dead \/ s_start_req \/ s_req_method \/ s_req_spaces_before_url \/ s_req_url
           \/ s_req_http
    PROVE  IInv'
BY DeadKeeps, StartReqKeeps, MethodKeeps, SpacesKeeps, UrlKeeps, HttpVersionKeeps

LEMMA HeaderKeeps ==
    ASSUME IInv,
           \/ s_header_field_start \/ s_header_field \/ HeaderFieldLetter \/ HeaderFieldEnd
           \/ s_header_value_discard_ws \/ s_header_value_start
           \/ s_header_value \/ HeaderValueLetter \/ HeaderValueEnd
           \/ s_header_almost_done \/ s_header_value_lws
           \/ s_header_value_discard_ws_almost_done \/ s_header_value_discard_lws
           \/ s_headers_almost_done \/ s_headers_done
    PROVE  IInv'
<1>1. s_header_field => IInv'
    BY EnterLoopKeeps DEF s_header_field
<1>2. s_header_value => IInv'
    BY EnterLoopKeeps DEF s_header_value
<1> QED
  BY <1>1, <1>2, FieldStartKeeps, FieldLetterKeeps, FieldEndKeeps, DiscardWsKeeps,
     ValueBeginKeeps, ValueByteKeeps, ValueEndKeeps, AlmostDoneKeeps, LwsKeeps,
     DiscardAlmostDoneKeeps, DiscardLwsKeeps, HeadersAlmostDoneKeeps, HeadersDoneKeeps

LEMMA BodyKeeps ==
    ASSUME IInv,
           \/ s_body_identity \/ s_message_done
           \/ s_chunk_size \/ s_chunk_parameters \/ s_chunk_size_almost_done
           \/ s_chunk_data \/ s_chunk_data_almost_done \/ s_chunk_data_done
    PROVE  IInv'
BY BodyIdentityKeeps, MessageDoneKeeps, ChunkSizeKeeps, ChunkParametersKeeps,
   ChunkSizeAlmostDoneKeeps, ChunkDataKeeps, ChunkDataAlmostDoneKeeps, ChunkDataDoneKeeps

LEMMA StepKeeps == IInv /\ [Next]_vars => IInv'
<1> SUFFICES ASSUME IInv, [Next]_vars PROVE IInv'
    OBVIOUS
<1>1. CASE UNCHANGED vars
    BY <1>1 DEF vars, locals, data, IInv, PType, Counting, Running
<1>2. CASE Feed \/ Eof \/ Renew
    BY <1>2, FeedKeeps, EofKeeps, RenewKeeps
<1>3. CASE InExecute
    BY <1>3, NextByteKeeps, EndOfPieceKeeps, RequestLineKeeps, HeaderKeeps, BodyKeeps
       DEF InExecute
<1> QED BY <1>1, <1>2, <1>3 DEF Next

(* At each step of any call the parser holds what its state promises, its  *)
(* marks and its header count with it.                                     *)
THEOREM ParserInvariant == Spec => []IInv
<1>1. Init => IInv
    BY InitKeeps
<1>2. IInv /\ [Next]_vars => IInv'
    BY StepKeeps
<1> QED BY <1>1, <1>2, PTL DEF Spec

(* What the invariant says where the code asserts. *)
LEMMA InvariantAsserts == IInv => AssertionsHold
<1> SUFFICES ASSUME IInv PROVE AssertionsHold
    OBVIOUS
<1>1. ASSUME pc = "switch"
      PROVE  /\ parser.state = "s_chunk_size_start" => parser.nread = 1
             /\ parser.state \in {"s_body_identity", "s_chunk_data"} =>
                    parser.content_length \notin {0, ULLONG_MAX}
             /\ parser.state = "s_chunk_data_almost_done" => parser.content_length = 0
             /\ parser.state \in ChunkStates => "F_CHUNKED" \in parser.flags
  <2>1. parser.http_errno = "HPE_OK"
      BY <1>1, SwitchFacts
  <2>2. parser.state = "s_chunk_size_start" => parser.nread = 1
      BY <1>1, <2>1 DEF IInv, Counting
  <2>3. Sound(parser)
      BY DEF IInv
  <2> QED BY <2>2, <2>3 DEF Sound
<1>2. pc = "field" => parser.header_state \in FieldStates
    BY DEF IInv, Sound, Running
<1>3. pc = "value" => parser.header_state \notin {"h_connection", "h_transfer_encoding"}
    BY DEF IInv, Sound, Running
<1>4. pc = "loop" => \A m, n \in marks : m = n
  <2>1. \A m, n \in Marks(parser.state) : m = n
      BY DEF Marks
  <2>2. pc = "loop" => marks \subseteq Marks(parser.state)
      BY DEF IInv, Running
  <2> QED BY <2>1, <2>2
<1>5. pc # "idle" => parser.http_errno = "HPE_OK"
    BY DEF IInv, Running
<1> QED BY <1>1, <1>2, <1>3, <1>4, <1>5 DEF AssertionsHold, FieldStates, ChunkStates

(* No assertion of http_parser_execute fails, whatever bytes arrive in     *)
(* whatever pieces, and however the responses renew the parser.            *)
THEOREM ParserAssertionsHold == Spec => []AssertionsHold
BY ParserInvariant, InvariantAsserts, PTL
=============================================================================
