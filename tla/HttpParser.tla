----------------------------- MODULE HttpParser -----------------------------
(***************************************************************************)
(* http_parser.c for requests, as the provider agent uses it: one parser   *)
(* per connection, fed by read_from_consumer_agent with whatever pieces    *)
(* read returns, re-initialised when a response has been written, with     *)
(* on_body as its only callback.                                           *)
(*                                                                         *)
(* http_parser_execute is a loop over the bytes of a piece with a switch   *)
(* on the parser's state.  Each group of cases is an action; an action     *)
(* ends in the code's "break" (Break: next byte), REEXECUTE (same byte,    *)
(* new state), an error, or RETURN.                                        *)
(***************************************************************************)
EXTENDS HttpRequests, FiniteSets

CONSTANTS ULLONG_MAX,            \* the largest uint64_t, the "no length" mark
          HTTP_MAX_HEADER_SIZE,
          MaxPieces,             \* pieces a wire is cut into
          Refusals               \* results on_body may give; TRUE: non-zero

ASSUME ParserAssumption ==
    /\ ULLONG_MAX \in Nat /\ ULLONG_MAX >= 16 /\ HTTP_MAX_HEADER_SIZE \in Nat
    /\ MaxPieces \in Nat \ {0} /\ Refusals \subseteq BOOLEAN

VARIABLES wire,      \* what the connection carries: one of Wires, as Carried
          parser,    \* the http_parser
          pc,        \* "idle" outside http_parser_execute, "loop" at the head
                     \* of its for loop, "switch" at the label reexecute,
                     \* "field", "value" in the loops over names and values
          p, end,    \* bytes consumed, and where the current piece ends
          start,     \* where the loop over a name or a value began
          marks,     \* the marks that are not NULL
          body_mark, \* where the body's mark points
          pieces,    \* pieces fed so far
          hist       \* what a caller can observe (history)

locals == <<start, marks, body_mark>>
vars == <<wire, parser, pc, p, end, locals, pieces, hist>>

data == wire.bytes
ch == data[p + 1]

UrlStart == {"s_req_schema", "s_req_schema_slash", "s_req_schema_slash_slash",
             "s_req_server_start"}
UrlRest == {"s_req_server", "s_req_server_with_at", "s_req_path", "s_req_query_string_start",
            "s_req_query_string", "s_req_fragment_start", "s_req_fragment"}
Version == {"s_req_http_start", "s_req_http_H", "s_req_http_HT", "s_req_http_HTT",
            "s_req_http_HTTP", "s_req_http_major", "s_req_http_dot", "s_req_http_minor",
            "s_req_http_end", "s_req_line_almost_done"}
BodyStates == {"s_chunk_data", "s_chunk_data_almost_done", "s_chunk_data_done",
               "s_body_identity", "s_message_done"}

PARSING_HEADER(s) == s \notin BodyStates

(* memset and the fields http_parser_init sets; method 0 is DELETE.        *)
http_parser_init ==
    [state |-> "s_start_req", header_state |-> "h_general", index |-> 0, flags |-> {},
     nread |-> 0, content_length |-> 0, method |-> "DELETE", http_major |-> 0,
     http_minor |-> 0, upgrade |-> FALSE, http_errno |-> "HPE_OK"]

Init == /\ wire \in {Carried(Wires[i]) : i \in DOMAIN Wires}
        /\ parser = http_parser_init
        /\ pc = "idle" /\ p = 0 /\ end = 0 /\ start = 0
        /\ marks = {} /\ body_mark = 0 /\ pieces = 0
        /\ hist = [delivered |-> {}, complete |-> {}, dropped |-> {}, errors |-> {},
                   renewed |-> {0}, section |-> 0]

-----------------------------------------------------------------------------
(* How a step ends.                                                        *)

Advance(q) == parser' = q /\ p' = p + 1 /\ pc' = "loop"
Break(q) == Advance(q) /\ UNCHANGED <<locals, hist>>
Reexecute(q) == parser' = q /\ pc' = "switch" /\ UNCHANGED <<p, locals, hist>>
Fail(q, e) ==
    /\ parser' = [q EXCEPT !.http_errno = e]
    /\ pc' = "idle"
    /\ hist' = [hist EXCEPT !.errors = @ \cup {<<e, p + 1>>}, !.dropped = @ \cup p + 1 .. end]
    /\ UNCHANGED <<p, locals>>

To(q, s) == [q EXCEPT !.state = s]
Goto(s) == To(parser, s)
MARK(m) == marks' = marks \cup {m} /\ UNCHANGED <<start, body_mark, hist>>

(* CALLBACK_DATA(m) where settings has no such callback.                   *)
Unmark(m) == marks' = marks \ {m} /\ UNCHANGED <<start, body_mark, hist>>

http_should_keep_alive(q) ==
    IF q.http_major > 0 /\ q.http_minor > 0
    THEN "F_CONNECTION_CLOSE" \notin q.flags
    ELSE "F_CONNECTION_KEEP_ALIVE" \in q.flags
(* Mutant: the connection is always kept. *)
NEW_MESSAGEM(q) == To(q, "s_start_req")
NEW_MESSAGE(q) == To(q, IF http_should_keep_alive(q) THEN "s_start_req" ELSE "s_dead")

(* CALLBACK_NOTIFY(message_complete): nobody is told, the history is.      *)
Complete == hist' = [hist EXCEPT !.complete = @ \cup {p + 1}]

(* parser->nread = 0 starts the count of a new section.                    *)
NewSection == hist' = [hist EXCEPT !.section = p + 1]

(* COUNT_HEADER_SIZE                                                       *)
Counted(q, n) == [q EXCEPT !.nread = @ + n]
Overflows(q, n) == q.nread + n > HTTP_MAX_HEADER_SIZE

-----------------------------------------------------------------------------
(* http_parser_execute up to its loop.  A parser in error consumes         *)
(* nothing: its caller drops the piece.                                    *)
Execute(n) ==
    /\ pc = "idle"
    /\ pieces' = pieces + 1
    /\ p' = end /\ end' = end + n
    /\ start' = 0 /\ body_mark' = 0
    /\ marks' = CASE parser.state = "s_header_field" -> {"header_field"}
                  [] parser.state = "s_header_value" -> {"header_value"}
                  [] parser.state \in UrlStart \cup UrlRest -> {"url"}
                  [] OTHER -> {}
    /\ IF parser.http_errno = "HPE_OK"
       THEN pc' = "loop" /\ UNCHANGED hist
       ELSE pc' = "idle" /\ hist' = [hist EXCEPT !.dropped = @ \cup end + 1 .. end + n]
    /\ UNCHANGED <<wire, parser>>

(* The next piece: read returns any number of the bytes on the wire.       *)
Feed == /\ pc = "idle" /\ parser.http_errno # "HPE_INVALID_EOF_STATE"
        /\ \E n \in 1 .. Len(data) - end :
              (pieces < MaxPieces - 1 \/ n = Len(data) - end) /\ Execute(n)

(* http_parser_execute with len 0, when the connection is closed.          *)
Eof == /\ pc = "idle" /\ parser.http_errno = "HPE_OK"
       /\ parser.state \notin {"s_dead", "s_start_req"}
       /\ parser' = [parser EXCEPT !.http_errno = "HPE_INVALID_EOF_STATE"]
       /\ hist' = [hist EXCEPT !.errors = @ \cup {<<"HPE_INVALID_EOF_STATE", end>>}]
       /\ UNCHANGED <<wire, pc, p, end, locals, pieces>>

(* write_to_consumer_agent has written the response to the request that    *)
(* ends here.                                                              *)
Renew == /\ pc = "idle" /\ parser.http_errno # "HPE_INVALID_EOF_STATE"
         /\ \E i \in DOMAIN wire.requests : wire.ends[i] = end /\ wire.requests[i].chunks # <<>>
         /\ parser' = http_parser_init
         /\ hist' = [hist EXCEPT !.renewed = @ \cup {end}, !.section = end]
         /\ UNCHANGED <<wire, pc, p, end, locals, pieces>>

(* The head of the loop.                                                   *)
NextByte ==
    /\ pc = "loop" /\ p < end
    /\ LET n == IF PARSING_HEADER(parser.state) THEN 1 ELSE 0
       IN  IF n = 1 /\ Overflows(parser, n)
           THEN Fail(Counted(parser, n), "HPE_HEADER_OVERFLOW")
           ELSE /\ parser' = Counted(parser, n) /\ pc' = "switch"
                /\ UNCHANGED <<p, locals, hist>>
    /\ UNCHANGED <<wire, end, pieces>>

(* on_body with the bytes from the mark up to `to', then the step's end.   *)
OnBody(to, refused) ==
    hist' = [hist EXCEPT
               !.delivered = @ \cup body_mark + 1 .. to,
               !.errors = @ \cup (IF refused THEN {<<"HPE_CB_body", to>>} ELSE {}),
               !.dropped = @ \cup (IF refused THEN to + 1 .. end ELSE {})]
CallbackBody(q, to, nextpc, nextp) ==
    \E refused \in Refusals :
        /\ OnBody(to, refused)
        /\ parser' = [q EXCEPT !.http_errno = IF refused THEN "HPE_CB_body" ELSE @]
        /\ pc' = IF refused THEN "idle" ELSE nextpc
        /\ p' = IF refused THEN p ELSE nextp
        /\ marks' = IF refused THEN marks ELSE marks \ {"body"}

(* Out of bytes: the marks that are left get their callbacks.              *)
EndOfPiece ==
    /\ pc = "loop" /\ p = end
    /\ IF "body" \in marks
       THEN CallbackBody(parser, p, "idle", p) /\ UNCHANGED <<start, body_mark>>
       ELSE pc' = "idle" /\ marks' = {} /\ UNCHANGED <<parser, p, start, body_mark, hist>>
    /\ UNCHANGED <<wire, end, pieces>>

-----------------------------------------------------------------------------
(* The cases of the switch.                                                *)

Case(states) == /\ pc = "switch" /\ parser.state \in states
                /\ UNCHANGED <<wire, end, pieces>>

s_dead ==
    /\ Case({"s_dead"})
    /\ IF ch \in {"CR", "LF"} THEN Break(parser)
                              ELSE Fail(parser, "HPE_CLOSED_CONNECTION")

s_start_req ==
    LET q == [parser EXCEPT !.flags = {}, !.content_length = ULLONG_MAX]
        first == {m \in FirstMethod : method_strings[m][1] = ch}
    IN  /\ Case({"s_start_req"})
        /\ \/ /\ ch \in {"CR", "LF"}
              /\ Break(parser)
           \/ /\ ch \notin {"CR", "LF"} /\ first = {}
              /\ Fail(q, "HPE_INVALID_METHOD")
           \/ /\ ch \notin {"CR", "LF"}
              /\ \E m \in first : Break([To(q, "s_req_method") EXCEPT !.method = m, !.index = 1])

s_req_method ==
    LET word == method_strings[parser.method]
        at == parser.index + 1
        ends == ch = " " /\ at = Len(word) + 1
        matches == at <= Len(word) /\ ch = word[at]
        switch == {x \in MethodSwitch : <<x[1], x[2], x[3]>> = <<parser.method, parser.index, ch>>}
    IN  /\ Case({"s_req_method"})
        /\ \/ /\ ends \/ matches
              /\ Break([Goto(IF ends THEN "s_req_spaces_before_url" ELSE "s_req_method")
                          EXCEPT !.index = at])
           \/ /\ ~ends /\ ~matches
              /\ \E x \in switch : Break([parser EXCEPT !.method = x[4], !.index = at])
           \/ /\ ~ends /\ ~matches /\ switch = {}
              /\ Fail(parser, "HPE_INVALID_METHOD")

s_req_spaces_before_url ==
    LET from == IF parser.method = "CONNECT" THEN "s_req_server_start" ELSE parser.state
        next == parse_url_char(from, ch)
    IN  /\ Case({"s_req_spaces_before_url"})
        /\ \/ ch = " " /\ Break(parser)
           \/ /\ ch # " " /\ next # "s_dead"
              /\ MARK("url") /\ Advance(Goto(next))
           \/ ch # " " /\ next = "s_dead" /\ Fail(Goto(next), "HPE_INVALID_URL")

s_req_url ==
    LET next == parse_url_char(parser.state, ch)
        stop == parser.state \in UrlRest /\ ch \in {" ", "CR", "LF"}
        after == CASE ch = " " -> Goto("s_req_http_start")
                   [] ch = "CR" -> [Goto("s_req_line_almost_done") EXCEPT
                                      !.http_major = 0, !.http_minor = 9]
                   [] OTHER -> [Goto("s_header_field_start") EXCEPT
                                  !.http_major = 0, !.http_minor = 9]
    IN  /\ Case(UrlStart \cup UrlRest)
        /\ \/ stop /\ Advance(after) /\ Unmark("url")
           \/ ~stop /\ next # "s_dead" /\ Break(Goto(next))
           \/ ~stop /\ next = "s_dead" /\ Fail(Goto(next), "HPE_INVALID_URL")

(* "HTTP/", the version and the end of the request line.                   *)
s_req_http ==
    LET Letter == [s_req_http_H |-> <<"T", "s_req_http_HT">>,
                   s_req_http_HT |-> <<"T", "s_req_http_HTT">>,
                   s_req_http_HTT |-> <<"P", "s_req_http_HTTP">>,
                   s_req_http_HTTP |-> <<"/", "s_req_http_major">>,
                   s_req_http_dot |-> <<".", "s_req_http_minor">>,
                   s_req_line_almost_done |-> <<"LF", "s_header_field_start">>]
        n == Position(Digits, ch) - 1
        s == parser.state
        refusal == CASE s = "s_req_http_start" -> "HPE_INVALID_CONSTANT"
                     [] s = "s_req_line_almost_done" -> "HPE_LF_EXPECTED"
                     [] s \in {"s_req_http_major", "s_req_http_dot", "s_req_http_minor",
                               "s_req_http_end"} -> "HPE_INVALID_VERSION"
                     [] OTHER -> "HPE_STRICT"
        next == CASE s = "s_req_http_start" /\ ch = "H" -> {Goto("s_req_http_H")}
                  [] s = "s_req_http_start" /\ ch = " " -> {parser}
                  [] s \in DOMAIN Letter -> {Goto(Letter[s][2]) : x \in {Letter[s][1]} \cap {ch}}
                  [] s = "s_req_http_major" /\ IS_NUM(ch) ->
                       {[Goto("s_req_http_dot") EXCEPT !.http_major = n]}
                  [] s = "s_req_http_minor" /\ IS_NUM(ch) ->
                       {[Goto("s_req_http_end") EXCEPT !.http_minor = n]}
                  [] s = "s_req_http_end" /\ ch = "CR" -> {Goto("s_req_line_almost_done")}
                  [] s = "s_req_http_end" /\ ch = "LF" -> {Goto("s_header_field_start")}
                  [] OTHER -> {}
    IN  /\ Case(Version)
        /\ \/ \E q \in next : Break(q)
           \/ next = {} /\ Fail(parser, refusal)

-----------------------------------------------------------------------------
(* Header lines.                                                           *)

s_header_field_start ==
    LET c == TOKEN(ch)
        begun == CASE c = "c" -> "h_C"
                   [] c = "p" -> "h_matching_proxy_connection"
                   [] c = "t" -> "h_matching_transfer_encoding"
                   [] c = "u" -> "h_matching_upgrade"
                   [] OTHER -> "h_general"
    IN  /\ Case({"s_header_field_start"})
        /\ \/ /\ ch = "CR"
              /\ Break(Goto("s_headers_almost_done"))
           \/ /\ ch = "LF"
              /\ Reexecute(Goto("s_headers_almost_done"))
           \/ /\ ch \notin {"CR", "LF"} /\ c # "none"
              /\ MARK("header_field")
              /\ Advance([Goto("s_header_field") EXCEPT !.index = 0, !.header_state = begun])
           \/ /\ ch \notin {"CR", "LF"} /\ c = "none"
              /\ Fail(parser, "HPE_INVALID_HEADER_TOKEN")

(* One more letter of `word': its last one ends the match in `matched', a  *)
(* wrong one in `other'.                                                   *)
Match(q, c, word, matched, other) ==
    LET at == q.index + 1
    IN  [q EXCEPT !.index = at,
                  !.header_state = CASE at >= Len(word) -> other
                                     [] at < Len(word) /\ c # word[at + 1] -> other
                                     [] at = Len(word) - 1 /\ c = word[at + 1] -> matched
                                     [] OTHER -> @]

(* The letter c of a header's name.                                        *)
FieldLetter(q, c) ==
    LET Prefix(letters) == [q EXCEPT !.index = @ + 1,
                              !.header_state = IF c \in DOMAIN letters THEN letters[c]
                                               ELSE "h_general"]
        h == q.header_state
    IN  CASE h = "h_C" -> Prefix([o |-> "h_CO"])
          [] h = "h_CO" -> Prefix([n |-> "h_CON"])
          [] h = "h_CON" -> Prefix([n |-> "h_matching_connection",
                                    t |-> "h_matching_content_length"])
          [] h = "h_matching_connection" -> Match(q, c, CONNECTION, "h_connection", "h_general")
          [] h = "h_matching_proxy_connection" ->
               Match(q, c, PROXY_CONNECTION, "h_connection", "h_general")
          [] h = "h_matching_content_length" ->
               Match(q, c, CONTENT_LENGTH, "h_content_length", "h_general")
          [] h = "h_matching_transfer_encoding" ->
               Match(q, c, TRANSFER_ENCODING, "h_transfer_encoding", "h_general")
          [] h = "h_matching_upgrade" -> Match(q, c, UPGRADE, "h_upgrade", "h_general")
          [] OTHER -> [q EXCEPT !.header_state = "h_general"]

(* Mutant: the first byte is not counted. *)
EnterLoopM(state, loop) ==
    /\ Case({state})
    /\ pc' = loop /\ start' = p + 1
    /\ UNCHANGED <<parser, p, marks, body_mark, hist>>
(* The loops over a name and over a value; each counts its bytes when it   *)
(* is left, so the byte a piece ends with is counted once more.            *)
EnterLoop(state, loop) ==
    /\ Case({state})
    /\ pc' = loop /\ start' = p
    /\ UNCHANGED <<parser, p, marks, body_mark, hist>>

InLoop(loop) == pc = loop /\ UNCHANGED <<wire, end, pieces>>

s_header_field == EnterLoop("s_header_field", "field")

HeaderFieldLetter ==
    /\ InLoop("field") /\ p < end /\ TOKEN(ch) # "none"
    /\ parser' = FieldLetter(parser, TOKEN(ch))
    /\ p' = p + 1
    /\ UNCHANGED <<pc, locals, hist>>

HeaderFieldEnd ==
    LET q == Counted(parser, p - start)
    IN  /\ InLoop("field") /\ (p < end => TOKEN(ch) = "none")
        /\ \/ /\ Overflows(parser, p - start)
              /\ Fail(q, "HPE_HEADER_OVERFLOW")
           \/ /\ ~Overflows(parser, p - start) /\ p = end
              /\ parser' = q /\ pc' = "loop" /\ UNCHANGED <<p, locals, hist>>
           \/ /\ ~Overflows(parser, p - start) /\ p < end /\ ch = ":"
              /\ Advance(To(q, "s_header_value_discard_ws")) /\ Unmark("header_field")
           \/ /\ ~Overflows(parser, p - start) /\ p < end /\ ch # ":"
              /\ Fail(q, "HPE_INVALID_HEADER_TOKEN")

(* The first byte of a value.                                              *)
ValueStart ==
    LET c == LOWER(ch)
        h == parser.header_state
        q == [Goto("s_header_value") EXCEPT !.index = 0]
        token == CASE c = "k" -> "h_matching_connection_keep_alive"
                   [] c = "c" -> "h_matching_connection_close"
                   [] c = "u" -> "h_matching_connection_upgrade"
                   [] OTHER -> "h_matching_connection_token"
        begun == CASE h = "h_upgrade" ->
                        [q EXCEPT !.flags = @ \cup {"F_UPGRADE"}, !.header_state = "h_general"]
                   [] h = "h_transfer_encoding" /\ c = "c" ->
                        [q EXCEPT !.header_state = "h_matching_transfer_encoding_chunked"]
                   [] h = "h_content_length" ->
                        [q EXCEPT !.flags = @ \cup {"F_CONTENTLENGTH"},
                                  !.content_length = Position(Digits, ch) - 1,
                                  !.header_state = "h_content_length_num"]
                   [] h = "h_connection" -> [q EXCEPT !.header_state = token]
                   [] h = "h_matching_connection_token_start" -> q
                   [] OTHER -> [q EXCEPT !.header_state = "h_general"]
    IN  \/ /\ h = "h_content_length" /\ ~IS_NUM(ch)
           /\ Fail(q, "HPE_INVALID_CONTENT_LENGTH")
        \/ /\ h = "h_content_length" /\ IS_NUM(ch) /\ "F_CONTENTLENGTH" \in parser.flags
           /\ Fail(q, "HPE_UNEXPECTED_CONTENT_LENGTH")
        \/ /\ h = "h_content_length" => IS_NUM(ch) /\ "F_CONTENTLENGTH" \notin parser.flags
           /\ MARK("header_value") /\ Advance(begun)

s_header_value_discard_ws ==
    /\ Case({"s_header_value_discard_ws"})
    /\ \/ ch \in {" ", "TAB"} /\ Break(parser)
       \/ /\ ch = "CR"
          /\ Break(Goto("s_header_value_discard_ws_almost_done"))
       \/ ch = "LF" /\ Break(Goto("s_header_value_discard_lws"))
       \/ ch \notin {" ", "TAB", "CR", "LF"} /\ ValueStart

s_header_value_start == Case({"s_header_value_start"}) /\ ValueStart

(* The byte b of a value that does not end it, outside h_general and the   *)
(* digits of a length; header_state is the code's local h_state.           *)
ValueLetter(q, b) ==
    LET c == LOWER(b)
        h == q.header_state
        Sees(state) == [q EXCEPT !.header_state = state]
        flag == [h_connection_keep_alive |-> "F_CONNECTION_KEEP_ALIVE",
                 h_connection_close |-> "F_CONNECTION_CLOSE",
                 h_connection_upgrade |-> "F_CONNECTION_UPGRADE"]
        other == "h_matching_connection_token"
    IN  CASE h = "h_matching_transfer_encoding_chunked" ->
               Match(q, c, CHUNKED, "h_transfer_encoding_chunked", "h_general")
          [] h = "h_matching_connection_token_start" ->
               Sees(CASE c = "k" -> "h_matching_connection_keep_alive"
                      [] c = "c" -> "h_matching_connection_close"
                      [] c = "u" -> "h_matching_connection_upgrade"
                      [] c \notin {"k", "c", "u"} /\ TOKEN(c) # "none" -> other
                      [] c = " " -> h
                      [] OTHER -> "h_general")
          [] h = "h_matching_connection_keep_alive" ->
               Match(q, c, KEEP_ALIVE, "h_connection_keep_alive", other)
          [] h = "h_matching_connection_close" -> Match(q, c, CLOSE, "h_connection_close", other)
          [] h = "h_matching_connection_upgrade" ->
               Match(q, c, UPGRADE, "h_connection_upgrade", other)
          [] h = "h_matching_connection_token" /\ b = "," ->
               [Sees("h_matching_connection_token_start") EXCEPT !.index = 0]
          [] h \in DOMAIN flag /\ b = "," ->
               [Sees("h_matching_connection_token_start") EXCEPT
                  !.index = 0, !.flags = @ \cup {flag[h]}]
          [] h \in DOMAIN flag /\ b \notin {",", " "} -> Sees(other)
          [] h = "h_transfer_encoding_chunked" /\ b # " " -> Sees("h_general")
          [] OTHER -> q

s_header_value == EnterLoop("s_header_value", "value")

(* h_general: memchr looks for the end of the line in what is left of the  *)
(* piece.                                                                  *)
SkipValue ==
    LET limit == IF end - p < HTTP_MAX_HEADER_SIZE THEN end - p ELSE HTTP_MAX_HEADER_SIZE
        eols == {i \in p .. p + limit - 1 : data[i + 1] \in {"CR", "LF"}}
    IN  IF eols = {} THEN end ELSE CHOOSE i \in eols : \A j \in eols : i <= j

HeaderValueLetter ==
    LET h == parser.header_state
        digits == h \in {"h_content_length", "h_content_length_num"}
        blank == ch = " " /\ (digits \/ h = "h_content_length_ws")
        t == (parser.content_length * 10 + Position(Digits, ch) - 1) % (ULLONG_MAX + 1)
        wrong == \/ digits /\ ch # " " /\ ~IS_NUM(ch)
                 \/ digits /\ IS_NUM(ch) /\ (ULLONG_MAX - 10) \div 10 < parser.content_length
                 \/ h = "h_content_length_ws" /\ ch # " "
    IN  /\ InLoop("value") /\ p < end /\ ch \notin {"CR", "LF"}
        /\ \/ ~IS_HEADER_CHAR(ch) /\ Fail(parser, "HPE_INVALID_HEADER_TOKEN")
           \/ IS_HEADER_CHAR(ch) /\ wrong /\ Fail(parser, "HPE_INVALID_CONTENT_LENGTH")
           \/ /\ IS_HEADER_CHAR(ch) /\ ~wrong
              /\ parser' = CASE blank /\ h = "h_content_length_num" ->
                                  [parser EXCEPT !.header_state = "h_content_length_ws"]
                             [] digits /\ ~blank ->
                                  [parser EXCEPT !.header_state = "h_content_length_num",
                                                 !.content_length = t]
                             [] blank /\ h # "h_content_length_num" -> parser
                             [] OTHER -> ValueLetter(parser, ch)
              /\ p' = IF h = "h_general" THEN SkipValue ELSE p + 1
              /\ UNCHANGED <<pc, locals, hist>>

HeaderValueEnd ==
    LET q == Counted(parser, p - start)
        done == To(q, "s_header_almost_done")
    IN  /\ InLoop("value") /\ (p < end => ch \in {"CR", "LF"})
        /\ \/ /\ Overflows(parser, p - start)
              /\ Fail(q, "HPE_HEADER_OVERFLOW")
           \/ /\ ~Overflows(parser, p - start) /\ p = end
              /\ parser' = q /\ pc' = "loop" /\ UNCHANGED <<p, locals, hist>>
           \/ /\ ~Overflows(parser, p - start) /\ p < end
              /\ parser' = done /\ Unmark("header_value")
              /\ IF ch = "CR" THEN p' = p + 1 /\ pc' = "loop" ELSE p' = p /\ pc' = "switch"

(* What a finished header line says.                                       *)
Flagged(q) ==
    LET flag == [h_connection_keep_alive |-> "F_CONNECTION_KEEP_ALIVE",
                 h_connection_close |-> "F_CONNECTION_CLOSE",
                 h_transfer_encoding_chunked |-> "F_CHUNKED",
                 h_connection_upgrade |-> "F_CONNECTION_UPGRADE"]
    IN  [q EXCEPT !.flags = @ \cup {flag[h] : h \in {q.header_state} \cap DOMAIN flag}]

s_header_almost_done ==
    /\ Case({"s_header_almost_done"})
    /\ IF ch = "LF" THEN Break(Goto("s_header_value_lws"))
                    ELSE Fail(parser, "HPE_LF_EXPECTED")

(* Mutant: the state is not left. *)
s_header_value_lwsM ==
    /\ Case({"s_header_value_lws"})
    /\ Reexecute(IF ch \in {" ", "TAB"} THEN Goto("s_header_value_start") ELSE Flagged(parser))
s_header_value_lws ==
    /\ Case({"s_header_value_lws"})
    /\ Reexecute(IF ch \in {" ", "TAB"} THEN Goto("s_header_value_start")
                 ELSE Flagged(Goto("s_header_field_start")))

s_header_value_discard_ws_almost_done ==
    /\ Case({"s_header_value_discard_ws_almost_done"})
    /\ IF ch = "LF" THEN Break(Goto("s_header_value_discard_lws"))
                    ELSE Fail(parser, "HPE_STRICT")

s_header_value_discard_lws ==
    /\ Case({"s_header_value_discard_lws"})
    /\ IF ch \in {" ", "TAB"} THEN Break(Goto("s_header_value_discard_ws"))
       ELSE Reexecute(Flagged(Goto("s_header_field_start")))

s_headers_almost_done ==
    LET upgrade == IF {"F_UPGRADE", "F_CONNECTION_UPGRADE"} \subseteq parser.flags
                   THEN TRUE ELSE parser.method = "CONNECT"
    IN  /\ Case({"s_headers_almost_done"})
        /\ \/ ch # "LF" /\ Fail(parser, "HPE_STRICT")
           \/ /\ ch = "LF" /\ "F_TRAILING" \in parser.flags
              /\ Reexecute(Goto("s_message_done"))
           \/ /\ ch = "LF" /\ "F_TRAILING" \notin parser.flags
              /\ {"F_CHUNKED", "F_CONTENTLENGTH"} \subseteq parser.flags
              /\ Fail(parser, "HPE_UNEXPECTED_CONTENT_LENGTH")
           \/ /\ ch = "LF" /\ "F_TRAILING" \notin parser.flags
              /\ ~({"F_CHUNKED", "F_CONTENTLENGTH"} \subseteq parser.flags)
              /\ Reexecute([Goto("s_headers_done") EXCEPT !.upgrade = upgrade])

(* RETURN((p - data) + 1): the caller drops the rest of the piece.         *)
ReturnAfter(q) ==
    /\ parser' = q /\ pc' = "idle" /\ p' = p + 1
    /\ hist' = [hist EXCEPT !.complete = @ \cup {p + 1}, !.dropped = @ \cup p + 2 .. end,
                            !.section = p + 1]

s_headers_done ==
    LET q == [parser EXCEPT !.nread = 0]
        n == parser.content_length
        hasBody == "F_CHUNKED" \in parser.flags \/ (n > 0 /\ n # ULLONG_MAX)
        leaves == parser.upgrade /\ (parser.method = "CONNECT" \/ ~hasBody)
    IN  /\ Case({"s_headers_done"})
        /\ \/ leaves /\ ReturnAfter(NEW_MESSAGE(q))
           \/ /\ ~leaves /\ hasBody
              /\ Advance(To(q, IF "F_CHUNKED" \in parser.flags THEN "s_chunk_size_start"
                             ELSE "s_body_identity"))
              /\ NewSection
           \/ /\ ~leaves /\ ~hasBody
              /\ Advance(NEW_MESSAGE(q))
              /\ hist' = [hist EXCEPT !.complete = @ \cup {p + 1}, !.section = p + 1]
        /\ UNCHANGED locals

-----------------------------------------------------------------------------
(* Bodies.                                                                 *)

ToRead == IF parser.content_length < end - p THEN parser.content_length ELSE end - p
BodyMark == IF "body" \in marks THEN body_mark ELSE p

s_body_identity ==
    LET left == (parser.content_length - ToRead) % (ULLONG_MAX + 1)
        q == [parser EXCEPT !.content_length = left]
        last == p + ToRead - 1
    IN  /\ Case({"s_body_identity"})
        /\ body_mark' = BodyMark /\ UNCHANGED start
        /\ IF left = 0
           THEN \E refused \in Refusals :
                  /\ parser' = [To(q, "s_message_done") EXCEPT
                                  !.http_errno = IF refused THEN "HPE_CB_body" ELSE @]
                  /\ pc' = IF refused THEN "idle" ELSE "switch"
                  /\ p' = last
                  /\ marks' = marks \ {"body"}
                  /\ hist' = [hist EXCEPT
                        !.delivered = @ \cup BodyMark + 1 .. last + 1,
                        !.errors = @ \cup (IF refused THEN {<<"HPE_CB_body", last + 1>>} ELSE {}),
                        !.dropped = @ \cup (IF refused THEN last + 2 .. end ELSE {})]
           ELSE /\ parser' = q /\ pc' = "loop" /\ p' = last + 1
                /\ marks' = marks \cup {"body"} /\ UNCHANGED hist

s_message_done ==
    /\ Case({"s_message_done"})
    /\ IF parser.upgrade
       THEN /\ parser' = NEW_MESSAGE(parser) /\ pc' = "idle" /\ p' = p + 1
            /\ hist' = [hist EXCEPT !.complete = @ \cup {p + 1}, !.dropped = @ \cup p + 2 .. end]
       ELSE Advance(NEW_MESSAGE(parser)) /\ Complete
    /\ UNCHANGED locals

s_chunk_size ==
    LET n == parser.content_length
        t == (n * 16 + unhex(ch)) % (ULLONG_MAX + 1)
        s == parser.state
    IN  /\ Case({"s_chunk_size_start", "s_chunk_size"})
        /\ \/ /\ s = "s_chunk_size_start" /\ IsHex(ch)
              /\ Break([Goto("s_chunk_size") EXCEPT !.content_length = unhex(ch)])
           \/ /\ s = "s_chunk_size" /\ IsHex(ch) /\ (ULLONG_MAX - 16) \div 16 >= n
              /\ Break([parser EXCEPT !.content_length = t])
           \/ /\ s = "s_chunk_size" /\ IsHex(ch) /\ (ULLONG_MAX - 16) \div 16 < n
              /\ Fail(parser, "HPE_INVALID_CONTENT_LENGTH")
           \/ /\ s = "s_chunk_size" /\ ch = "CR"
              /\ Break(Goto("s_chunk_size_almost_done"))
           \/ /\ s = "s_chunk_size" /\ ch \in {";", " "}
              /\ Break(Goto("s_chunk_parameters"))
           \/ /\ ~IsHex(ch) /\ (s = "s_chunk_size" => ch \notin {"CR", ";", " "})
              /\ Fail(parser, "HPE_INVALID_CHUNK_SIZE")

s_chunk_parameters ==
    /\ Case({"s_chunk_parameters"})
    /\ Break(IF ch = "CR" THEN Goto("s_chunk_size_almost_done") ELSE parser)

(* Mutant: the chunk of size 0 is not told apart. *)
s_chunk_size_almost_doneM ==
    /\ Case({"s_chunk_size_almost_done"})
    /\ \/ ch # "LF" /\ Fail(parser, "HPE_STRICT")
       \/ /\ ch = "LF"
          /\ Advance([Goto("s_chunk_data") EXCEPT !.nread = 0])
          /\ NewSection
          /\ UNCHANGED locals
s_chunk_size_almost_done ==
    LET q == [parser EXCEPT !.nread = 0]
    IN  /\ Case({"s_chunk_size_almost_done"})
        /\ \/ ch # "LF" /\ Fail(parser, "HPE_STRICT")
           \/ /\ ch = "LF"
              /\ Advance(IF parser.content_length = 0
                       THEN [To(q, "s_header_field_start") EXCEPT
                               !.flags = @ \cup {"F_TRAILING"}]
                       ELSE To(q, "s_chunk_data"))
              /\ NewSection
              /\ UNCHANGED locals

s_chunk_data ==
    LET left == (parser.content_length - ToRead) % (ULLONG_MAX + 1)
        q == [parser EXCEPT !.content_length = left]
    IN  /\ Case({"s_chunk_data"})
        /\ marks' = marks \cup {"body"} /\ body_mark' = BodyMark
        /\ parser' = IF left = 0 THEN To(q, "s_chunk_data_almost_done") ELSE q
        /\ p' = p + ToRead /\ pc' = "loop"
        /\ UNCHANGED <<start, hist>>

s_chunk_data_almost_done ==
    /\ Case({"s_chunk_data_almost_done"})
    /\ \/ ch # "CR" /\ Fail(parser, "HPE_STRICT")
       \/ /\ ch = "CR" /\ "body" \in marks
          /\ CallbackBody(Goto("s_chunk_data_done"), p, "loop", p + 1)
          /\ UNCHANGED <<start, body_mark>>
       \/ /\ ch = "CR" /\ "body" \notin marks
          /\ Break(Goto("s_chunk_data_done"))

s_chunk_data_done ==
    /\ Case({"s_chunk_data_done"})
    /\ \/ ch # "LF" /\ Fail(parser, "HPE_STRICT")
       \/ /\ ch = "LF"
          /\ Advance([Goto("s_chunk_size_start") EXCEPT !.nread = 0])
          /\ NewSection
          /\ UNCHANGED locals

-----------------------------------------------------------------------------
InExecute ==
    \/ NextByte \/ EndOfPiece
    \/ s_dead \/ s_start_req \/ s_req_method \/ s_req_spaces_before_url \/ s_req_url \/ s_req_http
    \/ s_header_field_start \/ s_header_field \/ HeaderFieldLetter \/ HeaderFieldEnd
    \/ s_header_value_discard_ws \/ s_header_value_start
    \/ s_header_value \/ HeaderValueLetter \/ HeaderValueEnd
    \/ s_header_almost_done \/ s_header_value_lws
    \/ s_header_value_discard_ws_almost_done \/ s_header_value_discard_lws
    \/ s_headers_almost_done \/ s_headers_done
    \/ s_body_identity \/ s_message_done
    \/ s_chunk_size \/ s_chunk_parameters \/ s_chunk_size_almost_done
    \/ s_chunk_data \/ s_chunk_data_almost_done \/ s_chunk_data_done

Next == Feed \/ Eof \/ Renew \/ InExecute

(* A call runs until it returns; nothing obliges the peer to send.         *)
Spec == Init /\ [][Next]_vars /\ WF_vars(InExecute)

-----------------------------------------------------------------------------
(* The assertions of http_parser_execute hold wherever the code makes      *)
(* them: the header count restarted before each chunk size, a body with a  *)
(* length left to read, no word being matched that the loops do not know,  *)
(* at most one mark left at the end of a piece.                            *)
AssertionsHold ==
    LET s == parser.state
        h == parser.header_state
    IN  /\ pc = "switch" =>
              /\ s = "s_chunk_size_start" => parser.nread = 1
              /\ s \in {"s_body_identity", "s_chunk_data"} =>
                     parser.content_length \notin {0, ULLONG_MAX}
              /\ s = "s_chunk_data_almost_done" => parser.content_length = 0
              /\ s \in {"s_chunk_size_start", "s_chunk_size", "s_chunk_parameters",
                        "s_chunk_size_almost_done", "s_chunk_data",
                        "s_chunk_data_almost_done", "s_chunk_data_done"} =>
                     "F_CHUNKED" \in parser.flags
        /\ pc = "field" =>
              h \in {"h_general", "h_C", "h_CO", "h_CON", "h_matching_connection",
                     "h_matching_proxy_connection", "h_matching_content_length",
                     "h_matching_transfer_encoding", "h_matching_upgrade", "h_connection",
                     "h_content_length", "h_transfer_encoding", "h_upgrade"}
        /\ pc = "value" => h \notin {"h_connection", "h_transfer_encoding"}
        /\ pc = "loop" /\ p = end => \A m, n \in marks : m = n
        /\ pc # "idle" => parser.http_errno = "HPE_OK"

(* The request that position n belongs to, and the positions of request i. *)
RequestAt(n) == CHOOSE i \in DOMAIN wire.ends :
                    n <= wire.ends[i] /\ \A j \in 1 .. i - 1 : wire.ends[j] < n
Span(i) == (IF i = 1 THEN 1 ELSE wire.ends[i - 1] + 1) .. wire.ends[i]

(* The parser may be given request i: the one before keeps the connection, *)
(* or the parser has been initialised since.                               *)
Expected(i) == i > 1 => \/ KeepsAlive(wire.requests[i - 1])
                        \/ wire.ends[i - 1] \in hist.renewed

(* What justifies an error at position n.                                  *)
Justified(e, n) ==
    LET i == RequestAt(n)
        r == wire.requests[i]
    IN  \/ e \in {"HPE_CB_body", "HPE_HEADER_OVERFLOW"} \/ e = r.error
        \/ e = "HPE_UNEXPECTED_CONTENT_LENGTH" /\ Contradictory(r)
        \/ e = "HPE_INVALID_CONTENT_LENGTH" /\ \E x \in Stated(r) : x > ULLONG_MAX - 16
        \/ e = "HPE_CLOSED_CONNECTION" /\ ~Expected(i) /\ n - 1 = wire.ends[i - 1]
        \/ e = "HPE_INVALID_EOF_STATE" /\ n # wire.ends[i]

(* However the bytes of a connection are cut into pieces, the parser gives *)
(* the provider agent exactly the bodies of its requests and ends each     *)
(* request at its last byte, unless it reports an error, and it reports    *)
(* only what is wrong with the request it has reached.                     *)
DecodesRequests ==
    LET ends == {wire.ends[i] : i \in DOMAIN wire.ends}
        Legal(i) == /\ Expected(i) /\ ~Contradictory(wire.requests[i])
                    /\ \A x \in Stated(wire.requests[i]) : x < ULLONG_MAX
        Intact(i) == /\ Span(i) \cap hist.dropped = {}
                     /\ \A e \in hist.errors : e[2] \notin Span(i)
    IN  /\ hist.complete \subseteq ends /\ hist.delivered \subseteq wire.content
        /\ \A e \in hist.errors : Justified(e[1], e[2])
        /\ \A i \in DOMAIN wire.ends :
              /\ Span(i) \cap (hist.complete \cup hist.delivered) # {} => Legal(i)
              /\ wire.ends[i] \in hist.complete => wire.requests[i].error = "HPE_OK"
              /\ pc = "idle" /\ Intact(i) =>
                    /\ Span(i) \cap hist.delivered = Span(i) \cap wire.content \cap 1 .. end
                    /\ wire.ends[i] <= end => wire.ends[i] \in hist.complete
        /\ parser.state = "s_req_spaces_before_url" =>
              parser.method = wire.requests[RequestAt(p)].method

(* HTTP_MAX_HEADER_SIZE bounds what the parser accepts outside bodies,     *)
(* nread never falling behind the bytes seen, and a section is refused     *)
(* only if it is too long up to one byte for every piece it came in.       *)
HeaderSizeBounded ==
    LET Seen(n) == {i \in hist.section + 1 .. n : i \notin wire.content}
    IN  /\ /\ pc \in {"idle", "loop"} /\ parser.http_errno = "HPE_OK"
           /\ PARSING_HEADER(parser.state)
           => /\ Cardinality(Seen(p)) <= parser.nread
              /\ parser.nread <= HTTP_MAX_HEADER_SIZE
        /\ \A e \in hist.errors :
              e[1] = "HPE_HEADER_OVERFLOW" /\ e[2] > hist.section =>
                  Cardinality(Seen(e[2])) + pieces > HTTP_MAX_HEADER_SIZE

(* A call of http_parser_execute returns: no byte is re-executed for ever. *)
CallReturns == pc # "idle" ~> pc = "idle"
=============================================================================
