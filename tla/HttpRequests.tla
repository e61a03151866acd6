---------------------------- MODULE HttpRequests ----------------------------
(***************************************************************************)
(* What the bytes of a connection mean: a wire is a sequence of requests,  *)
(* written out by Encode.  Nothing here is taken from the parser; it is    *)
(* the reference its decoding is compared with.                            *)
(*                                                                         *)
(* A request is a record of                                                *)
(*   method, version    what its request line says                         *)
(*   verb, url, proto   the words of its request line                      *)
(*   eol       the line end: CR LF, or LF alone                            *)
(*   lines     header lines [name, value, means, digits]: "means" is what  *)
(*             a line says ("length", with its digits, "chunked", "close", *)
(*             "keepalive", or "nothing" that matters here)                *)
(*   chunks    the body [size, ext, data, tail]; size, ext and tail are    *)
(*             only written when the body is chunked                       *)
(*   trailer   the lines after the last chunk                              *)
(*   error     what is wrong with its syntax: the errno, or HPE_OK         *)
(***************************************************************************)
EXTENDS HttpTokens

CONSTANT Wires               \* a sequence of wires

Numeral(s, base) == FoldLeft(LAMBDA n, ch : n * base + unhex(ch), 0, s)

Has(r, meaning) == \E i \in DOMAIN r.lines : r.lines[i].means = meaning

(* A body whose length is stated twice, or in two ways.                    *)
Contradictory(r) ==
    \E i, j \in DOMAIN r.lines :
        i # j /\ r.lines[i].means = "length" /\ r.lines[j].means \in {"length", "chunked"}

(* The lengths a request states.                                           *)
Stated(r) ==
    {Numeral(r.lines[i].digits, 10) : i \in {j \in DOMAIN r.lines : r.lines[j].means = "length"}}
      \cup (IF Has(r, "chunked") THEN {Numeral(r.chunks[i].size, 16) : i \in DOMAIN r.chunks}
                                 ELSE {})

KeepsAlive(r) == IF r.version = <<1, 1>> THEN ~Has(r, "close") ELSE Has(r, "keepalive")

-----------------------------------------------------------------------------
RequestHead(r) ==
    LET Written(l) == l.name \o <<":", " ">> \o l.value \o r.eol
    IN  r.verb \o <<" ">> \o r.url \o r.proto \o r.eol
          \o FlattenSeq([i \in DOMAIN r.lines |-> Written(r.lines[i])]) \o r.eol

(* The body as pairs of a byte and whether it belongs to the content.      *)
Coded(r) ==
    LET Frame(s) == [i \in DOMAIN s |-> <<s[i], FALSE>>]
        Payload(s) == [i \in DOMAIN s |-> <<s[i], TRUE>>]
        crlf == <<"CR", "LF">>
        Chunk(c) == Frame(c.size \o c.ext \o crlf) \o Payload(c.data) \o Frame(c.tail)
        Line(l) == Frame(l.name \o <<":">> \o l.value \o crlf)
    IN  IF Has(r, "chunked")
        THEN FlattenSeq([i \in DOMAIN r.chunks |-> Chunk(r.chunks[i])]) \o Frame(<<"0">> \o crlf)
               \o FlattenSeq([i \in DOMAIN r.trailer |-> Line(r.trailer[i])]) \o Frame(crlf)
        ELSE FlattenSeq([i \in DOMAIN r.chunks |-> Payload(r.chunks[i].data)])

Encode(r) == LET h == RequestHead(r) IN [i \in DOMAIN h |-> <<h[i], FALSE>>] \o Coded(r)

(* A wire as its bytes, with the last position of each request and the     *)
(* positions of content.                                                   *)
Carried(w) ==
    LET code == [i \in DOMAIN w |-> Encode(w[i])]
        all == FlattenSeq(code)
    IN  [requests |-> w,
         bytes |-> [n \in DOMAIN all |-> all[n][1]],
         ends |-> [i \in DOMAIN w |-> Len(FlattenSeq(SubSeq(code, 1, i)))],
         content |-> {n \in DOMAIN all : all[n][2]}]

(* A wire carries finitely many bytes, each a character or the name of one. *)
ASSUME WiresAssumption == \A i \in DOMAIN Wires : Carried(Wires[i]).bytes \in Seq(STRING)
=============================================================================
