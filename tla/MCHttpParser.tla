---------------------------- MODULE MCHttpParser ----------------------------
(***************************************************************************)
(* The wires HttpParser is checked on: bodies in both encodings, every     *)
(* method, the header lines the parser acts on and the ones that resemble  *)
(* them, lengths around the limits of a 5-bit uint64_t, and one request    *)
(* for each way the syntax can be wrong.                                   *)
(***************************************************************************)
EXTENDS HttpParser, TLC

crlf == <<"CR", "LF">>
Http(major, dot, minor) == <<" ", "H", "T", "T", "P", "/", major, dot, minor>>

Get == [method |-> "GET", verb |-> method_strings["GET"], url |-> <<"/">>,
        version |-> <<1, 1>>, proto |-> Http("1", ".", "1"), eol |-> crlf, lines |-> <<>>,
        chunks |-> <<>>, trailer |-> <<>>, error |-> "HPE_OK"]
Http10(r) == [r EXCEPT !.version = <<1, 0>>, !.proto = Http("1", ".", "0")]
Http09(r) == [r EXCEPT !.version = <<0, 9>>, !.proto = <<>>]

Line(name, value, means) == [name |-> name, value |-> value, means |-> means, digits |-> <<>>]
Length(digits) == [Line(CONTENT_LENGTH, digits, "length") EXCEPT !.digits = digits]
Chunked == Line(TRANSFER_ENCODING, CHUNKED, "chunked")
Close == Line(CONNECTION, CLOSE, "close")
KeepAlive == Line(CONNECTION, KEEP_ALIVE, "keepalive")
Other == Line(<<"x">>, <<"y", "z">>, "nothing")

Chunk(size, ext, bytes) == [size |-> size, ext |-> ext, data |-> bytes, tail |-> crlf]
Bytes(n) == [i \in 1 .. n |-> "b"]
Post(lines, chunks) ==
    [Get EXCEPT !.method = "POST", !.verb = method_strings["POST"], !.lines = lines,
                !.chunks = chunks]
Sized(lines, digits, n) == Post(Append(lines, Length(digits)), <<Chunk(<<>>, <<>>, Bytes(n))>>)
TwoChunks == <<Chunk(<<"2">>, <<>>, Bytes(2)), Chunk(<<"0", "1">>, <<";", "x">>, Bytes(1))>>

Bad(r, error) == [r EXCEPT !.error = error]
BadVerb(verb) == Bad([Get EXCEPT !.verb = verb], "HPE_INVALID_METHOD")
BadUrl(url) == Bad([Get EXCEPT !.url = url], "HPE_INVALID_URL")
BadProto(proto, error) == Bad([Get EXCEPT !.proto = proto], error)
BadLine(name, value, error) == Bad([Get EXCEPT !.lines = <<Line(name, value, "nothing")>>], error)
BadChunk(c, error) == Bad(Post(<<Chunked>>, <<c>>), error)

(* One request, or two on one connection.                                  *)
Pairs == <<
    <<Sized(<<>>, <<"2">>, 2), Get>>,
    <<Post(<<Chunked>>, TwoChunks), Get>>,
    <<[Post(<<Chunked>>, TwoChunks) EXCEPT !.trailer = <<Other>>], Sized(<<>>, <<"1">>, 1)>>,
    <<Sized(<<Close>>, <<"1">>, 1), Get>>,
    <<Sized(<<KeepAlive>>, <<"1">>, 1), Get>>,
    <<Http10(Sized(<<>>, <<"1">>, 1)), Get>>,
    <<Http10(Sized(<<KeepAlive>>, <<"1">>, 1)), Get>>,
    <<Sized(<<Line(CONNECTION, <<"x", ",", " ">> \o CLOSE \o <<" ">>, "close")>>, <<"1">>, 1), Get>>,
    <<Sized(<<Line(CONNECTION, CLOSE \o <<",", "x">>, "close")>>, <<"1">>, 1), Get>>,
    <<Post(<<Line(PROXY_CONNECTION, <<"C", "l">> \o SubSeq(CLOSE, 3, 5), "close"), Length(<<"0">>)>>, <<>>),
      Get>>,
    <<Sized(<<Line(CONNECTION, CLOSE \o <<"d">>, "nothing")>>, <<"1">>, 1), Get>>,
    <<Http09(Get), Get>>,
    <<[Sized(<<Other>>, <<"2">>, 2) EXCEPT !.eol = <<"LF">>],
      [Get EXCEPT !.verb = crlf \o @, !.eol = <<"LF">>]>>,
    <<Sized(<<Line(<<"x">>, <<>>, "nothing")>>, <<"1">>, 1), Get>>,
    <<Sized(<<Line(<<"x">>, <<"y", "CR", "LF", "TAB", "z">>, "nothing")>>, <<"1">>, 1), Get>>,
    <<[Sized(<<>>, <<"2">>, 2) EXCEPT !.lines[1].value = <<"CR", "LF", " ", "2", " ">>], Get>>,
    <<Post(<<Length(<<"1">>), Chunked>>, TwoChunks)>>,
    <<Post(<<Chunked, Length(<<"1">>)>>, TwoChunks)>>,
    <<Sized(<<Length(<<"1">>)>>, <<"1">>, 1)>>,
    <<Post(<<Line(CONNECTION, UPGRADE, "nothing"), Line(UPGRADE, <<"z">>, "nothing")>>, <<>>)>>,
    <<Sized(<<Line(CONNECTION, UPGRADE, "nothing"), Line(UPGRADE, <<"z">>, "nothing")>>, <<"1">>, 1)>>,
    <<[Get EXCEPT !.method = "CONNECT", !.verb = method_strings["CONNECT"], !.url = <<"h", ":", "1">>]>> >>

(* Words that begin or go on like a header the parser looks for.           *)
LookAlikes == <<
    SubSeq(CONTENT_LENGTH, 1, 13), Append(CONTENT_LENGTH, "s"), SubSeq(CONNECTION, 1, 2),
    <<"c", "o", "n", "x">>, Append(TRANSFER_ENCODING, "2"), Append(UPGRADE, "d")>>
Lengths == << <<"2", "9">>, <<"0", "0", "3">>, <<"3", "0">>, <<"3", "1">>, <<"3", "2">>, <<"9", "9", "9">> >>
Sizes == << <<"F">>, <<"0", "a">>, <<"1", "0">>, <<"1", "F">>, <<"2", "0">> >>
Urls == << <<"*">>, <<"/", "a", "?", "b", "?", "#", "#", "c", "?">>, <<"/", "#", "c">>,
           <<"h", "t", ":", "/", "/", "u", "@", "[", "s", "]", "/">>,
           <<"h", ":", "/", "/", "s", "?", "q">> >>
Malformed == <<
    BadVerb(<<"1">>), BadVerb(<<"Q">>), BadVerb(<<"G", "E", "X">>), BadVerb(<<"P", "U", "R", "T">>),
    BadUrl(<<"1">>), BadUrl(<<"h", "LF">>), BadUrl(<<"h", "1">>), BadUrl(<<"h", ":", "/", "/", "u", "@", "@">>),
    BadUrl(<<"/", "TAB">>),
    BadProto(<<" ", "X">>, "HPE_INVALID_CONSTANT"), BadProto(<<" ", "H", "X">>, "HPE_STRICT"),
    BadProto(Http("x", ".", "1"), "HPE_INVALID_VERSION"), BadProto(Http("1", "x", "1"), "HPE_INVALID_VERSION"),
    BadProto(Http("1", ".", "x"), "HPE_INVALID_VERSION"),
    BadProto(Http("1", ".", "1") \o <<"1">>, "HPE_INVALID_VERSION"),
    BadProto(Http("1", ".", "1") \o <<"CR">>, "HPE_LF_EXPECTED"),
    BadLine(<<"(">>, <<>>, "HPE_INVALID_HEADER_TOKEN"), BadLine(<<"a", " ">>, <<>>, "HPE_INVALID_HEADER_TOKEN"),
    BadLine(<<"CR", "x">>, <<>>, "HPE_STRICT"), BadLine(<<"x">>, <<"CR">>, "HPE_STRICT"),
    BadLine(<<"x">>, <<"y", "CR", "z">>, "HPE_LF_EXPECTED"),
    BadLine(CONNECTION, <<"k", "CTL">>, "HPE_INVALID_HEADER_TOKEN"),
    BadLine(CONTENT_LENGTH, <<"x">>, "HPE_INVALID_CONTENT_LENGTH"),
    BadLine(CONTENT_LENGTH, <<"1", "x">>, "HPE_INVALID_CONTENT_LENGTH"),
    BadLine(CONTENT_LENGTH, <<"1", " ", "2">>, "HPE_INVALID_CONTENT_LENGTH"),
    BadChunk(Chunk(<<>>, <<"g">>, <<>>), "HPE_INVALID_CHUNK_SIZE"),
    BadChunk(Chunk(<<"1">>, <<"g">>, <<>>), "HPE_INVALID_CHUNK_SIZE"),
    BadChunk(Chunk(<<"1">>, <<"CR">>, <<>>), "HPE_STRICT"),
    BadChunk(Chunk(<<"1">>, <<>>, Bytes(2)), "HPE_STRICT"),
    BadChunk([Chunk(<<"1">>, <<>>, Bytes(1)) EXCEPT !.tail = <<"CR", "x">>], "HPE_STRICT") >>

MCWires ==
    Pairs
      \o [i \in DOMAIN LookAlikes |-> << [Get EXCEPT !.lines = <<Line(LookAlikes[i], <<"1">>, "nothing")>>] >>]
      \o [i \in DOMAIN Lengths |-> << Sized(<<>>, Lengths[i], Numeral(Lengths[i], 10) % 32) >>]
      \o [i \in DOMAIN Sizes |-> << Post(<<Chunked>>, <<Chunk(Sizes[i], <<>>, Bytes(Numeral(Sizes[i], 16) % 32))>>) >>]
      \o [i \in DOMAIN Urls |-> << [Get EXCEPT !.url = Urls[i]] >>]
      \o [i \in DOMAIN Malformed |-> <<Malformed[i]>>]
      \o FoldSet(LAMBDA m, s : Append(s, << [Get EXCEPT !.method = m, !.verb = method_strings[m]] >>),
                 <<>>, Methods \ {"CONNECT"})
=============================================================================
