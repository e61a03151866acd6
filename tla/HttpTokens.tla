----------------------------- MODULE HttpTokens -----------------------------
(***************************************************************************)
(* The character classes, words and tables of http_parser.c: what          *)
(* http_parser_execute (HttpParser) decides about one byte.                *)
(*                                                                         *)
(* A byte is a one-letter string; "CR", "LF", "TAB" and "FF" name the      *)
(* control characters the code tells apart, "CTL" stands for the others,   *)
(* "GRAVE" is the grave accent.                                            *)
(* Bytes above 127 are not modelled.                                       *)
(* HTTP_PARSER_STRICT is 1, its default.                                   *)
(***************************************************************************)
EXTENDS Integers, Sequences, SequencesExt

Lower == <<"a", "b", "c", "d", "e", "f", "g", "h", "i", "j", "k", "l", "m", "n",
           "o", "p", "q", "r", "s", "t", "u", "v", "w", "x", "y", "z">>
Upper == <<"A", "B", "C", "D", "E", "F", "G", "H", "I", "J", "K", "L", "M", "N",
           "O", "P", "Q", "R", "S", "T", "U", "V", "W", "X", "Y", "Z">>
Digits == <<"0", "1", "2", "3", "4", "5", "6", "7", "8", "9">>

Position(s, c) == CHOOSE i \in DOMAIN s : s[i] = c

IS_ALPHA(ch) == ch \in ToSet(Lower) \cup ToSet(Upper)
IS_NUM(ch) == ch \in ToSet(Digits)
Controls == {"CR", "LF", "TAB", "FF", "CTL"}

LowerCase(ch) == IF ch \in ToSet(Upper) THEN Lower[Position(Upper, ch)] ELSE ch

(* c | 0x20: letters in lower case, but the signs beside the capitals and  *)
(* the control characters that are told apart change as well.              *)
Without0x20 == Upper \o <<"@", "[", "\\", "]", "^", "_", "TAB", "LF", "FF", "CR">>
With0x20 == Lower \o <<"GRAVE", "{", "|", "}", "~", "CTL", ")", "*", ",", "-">>
LOWER(ch) == IF ch \in ToSet(Without0x20) THEN With0x20[Position(Without0x20, ch)] ELSE ch

(* tokens[]: the lower-case letter of a byte that may be part of a name,   *)
(* or 0, here "none".                                                      *)
TOKEN(ch) ==
    IF ch \in Controls \cup {" ", "(", ")", "<", ">", "@", ",", ";", ":", "/", "[", "]",
                             "?", "=", "{", "}", "\\", "\""}
    THEN "none"
    ELSE LowerCase(ch)

IS_URL_CHAR(ch) == ch \notin Controls \cup {" ", "#", "?"}
IS_USERINFO_CHAR(ch) ==
    \/ IS_ALPHA(ch) \/ IS_NUM(ch)
    \/ ch \in {"-", "_", ".", "!", "~", "*", "'", "(", ")", "%", ";", ":", "&", "=", "+", "$", ","}
IS_HEADER_CHAR(ch) == ch \notin {"FF", "CTL"}

HexLetters == <<"a", "b", "c", "d", "e", "f">>
IsHex(ch) == LowerCase(ch) \in ToSet(Digits) \cup ToSet(HexLetters)
unhex(ch) == LET c == LowerCase(ch)
             IN  IF IS_NUM(c) THEN Position(Digits, c) - 1 ELSE Position(HexLetters, c) + 9

(* The words the parser looks for, with their number of letters Len(w)     *)
(* where the code has sizeof(w) - 1.                                       *)
CONNECTION == <<"c", "o", "n", "n", "e", "c", "t", "i", "o", "n">>
PROXY_CONNECTION == <<"p", "r", "o", "x", "y", "-">> \o CONNECTION
CONTENT_LENGTH == <<"c", "o", "n", "t", "e", "n", "t", "-", "l", "e", "n", "g", "t", "h">>
TRANSFER_ENCODING == <<"t", "r", "a", "n", "s", "f", "e", "r", "-", "e", "n", "c", "o", "d",
                       "i", "n", "g">>
UPGRADE == <<"u", "p", "g", "r", "a", "d", "e">>
CHUNKED == <<"c", "h", "u", "n", "k", "e", "d">>
KEEP_ALIVE == <<"k", "e", "e", "p", "-", "a", "l", "i", "v", "e">>
CLOSE == <<"c", "l", "o", "s", "e">>

(* method_strings                                                          *)
method_strings ==
  [ DELETE |-> <<"D","E","L","E","T","E">>, GET |-> <<"G","E","T">>, HEAD |-> <<"H","E","A","D">>,
    POST |-> <<"P","O","S","T">>, PUT |-> <<"P","U","T">>, ACL |-> <<"A","C","L">>,
    CONNECT |-> <<"C","O","N","N","E","C","T">>, OPTIONS |-> <<"O","P","T","I","O","N","S">>,
    TRACE |-> <<"T","R","A","C","E">>, COPY |-> <<"C","O","P","Y">>, LOCK |-> <<"L","O","C","K">>,
    MKCOL |-> <<"M","K","C","O","L">>, MOVE |-> <<"M","O","V","E">>,
    PROPFIND |-> <<"P","R","O","P","F","I","N","D">>, BIND |-> <<"B","I","N","D">>,
    PROPPATCH |-> <<"P","R","O","P","P","A","T","C","H">>, REBIND |-> <<"R","E","B","I","N","D">>,
    SEARCH |-> <<"S","E","A","R","C","H">>, UNLOCK |-> <<"U","N","L","O","C","K">>,
    UNBIND |-> <<"U","N","B","I","N","D">>, REPORT |-> <<"R","E","P","O","R","T">>,
    MKACTIVITY |-> <<"M","K","A","C","T","I","V","I","T","Y">>, MERGE |-> <<"M","E","R","G","E">>,
    CHECKOUT |-> <<"C","H","E","C","K","O","U","T">>, NOTIFY |-> <<"N","O","T","I","F","Y">>,
    MSEARCH |-> <<"M","-","S","E","A","R","C","H">>, PATCH |-> <<"P","A","T","C","H">>,
    SUBSCRIBE |-> <<"S","U","B","S","C","R","I","B","E">>, PURGE |-> <<"P","U","R","G","E">>,
    UNSUBSCRIBE |-> <<"U","N","S","U","B","S","C","R","I","B","E">>, LINK |-> <<"L","I","N","K">>,
    MKCALENDAR |-> <<"M","K","C","A","L","E","N","D","A","R">>,
    UNLINK |-> <<"U","N","L","I","N","K">>, SOURCE |-> <<"S","O","U","R","C","E">> ]

Methods == DOMAIN method_strings

(* The method assumed after its first letter, and the letters at an index  *)
(* that turn an assumed method into another one.                           *)
FirstMethod == {"ACL", "BIND", "CONNECT", "DELETE", "GET", "HEAD", "LOCK", "MKCOL", "NOTIFY",
                "OPTIONS", "POST", "REPORT", "SUBSCRIBE", "TRACE", "UNLOCK"}
MethodSwitch ==
  { <<"POST", 1, "U", "PUT">>, <<"POST", 1, "A", "PATCH">>, <<"POST", 1, "R", "PROPFIND">>,
    <<"PUT", 2, "R", "PURGE">>, <<"CONNECT", 1, "H", "CHECKOUT">>, <<"CONNECT", 2, "P", "COPY">>,
    <<"MKCOL", 1, "O", "MOVE">>, <<"MKCOL", 1, "E", "MERGE">>, <<"MKCOL", 1, "-", "MSEARCH">>,
    <<"MKCOL", 2, "A", "MKACTIVITY">>, <<"MKCOL", 3, "A", "MKCALENDAR">>,
    <<"SUBSCRIBE", 1, "E", "SEARCH">>, <<"SUBSCRIBE", 1, "O", "SOURCE">>,
    <<"REPORT", 2, "B", "REBIND">>, <<"PROPFIND", 4, "P", "PROPPATCH">>,
    <<"LOCK", 1, "I", "LINK">>, <<"UNLOCK", 2, "S", "UNSUBSCRIBE">>,
    <<"UNLOCK", 2, "B", "UNBIND">>, <<"UNLOCK", 3, "I", "UNLINK">> }

(* The next state of the URL automaton; every other byte is refused.       *)
parse_url_char(s, ch) ==
  CASE s = "s_req_spaces_before_url" /\ ch \in {"/", "*"} -> "s_req_path"
    [] s = "s_req_spaces_before_url" /\ IS_ALPHA(ch) -> "s_req_schema"
    [] s = "s_req_schema" /\ IS_ALPHA(ch) -> "s_req_schema"
    [] s = "s_req_schema" /\ ch = ":" -> "s_req_schema_slash"
    [] s = "s_req_schema_slash" /\ ch = "/" -> "s_req_schema_slash_slash"
    [] s = "s_req_schema_slash_slash" /\ ch = "/" -> "s_req_server_start"
    [] s \in {"s_req_server_start", "s_req_server", "s_req_server_with_at"} /\ ch = "/" ->
         "s_req_path"
    [] s \in {"s_req_server_start", "s_req_server", "s_req_server_with_at"} /\ ch = "?" ->
         "s_req_query_string_start"
    [] s \in {"s_req_server_start", "s_req_server"} /\ ch = "@" -> "s_req_server_with_at"
    [] s \in {"s_req_server_start", "s_req_server", "s_req_server_with_at"}
         /\ (IS_USERINFO_CHAR(ch) \/ ch \in {"[", "]"}) -> "s_req_server"
    [] s = "s_req_path" /\ IS_URL_CHAR(ch) -> "s_req_path"
    [] s = "s_req_path" /\ ch = "?" -> "s_req_query_string_start"
    [] s \in {"s_req_query_string_start", "s_req_query_string"}
         /\ (IS_URL_CHAR(ch) \/ ch = "?") -> "s_req_query_string"
    [] s \in {"s_req_path", "s_req_query_string_start", "s_req_query_string"} /\ ch = "#" ->
         "s_req_fragment_start"
    [] s \in {"s_req_fragment_start", "s_req_fragment"} /\ ch = "#" -> s
    [] s \in {"s_req_fragment_start", "s_req_fragment"} /\ (IS_URL_CHAR(ch) \/ ch = "?") ->
         "s_req_fragment"
    [] OTHER -> "s_dead"
=============================================================================
