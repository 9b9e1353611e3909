----------------------------- MODULE HttpParser -----------------------------
(***************************************************************************)
(* http_parse_request (lib/http_parser.c) on the receive buffer of one     *)
(* connection slot.  The parser cuts the buffer into strings in place: it  *)
(* writes NUL over separators and keeps pointers into the buffer in req,   *)
(* which with the buffer outlives the connection and is only cleared by    *)
(* RESET (lib/io_loop.c).  recv may return any prefix of what the peer     *)
(* sent; the handler parses whatever it got, once.                         *)
(*                                                                         *)
(* Pointers are positions in the buffer.  A pointer difference compared as *)
(* size_t is huge when negative (TooShort).                                *)
(***************************************************************************)
EXTENDS Integers, Sequences, SequencesExt, FiniteSetsExt

CONSTANTS
    Cap,         \* conn->str->capacity
    KvSz,        \* pairs of req.query and of req.headers (20 in the code)
    Alphabet,    \* the characters requests are written with
    Requests,    \* well-formed requests: [method, path, query, headers]
    Malformed    \* other texts a peer may send

NULL == -1
NUL == "\\0"

ASSUME CapAssumption == Cap \in Nat /\ Cap > 7 /\ KvSz \in Nat

VARIABLES
    buf,      \* conn->str->buf
    req,      \* the handler's req
    verdict,  \* what the handler made of the recv: none, 413, 400, parsed
    sent,     \* the peer's text and how much of it recv returned
    wanted    \* the well-formed request behind the text, or {}

ParserVars == <<buf, req, verdict, sent, wanted>>

EmptyReq == [method |-> "0", path |-> NULL, protocol |-> NULL, query |-> <<>>, headers |-> <<>>]
EmptyBuf == [i \in 0 .. Cap - 1 |-> NUL]

ParserInit ==
    /\ buf = EmptyBuf /\ req = EmptyReq
    /\ verdict = "none"
    /\ sent = [text |-> <<>>, len |-> 0] /\ wanted = {}

-----------------------------------------------------------------------------
(* The parser: s has the buffer, the request and the position *ppbuf.      *)

\* The first c at or after p in the string that starts at p.
strchr(b, p, c) ==
    LET hits == {i \in p .. Cap - 1 : b[i] \in {c, NUL}}
    IN  IF hits = {} \/ b[Min(hits)] = NUL THEN NULL ELSE Min(hits)

TooShort(start, end, size) == start <= end /\ end - start < size

\* Seeded fault: one pair too many.
kv_set_key_value_OffByOne(kv, k, v) ==
    IF Len(kv) <= KvSz THEN Append(kv, [key |-> k, value |-> v]) ELSE kv

kv_set_key_value(kv, k, v) ==
    IF Len(kv) < KvSz THEN Append(kv, [key |-> k, value |-> v]) ELSE kv

methods == {
    [mask |-> "GET",     length |-> 3, strn |-> <<"G", "E", "T", " ">>],
    [mask |-> "POST",    length |-> 4, strn |-> <<"P", "O", "S", "T">>],
    [mask |-> "PUT",     length |-> 3, strn |-> <<"P", "U", "T", " ">>],
    [mask |-> "DELETE",  length |-> 6, strn |-> <<"D", "E", "L", "E">>],
    [mask |-> "PATCH",   length |-> 5, strn |-> <<"P", "A", "T", "C">>],
    [mask |-> "HEAD",    length |-> 4, strn |-> <<"H", "E", "A", "D">>],
    [mask |-> "OPTIONS", length |-> 7, strn |-> <<"O", "P", "T", "I">>],
    [mask |-> "TRACE",   length |-> 5, strn |-> <<"T", "R", "A", "C">>],
    [mask |-> "CONNECT", length |-> 6, strn |-> <<"C", "O", "N", "N">>] }

\* str_to_int32 of the four bytes at p.
Four(b, p) == [i \in 1..4 |-> b[p + i - 1]]

http_parse_method(s, end) ==
    LET hit == {m \in methods : end - s.p >= 4 /\ m.strn = Four(s.buf, s.p)}
    IN  IF hit = {} THEN s
        ELSE LET m == CHOOSE m \in hit : TRUE
             IN  [s EXCEPT !.req.method = m.mask, !.p = s.p + m.length]

trim_spaces(s, end) ==
    [s EXCEPT !.p = Min({i \in s.p .. end : i = end \/ s.buf[i] # " "} \cup {Max({s.p, end})})]

\* A separator of the query has to lie before the end of the path.
BeforeEnd(q, eop) == q # NULL /\ q < eop

\* One round of the loop over the query; s.p is its cursor.  A break is a move
\* of the cursor to the end, where the loop condition fails.
QueryRound(s, eop) ==
    LET sep == strchr(s.buf, s.p, "=")
        amp == strchr(s.buf, sep + 1, "&")
        t == [s EXCEPT !.buf[sep] = NUL, !.req.query = kv_set_key_value(@, s.p, sep + 1)]
    IN  IF s.p >= eop THEN s
        ELSE IF ~BeforeEnd(sep, eop) THEN [s EXCEPT !.p = eop]
        ELSE IF ~BeforeEnd(amp, eop) THEN [t EXCEPT !.p = eop]
        ELSE [t EXCEPT !.buf[amp] = NUL, !.p = amp + 1]

\* The loop: every round moves the cursor, so that it is left within Cap rounds.
ParseQuery(s, eop) ==
    LET after[n \in 0 .. Cap] == IF n = 0 THEN s ELSE QueryRound(after[n - 1], eop)
    IN  after[Cap]

http_parse_path(s, end) ==
    LET eop == strchr(s.buf, s.p, " ")
        query == strchr(s.buf, s.p, "?")
        t == IF ~BeforeEnd(query, eop) THEN s
             ELSE ParseQuery([s EXCEPT !.buf[query] = NUL, !.p = query + 1], eop)
    IN  IF TooShort(s.p, end, 13) \/ s.buf[s.p] # "/" \/ eop = NULL THEN s
        ELSE [t EXCEPT !.buf[eop] = NUL, !.req.path = s.p, !.p = eop + 1]

http_parse_protocol(s, end) ==
    LET eol == strchr(s.buf, s.p, "\r")
    IN  IF TooShort(s.p, end, 11) \/ eol = NULL \/ Four(s.buf, s.p) # <<"H", "T", "T", "P">>
        THEN s
        ELSE [s EXCEPT !.req.protocol = s.p, !.buf[eol] = NUL, !.p = eol + 2]

\* Seeded fault: a line that is not complete yet is taken to the end of the
\* received bytes.
EndOfLine_OrBuffer(b, p, end) ==
    IF strchr(b, p, "\r") = NULL THEN end ELSE strchr(b, p, "\r")

EndOfLine(b, p, end) == strchr(b, p, "\r")

\* One round of the loop over the header lines.  A line of fewer than
\* sizeof("H: V") = 5 characters ends the section.  A break is again a move of
\* the cursor to the end: where it was left is only logged.
HeaderRound(s, end) ==
    LET eol == EndOfLine(s.buf, s.p, end)
        sep == strchr(s.buf, s.p, ":")
        t == IF sep = NULL \/ sep >= eol THEN s
             ELSE [s EXCEPT !.buf = [@ EXCEPT ![sep] = NUL, ![eol] = NUL],
                            !.req.headers = kv_set_key_value(@, s.p, sep + 2)]
    IN  IF s.p >= end THEN s
        ELSE IF eol = NULL \/ eol - s.p < 5 THEN [s EXCEPT !.p = end]
        ELSE [t EXCEPT !.p = eol + 2]

http_parse_headers(s, end) ==
    LET after[n \in 0 .. Cap] == IF n = 0 THEN s ELSE HeaderRound(after[n - 1], end)
    IN  after[Cap]

\* Every stage reports success through a field of req, whoever set it.
http_parse_request(b, r, end) ==
    LET s1 == http_parse_method([buf |-> b, req |-> r, p |-> 0], end)
        s2 == http_parse_path(trim_spaces(s1, end), end)
        s3 == http_parse_protocol(s2, end)
        s4 == http_parse_headers(s3, end)
        Gives(s, v) == [buf |-> s.buf, req |-> s.req, verdict |-> v]
    IN  IF s1.req.method = "0" THEN Gives(s1, "400")
        ELSE IF s2.req.path = NULL THEN Gives(s2, "400")
        ELSE IF s3.req.protocol = NULL THEN Gives(s3, "400")
        ELSE Gives(s4, "parsed")

-----------------------------------------------------------------------------
(* The handler: one recv and one verdict per connection, then RESET.       *)

Received(b, text, len) == [i \in 0 .. Cap - 1 |-> IF i < len THEN text[i + 1] ELSE b[i]]

\* Seeded fault: a full buffer is parsed.
TooLarge_Never(len) == FALSE

TooLarge(len) == len = Cap

Recv(text, len, r) ==
    LET b == Received(buf, text, len)
        out == IF TooLarge(len) THEN [buf |-> b, req |-> req, verdict |-> "413"]
               ELSE http_parse_request(b, req, len)
    IN  /\ verdict = "none"
        /\ buf' = out.buf /\ req' = out.req /\ verdict' = out.verdict
        /\ sent' = [text |-> text, len |-> len]
        /\ wanted' = r

\* Seeded fault: RESET forgets the protocol.
ClearedReq_KeepsProtocol(r) == [EmptyReq EXCEPT !.protocol = r.protocol]

ClearedReq(r) == EmptyReq

\* RESET: the request, its two maps and the buffer.
ResetRequest ==
    /\ verdict # "none"
    /\ verdict' = "none"
    /\ req' = ClearedReq(req)
    /\ buf' = EmptyBuf
    /\ sent' = [text |-> <<>>, len |-> 0] /\ wanted' = {}

\* The text of a well-formed request: the pairs of its query, the protocol and
\* the header lines, as a peer writes them.
QueryPiece(q, i) == <<IF i = 1 THEN "?" ELSE "&">> \o q[i].key \o <<"=">> \o q[i].value
QueryText(q) == FlattenSeq([i \in 1 .. Len(q) |-> QueryPiece(q, i)])
ProtocolLine == <<" ", "H", "T", "T", "P", "/", "1", ".", "1", "\r", "\n">>
HeaderLine(h) == h.key \o <<":", " ">> \o h.value \o <<"\r", "\n">>
HeaderText(hs) == FlattenSeq([i \in 1 .. Len(hs) |-> HeaderLine(hs[i])])

Format(r) ==
    r.method.text \o <<" ">> \o r.path \o QueryText(r.query) \o ProtocolLine
      \o HeaderText(r.headers) \o <<"\r", "\n">>

\* No character of the text is one of S.
FreeOf(text, S) == \A i \in 1 .. Len(text) : text[i] \notin S

Text == Seq(Alphabet)

\* A request whose parts hold none of the characters that end them, with a
\* method that the table of methods knows under its first four bytes and with
\* its length.
WellFormed(r) ==
    LET First4 == [i \in 1..4 |-> (r.method.text \o <<" ">>)[i]]
    IN  /\ r.method.text \in Text /\ Len(r.method.text) > 2
        /\ \E m \in methods : m.strn = First4
        /\ \A m \in methods : m.strn = First4 => m.mask = r.method.mask /\ m.length = Len(r.method.text)
        /\ r.path \in Text /\ Len(r.path) > 0 /\ r.path[1] = "/" /\ FreeOf(r.path, {" ", "?"})
        /\ {r.query, r.headers} \subseteq Seq([key : Text, value : Text])
        /\ \A i \in 1 .. Len(r.query) : /\ FreeOf(r.query[i].key, {"=", " "})
                                       /\ FreeOf(r.query[i].value, {"&", " "})
        /\ \A i \in 1 .. Len(r.headers) : /\ FreeOf(r.headers[i].key, {":", "\r"})
                                         /\ FreeOf(r.headers[i].value, {"\r"})

ASSUME AlphabetAssumption ==
    /\ NUL \notin Alphabet
    /\ {" ", "/", "?", "&", "=", ":", "H", "T", "P", "1", ".", "\r", "\n"} \subseteq Alphabet

ASSUME RequestAssumption == \A r \in Requests : WellFormed(r)

\* recv returns some of the text, and no more than the buffer takes.
Lengths(text) == {n \in 1 .. Cap : n <= Len(text)}

ParserNext ==
    \/ \E r \in Requests : \E len \in Lengths(Format(r)) : Recv(Format(r), len, {r})
    \/ \E t \in Malformed : \E len \in Lengths(t) : Recv(t, len, {})
    \/ ResetRequest

ParserSpec == ParserInit /\ [][ParserNext]_ParserVars

-----------------------------------------------------------------------------

\* The string at p: everything up to the first NUL.
Str(b, p) ==
    LET end == Min({i \in p .. Cap - 1 : b[i] = NUL} \cup {Cap})
    IN  [i \in 1 .. end - p |-> b[p + i - 1]]

Strings(b, kv) ==
    [i \in DOMAIN kv |-> [key |-> Str(b, kv[i].key), value |-> Str(b, kv[i].value)]]

Pointers(r) ==
    ({r.path, r.protocol} \ {NULL})
      \cup UNION {{kv.key, kv.value} : kv \in Range(r.query) \cup Range(r.headers)}

\* The buffer keeps its size, every pointer the parser keeps in req points into
\* the buffer, and no map holds more pairs than its array has.
TypeOK ==
    /\ DOMAIN buf = 0 .. Cap - 1
    /\ verdict \in {"none", "413", "400", "parsed"}
    /\ req.method \in {"0"} \cup {m.mask : m \in methods}
    /\ Pointers(req) \subseteq 0 .. Cap - 1
    /\ Len(req.query) <= KvSz /\ Len(req.headers) <= KvSz

\* Every string the parser hands out ends inside the receive buffer, whatever
\* was received: nothing but the zeroed rest of the buffer, which the answer
\* 413 to a full one guarantees, stops strchr and the users of the strings.
StringsEndInBuffer ==
    \A p \in Pointers(req) : \E i \in p .. Cap - 1 : buf[i] = NUL

\* The verdict and the request are those of the same bytes in a slot that was
\* never used: nothing of an earlier request on the descriptor, accepted or
\* rejected half-way, takes part.
VerdictIsOwn ==
    verdict \in {"400", "parsed"} =>
        LET fresh == http_parse_request(Received(EmptyBuf, sent.text, sent.len), EmptyReq, sent.len)
        IN  fresh = [buf |-> buf, req |-> req, verdict |-> verdict]

FirstOf(s, n) == SubSeq(s, 1, Min({n, Len(s)}))

\* The kept headers: all the peer sent, as far as there is room for them.
Keeps(r) == Strings(buf, req.headers) = FirstOf(r.headers, KvSz)

ShortHeader(h) == Len(h.key) + 2 + Len(h.value) < 5

\* A well-formed request, cut anywhere by recv, is rejected or read as sent:
\* method, path and query are the peer's, and the headers are those whose
\* lines have arrived.  A request that arrived completely is never rejected
\* and keeps all headers there is room for, provided their lines have at least
\* five characters.
ReadAsSent ==
    \A r \in wanted :
        LET complete == sent.len = Len(sent.text)
        IN  /\ verdict = "parsed" =>
                  /\ req.method = r.method.mask
                  /\ Str(buf, req.path) = r.path
                  /\ Strings(buf, req.query) = FirstOf(r.query, KvSz)
                  /\ IsPrefix(Strings(buf, req.headers), r.headers)
            /\ complete /\ verdict # "413" =>
                  /\ verdict = "parsed"
                  /\ (\A h \in Range(r.headers) : ~ShortHeader(h)) => Keeps(r)
=============================================================================
