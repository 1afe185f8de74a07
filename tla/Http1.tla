------------------------------- MODULE Http1 --------------------------------
(***************************************************************************)
(* pkg/tlsparse, http1.go and stream.go: the framing of HTTP/1.1 requests  *)
(* in a stream of plaintext that arrives in pieces of any size.            *)
(*                                                                         *)
(* The stream is a sequence of tokens, the stretches of bytes that the     *)
(* parser tells apart and between which it may be cut:                     *)
(*   start    a request line up to its version                             *)
(*   head     the rest of the request line, the headers, the blank line    *)
(*   byte     a letter of a body                                           *)
(*   size     the line that announces a chunk of n letters                 *)
(*   crlf     the end of a chunk, or of a body without trailers            *)
(*   trailer  the trailers of a chunked body, and the blank line           *)
(*   junk     anything else, without an end of line                        *)
(* id, the request a token belongs to, stands for the values it carries.   *)
(***************************************************************************)
EXTENDS Integers, Sequences

Token(k, id, n) == [k |-> k, id |-> id, n |-> n]

(* How a body is delimited: Content-Length n, where 0 is also for a        *)
(* request without one, or chunked, here announced as -1.                  *)
Chunked == -1

Kinds == {"start", "head", "byte", "size", "crlf", "trailer", "junk"}
Tokens == {x \in [k : Kinds, id : Nat, n : Nat \cup {Chunked}] : x.k = "size" => x.n # Chunked}

Bytes(id, n) == [i \in 1..n |-> Token("byte", id, 1)]

(* A request: an id, the way its body is delimited, and its length.  A     *)
(* chunk that is sent has letters, since one without them is the last.     *)
HttpRequests == [id : Nat, shape : {"length", "trailers"}, n : Nat]
                    \cup [id : Nat, shape : {"chunked"}, n : Nat \ {0}]

(* The requests that clients make, as they are sent.                       *)
Wire(r) ==
    <<Token("start", r.id, 0), Token("head", r.id, IF r.shape = "length" THEN r.n ELSE Chunked)>> \o
    (CASE r.shape = "length" -> Bytes(r.id, r.n)
       [] r.shape = "chunked" ->
            <<Token("size", r.id, r.n)>> \o Bytes(r.id, r.n) \o
            <<Token("crlf", r.id, 0), Token("size", r.id, 0), Token("crlf", r.id, 0)>>
       [] r.shape = "trailers" ->
            <<Token("size", r.id, 0), Token("trailer", r.id, 0)>>)

(* What ParseHTTP1 returns.                                                *)
More == [st |-> "more"]
Malformed == [st |-> "malformed"]
Body(b, n) == [st |-> "ok", body |-> b, n |-> n]
Parsed(r, n) == [st |-> "ok", req |-> r, n |-> n]

LeastOf(S) == CHOOSE i \in S : \A j \in S : i <= j

(* The places where an end of line, or a blank line, ends in s.            *)
Lines(s) == {i \in DOMAIN s : s[i].k \in {"head", "size", "crlf", "trailer"}}
Blanks(s) ==
    {i \in DOMAIN s : \/ s[i].k \in {"head", "trailer"}
                      \/ s[i].k = "crlf" /\ i > 1 /\ s[i - 1].k \in {"size", "crlf"}}

(* A request line is letters of its method, its start and its end; letters *)
(* in front of the start are taken for a part of the method.               *)
parseRequestLine(s, i) ==
    /\ i > 1 /\ s[i].k = "head" /\ s[i - 1].k = "start"
    /\ \A j \in 1..(i - 2) : s[j].k = "byte"

(* A bug: the line after the last chunk is not waited for.                 *)
LastChunkAtOnce(after, pos) == [st |-> "ok", n |-> pos]

(* The last chunk, at pos, is followed by a blank line or by trailers.     *)
LastChunk(after, pos) ==
    LET rest == SubSeq(after, pos + 1, Len(after))
    IN CASE rest # <<>> /\ Head(rest).k = "crlf" -> [st |-> "ok", n |-> pos + 1]
         [] rest # <<>> /\ Head(rest).k # "crlf" /\ Blanks(rest) # {} ->
              [st |-> "ok", n |-> pos + LeastOf(Blanks(rest))]
         [] OTHER -> More

(* The chunks of after from pos on, where from is what there is to say of  *)
(* the places behind pos.                                                  *)
Chunks(after, from, pos) ==
    LET size == after[pos].n
        end == pos + size + 1
    IN CASE \A i \in Lines(after) : i < pos -> More
         [] (\E i \in Lines(after) : i >= pos) /\ after[pos].k # "size" -> Malformed
         [] pos \in Lines(after) /\ after[pos].k = "size" /\ size = 0 ->
              LET l == LastChunk(after, pos) IN IF l = More THEN More ELSE Body(<<>>, l.n)
         [] pos \in Lines(after) /\ after[pos].k = "size" /\ size > 0 ->
              IF Len(after) < end THEN More
              ELSE IF after[end].k # "crlf" THEN Malformed
              ELSE IF from[end + 1].st # "ok" THEN from[end + 1]
              ELSE Body(SubSeq(after, pos + 1, end - 1) \o from[end + 1].body, from[end + 1].n)

readChunkedBody(after) ==
    LET from[pos \in 1..(Len(after) + 1)] == Chunks(after, from, pos) IN from[1]

readBody(after, n) ==
    CASE n = Chunked -> readChunkedBody(after)
      [] n # Chunked /\ Len(after) >= n -> Body(SubSeq(after, 1, n), n)
      [] OTHER -> More

(* One request from the front of s: the letters before it, the request its *)
(* line and its headers are from, its body, and how much of s it takes.    *)
ParseHTTP1(s) ==
    LET e == LeastOf(Blanks(s))
        l == LeastOf(Lines(s))
        b == readBody(SubSeq(s, e + 1, Len(s)), s[e].n)
    IN CASE Blanks(s) = {} -> More
         [] Blanks(s) # {} /\ ~parseRequestLine(s, l) -> Malformed
         [] OTHER -> IF b.st # "ok" THEN b
                     ELSE Parsed([before |-> l - 2, line |-> s[l - 1].id, head |-> s[l].id,
                                  body |-> b.body], e + b.n)

(* The request that was made, as ParseHTTP1 ought to return it.            *)
Reference(r) == [before |-> 0, line |-> r.id, head |-> r.id,
                 body |-> IF r.shape = "trailers" THEN <<>> ELSE Bytes(r.id, r.n)]

(* httpRequestLineRE: the buffer begins with a whole request line.         *)
LooksLikeRequest(s) == Len(s) > 1 /\ s[1].k = "start" /\ s[2].k = "head"
=============================================================================
