------------------------------- MODULE Codec -------------------------------
(***************************************************************************)
(* The compression libraries behind the filters, as the filters use them:  *)
(* zlib and bzip2 as streams (a call consumes some input, produces some    *)
(* output and says whether the stream ended), LZO as a function on whole   *)
(* chunks.  The four streams differ, for a filter, in what they return     *)
(* when they can do nothing and when their stream has ended; the macros    *)
(* that each filter defines before it includes filter-zip-push-pull.c      *)
(* interpret those codes.                                                  *)
(*                                                                         *)
(* Data are units, plain or compressed.  A compressed stream holds one     *)
(* code per plain unit and an end mark that carries the checksum of the    *)
(* whole, here the content itself.                                         *)
(***************************************************************************)
EXTENDS Naturals, Sequences

Stream == {"zlib", "bzip2"}          \* libraries with a stream interface
Library == Stream \cup {"lzo"}

(* Units: one piece of plain text, one code, an end mark, the size of an   *)
(* LZO chunk, or what is left of any of them after damage.                 *)
PlainUnit == [k : {"plain"}, v : [1..1 -> Nat]]
Unit      == [k : {"plain", "code", "size"}, v : [1..1 -> Nat]]
             \cup [k : {"end", "noise"}, v : Seq(Nat)]

Letter(n) == [k |-> "plain", v |-> <<n>>]
Code(u)   == [k |-> "code", v |-> u.v]
End(s)    == [k |-> "end", v |-> [i \in 1..Len(s) |-> s[i].v[1]]]
Size(n)   == [k |-> "size", v |-> <<n>>]
Noise     == [k |-> "noise", v |-> <<>>]

Codes(s) == [i \in 1..Len(s) |-> Code(s[i])]
Plain(c) == [i \in 1..Len(c) |-> [k |-> "plain", v |-> c[i].v]]

(* The state of a stream: what it has seen of the plain text, how much of  *)
(* it went out in compressed form, and whether it was finished.            *)
Fresh == [seen |-> <<>>, out |-> 0, mode |-> "run"]

Least(a, b) == IF a <= b THEN a ELSE b

(* What zlib and bzip2 return to a caller they can do nothing for.         *)
NoProgress(lib) == IF lib = "zlib" THEN "buf_error" ELSE "ok"
(* And to one that goes on after the end of the stream.                    *)
Again(lib) == IF lib = "zlib" THEN "stream_end" ELSE "sequence_error"

(***************************************************************************)
(* deflate and BZ2_bzCompress with `in' to consume and `room' for output:  *)
(* the outcomes [z, used, out, ret].  Without a flush the library takes    *)
(* all of its input unless its output is full, and emits what it likes of  *)
(* what it has seen; with Z_FINISH or BZ_FINISH it emits all there is, the *)
(* end mark last.                                                          *)
(***************************************************************************)
Compress(lib, z, in, room, flush) ==
    LET seen  == z.seen \o in
        left  == SubSeq(Codes(seen) \o <<End(seen)>>, z.out + 1, Len(seen) + 1)
        n     == Least(room, Len(left))
        taken(k) == z.seen \o SubSeq(in, 1, k)
    IN  CASE z.mode = "done" ->
               {[z |-> z, used |-> 0, out |-> <<>>, ret |-> Again(lib)]}
          [] z.mode # "done" /\ flush ->
               {[z    |-> [seen |-> seen, out |-> z.out + n,
                           mode |-> IF n = Len(left) THEN "done" ELSE "finish"],
                 used |-> Len(in),
                 out  |-> SubSeq(left, 1, n),
                 ret  |-> IF n = Len(left) THEN "stream_end" ELSE "ok"]}
          [] z.mode = "finish" /\ ~flush ->
               {[z |-> z, used |-> 0, out |-> <<>>,
                 ret |-> IF lib = "zlib" THEN "stream_error" ELSE "sequence_error"]}
          [] z.mode = "run" /\ ~flush ->
               UNION {{[z    |-> [z EXCEPT !.seen = taken(k), !.out = @ + m],
                        used |-> k,
                        out  |-> SubSeq(left, 1, m),
                        ret  |-> IF k + m > 0 THEN "ok" ELSE NoProgress(lib)]
                        : m \in {m \in 0..room : /\ m <= Len(taken(k)) - z.out
                                                 /\ k = Len(in) \/ m = room}}
                      : k \in 0..Len(in)}

(***************************************************************************)
(* inflate and BZ2_bzDecompress: they decode until the input or the room   *)
(* runs out, the end mark is met or a code makes no sense; the checksum in *)
(* the end mark must be that of what was decoded.                          *)
(***************************************************************************)
Decompress(lib, z, in, room) ==
    LET good(n) == \A i \in 1..n : in[i].k = "code"
        n  == CHOOSE i \in 0..Least(room, Len(in)) :
                 good(i) /\ \A j \in 0..Least(room, Len(in)) : good(j) => j <= i
        seen  == z.seen \o Plain(SubSeq(in, 1, n))
        next  == IF n < Len(in) THEN in[n + 1].k ELSE "none"
        ended == next = "end" /\ in[n + 1] = End(seen)
        bad   == next \notin {"none", "code"} /\ ~ended
    IN  IF z.mode = "done"
        THEN [z |-> z, used |-> 0, out |-> <<>>, ret |-> Again(lib)]
        ELSE IF z.mode = "bad"
        THEN [z |-> z, used |-> 0, out |-> <<>>, ret |-> "data_error"]
        ELSE [z    |-> [z EXCEPT !.seen = seen,
                                 !.mode = IF ended THEN "done"
                                          ELSE IF bad THEN "bad" ELSE "run"],
              used |-> IF ended THEN n + 1 ELSE n,
              out  |-> Plain(SubSeq(in, 1, n)),
              ret  |-> IF ended THEN "stream_end"
                       ELSE IF bad THEN "data_error"
                       ELSE IF n > 0 THEN "ok" ELSE NoProgress(lib)]

-----------------------------------------------------------------------------
(* What a whole input compresses to.  The LZO filter cuts its input into   *)
(* chunks of the size of its buffer, and puts a header before each: the    *)
(* compressed size and the original one.                                   *)
Chunk(s) == <<Size(Len(s)), Size(Len(s))>> \o Codes(s)

ChunkAt(s, i, chunk) ==
    SubSeq(s, i * chunk + 1, Least((i + 1) * chunk, Len(s)))

Image(lib, s, chunk) ==
    IF lib # "lzo" THEN Codes(s) \o <<End(s)>>
    ELSE LET chunks == (Len(s) + chunk - 1) \div chunk
             image[i \in 0..chunks] ==
                 IF i = 0 THEN <<>>
                 ELSE image[i - 1] \o Chunk(ChunkAt(s, i - 1, chunk))
         IN  image[chunks]
=============================================================================
