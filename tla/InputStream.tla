---------------------------- MODULE InputStream ----------------------------
(***************************************************************************)
(* The streams a chopper reads from: a memory stream (stream-mem.c), a     *)
(* file stream (stream-file.c, built on full_read), or a filtered stream,  *)
(* which may return less than was asked for and may fail.                  *)
(***************************************************************************)
EXTENDS Naturals, Sequences

CONSTANT
    Inputs          \* contents of a stream, sequences of bytes

VARIABLES
    medium,     \* "memory", "file" or "filtered"
    input,      \* the content of the stream
    position,   \* how much of it was read
    failures    \* how many reads of the medium failed, modulo 2

inputVars == <<medium, input, position, failures>>

\* chop_file_stream_open and the other constructors.
InputInit ==
    /\ input \in Inputs /\ medium \in {"memory", "file", "filtered"}
    /\ position = 0 /\ failures = 0

Remaining == SubSeq(input, position + 1, Len(input))

Least(a, b) == IF a <= b THEN a ELSE b

First(s, n) == SubSeq(s, 1, n)

Result(n, err) == [data |-> First(Remaining, n), err |-> err, failed |-> FALSE]
Failed(n, err) == [data |-> First(Remaining, n), err |-> err, failed |-> TRUE]

FaultyMemStreamRead(howmuch) == {Result(Least(howmuch, Len(Remaining)), "ok")}

(* chop_mem_stream_read *)
MemStreamRead(howmuch) ==
    IF Remaining = <<>> THEN {Result(0, "end")}
    ELSE {Result(Least(howmuch, Len(Remaining)), "ok")}

(***************************************************************************)
(* chop_file_stream_read: full_read stops early only at the end of file or *)
(* when a read(2) fails, and then says how much it got.  Nothing at all    *)
(* and no errno is the end of the stream; nothing because of a failure is  *)
(* a read of no bytes that succeeds.                                       *)
(***************************************************************************)
FileStreamRead(howmuch) ==
    MemStreamRead(howmuch)
    \cup {Failed(n, "ok") : n \in 0..(Least(howmuch, Len(Remaining) + 1) - 1)}

(* What FilteredStream shows filtered_stream_read to do. *)
FilteredStreamRead(howmuch) ==
    IF Remaining = <<>> THEN {Result(0, "end")}
    ELSE {Result(n, "ok") : n \in 1..Least(howmuch, Len(Remaining))}
         \cup {Failed(0, "read_error")}

Reads(howmuch) ==
    CASE medium = "memory"   -> MemStreamRead(howmuch)
      [] medium = "file"     -> FileStreamRead(howmuch)
      [] medium = "filtered" -> FilteredStreamRead(howmuch)

(* The effect of chop_stream_read with outcome r on the stream. *)
Consume(r) ==
    /\ position' = position + Len(r.data)
    /\ failures' = IF r.failed THEN 1 - failures ELSE failures
    /\ UNCHANGED <<medium, input>>
=============================================================================
