--------------------------- MODULE FilteredStream ---------------------------
(***************************************************************************)
(* The filtered stream (stream-filtered.c): a stream whose read pulls from *)
(* a filter, and whose filter draws its input from a backend stream.  When *)
(* the backend ends, the same read starts to flush the filter, and reads   *)
(* go on flushing it until nothing is left.                                *)
(***************************************************************************)
EXTENDS Filter

CONSTANTS
    ReadSizes,      \* the sizes the reader asks for
    Sources         \* contents of the backend stream

ASSUME StreamAssumption ==
    /\ ReadSizes \subseteq 1..SizeMax
    /\ Sources \subseteq Seq(PlainUnit)

VARIABLES
    source,     \* what the backend stream held when it was opened
    strm,       \* the stream object and the locals of filtered_stream_read
    given       \* history: what the reads that returned 0 delivered

streamVars == <<source, strm, given>>

(* status: "none" outside a read and before the first, then what the last  *)
(* read returned.                                                          *)
StreamInit ==
    /\ source = <<>>
    /\ strm = [dir |-> "zip", open |-> FALSE, flushing |-> FALSE,
               finished |-> FALSE, want |-> 0, again |-> FALSE, read |-> <<>>,
               status |-> "none"]
    /\ given = <<>>

(* chop_filtered_stream_open: the stream's handler replaces the filter's.  *)
StreamOpen(d, s) ==
    /\ pc = "idle" /\ ~strm.open /\ strm.status = "none"
    /\ source' = s
    /\ src' = IF d = "zip" THEN s ELSE Image(lib, s, InputSize)
    /\ handler' = "stream"
    /\ strm' = [strm EXCEPT !.dir = d, !.open = TRUE]
    /\ UNCHANGED <<lib, filt, call, errors, pc, given>>

StreamRead(n) ==
    /\ pc = "idle" /\ strm.open /\ ~strm.finished
    /\ strm.status \in {"none", "ok"}
    /\ strm' = [strm EXCEPT !.want = n, !.again = FALSE, !.read = <<>>]
    /\ Start(strm.dir, strm.flushing, n)
    /\ UNCHANGED <<lib, filt, src, handler, errors, source, given>>

(* The filter ran dry: flush it for the rest of the request. *)
StreamFlushes ==
    /\ pc = "pulled" /\ strm.open
    /\ call.err = "empty" /\ ~strm.flushing
    /\ strm' = [strm EXCEPT !.flushing = TRUE, !.again = TRUE, !.read = call.out]
    /\ Start(strm.dir, TRUE, Minus(strm.want, Len(call.out)))
    /\ UNCHANGED <<lib, filt, src, handler, errors, source, given>>

FaultyStreamReturns ==
    /\ pc = "pulled" /\ strm.open
    /\ strm.flushing \/ call.err # "empty"
    /\ LET read == IF strm.again /\ call.err = "ok" THEN strm.read \o call.out
                   ELSE IF strm.again THEN strm.read ELSE call.out
           end  == call.err = "empty"
       IN  /\ strm' = [strm EXCEPT !.finished = end,
                                   !.status = IF end THEN "end" ELSE call.err]
           /\ given' = IF ~end /\ call.err = "ok" THEN given \o read ELSE given
    /\ pc' = "idle" /\ call' = NoCall
    /\ UNCHANGED <<lib, filt, src, handler, errors, source>>

(* The read returns: an empty filter is the end of the stream only when    *)
(* the same read delivered nothing.                                        *)
StreamReturns ==
    /\ pc = "pulled" /\ strm.open
    /\ strm.flushing \/ call.err # "empty"
    /\ LET read == IF strm.again /\ call.err = "ok" THEN strm.read \o call.out
                   ELSE IF strm.again THEN strm.read ELSE call.out
           end  == call.err = "empty" /\ read = <<>>
           err  == IF call.err = "empty" THEN "ok" ELSE call.err
       IN  /\ strm' = [strm EXCEPT !.finished = end, !.read = <<>>,
                                   !.status = IF end THEN "end" ELSE err]
           /\ given' = IF ~end /\ err = "ok" THEN given \o read ELSE given
    /\ pc' = "idle" /\ call' = NoCall
    /\ UNCHANGED <<lib, filt, src, handler, errors, source>>

(* filtered_stream_close: the filter gets its previous handler back. *)
StreamClose ==
    /\ pc = "idle" /\ strm.open
    /\ strm' = [strm EXCEPT !.open = FALSE]
    /\ handler' = "none" /\ src' = <<>>
    /\ UNCHANGED <<lib, filt, call, errors, pc, source, given>>

StreamStep == StreamFlushes \/ StreamReturns

StreamNext ==
    \/ \E d \in Direction, s \in Sources : StreamOpen(d, s)
    \/ \E n \in ReadSizes : StreamRead(n)
    \/ StreamStep
    \/ StreamClose
=============================================================================
