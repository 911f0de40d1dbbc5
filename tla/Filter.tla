------------------------------- MODULE Filter -------------------------------
(***************************************************************************)
(* The compression and decompression filters (filter-zip-push-pull.c with  *)
(* its zlib and bzip2 instances, filter-lzo-zip.c, filter-lzo-unzip.c,     *)
(* filter-lzo-common.c): a filter holds an input buffer and the state of   *)
(* its library; `pull' produces output and calls the input fault handler   *)
(* when it runs dry, and the handler `push'es more input.                  *)
(*                                                                         *)
(* One filter is pulled at a time.  An action is one round of the loop of  *)
(* its pull method, with the library call or the fault it makes.  The two  *)
(* clients of the library, a block going through a filter and a filtered   *)
(* stream, start calls and take their results (FilteredStore,              *)
(* FilteredStream).                                                        *)
(***************************************************************************)
EXTENDS Codec, Integers

CONSTANTS
    InputSize,      \* input_buffer_size, in units
    Header,         \* units of the two sizes before an LZO chunk
    HeaderSize,     \* what an LZO decompression counts them for: 8 bytes
    SizeMax,        \* SIZE_MAX
    MaxErrors       \* bound: reads of a backend stream that fail

ASSUME FilterAssumption ==
    /\ InputSize \in Nat /\ InputSize >= 2 * Header - 1
    /\ HeaderSize \in 2..InputSize
    /\ Header = 2 /\ SizeMax \in Nat /\ InputSize < SizeMax /\ MaxErrors \in Nat

VARIABLES
    lib,        \* the library the filters were opened with
    filt,       \* filt[d]: the zip and the unzip filter
    call,       \* the pull being executed, or the one that returned last
    src,        \* what the input fault handler has left to push
    handler,    \* whose handler is installed: "none", "buffer", "stream"
    errors,
    pc          \* "idle", "pull", "pulled", "aborted", "stuck", "overrun"

filterVars == <<lib, filt, call, src, handler, errors, pc>>

Direction == {"zip", "unzip"}

(* A filter as its init function leaves it.  buf[next+1..next+avail] is    *)
(* its input, obuf what an LZO filter has produced and not delivered.      *)
Opened == [buf |-> <<>>, next |-> 0, avail |-> 0, isize |-> InputSize,
           obuf |-> <<>>, z |-> Fresh]

Input(f) == SubSeq(f.buf, f.next + 1, f.next + f.avail)

(* A call of pull: room is its caller's buffer, size the variable that     *)
(* starts as its length.                                                   *)
NoCall == [dir |-> "zip", flush |-> FALSE, room |-> 0, size |-> 0, out |-> <<>>,
           zret |-> "ok", err |-> "ok"]

FilterInit ==
    /\ lib \in Library
    /\ filt = [d \in Direction |-> Opened]
    /\ call = NoCall
    /\ src = <<>> /\ handler = "none"
    /\ errors = 0
    /\ pc = "idle"

-----------------------------------------------------------------------------
FaultyZipPush(f, s) ==
    LET n == Least(f.isize, Len(s))
    IN  [f |-> [f EXCEPT !.buf = SubSeq(f.buf, 1, f.avail) \o SubSeq(s, 1, n),
                         !.avail = @ + n + 1],
         pushed |-> n, err |-> "ok"]

(* push of the zlib and bzip2 filters, when no output fault handler takes  *)
(* what does not fit: input goes to input_buffer + avail_in, wherever      *)
(* next_in points, and next_in goes back only when nothing is left.        *)
ZipPush(f, s) ==
    LET n == Least(f.isize - f.avail, Len(s))
    IN  [f |-> [f EXCEPT
                  !.buf   = SubSeq(f.buf, 1, f.avail) \o SubSeq(s, 1, n)
                            \o SubSeq(f.buf, f.avail + n + 1, Len(f.buf)),
                  !.next  = IF f.avail = 0 THEN 0 ELSE @,
                  !.avail = @ + n],
         pushed |-> n,
         err    |-> IF n = 0 /\ s # <<>> THEN "full" ELSE "ok"]

(* push of the LZO filters: not while output is pending, and at the offset *)
(* behind what is there; a push larger than the room left never returns.   *)
LzoPush(f, s) ==
    LET offset == f.next + f.avail
        n      == Least(f.isize - offset, Len(s))
    IN  IF offset > f.isize
        THEN [f |-> f, pushed |-> 0, err |-> "abort"]
        ELSE IF f.obuf # <<>> /\ s # <<>>
        THEN [f |-> f, pushed |-> 0, err |-> "full"]
        ELSE [f |-> [f EXCEPT !.buf = SubSeq(f.buf, 1, offset)
                                      \o SubSeq(s, 1, n)
                                      \o SubSeq(f.buf, offset + n + 1, Len(f.buf)),
                              !.avail = @ + n],
              pushed |-> n,
              err    |-> IF n < Len(s) THEN "spin" ELSE "ok"]

Push(f, s) == IF lib = "lzo" THEN LzoPush(f, s) ELSE ZipPush(f, s)

(***************************************************************************)
(* chop_filter_handle_input_fault: no handler, or nothing left, makes the  *)
(* fault an unhandled one.  The buffer handler pushes as much as was asked *)
(* for; the stream handler pushes what one chop_stream_read returned, and  *)
(* asserts that all of it went in.  The handler's push runs with           *)
(* within_fault_handler set, so an output fault in it is unhandled.        *)
(***************************************************************************)
FaultInput(amount) ==
    LET most == Least(amount, Len(src))
    IN  CASE handler = "buffer" /\ src # <<>> -> {most}
          [] handler = "stream" /\ src # <<>> -> 1..most
          [] OTHER -> {}

InputFault(f, amount) ==
    {LET p == Push(f, SubSeq(src, 1, n))
         gone == IF handler = "stream" THEN n ELSE p.pushed
     IN  [f   |-> p.f,
          src |-> SubSeq(src, gone + 1, Len(src)),
          err |-> IF handler = "stream" /\ p.err = "ok" /\ p.pushed # n
                  THEN "abort" ELSE p.err]
     : n \in FaultInput(amount)}
    \cup IF FaultInput(amount) = {}
         THEN {[f |-> f, src |-> src, err |-> "unhandled"]} ELSE {}
    \cup IF handler = "stream" /\ errors < MaxErrors
         THEN {[f |-> f, src |-> src, err |-> "read_error"]} ELSE {}

-----------------------------------------------------------------------------
Current == filt[call.dir]

Minus(a, b) == IF a >= b THEN a - b ELSE SizeMax + 1 + a - b     \* size_t

Start(d, flush, size) ==
    /\ call' = [NoCall EXCEPT !.dir = d, !.flush = flush, !.room = size, !.size = size]
    /\ pc' = "pull"

(* The loop goes on with filter f. *)
Continue(f, c) ==
    /\ filt' = [filt EXCEPT ![call.dir] = f]
    /\ call' = c
    /\ UNCHANGED pc

(* The pull method returns err. *)
PullReturns(f, c, err) ==
    /\ filt' = [filt EXCEPT ![call.dir] = f]
    /\ call' = [c EXCEPT !.err = err]
    /\ pc' = CASE err = "abort" -> "aborted"
               [] err = "spin"  -> "stuck"
               [] OTHER         -> "pulled"

(* An input fault for `amount' units within the current call: the loop     *)
(* goes on unless it failed.  The pull returns `dry' if nobody handled it. *)
Fault(amount, dry) ==
    \E r \in InputFault(Current, amount) :
        /\ src' = r.src
        /\ errors' = IF r.err = "read_error" THEN errors + 1 ELSE errors
        /\ IF r.err = "ok" THEN Continue(r.f, call)
           ELSE PullReturns(r.f, call, IF r.err = "unhandled" THEN dry ELSE r.err)

(* The condition of the loop of every pull method. *)
Wanting == pc = "pull" /\ Len(call.out) < call.size

PullFilled ==
    /\ pc = "pull" /\ Len(call.out) >= call.size
    /\ PullReturns(Current, call, "ok")
    /\ UNCHANGED <<lib, src, handler, errors>>

(* The return codes that the macros of the four instances name. *)
ZlibZip == [needMore |-> {}, ended |-> {"stream_end"},
               cantProduceMore |-> {"buf_error"}, corrupted |-> {}]
ZlibUnzip == [needMore |-> {"buf_error"}, ended |-> {"stream_end"},
               cantProduceMore |-> {"stream_end"}, corrupted |-> {"data_error"}]
Bzip2Zip == [needMore |-> {}, ended |-> {"stream_end", "sequence_error"},
               cantProduceMore |-> {"outbuff_full"}, corrupted |-> {"data_error"}]
Bzip2Unzip == [needMore |-> {}, ended |-> {"stream_end", "sequence_error"},
               cantProduceMore |-> {"stream_end"}, corrupted |-> {"data_error"}]

ZIP == CASE lib = "zlib"  /\ call.dir = "zip"   -> ZlibZip
         [] lib = "zlib"  /\ call.dir = "unzip" -> ZlibUnzip
         [] lib = "bzip2" /\ call.dir = "zip"   -> Bzip2Zip
         [] lib = "bzip2" /\ call.dir = "unzip" -> Bzip2Unzip

FaultyEmptyUnless(out) == "ok"

(* "Only return CHOP_FILTER_EMPTY when not a single byte was pulled." *)
EmptyUnless(out) == IF out = <<>> THEN "empty" ELSE "ok"

ZipFaults ==
    /\ Wanting /\ lib # "lzo"
    /\ (Current.avail = 0 \/ call.zret \in ZIP.needMore) /\ ~call.flush
    /\ Fault(Current.isize - Current.avail, EmptyUnless(call.out))
    /\ UNCHANGED <<lib, handler>>

Processed ==
    LET room == call.size - Len(call.out)
    IN  IF call.dir = "zip"
        THEN Compress(lib, Current.z, Input(Current), room, call.flush)
        ELSE {Decompress(lib, Current.z, Input(Current), room)}

FaultyAfterProcess(f, c, zret) ==
    IF zret \in ZIP.corrupted THEN PullReturns(f, call, "filter_error")
    ELSE IF call.flush
    THEN PullReturns(f, c, IF zret \in ZIP.ended /\ c.out = <<>> THEN "empty" ELSE "ok")
    ELSE IF zret \in ZIP.cantProduceMore THEN PullReturns(f, c, "ok")
    ELSE IF zret # "ok" THEN PullReturns(f, c, "filter_error")
    ELSE Continue(f, c)

(* What pull does with the outcome of one call of the library: a flush     *)
(* ends the round, and resets the library once nothing came any more.      *)
AfterProcess(f, c, zret) ==
    IF zret \in ZIP.corrupted THEN PullReturns(f, call, "filter_error")
    ELSE IF call.flush
    THEN IF zret \in ZIP.ended /\ c.out = <<>>
         THEN PullReturns([f EXCEPT !.z = Fresh], c, "empty")
         ELSE PullReturns(f, c, "ok")
    ELSE IF zret \in ZIP.cantProduceMore THEN PullReturns(f, c, "ok")
    ELSE IF zret # "ok" THEN PullReturns(f, c, "filter_error")
    ELSE Continue(f, c)

ZipProcess ==
    /\ Wanting /\ lib # "lzo"
    /\ ~((Current.avail = 0 \/ call.zret \in ZIP.needMore) /\ ~call.flush)
    /\ \E r \in Processed :
          LET f == [Current EXCEPT !.z = r.z, !.next = @ + r.used,
                                   !.avail = @ - r.used]
              c == [call EXCEPT !.out = @ \o r.out, !.zret = r.ret]
          IN  AfterProcess(f, c, r.ret)
    /\ UNCHANGED <<lib, src, handler, errors>>

-----------------------------------------------------------------------------
FaultyLzoDelivers ==
    /\ Wanting /\ lib = "lzo" /\ Current.obuf # <<>>
    /\ Continue([Current EXCEPT !.obuf = <<>>],
                [call EXCEPT !.out = @ \o Current.obuf,
                             !.size = Minus(@, Len(Current.obuf))])
    /\ UNCHANGED <<lib, src, handler, errors>>

(* The memcpy writes past the caller's buffer: undefined, the model stops. *)
Overruns == pc' = "overrun" /\ UNCHANGED <<filt, call>>

(* LZO, both directions: deliver what is there.  `size' stands for what is *)
(* left of the caller's buffer and is compared with what was pulled so     *)
(* far; nothing compares it with the buffer itself.                        *)
LzoDelivers ==
    /\ Wanting /\ lib = "lzo" /\ Current.obuf # <<>>
    /\ LET n == Least(Len(Current.obuf), call.size)
       IN  IF Len(call.out) + n > call.room THEN Overruns ELSE
           Continue([Current EXCEPT !.obuf = SubSeq(@, n + 1, Len(@))],
                    [call EXCEPT !.out = @ \o SubSeq(Current.obuf, 1, n),
                                 !.size = @ - n])
    /\ UNCHANGED <<lib, src, handler, errors>>

LzoZipping == Wanting /\ lib = "lzo" /\ call.dir = "zip" /\ Current.obuf = <<>>
LzoUnzipping == Wanting /\ lib = "lzo" /\ call.dir = "unzip" /\ Current.obuf = <<>>

(* Compression waits for a full chunk, unless it is flushed.  Here         *)
(* CHOP_FILTER_EMPTY may come with units that were pulled.                 *)
LzoZipFaults ==
    /\ LzoZipping /\ Current.avail < Current.isize /\ ~call.flush
    /\ Fault(Current.isize - Current.avail, "empty")
    /\ UNCHANGED <<lib, handler>>

LzoCompress ==
    /\ LzoZipping /\ (Current.avail = Current.isize \/ call.flush)
    /\ IF Current.avail > 0
       THEN Continue([Current EXCEPT !.obuf = Chunk(Input(Current)),
                                     !.buf = <<>>, !.avail = 0], call)
       ELSE PullReturns(Current, call, EmptyUnless(call.out))
    /\ UNCHANGED <<lib, src, handler, errors>>

LzoUnzipFlushed ==
    /\ LzoUnzipping /\ call.flush
    /\ PullReturns(Current, call, EmptyUnless(call.out))
    /\ UNCHANGED <<lib, src, handler, errors>>

LzoHeaderFault ==
    /\ LzoUnzipping /\ ~call.flush /\ Current.avail < Header
    /\ Fault(Header, EmptyUnless(call.out))
    /\ UNCHANGED <<lib, handler>>

(* What a unit says when it is read as a size: anything but a size looks   *)
(* like more than will ever come.                                          *)
SizeIn(u) == IF u.k = "size" THEN u.v[1] ELSE SizeMax

Grown(isize, need) ==
    isize * 2^(CHOOSE i \in 0..8 : isize * 2^i >= need
                                   /\ \A j \in 0..(i - 1) : isize * 2^j < need)

(***************************************************************************)
(* The header is read at the start of the buffer and skipped, the rest of  *)
(* the chunk asked for, and decompressed.  Whatever lies behind the chunk  *)
(* is dropped.  When the chunk does not come, the header stays skipped.    *)
(* The header counts as pulled: `size -= 8' wraps around when no more than *)
(* seven bytes of the caller's buffer are left.                            *)
(***************************************************************************)
LzoDecompress ==
    /\ LzoUnzipping /\ ~call.flush /\ Current.avail >= Header
    /\ LET in   == SizeIn(Current.buf[1])
           f    == [Current EXCEPT !.next = @ + Header, !.avail = @ - Header,
                                   !.isize = IF in = SizeMax THEN @
                                             ELSE Grown(@, in + Current.next + Header)]
           c    == [call EXCEPT !.size = Minus(@, HeaderSize)]
           rest == IF in > f.avail THEN InputFault(f, in - f.avail)
                   ELSE {[f |-> f, src |-> src, err |-> "ok"]}
       IN  \E r \in rest :
              LET data == SubSeq(r.f.buf, r.f.next + 1, r.f.next + in)
                  good == \A i \in 1..in : data[i].k = "code"
              IN  /\ src' = r.src
                  /\ errors' = IF r.err = "read_error" THEN errors + 1 ELSE errors
                  /\ IF r.err \in {"abort", "spin"} THEN PullReturns(r.f, c, r.err)
                     ELSE IF r.err # "ok" \/ r.f.avail < in \/ ~good
                     THEN PullReturns(r.f, c, "filter_error")
                     ELSE Continue([r.f EXCEPT !.obuf = Plain(data), !.buf = <<>>,
                                               !.avail = 0, !.next = 0], c)
    /\ UNCHANGED <<lib, handler>>

Pull ==
    \/ PullFilled
    \/ ZipFaults
    \/ ZipProcess
    \/ LzoDelivers
    \/ LzoZipFaults
    \/ LzoCompress
    \/ LzoUnzipFlushed
    \/ LzoHeaderFault
    \/ LzoDecompress
=============================================================================
