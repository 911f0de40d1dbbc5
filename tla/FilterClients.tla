--------------------------- MODULE FilterClients ---------------------------
(***************************************************************************)
(* The filters with their two clients in the library.  A behaviour is that *)
(* of one client: a filtered store whose two filters serve block after     *)
(* block, or filtered streams.                                             *)
(***************************************************************************)
EXTENDS FilteredStore, FilteredStream

VARIABLE client     \* "store" or "stream"

vars == <<filterVars, storeVars, streamVars, client>>

Init ==
    /\ FilterInit /\ StoreInit /\ StreamInit
    /\ client \in {"store", "stream"}

Next ==
    \/ client = "store" /\ StoreNext /\ UNCHANGED <<streamVars, client>>
    \/ client = "stream" /\ StreamNext /\ UNCHANGED <<storeVars, client>>
    \/ Pull /\ UNCHANGED <<storeVars, streamVars, client>>

Spec == Init /\ [][Next]_vars

(* A call that was made runs to its end; nobody has to make one. *)
Fairness ==
    /\ WF_vars(Pull /\ UNCHANGED <<storeVars, streamVars, client>>)
    /\ WF_vars(StoreStep /\ UNCHANGED <<streamVars, client>>)
    /\ WF_vars(StreamStep /\ UNCHANGED <<storeVars, client>>)

FairSpec == Spec /\ Fairness

-----------------------------------------------------------------------------
(***************************************************************************)
(* The variables have their types.  The input a filter has still to read   *)
(* lies within its buffer, and between two operations of a store no fault  *)
(* handler refers to the block of the last one.                            *)
(***************************************************************************)
TypeOK ==
    /\ lib \in Library /\ client \in {"store", "stream"}
    /\ pc \in {"idle", "pull", "pulled", "aborted", "stuck", "overrun"}
    /\ handler \in {"none", "buffer", "stream"}
    /\ \A d \in Direction :
          /\ filt[d].avail \in 0..filt[d].isize
          /\ filt[d].next + filt[d].avail <= Len(filt[d].buf)
          /\ filt[d].z.mode \in {"run", "finish", "done", "bad"}
    /\ call.dir \in Direction /\ call.flush \in BOOLEAN
    /\ call.size \in 0..SizeMax
    /\ pc = "idle" => op = NoOp
    /\ pc = "idle" /\ client = "store" => handler = "none"

(* A filter with no input, no output and a library that starts anew. *)
Clean(f) ==
    f.avail = 0 /\ f.obuf = <<>> /\ f.z = Fresh /\ (lib = "lzo" => f.next = 0)

(***************************************************************************)
(* As long as nothing failed, a filter that has served a block keeps       *)
(* nothing of it: pull's flush resets the library exactly when all of the  *)
(* output was pulled, so that the next block starts from a clean filter.   *)
(* No assertion of the push methods or of the fault handler fails, and no  *)
(* push waits for room that never comes.                                   *)
(***************************************************************************)
NothingLeftBehind ==
    /\ pc = "idle" /\ client = "store" /\ ~failed =>
          \A d \in Direction : Clean(filt[d])
    /\ ~failed => pc \notin {"aborted", "stuck"}
    /\ strm.status = "end" => Clean(filt[strm.dir])

(***************************************************************************)
(* A pull never writes past its caller's buffer, except where the          *)
(* subtraction at filter-lzo-unzip.c:156 wrapped around: the reader of an  *)
(* LZO decompressing stream asked for less than a chunk's header, or, when *)
(* units of the chunk before were delivered first, for fewer than two      *)
(* headers less two: 13 bytes at most.  The filtered store, which pulls    *)
(* OutputSize at a time, never gets there, and neither does any other      *)
(* filter or the flush of a stream that ran dry.                           *)
(***************************************************************************)
WithinRequest ==
    /\ pc = "pulled" =>
          Len(call.out) <= IF client = "store" THEN OutputSize
                           ELSE strm.want - Len(strm.read)
    /\ pc = "overrun" =>
          /\ client = "stream" /\ lib = "lzo" /\ call.dir = "unzip"
          /\ ~call.flush /\ strm.want < 2 * HeaderSize - 2

(***************************************************************************)
(* Whichever operations fail and leave the filters as they are, the        *)
(* filtered store is a block store: a write that returns 0 has stored the  *)
(* block it was given, one that fails has stored nothing, and a read that  *)
(* returns 0 returns the block last written under the key.  So it stays    *)
(* when the medium truncates, changes or extends zlib and bzip2 blocks,    *)
(* whose checksums tell; the LZO filters store none and write no end mark, *)
(* and their blocks are taken to come back as they were stored.            *)
(***************************************************************************)
Abstract == INSTANCE BlockStore WITH blocks <- Blocks
IsBlockStore == Abstract!Spec

(***************************************************************************)
(* A filtered stream delivers the image of its backend in order, with no   *)
(* unit missing or repeated between the read that ran dry and the reads    *)
(* that flush, and ends only when all of it was delivered.                 *)
(***************************************************************************)
StreamFaithful ==
    client = "stream" /\ strm.status # "none" =>
        LET whole == IF strm.dir = "zip" THEN Image(lib, source, InputSize)
                     ELSE source
        IN  /\ given = SubSeq(whole, 1, Len(given))
            /\ strm.status = "end" => given = whole

(***************************************************************************)
(* A read or write of the filtered store and a read of a filtered stream   *)
(* return: each pull makes progress or says that the filter is empty.  Not *)
(* so once a block was damaged: for a truncated zlib or bzip2 block pull   *)
(* returns 0 with no output for ever, and chop_filter_through goes on      *)
(* flushing.  Nothing is said of a pull that overran its caller's buffer.  *)
(***************************************************************************)
CallsReturn == pc # "idle" ~> (pc = "idle" \/ pc = "overrun" \/ damage > 0)
=============================================================================
