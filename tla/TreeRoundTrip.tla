--------------------------- MODULE TreeRoundTrip ---------------------------
(***************************************************************************)
(* The tree indexer end to end: an input is indexed (HashTree), and the    *)
(* handle that chop_tree_index_blocks returned is read back through the    *)
(* stream of chop_tree_fetch_stream (TreeStream).                          *)
(***************************************************************************)
EXTENDS TreeStream, TreeLeaves

allVars == <<vars, readVars>>

RoundTripInit == Init /\ ReadInit

Index == Next /\ UNCHANGED readVars

Fetch ==
    /\ pc = "done" /\ result = "ok"
    /\ ReadNext
    /\ UNCHANGED vars

RoundTripNext == Index \/ Fetch

(***************************************************************************)
(* Indexing runs to its end, and a call of chop_stream_read that began     *)
(* runs to its end; whether the caller reads again is up to the caller.    *)
(***************************************************************************)
RoundTripSpec ==
    /\ RoundTripInit
    /\ [][RoundTripNext]_allVars
    /\ WF_allVars(Index)
    /\ WF_allVars(Fetch /\ ReadStep)

-----------------------------------------------------------------------------
(* The units of the data blocks that the returned handle leads to. *)
Content ==
    FlattenSeq([i \in 1..Len(Leaves(inodes, root)) |->
        [u \in 1..BlockSize |-> (Leaves(inodes, root)[i] - 1) * BlockSize + u]])

(***************************************************************************)
(* Until some call of chop_stream_read returned an error, what the calls   *)
(* delivered is a prefix of the content of the tree, and CHOP_STREAM_END   *)
(* comes exactly when all of it was delivered.                             *)
(***************************************************************************)
ReadsInOrder ==
    result = "ok" /\ ~sawError =>
        /\ IsPrefix(delivered, Content)
        /\ ret = "STREAM_END" => delivered = Content

(***************************************************************************)
(* Whatever fetches failed, going on reading after an error never repeats  *)
(* or reorders a unit: what a retried chop_decoded_block_next_child        *)
(* returns is at worst a gap.                                              *)
(***************************************************************************)
NeverRepeats ==
    \A i \in 1..(Len(delivered) - 1) : delivered[i] < delivered[i + 1]

(***************************************************************************)
(* chop_stream_read never reports success without a single byte for a      *)
(* request of at least one: loops that read until CHOP_STREAM_END advance. *)
(***************************************************************************)
SuccessMeansProgress == rpc = "idle" /\ ret = "ok" /\ want > 0 => got > 0

(***************************************************************************)
(* End to end: when the indexer discarded no error and no fetch failed,    *)
(* the stream ends having returned every unit of every block the chopper   *)
(* produced.                                                               *)
(***************************************************************************)
RoundTrip ==
    ret = "STREAM_END" /\ ~dropped /\ ~sawError =>
        delivered = [i \in 1..(nblocks * BlockSize) |-> i]

(* Every call of chop_stream_read on the tree stream returns. *)
EveryReadReturns == rpc \notin {"idle", "closed", "aborted"} ~> rpc = "idle"

(***************************************************************************)
(* indexer-tree.c on chop_decoded_block_tree_read: "CHOP_STREAM_END is     *)
(* returned on end-of-stream."  A read that follows a failed one may       *)
(* return it long before.                                                  *)
(***************************************************************************)
EndMeansEnd == ret = "STREAM_END" => delivered = Content
=============================================================================
