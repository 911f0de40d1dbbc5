---------------------------- MODULE MCHashTree ----------------------------
(***************************************************************************)
(* Model checking of HashTree against the leaves a walk of the stored tree *)
(* finds.                                                                  *)
(***************************************************************************)
EXTENDS HashTree, TreeLeaves

InputBlocks == [i \in 1..nblocks |-> i]

(***************************************************************************)
(* A successful call of chop_tree_index_blocks in which no add-index error *)
(* was discarded returns a handle whose leaves are the input blocks, each  *)
(* once and in order.                                                      *)
(***************************************************************************)
Complete == result = "ok" /\ ~dropped => Leaves(inodes, root) = InputBlocks

(***************************************************************************)
(* Even after a discarded error the handle chop_tree_index_blocks returns  *)
(* reads as a subsequence of the input: blocks may be missing, never       *)
(* repeated or out of order.                                               *)
(***************************************************************************)
Subsequence ==
    result = "ok" =>
        LET s == Leaves(inodes, root) IN
        \A i, j \in 1..Len(s) : i < j => s[i] < s[j]

(***************************************************************************)
(* indexers.h: "On success, return 0 and set HANDLE to an index handle     *)
(* necessary and sufficient to retrieve all the indexed blocks".  The code *)
(* discards the errors of chop_block_tree_add_index, so this fails.        *)
(***************************************************************************)
HandleSuffices == result = "ok" => Leaves(inodes, root) = InputBlocks
=============================================================================
