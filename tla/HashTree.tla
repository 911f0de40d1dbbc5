------------------------------ MODULE HashTree ------------------------------
(***************************************************************************)
(* The write side of the tree indexer (src/src/indexer-tree.c):            *)
(* chop_tree_index_blocks reads blocks from a chopper, stores each of them *)
(* in the data store, and adds the handle it gets to a tree of key blocks  *)
(* ("inodes") that is written to the metadata store as it fills up.        *)
(*                                                                         *)
(* Data is abstracted to identity.  The i-th non-empty block of the input  *)
(* has data handle i; the i-th key block written to the metadata store has *)
(* handle i.  (Content addressing may give two equal blocks one handle; a  *)
(* fetch then returns the same content and no branch of the indexer looks  *)
(* at a handle, so telling them apart loses nothing.)  What is kept is the *)
(* control: when a key block is full, the recursion into its parents, the  *)
(* final flush, and every place where a store or the chopper may fail.     *)
(*                                                                         *)
(* The indexer is sequential.  One action is one store operation together  *)
(* with the straight-line code up to the next one.                         *)
(***************************************************************************)
EXTENDS Naturals, Sequences

CONSTANTS
    IndexesPerBlock,    \* indexes_per_block of chop_tree_indexer_open
    DepthLimit,         \* depths the two header bytes can hold (2^16)
    MaxBlocks,          \* bound: non-empty blocks the chopper yields
    MaxFailures         \* bound: store writes that fail

(***************************************************************************)
(* With 0 or 1 index per block chop_key_block_add_index finds even a fresh *)
(* parent full and recurses without end, so no call ever returns.          *)
(***************************************************************************)
ASSUME IndexesAssumption == IndexesPerBlock \in Nat /\ IndexesPerBlock >= 2
ASSUME DepthAssumption   == DepthLimit \in Nat \ {0}
ASSUME BoundAssumption   == MaxBlocks \in Nat /\ MaxFailures \in Nat

VARIABLES
    pc,         \* "read": the loop of chop_tree_index_blocks;
                \* "add": inside chop_key_block_add_index;
                \* "flush": the loop of chop_block_tree_flush;
                \* "done": returned; "aborted": an assertion failed
    nblocks,    \* non-empty blocks stored in the data store so far
    levels,     \* levels[d + 1]: the keys of the pending key block of depth
                \* d; its parent is levels[d + 2]; <<>>: tree.current is NULL
    inodes,     \* the metadata store: key blocks in the order written
    base,       \* level the outermost chop_key_block_add_index was called on
    carried,    \* the INDEX arguments of its nested calls, outermost first
    cursor,     \* level chop_block_tree_flush is at; 0 outside of it
    root,       \* the handle *INDEX; 0 while it is not a key block's
    result,     \* what chop_tree_index_blocks returned; "none" before
    failures,   \* store writes that failed so far
    dropped     \* history: the error of some chop_key_block_add_index was
                \* ignored or overwritten by its caller

vars == <<pc, nblocks, levels, inodes, base, carried, cursor, root, result,
          failures, dropped>>

Inode == [depth: Nat, keys: Seq(Nat), lo: Nat, hi: Nat]

-----------------------------------------------------------------------------
(***************************************************************************)
(* What a key of a key block of depth d stands for.  A key block of depth  *)
(* 0 holds data handles, the others hold handles of key blocks.  A handle  *)
(* spans the input blocks Lo+1 .. Hi: `lo' and `hi' of an inode are ghost  *)
(* fields, fixed when it is written, that no action reads otherwise.       *)
(***************************************************************************)
Lo(d, h) == IF d = 0 THEN h - 1 ELSE inodes[h].lo
Hi(d, h) == IF d = 0 THEN h     ELSE inodes[h].hi

(***************************************************************************)
(* Each definition named Faulty... is a variant of the one that follows it *)
(* with a plausible mistake in the code: the README tells which property   *)
(* notices it.  No specification uses them.                                *)
(*                                                                         *)
(* The parent's depth counts from one.                                     *)
(***************************************************************************)
FaultyInodeOf(l) ==
    [depth |-> IF l = 1 THEN 0 ELSE l,
     keys  |-> levels[l],
     lo    |-> Lo(l - 1, levels[l][1]),
     hi    |-> Hi(l - 1, levels[l][Len(levels[l])])]

(* The key block that chop_key_block_flush writes for level l. *)
InodeOf(l) ==
    [depth |-> l - 1,
     keys  |-> levels[l],
     lo    |-> Lo(l - 1, levels[l][1]),
     hi    |-> Hi(l - 1, levels[l][Len(levels[l])])]

(* Off by one: a block with room for another key is taken for full. *)
FaultyFull(l) == Len(levels[l]) + 2 >= IndexesPerBlock

(* chop_key_block_add_index: "This key block is full". *)
Full(l) == Len(levels[l]) + 1 >= IndexesPerBlock

(* The level of the innermost pending chop_key_block_add_index. *)
Top == base + Len(carried) - 1

(* chop_key_block_fill_header: assert (!depth) on the third depth byte. *)
DepthFits(l) == l - 1 < DepthLimit

-----------------------------------------------------------------------------
Init ==
    /\ pc = "read"
    /\ nblocks = 0
    /\ levels = <<>>
    /\ inodes = <<>>
    /\ base = 0
    /\ carried = <<>>
    /\ cursor = 0
    /\ root = 0
    /\ result = "none"
    /\ failures = 0
    /\ dropped = FALSE

(***************************************************************************)
(* chop_tree_index_blocks returns: the tree is freed, and an input that    *)
(* yielded nothing overrides the error.                                    *)
(***************************************************************************)
Return(err) ==
    /\ pc' = "done"
    /\ result' = err
    /\ levels' = <<>>
    /\ cursor' = 0

(* A block the chopper returned was stored; its handle goes to level 1. *)
ReadBlock ==
    /\ pc = "read"
    /\ nblocks < MaxBlocks
    /\ nblocks' = nblocks + 1
    /\ levels' = IF levels = <<>> THEN << <<>> >> ELSE levels
    /\ pc' = "add"
    /\ base' = 1
    /\ carried' = <<nblocks + 1>>
    /\ UNCHANGED <<inodes, cursor, root, result, failures, dropped>>

(* Storing the block failed: the loop breaks with the store's error. *)
StoreBlockFails ==
    /\ pc = "read"
    /\ nblocks < MaxBlocks
    /\ failures < MaxFailures
    /\ failures' = failures + 1
    /\ Return("store_error")
    /\ UNCHANGED <<nblocks, inodes, base, carried, root, dropped>>

(* The chopper failed with something other than CHOP_STREAM_END. *)
ReadFails ==
    /\ pc = "read"
    /\ Return(IF nblocks = 0 THEN "empty_source" ELSE "stream_error")
    /\ UNCHANGED <<nblocks, inodes, base, carried, root, failures, dropped>>

EndOfEmptyStream ==
    /\ pc = "read"
    /\ nblocks = 0
    /\ Return("empty_source")
    /\ UNCHANGED <<nblocks, inodes, base, carried, root, failures, dropped>>

(* The flush begins one block too high. *)
FaultyEndOfStream ==
    /\ pc = "read"
    /\ nblocks > 0
    /\ pc' = "flush"
    /\ cursor' = IF Len(levels) > 1 THEN 2 ELSE 1
    /\ UNCHANGED <<nblocks, levels, inodes, base, carried, root, result,
                   failures, dropped>>

EndOfStream ==
    /\ pc = "read"
    /\ nblocks > 0
    /\ pc' = "flush"
    /\ cursor' = 1
    /\ UNCHANGED <<nblocks, levels, inodes, base, carried, root, result,
                   failures, dropped>>

-----------------------------------------------------------------------------
(* The flush loop moves on by two parents. *)
FaultyAddReturns(err) ==
    /\ base' = 0
    /\ carried' = <<>>
    /\ IF cursor = 0 THEN pc' = "read"  /\ cursor' = 0
                     ELSE pc' = "flush" /\ cursor' = cursor + 2
    /\ dropped' = (dropped \/ err)

(***************************************************************************)
(* The outermost chop_key_block_add_index returns to the read loop, which  *)
(* ignores its error, or to the flush loop, whose next iteration           *)
(* overwrites it.                                                          *)
(***************************************************************************)
AddReturns(err) ==
    /\ base' = 0
    /\ carried' = <<>>
    /\ IF cursor = 0 THEN pc' = "read"  /\ cursor' = 0
                     ELSE pc' = "flush" /\ cursor' = cursor + 1
    /\ dropped' = (dropped \/ err)

(* The innermost block is full: write it, then add its handle to its       *)
(* parent, which is created first when there is none.                      *)
FlushFullBlock ==
    /\ pc = "add"
    /\ Full(Top)
    /\ DepthFits(Top)
    /\ inodes' = Append(inodes, InodeOf(Top))
    /\ carried' = Append(carried, Len(inodes) + 1)
    /\ levels' = IF Top = Len(levels) THEN Append(levels, <<>>) ELSE levels
    /\ UNCHANGED <<pc, nblocks, base, cursor, root, result, failures, dropped>>

(* The block is reset although it could not be written. *)
FaultyFlushFullBlockFails ==
    /\ pc = "add"
    /\ Full(Top)
    /\ DepthFits(Top)
    /\ failures < MaxFailures
    /\ failures' = failures + 1
    /\ levels' = [levels EXCEPT ![Top] = <<>>]
    /\ AddReturns(TRUE)
    /\ UNCHANGED <<nblocks, inodes, root, result>>

(* Writing it failed: every nested call returns the error, nothing is      *)
(* appended and nothing is reset.                                          *)
FlushFullBlockFails ==
    /\ pc = "add"
    /\ Full(Top)
    /\ DepthFits(Top)
    /\ failures < MaxFailures
    /\ failures' = failures + 1
    /\ AddReturns(TRUE)
    /\ UNCHANGED <<nblocks, levels, inodes, root, result>>

(* chop_key_block_reinit is forgotten. *)
FaultyAppendIndex ==
    /\ pc = "add"
    /\ ~Full(Top)
    /\ levels' = [l \in 1..Len(levels) |->
                    IF l \in base..Top THEN Append(levels[l], carried[l - base + 1])
                                       ELSE levels[l]]
    /\ AddReturns(FALSE)
    /\ UNCHANGED <<nblocks, inodes, root, result, failures>>

(* The innermost block has room: it takes its index and, as the calls      *)
(* return, each block below it is reset and takes its own.                 *)
AppendIndex ==
    /\ pc = "add"
    /\ ~Full(Top)
    /\ levels' = [l \in 1..Len(levels) |->
                    CASE l = Top            -> Append(levels[l], carried[l - base + 1])
                      [] l \in base..Top-1  -> <<carried[l - base + 1]>>
                      [] OTHER              -> levels[l]]
    /\ AddReturns(FALSE)
    /\ UNCHANGED <<nblocks, inodes, root, result, failures>>

-----------------------------------------------------------------------------
(* The handle of a flushed block is not added to its parent. *)
FaultyFlushLevel ==
    /\ pc = "flush"
    /\ DepthFits(cursor)
    /\ inodes' = Append(inodes, InodeOf(cursor))
    /\ root' = Len(inodes) + 1
    /\ IF cursor < Len(levels)
         THEN cursor' = cursor + 1 /\ UNCHANGED <<pc, levels, result>>
         ELSE Return("ok")
    /\ UNCHANGED <<nblocks, base, carried, failures, dropped>>

(* chop_block_tree_flush: one iteration of the loop. *)
FlushLevel ==
    /\ pc = "flush"
    /\ DepthFits(cursor)
    /\ inodes' = Append(inodes, InodeOf(cursor))
    /\ root' = Len(inodes) + 1
    /\ IF cursor < Len(levels)
         THEN /\ pc' = "add"
              /\ base' = cursor + 1
              /\ carried' = <<Len(inodes) + 1>>
              /\ UNCHANGED <<levels, cursor, result>>
         ELSE /\ Return("ok")
              /\ UNCHANGED <<base, carried>>
    /\ UNCHANGED <<nblocks, failures, dropped>>

(* The index of the level below was already destroyed: no handle is left. *)
FlushLevelFails ==
    /\ pc = "flush"
    /\ DepthFits(cursor)
    /\ failures < MaxFailures
    /\ failures' = failures + 1
    /\ root' = 0
    /\ Return("store_error")
    /\ UNCHANGED <<nblocks, inodes, base, carried, dropped>>

(* The depth of a block about to be written does not fit its header. *)
AssertionFails ==
    /\ \/ pc = "add" /\ Full(Top) /\ ~DepthFits(Top)
       \/ pc = "flush" /\ ~DepthFits(cursor)
    /\ pc' = "aborted"
    /\ UNCHANGED <<nblocks, levels, inodes, base, carried, cursor, root,
                   result, failures, dropped>>

-----------------------------------------------------------------------------
Next ==
    \/ ReadBlock
    \/ StoreBlockFails
    \/ ReadFails
    \/ EndOfEmptyStream
    \/ EndOfStream
    \/ FlushFullBlock
    \/ FlushFullBlockFails
    \/ AppendIndex
    \/ FlushLevel
    \/ FlushLevelFails
    \/ AssertionFails

Spec == Init /\ [][Next]_vars

(* The indexer is one sequential call: it runs until it returns. *)
FairSpec == Spec /\ WF_vars(Next)

-----------------------------------------------------------------------------
(* The variables range over what the C objects can hold; the flush cursor  *)
(* and the nested calls stay within the chain of pending blocks.           *)
TypeOK ==
    /\ pc \in {"read", "add", "flush", "done", "aborted"}
    /\ nblocks \in Nat
    /\ levels \in Seq(Seq(Nat))
    /\ inodes \in Seq(Inode)
    /\ base \in Nat
    /\ carried \in Seq(Nat)
    /\ cursor \in Nat
    /\ root \in 0..Len(inodes)
    /\ result \in {"none", "ok", "store_error", "stream_error", "empty_source"}
    /\ failures \in 0..MaxFailures
    /\ dropped \in BOOLEAN
    /\ pc = "add" => base >= 1 /\ carried # <<>> /\ Top <= Len(levels)
    /\ pc = "flush" => cursor \in 1..Len(levels)

-----------------------------------------------------------------------------
(***************************************************************************)
(* What the reader relies on (CHILDREN_ARE_KEY_BLOCKS and the choice of    *)
(* store in chop_decoded_block_next_child): whatever failed, a key block   *)
(* in the metadata store is not empty, holds no more keys than             *)
(* IndexesPerBlock, and each of its keys names a data block that was       *)
(* stored (depth 0) or an earlier key block exactly one level below.       *)
(***************************************************************************)
TreeLinks ==
    \A i \in 1..Len(inodes) :
        /\ Len(inodes[i].keys) \in 1..IndexesPerBlock
        /\ \A j \in 1..Len(inodes[i].keys) :
             LET k == inodes[i].keys[j] IN
             IF inodes[i].depth = 0
               THEN k \in 1..nblocks
               ELSE k \in 1..(i - 1) /\ inodes[k].depth = inodes[i].depth - 1

(***************************************************************************)
(* Whatever failed, no key block ever lists an input block twice or before *)
(* an earlier one: the spans of its keys are non-empty, disjoint and in    *)
(* the order of the input.                                                 *)
(***************************************************************************)
InOrder ==
    \A i \in 1..Len(inodes) :
        LET b == inodes[i] IN
        /\ b.lo < b.hi
        /\ \A j, k \in 1..Len(b.keys) :
             j < k => Hi(b.depth, b.keys[j]) <= Lo(b.depth, b.keys[k])

(***************************************************************************)
(* When no error of chop_key_block_add_index was discarded, no key block   *)
(* skips an input block, and the handle returned with success is a key     *)
(* block that spans the whole input.                                       *)
(***************************************************************************)
RootSpansInput ==
    ~dropped =>
        /\ \A i \in 1..Len(inodes) :
             LET b == inodes[i] IN
             \A j \in 1..(Len(b.keys) - 1) :
                 Lo(b.depth, b.keys[j + 1]) = Hi(b.depth, b.keys[j])
        /\ result = "ok" => /\ root # 0
                            /\ inodes[root].lo = 0
                            /\ inodes[root].hi = nblocks

(***************************************************************************)
(* Nothing is stored in vain: after a successful call in which no error    *)
(* was discarded, the key blocks in the metadata store form one tree, in   *)
(* which every block but the root is the child of exactly one other.       *)
(***************************************************************************)
NoOrphans ==
    result = "ok" /\ ~dropped =>
        \A k \in 1..Len(inodes) :
            LET Parents == {i \in 1..Len(inodes) :
                              /\ inodes[i].depth = inodes[k].depth + 1
                              /\ \E j \in 1..Len(inodes[i].keys) : inodes[i].keys[j] = k}
            IN  IF k = root THEN Parents = {} ELSE \E i \in Parents : Parents = {i}

(***************************************************************************)
(* Write before reset: unless the call gives up, a pending key block loses *)
(* keys (chop_key_block_reinit, chop_block_tree_free) only once a key      *)
(* block with exactly its keys is in the metadata store.                   *)
(***************************************************************************)
Keeps(l) ==
    /\ l \in 1..Len(levels')
    /\ Len(levels[l]) <= Len(levels'[l])
    /\ \A j \in 1..Len(levels[l]) : levels'[l][j] = levels[l][j]

Saved(l) ==
    \E i \in 1..Len(inodes') :
        inodes'[i].depth = l - 1 /\ inodes'[i].keys = levels[l]

WrittenBeforeReset ==
    [][ result' \in {"none", "ok"} =>
          \A l \in 1..Len(levels) : Keeps(l) \/ Saved(l) ]_vars

(***************************************************************************)
(* A key block is written with one key less than it may hold, so a tree of *)
(* DepthLimit levels holds this many blocks.                               *)
(***************************************************************************)
Capacity ==
    LET full[d \in 0..DepthLimit] ==
            IF d = 0 THEN 1 ELSE (IndexesPerBlock - 1) * full[d - 1]
    IN  full[DepthLimit]

(***************************************************************************)
(* The assertion of chop_key_block_fill_header on the depth stops the      *)
(* program only for an input that no tree of the depths the header can     *)
(* hold has room for: neither the recursion, nor the final flush, nor a    *)
(* retry after a failed write ever makes the tree taller than it must be.  *)
(***************************************************************************)
AssertionMeansTooDeep == pc = "aborted" => nblocks > Capacity

(***************************************************************************)
(* indexers.h puts no restriction on KEYS_PER_BLOCK: the assertion never   *)
(* stops the program on a short input.                                     *)
(***************************************************************************)
NoAssertionFails == pc # "aborted"

(***************************************************************************)
(* chop_tree_index_blocks returns, unless the input is that large: the     *)
(* flush climbs to a topmost block although it may add parents itself.     *)
(***************************************************************************)
Terminates == <>(pc = "done" \/ nblocks > Capacity)
=============================================================================
