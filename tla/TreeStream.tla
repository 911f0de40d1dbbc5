---------------------------- MODULE TreeStream ----------------------------
(***************************************************************************)
(* The read side of the tree indexer (src/src/indexer-tree.c): the stream  *)
(* chop_tree_fetch_stream returns.  It keeps one decoded block per level   *)
(* of the tree, from the top-level key block down to the current data      *)
(* block, and reuses them as the walk moves to the next child.             *)
(*                                                                         *)
(* The metadata store `inodes' and the handle `root' are HashTree's.  A    *)
(* data block holds BlockSize units, numbered along the input: block h     *)
(* holds units (h-1)*BlockSize+1 .. h*BlockSize.  Any fetch may fail in    *)
(* the store's read method, which leaves the buffer that was cleared for   *)
(* it empty; the caller may then read again.  One action is one fetch, one *)
(* copy or one step of the recursion of chop_decoded_block_next_child.     *)
(***************************************************************************)
EXTENDS HashTree

CONSTANTS
    BlockSize,          \* units in a data block
    Sizes,              \* the SIZE arguments of chop_stream_read
    MaxFetchFailures    \* bound: fetches that fail

ASSUME BlockSizeAssumption == BlockSize \in Nat \ {0}
ASSUME SizesAssumption     == Sizes \subseteq Nat
ASSUME FetchAssumption     == MaxFetchFailures \in Nat

VARIABLES
    rpc,        \* "idle": no call pending; "open": fetching the top-level
                \* block; "descend": fetching a first child; "copy": the loop
                \* of chop_decoded_block_read; "climb": inside
                \* chop_decoded_block_next_child; "closed": after
                \* tree_stream_close; "aborted": an assertion failed
    chain,      \* decoded key blocks, top-level first
    garbage,    \* the block below the last of `chain' was allocated but its
                \* first fetch failed: is_key_block and offset hold garbage
    data,       \* the decoded data block, NoData before there is one
    at,         \* level next_child is working on
    want, got,  \* SIZE and *READ of the pending or last call
    ret,        \* what the last call returned; "none" before
    delivered,  \* history: the units copied to the callers' buffers
    fetchFails, \* fetches that failed so far
    sawError    \* history: some call returned an error

readVars == <<rpc, chain, garbage, data, at, want, got, ret, delivered,
              fetchFails, sawError>>

NoData == [block |-> 0, offset |-> 0, size |-> 0]

(***************************************************************************)
(* A decoded key block: the inode it was last loaded with (key_count and   *)
(* depth come from its header), the keys consumed (`offset' in keys), the  *)
(* children fetched (current_child_number), and whether a failed fetch     *)
(* emptied its buffer.                                                     *)
(***************************************************************************)
Decoded(h) == [src |-> h, offset |-> 0, child |-> 0, cleared |-> FALSE]

DecodedData(h) == [block |-> h, offset |-> 0, size |-> BlockSize]

KeyCount(b) == Len(inodes[b.src].keys)

(* Faulty variants, see HashTree: the last child is never looked at. *)
FaultyExhausted(b) ==
    \/ b.child + 1 >= KeyCount(b)
    \/ b.cleared \/ b.offset >= KeyCount(b)

(* chop_decoded_block_next_child: "We're done with this block". *)
Exhausted(b) ==
    \/ b.child >= KeyCount(b)
    \/ b.cleared \/ b.offset >= KeyCount(b)

(* The handle at the block's offset; CHILDREN_ARE_KEY_BLOCKS. *)
NextKey(b) == inodes[b.src].keys[b.offset + 1]
ChildrenAreKeyBlocks(b) == inodes[b.src].depth > 0

Bottom == Len(chain)

ReadInit ==
    /\ rpc = "idle"
    /\ chain = <<>>
    /\ garbage = FALSE
    /\ data = NoData
    /\ at = 0
    /\ want = 0 /\ got = 0
    /\ ret = "none"
    /\ delivered = <<>>
    /\ fetchFails = 0
    /\ sawError = FALSE

-----------------------------------------------------------------------------
(* A call returns. *)
ReadReturns(err) ==
    /\ rpc' = "idle"
    /\ ret' = err
    /\ at' = 0
    /\ sawError' = (sawError \/ err = "error")

FetchFails ==
    /\ fetchFails < MaxFetchFailures
    /\ fetchFails' = fetchFails + 1

(* tree_stream_read is called. *)
Read(size) ==
    /\ rpc = "idle"
    /\ ~garbage
    /\ want' = size /\ got' = 0
    /\ rpc' = IF chain = <<>> THEN "open" ELSE "copy"
    /\ UNCHANGED <<chain, garbage, data, at, ret, delivered, fetchFails,
                   sawError>>

(***************************************************************************)
(* The read reaches a block whose first fetch failed.  Its is_key_block is *)
(* uninitialized: taken for a key block, it has no parent and an empty     *)
(* buffer, so the stream seems to end; taken for a data block, it fails    *)
(* assert (block->parent).                                                 *)
(***************************************************************************)
ReadGarbage(size) ==
    /\ rpc = "idle"
    /\ garbage
    /\ want' = size /\ got' = 0
    /\ \/ ReadReturns("STREAM_END")
       \/ rpc' = "aborted" /\ UNCHANGED <<ret, at, sawError>>
    /\ UNCHANGED <<chain, garbage, data, delivered, fetchFails>>

(* chop_decoded_block_tree_read fetches the top-level key block. *)
FetchRoot ==
    /\ rpc = "open"
    /\ chain' = <<Decoded(root)>>
    /\ rpc' = "descend"
    /\ UNCHANGED <<garbage, data, at, want, got, ret, delivered, fetchFails,
                   sawError>>

FetchRootFails ==
    /\ rpc = "open"
    /\ FetchFails
    /\ garbage' = TRUE
    /\ ReadReturns("error")
    /\ UNCHANGED <<chain, data, want, got, delivered>>

(* The offset is not advanced past the handle that was read. *)
FaultyConsume(l, fetched) ==
    [chain EXCEPT ![l].child = IF fetched THEN @ + 1 ELSE @]

(* The offset is advanced once by the handle's size and once again. *)
FaultyConsumeTwice(l, fetched) ==
    [chain EXCEPT ![l].offset = @ + 2,
                  ![l].child  = IF fetched THEN @ + 1 ELSE @]

(* The key consumed from level l, and whether its fetch succeeded. *)
Consume(l, fetched) ==
    [chain EXCEPT ![l].offset = @ + 1,
                  ![l].child  = IF fetched THEN @ + 1 ELSE @]

(* chop_decoded_block_read: the last block has no child yet. *)
FetchFirstChild ==
    LET h == NextKey(chain[Bottom]) IN
    /\ rpc = "descend"
    /\ IF ChildrenAreKeyBlocks(chain[Bottom])
         THEN /\ chain' = Append(Consume(Bottom, TRUE), Decoded(h))
              /\ UNCHANGED <<rpc, data>>
         ELSE /\ chain' = Consume(Bottom, TRUE)
              /\ data' = DecodedData(h)
              /\ rpc' = "copy"
    /\ UNCHANGED <<garbage, at, want, got, ret, delivered, fetchFails,
                   sawError>>

FetchFirstChildFails ==
    /\ rpc = "descend"
    /\ FetchFails
    /\ chain' = Consume(Bottom, FALSE)
    /\ garbage' = TRUE
    /\ ReadReturns("error")
    /\ UNCHANGED <<data, want, got, delivered>>

-----------------------------------------------------------------------------
(* The loop of chop_decoded_block_read over the data block. *)
Copy ==
    LET available == data.size - data.offset
        amount    == IF available > want - got THEN want - got ELSE available
        first     == (data.block - 1) * BlockSize + data.offset
    IN
    /\ rpc = "copy"
    /\ got < want
    /\ data.offset < data.size
    /\ delivered' = delivered \o [i \in 1..amount |-> first + i]
    /\ data' = [data EXCEPT !.offset = @ + amount]
    /\ got' = got + amount
    /\ UNCHANGED <<rpc, chain, garbage, at, want, ret, fetchFails, sawError>>

CopyDone ==
    /\ rpc = "copy"
    /\ got = want
    /\ ReadReturns("ok")
    /\ UNCHANGED <<chain, garbage, data, want, got, delivered, fetchFails>>

(* The data block is used up: chop_decoded_block_next_child (parent). *)
NextBlock ==
    /\ rpc = "copy"
    /\ got < want
    /\ data.offset >= data.size
    /\ rpc' = "climb"
    /\ at' = Bottom
    /\ UNCHANGED <<chain, garbage, data, want, got, ret, delivered,
                   fetchFails, sawError>>

(* "goto start" without having asked the parent. *)
FaultyClimb ==
    /\ rpc = "climb"
    /\ at > 1
    /\ Exhausted(chain[at])
    /\ UNCHANGED readVars

(* This block is used up too: ask its parent. *)
Climb ==
    /\ rpc = "climb"
    /\ at > 1
    /\ Exhausted(chain[at])
    /\ at' = at - 1
    /\ UNCHANGED <<rpc, chain, garbage, data, want, got, ret, delivered,
                   fetchFails, sawError>>

(* CHOP_STREAM_END is always left for the next call. *)
FaultyStreamEnd ==
    /\ rpc = "climb"
    /\ at = 1
    /\ Exhausted(chain[1])
    /\ ReadReturns("ok")
    /\ UNCHANGED <<chain, garbage, data, want, got, delivered, fetchFails>>

(* The top-level block is used up: CHOP_STREAM_END, unless this very call  *)
(* already returned something.                                             *)
StreamEnd ==
    /\ rpc = "climb"
    /\ at = 1
    /\ Exhausted(chain[1])
    /\ ReadReturns(IF got = 0 THEN "STREAM_END" ELSE "ok")
    /\ UNCHANGED <<chain, garbage, data, want, got, delivered, fetchFails>>

(* Load the next child into the decoded block below, then go on there. *)
FetchChild ==
    LET h == NextKey(chain[at]) IN
    /\ rpc = "climb"
    /\ ~Exhausted(chain[at])
    /\ IF at < Bottom
         THEN /\ chain' = [Consume(at, TRUE) EXCEPT ![at + 1] = Decoded(h)]
              /\ at' = at + 1
              /\ UNCHANGED <<rpc, data>>
         ELSE /\ chain' = Consume(at, TRUE)
              /\ data' = DecodedData(h)
              /\ at' = 0
              /\ rpc' = "copy"
    /\ UNCHANGED <<garbage, want, got, ret, delivered, fetchFails, sawError>>

(* The key is consumed and the block below is left with an empty buffer. *)
FetchChildFails ==
    /\ rpc = "climb"
    /\ ~Exhausted(chain[at])
    /\ FetchFails
    /\ IF at < Bottom
         THEN /\ chain' = [Consume(at, FALSE) EXCEPT ![at + 1].cleared = TRUE]
              /\ UNCHANGED data
         ELSE /\ chain' = Consume(at, FALSE)
              /\ data' = [data EXCEPT !.size = 0]
    /\ ReadReturns("error")
    /\ UNCHANGED <<garbage, want, got, delivered>>

(* tree_stream_close: every decoded block is freed. *)
Close ==
    /\ rpc = "idle"
    /\ rpc' = "closed"
    /\ chain' = <<>>
    /\ garbage' = FALSE
    /\ data' = NoData
    /\ UNCHANGED <<at, want, got, ret, delivered, fetchFails, sawError>>

(* What a pending call does next. *)
ReadStep ==
    \/ FetchRoot            \/ FetchRootFails
    \/ FetchFirstChild      \/ FetchFirstChildFails
    \/ Copy                 \/ CopyDone
    \/ NextBlock            \/ Climb
    \/ StreamEnd
    \/ FetchChild           \/ FetchChildFails

ReadNext ==
    \/ \E size \in Sizes : Read(size)
    \/ \E size \in Sizes : ReadGarbage(size)
    \/ Close
    \/ ReadStep
=============================================================================
