# A TLA+ verification of libchop

libchop cuts streams into blocks, stores the blocks under keys and keeps, in
the same or another store, a tree of key blocks from which the stream can be
read back. This directory models the parts of it whose correctness depends on
long call sequences, on failures in the middle of an operation, or on several
processes, checks them with TLC and proves the main results with TLAPS.

Paths below are relative to the repository (`src/indexer-tree.c` is the C file
in its `src` directory).

## Inventory

| Component | State | Operations | What is hard | What makes it correct |
|---|---|---|---|---|
| Tree indexer, write (`src/indexer-tree.c`) | chain of pending key blocks, one per depth; the handle being returned | `chop_tree_index_blocks`, which calls `chop_block_tree_add_index` per block and `chop_block_tree_flush` at the end | recursion into parents, the flush extends the chain it climbs, store errors anywhere, one of them discarded | the handle leads to all blocks, once, in order |
| Tree indexer, read | one decoded block per level, reused | `chop_tree_fetch_stream`, `chop_stream_read`, close | requests across block borders, reads after an error, uninitialized fields | reading back is the inverse of indexing |
| File system store (`src/store-fs.c`) | a directory, shared by processes | write, read, delete, exists, iterate | no locks, crash and ENOSPC in the middle of a write, directories that come and go | a block is the content written under its key |
| Smart store (`src/store-smart.c`) | none | write only what does not exist | check-then-act over a shared backend | success means stored |
| Filters (`src/filter*.c`) | input and output buffers, the compressor's state | push, pull, flush, fault handlers | faults call back into push, reuse after a flush or an error | unzip(zip(x)) = x for every pattern of calls |
| Filtered stream and store (`src/stream-filtered.c`, `src/store-filtered.c`) | flushing/finished flags; two shared filters | read; read and write of blocks | end of stream while flushing, a filter left dirty by an error | content preserved, end reported once |
| Choppers (`src/chopper-*.c`) | position; the anchor chopper's two-buffer window and fingerprint | `read_block` | short reads, errors and end of stream at any offset | the blocks concatenate to the stream and depend on the content alone |
| Block indexers (`src/block-indexer-*.c`, `src/indexers.c`) | counter (integer), cipher and hash parameters | index, fetch, exists, (de)serialize | counter width, rejected blocks, a fetcher rebuilt from text | a handle names its block, and nothing else passes for it |
| Sun RPC store (`src/store-sunrpc.c`), TLS transport (`src/sunrpc-tls.c`) | connection, transaction id | exists, read, write, sync, close | retransmission, late replies, lost connections, handshakes | a reply belongs to its call |
| Block server (`src/block-server.c`, `utils/chop-block-server.c`) | the local store of one of four classes, static results | six procedures, signals | one thread, handshakes without a timeout, buffered writes, syncs whose failure is dropped, restarts, collision checks | synced blocks survive, none is replaced |
| Data base stores (`src/store-gdbm.c`, `-bdb.c`, `-tdb.c`, `-qdbm.c`, `-generic-db.c`) | the library's file and cache | as the store interface | who closes the file, whose errors are reported | what was written is there after close |
| Stat and dummy stores | counters | forwarding, closing | the order of destructors | transparency, exact counts |
| Tools (`utils/chop-archiver.c`, `utils/chop-store-convert.c`) | options, one stack of stores per role | archive, restore, convert | failures and crashes between writing, printing the handle and closing | what was archived with success can be restored |
| Buffer pool (`src/buffers.c`) | at most 20 buffers, 8192 bytes | init, push, append, return | limits, moving the last entry | no buffer has two owners |
| D-Bus store and server, store discovery, Guile bindings | callbacks | forwarding | none of their own | transparency |
| Objects and serialization (`src/chop.c`, `src/base32.c`), hash, cipher, logs | class records | allocation, conversion | none of their own | round trips |

Interaction is by calls only: chopper → stream, tree indexer → chopper, block
indexer and two stores, tree stream → block fetcher and the same two stores,
proxies (smart, filtered, stat, dummy) → backend store, remote store →
messages → block server → local store. The library starts no threads;
concurrency is between processes that share a store and between clients of a
server.

`PROJECT.json` lists the components with their status and the hazards with the
lines where they bite.

## Modules

| Module | Models |
|---|---|
| `HashTree` | write side of the tree indexer |
| `TreeLeaves` | reference meaning of a stored tree: its leaves, left to right |
| `MCHashTree` | properties of `HashTree` that walk the stored tree |
| `TreeStream` | read side of the tree indexer, extends `HashTree` |
| `TreeRoundTrip` | both sides composed: index, then read back |
| `FsStore` | file system store, one action per system call |
| `SmartStore` | smart proxy over `FsStore`, used by some processes and bypassed by others |
| `MCSmartStore` | instances of `SmartStore` |
| `Codec` | zlib, bzip2 and LZO as the filters see them (external), and LZO's framing |
| `Filter` | push, pull, faults and flush of all filters |
| `FilteredStore`, `FilteredStream` | the two clients of filters in the library |
| `BlockStore` | abstract specification: what a block store promises |
| `FilterClients` | filters with either client; `FilteredStore` implements `BlockStore` |
| `InputStream` | what a read of a memory, file or filtered stream may return |
| `SlidingWindow` | the two-buffer window of the anchor-based chopper, as pure operators |
| `Chopper` | the three choppers |
| `BlockServer` | the block server and its local store |
| `RpcTransport` | calls and replies over TLS and UDP, the server's loop |
| `RemoteStore` | the client side of the Sun RPC store, composed with the two above |
| `BlockIndexer` | the four block indexers, their fetchers and serial forms, as pure operators |
| `DataBase` | data base files, their cache and what classes of stores report |
| `StoreStack` | the proxies `chop-archiver` stacks over its files: forwarding, counting, closing |
| `Archiver`, `StoreConvert` | the two tools |
| `ArchiveTools` | the tools used in turn on the same files |
| `MCFilters`, `MCChopper`, `MCRemote`, `MCArchive` | instances |
| `SetInduction` | induction over the natural numbers, stated of sets |
| `HashTreeProofs` | theorems about `HashTree` and `MCHashTree` |
| `TreeStreamProofs` | theorems about `TreeRoundTrip` |
| `SmartStoreProofs`, `RemoteStoreProofs` | theorems about `SmartStore` and `RemoteStore` |
| `FilterProofs` | theorems about `FilterClients`, with the refinement of `BlockStore` |
| `ChopperProofs` | theorems about `Chopper` |
| `ArchiveProofs` | theorems about `ArchiveTools` |

### HashTree

`levels` is the chain `tree.current`, `current->parent`, ... of pending key
blocks, `levels[d+1]` being the one of depth `d`; `inodes` is the metadata
store in the order of writing. The data store is its length `nblocks`: the
i-th block has handle i. `base` and `carried` are the stack of the recursive
`chop_key_block_add_index`; `cursor` is the loop of `chop_block_tree_flush`.
The indexer is sequential, so an action is one store operation with the
straight-line code that follows: `ReadBlock`, `FlushFullBlock` (a full block is
written, its handle goes to the parent, which is created if need be),
`AppendIndex` (the recursion ends: the innermost block takes its key, and each
one below it is reset and takes its own), `FlushLevel`, and the failing
counterpart of every write. `AddReturns` records in the history variable
`dropped` that a caller discarded an error; `lo` and `hi` of an inode are ghost
fields saying which part of the input it spans. A chopper that returns an empty
block is a stuttering step.

Handles are identities. Content addressing may give two equal blocks the same
handle; no branch of the indexer looks at one, and a fetch returns the same
content, so keeping them apart loses nothing. Failed allocations are left out.

### TreeStream and TreeRoundTrip

`chain` holds the decoded key blocks from the top-level one down, `data` the
decoded data block; `offset`, `child` and `cleared` are what
`chop_decoded_block_next_child` tests. `garbage` says that the lowest block was
allocated but never filled: its `is_key_block` is then an uninitialized value,
and `ReadGarbage` chooses between the two outcomes. Fetches fail in the store's
read method, which leaves the cleared buffer empty; the caller may read again
afterwards. `TreeRoundTrip` lets the stream be opened on the handle of any
successful indexing.

### FsStore and SmartStore

The file system is external and modelled by what the code relies on: entries,
files that live on while open, `mkdir`, `unlink`, `rmdir`, `ftruncate`, and
`write`/`read` that transfer a unit at a time. `WriteBlock`, `OpenForWrite`,
`OpenFindsNoDir`, `MakeDir`, `Truncate`, `WriteUnit`, `WriteDone` are
`chop_fs_write_block` call by call; `DeleteBlock`, `RemoveDir` and `ReadBlock`,
`ReadUnit`, `ReadDone` are the other two operations. Any call may fail
(`WriteFails`, `CallFails`, `FirstCallFails`, and within `Truncate`, whose
result the code ignores), and a process may die between two calls (`Crash`).
`damaged` (files a writer left half-way) and `alone` (nobody else wrote to the
file since it was opened) are history variables the properties use.

### Codec, Filter and their clients

`filt[d]` is the filter of direction `d` (`"zip"` or `"unzip"`): `buf`, `next`
and `avail` are its input buffer with `next_in` and `avail_in`, `z` the state of
the library, `obuf` LZO's output buffer. `call` is the running
`chop_filter_pull`, `handler` the input fault handler installed. `ZipFaults` and
`ZipProcess` are the two halves of the template's loop (fault, then one call of
the library and the case analysis behind it, `AfterProcess`); `LzoZipFaults`,
`LzoCompress`, `LzoDelivers`, `LzoHeaderFault` and `LzoDecompress` are those of
the LZO methods. A unit of data is a letter and compresses to one code, followed
by an end mark (zlib, bzip2) or framed in chunks with a header (LZO), so that
the two sides have different lengths. What the library returns is left open
where its manual leaves it open. `call.room` is the caller's buffer and
`call.size` the variable `size` of the pull methods, from which LZO's
decompression subtracts `HeaderSize` (8 in the code) for every header, although
a header gives the caller nothing; the subtraction is that of `size_t`. A copy
that would go past the caller's buffer is undefined: `pc` is then `"overrun"`,
and nothing follows.

`FilteredStore` is one operation at a time: read or encode, `chop_filter_through`
(`ThroughContinues`), write or return (`ThroughEnds`, `ThroughFails`). The
backend may fail and may damage a block. `FilteredStream` reads with requests of
several sizes until the end or an error. `Blocks`, the refinement mapping, is
what the backend's blocks decode to; `op` is the operation under way with its
argument, and `ret` the last one that returned, with its result.

`BlockStore` has the same `op` and `ret`: a write that returns 0 puts the block
it was *given* under its key, one that fails changes nothing, a read that returns
0 returns what is under its key. Blocks go only between operations: deleted, or
spoilt by the medium.

### InputStream, SlidingWindow and Chopper

`Reads` gives the possible outcomes of a `chop_stream_read`. The anchor-based
chopper's `window` is the pair of half buffers with the offset into it, `start`
where the current block starts, `fpr` and `prevFirstChar` the rolling
fingerprint. `Scan` is one round of the search loop, `Reload` and
`ReadSlidingWindow` the refill (one action per read of the stream),
`Flush` the end of a block. Arithmetic is modulo `Word`, then masked to
`Modulus`, as in the C code.

### BlockServer, RpcTransport and RemoteStore

`local` is what the server's store holds, `disk` what a crash leaves of it.
`options.class` is the class of that store: GDBM and TDB write through, QDBM and
Berkeley DB buffer; only Berkeley DB reports a failing look-up or sync (the
others answer that the block does not exist, or return 0), and only Berkeley DB
takes an empty block for a missing one when it is read (`Found`).
`statics` are the lengths that remain in the handlers' static results. A request
is executed (`ServeRequest`) and answered (`SendReply`) in two steps, between
which the server may die. `net` holds the messages on their way; over TLS they
are delivered in order until the connection is lost, over UDP they may be lost,
late or repeated. A handshake may fail at either end: the server closes the
connection (`ServerHandshakeFails`), the client returns without closing its socket
(`GivesUp`), and the server waits on, until that process exits. `ByeReturns` is the
end of the blocking `gnutls_bye` of a close. `acked` and `synced` (what a client
was told), `unfounded` (results with no basis in the store during the call),
`unchecked` (a write went ahead because the collision check failed) and `hidden`
(a sync that wrote nothing was answered with success) are history variables. A client's next connection is accepted after the server has noticed
the end of the old one.

### BlockIndexer, DataBase, StoreStack and the tools

Contents are tuples with a kind and a size; hashes and ciphers are injective.
`disk[f]` is what a data base file holds, `cache[f]` what the process that has
it open sees (`DOMAIN cache` is the set of open files); classes that write
through (GDBM, TDB) keep the two equal, with the others a crash leaves any choice
of the updates. One process is taken to have a file open at a time; that is an
assumption about use, for TDB is opened with `TDB_NOLOCK` and Berkeley DB without
an environment. A look-up that fails is an error with Berkeley DB, and with the
other classes the answer that the block does not exist: `Told` is what the
statistics and the smart store may be told. `Layers`, `CloseReaches`,
`DestroyReaches` and `DestroyForgets` say which store of a stack closes which,
and `Closings` is the sequence of closings at the end of `main`. An `Archiver`
process indexes block after block, then the root, prints the tuple and leaves;
a restoring one fetches the root and then the data. `archived` records what was
printed by processes that exited with success, `lost` and `kept` whether an
error was hidden on the way or a QDBM handle forgotten with updates in memory,
`forms` whether the blocks of a file were written compressed, plain or both, and
`misread` how many existing blocks were counted as new. The integer indexer
starts from the identifier it is given. The tree is reduced to one key block, so
that every failed write is reported: `HashTree` and `TreeStream` are about larger
ones and the errors these discard.

## Runs

| Run | Bounds | Properties |
|---|---|---|
| `hash_tree` | 3 keys per block, ≤ 34 blocks, ≤ 3 failures, depths below 4 | `TypeOK`, `TreeLinks`, `InOrder`, `RootSpansInput`, `NoOrphans`, `Complete`, `Subsequence`, `AssertionMeansTooDeep`, `WrittenBeforeReset`, `Terminates` |
| `round_trip` | 3 keys per block, ≤ 9 blocks of 2 units, reads of 1 and 3, 1 failing write, 2 failing fetches | `ReadsInOrder`, `NeverRepeats`, `SuccessMeansProgress`, `RoundTrip`, `EveryReadReturns` |
| `smart_store` | 2 processes, 1 block of 2 units, any number of operations, 1 crash, 1 failing call | `TypeOK`, `QuiescentIntact`, `ReadIntact`, `OperationsReturn` |
| `filters` | 3 libraries, both directions; 1 key, blocks of 0 to 4 and streams of 0 to 7 units, input buffer of 3, a header that counts for 3, reads of 1, 3 and 4, 4 operations, 1 damaged block, 1 failing pull, 1 failing backend call | `TypeOK`, `NothingLeftBehind`, `WithinRequest`, `StreamFaithful`, `IsBlockStore`, `CallsReturn` |
| `choppers` | all inputs of up to 7 bytes over 3 letters, windows of 2, any number of failing reads | `TypeOK`, `NothingLost`, `FingerprintExact`, `ContentDefined`, `ChoppingEnds` |
| `remote` | 2 clients, servers with a Berkeley DB, QDBM or GDBM store and different checks, 1 key, 2 blocks of which one is empty, 4 calls, 1 fault of any kind | `TypeOK`, `CallsTakeEffect`, `SyncedSurvive`, `NeverReplaced`, `CallsReturn` |
| `archive` | 2 GDBM files, a Berkeley DB and a QDBM file, 2 documents, 4 indexers, 3 sets of proxies, with and without compression, 3 processes, 1 fault of any kind | `TypeOK`, `RestoreFaithful`, `SuccessLasts`, `ConvertComplete`, `StatsExact` |
| `hash_tree_ignored_error` | 4 blocks, 1 failure | `HandleSuffices`, violated |
| `hash_tree_two_per_block` | 2 keys per block, 2 blocks | `NoAssertionFails`, violated |
| `tree_end_after_error` | 3 blocks, 1 failing fetch | `EndMeansEnd`, violated |
| `fs_overwrite` | 2 writers of one key, 2 contents | `OverwritesBlock`, violated |
| `smart_after_crash` | 1 key, 2 operations, 1 crash | `SuccessMeansStored`, violated |

**Why the bounds are enough.** With `indexes_per_block` = 3 a block holds two
keys, the smallest number for which the tree has a branch; up to 16 blocks give
trees of up to four levels, with every combination of full and partly filled
levels at the flush and flushes that add a level. Longer inputs do not fit a
`DepthLimit` of 4 and reach the depth assertion, from 17 blocks on in the flush
and with 33 in the read loop. (The code's limit is 2^16.) Three failures can hit
the read loop, the recursion and the flush loop in one run. `round_trip` uses
requests smaller and larger than a block. `smart_store` has two processes
and no bound on what they do: a process may delete for ever what the other has
just made room for, and sub-directories are created, removed and created again
around every step of a write, delete or read. Two keys of one sub-directory, with
blocks of 2 and 1 units and four operations, were checked for safety as well. In
`filters` blocks are shorter than, and longer than, the input
and output buffers, and four operations let a filter fail, be used again and be
read back; reads of a stream are smaller than what a header counts for, equal to
it, and the smallest with which `size` never wraps around. With two full chunks and
a rest in the longest source, a read of 3 units does overrun its buffer after the
rest of a chunk was delivered, so the bound in `WithinRequest` is sharp. In
`choppers` seven bytes are three refills of a half window and every placement
of anchors; windows of three with inputs of up to eleven bytes over two letters
were checked as well. In `remote` one fault is enough for a repeated or late
call, a lost connection, a crash or a sync that fails, but not for two of them.
The code refreshes credentials twice, the run once.
`archive` has three processes: one that archives, one that disturbs (another
archive, a conversion, a crash) and one that restores; two documents have a block
twice or a weak key; blocks are written compressed by one archiver and plain by
another to the same file, with and without a smart store.

Deadlock is not checked: an indexer, chopper or stream that has come to its end
and processes that have used up their operations rightly stop.

**Fairness.** `HashTree!FairSpec` and the two conditions of `TreeRoundTrip` say
that a sequential C function that has been called goes on to its next
statement; nothing makes the caller read again. `SmartStore!FairSpec` says that
the kernel schedules every process, so that one inside an operation makes its
next system call unless it dies. An unbounded supply of deletes that empty the
sub-directory between each `mkdir` and `open` keeps a writer in its loop, and no
scheduling the code may count on excludes it: `OperationsReturn` says that
nothing else does, and promises nothing while the sub-directory is removed
infinitely often. `FilterClients!FairSpec` and `Chopper!FairSpec` again say that
a called function runs on (and that the indexer calls the chopper until the end);
nobody has to start an operation, and a medium may fail for ever: `ChoppingEnds`
excepts just that. `RemoteStore!Fairness` says that a running server's loop and
a client inside an operation go on; nothing makes the server restart, and
`CallsReturn` does not need it, because a death closes the connections and UDP
calls have a total timeout. Nothing makes a client in its handshake go on or
fail: the code has no timeout there, and one that stays silent does block the
server. `CallsReturn` says that every call returns unless some client is silent
in its handshake for ever. `archive` checks safety only.

**Violations.** Five statements of the documentation do not hold; the findings
in `PROJECT.json` quote them. (1) `chop_tree_index_blocks` ignores the error of
adding a handle to the tree, so it may succeed with a handle from which a block
is missing; `Subsequence` and `InOrder` say what is left in that case, and
`Complete` and `RootSpansInput` what holds when no such error occurs. (2) Two
keys per block make the tree grow without end. (3) When the fetch of
the top-level block fails, the next read may report the end of the stream
although nothing was delivered, because it looks at fields nobody has set;
`NeverRepeats` is what still holds. (4) A writer that
created the sub-directory does not truncate, so two contents written under one
key (as with the integer indexer) may mix; with content-addressed keys
`QuiescentIntact` holds. (5) A half-written block is never repaired through the
smart store.

**Refinement.** `FilterClients` instantiates `BlockStore` with `Blocks`, the
decoded content of the backend, and TLC checks `Abstract!Spec` on every step of
the filtered store: each step of a filter is a stutter, a write takes effect, with
the block it was given, when the backend's write returns 0, a read when it returns
0, damage is a removal between operations, and every operation that fails leaves
the abstract store as it was. `FilteredStoreIsBlockStore` proves the same for every value of the constants.

**Known defects that no violated run shows.** Met while modelling, and excepted
where they would make a property false:

* A truncated zlib or bzip2 block makes `chop_filter_through` flush for ever:
  `pull` returns 0 with no output (`src/filter-zip-push-pull.c:151-172`,
  `src/filters.c:144`), where `include/chop/filters.h:83-90` promises
  `CHOP_FILTER_EMPTY`. `CallsReturn` excepts damaged blocks.
* LZO's pull subtracts the 8 bytes of a header from the request without a check
  (`src/filter-lzo-unzip.c:156`): a read of at most 13 bytes from a decompressing
  stream may write past its caller's buffer. `WithinRequest` excepts it, and says
  that nothing else does.
* A file stream whose read fails returns success with no bytes
  (`src/stream-file.c:176-180`), where `include/chop/streams.h:57-59` promises an
  error code: the loops of the choppers (`src/chopper-fixed-size.c:135-149`) ask
  again, for ever when the medium goes on failing. `ChoppingEnds` promises nothing
  in that case only.
* A sync of the GDBM, TDB and QDBM stores drops the library's result and returns 0
  (`src/store-generic-db.c:220-228`). QDBM buffers, so a client may lose blocks it
  was told are synced; `SyncedSurvive` excepts this (`hidden`).
* A look-up that fails in these classes answers that the block does not exist
  (`src/store-generic-db.c:73-79`): the statistics count an existing block as new.
* Berkeley DB's read takes an empty block for a missing one
  (`src/store-bdb.c:388`), so the server's collision check does not protect it.
* The TLS client that fails its handshake does not close its socket
  (`src/store-sunrpc.c:352-360`), and the server has no timeout
  (`src/sunrpc-tls.c:363`): it serves nobody until that process exits.
* Keys do not depend on `--zip-blocks`: with the hash and CHK indexers an archive
  made with it, on a file that has the same block uncompressed, succeeds and cannot
  be restored with its own options, and the other way round.
* The server's reply to `blocks_exist` after a store error has the length of the
  last successful one and says that no block exists; a read of an empty block
  after another block makes the encoder copy from a null pointer
  (`utils/chop-block-server.c:411-418`), modelled as a crash; a write goes ahead
  when the read of the collision check fails (`:357-363`).
* Over UDP a restart of the server between a write and a sync goes unnoticed, so
  `SyncedSurvive` is about connections.
* The destructors of the GDBM, TDB and QDBM stores forget the handle before
  `store_dtor` closes the store (`src/store-gdbm.c:49-59`, `src/stores.c:46-66`),
  and the smart proxy's close does not close its backend
  (`src/store-smart.c:175-188`): by default `chop-archiver` never closes its
  files, although `src/stores.c:51` says "This guarantees that all stores are
  closed when they are destroyed." GDBM and TDB write through, QDBM loses blocks;
  `SuccessLasts` excepts this (`kept`).
* `chop-archiver` with an unknown block indexer class exits with success and has
  archived nothing (`utils/chop-archiver.c:236-249`); it ignores a failed write
  to the standard output (`:375`).
* The integer indexer numbers from 0, or the number it is given, in every process
  (`src/block-indexer-integer.c:351-392`) and so replaces blocks of earlier
  archives in the same file; `include/chop/block-indexers.h:149-152` calls a
  handle "sufficient to restore that block".
* The keys of `integer_blocks_exist` all point to one loop variable
  (`src/block-indexer-integer.c:263`); no tool calls it.
* The iterator of the data base stores takes an error for the end
  (`src/store-generic-db.c:183-212`), and `chop-store-convert` looks at no close
  (`utils/chop-store-convert.c:263-264`): a partial copy may succeed.

### Sensitivity

Each property has been seen to fail on a variant of the model with a plausible
mistake. The variants are the `Faulty...` definitions next to the ones they
replace; no specification uses them.

| Variant | Mistake | Property that notices |
|---|---|---|
| `FaultyAddReturns` | the flush loop skips a parent | `TypeOK` |
| `FaultyInodeOf` | wrong depth in a parent's header | `TreeLinks` |
| `FaultyAppendIndex` | `chop_key_block_reinit` forgotten | `InOrder`, `Subsequence` |
| `FaultyFlushLevel` | a flushed block's handle is not added to its parent | `RootSpansInput`, `NoOrphans` |
| `FaultyEndOfStream` | the flush starts one level too high | `Complete` |
| `FaultyFull` | a block is full one key too early | `AssertionMeansTooDeep`, `Terminates` |
| `FaultyFlushFullBlockFails` | a block is reset although its write failed | `WrittenBeforeReset` |
| `FaultyExhausted` | the last child is skipped | `ReadsInOrder` |
| `FaultyConsume` | the offset is not advanced | `NeverRepeats` |
| `FaultyConsumeTwice` | the offset is advanced twice | `RoundTrip` |
| `FaultyStreamEnd` | the end is always left to the next call | `SuccessMeansProgress` |
| `FaultyClimb` | the parent is not asked | `EveryReadReturns` |
| `FaultyReturn` | the file is not closed | `SmartStore!TypeOK` |
| `FaultyWriteDone` | a short write is taken for complete | `QuiescentIntact` |
| `FaultyReadUnit` | the first unit is read twice | `ReadIntact` |
| `FaultyMakeDir` | the sub-directory is not created where needed | `OperationsReturn` |
| `FaultyZipPush` | the room for a push is computed without the pending input | `FilterClients!TypeOK` |
| `FaultyAfterProcess` | the library is not reset after a flush | `NothingLeftBehind` |
| `FaultyLzoDelivers` | all of LZO's output is delivered whatever was asked for | `WithinRequest` |
| `FaultyStreamReturns` | the end is reported with the last bytes, which are dropped | `StreamFaithful` |
| `FaultyThroughEnds` | an error of the filter is taken for the end of the block | `IsBlockStore` |
| `FaultyEmptyUnless` | an empty filter is not reported | `FilterClients!CallsReturn` |
| `UnmaskedNextFingerprint` | the modulus is forgotten | `Chopper!TypeOK` |
| `FaultySkip` | the offset is reset, not reduced, when a half is left | `NothingLost` |
| `FaultyNextFingerprint` | the leaving byte is weighted with the wrong power | `FingerprintExact` |
| `FaultyDestBuffer` | the offset is reset when a half is given up | `ContentDefined` |
| `FaultyMemStreamRead` | the end of the stream is not announced | `ChoppingEnds` |
| `FaultyIdle` | a connection is accepted during a handshake | `RemoteStore!TypeOK` |
| `FaultyMatches` | the transaction id of a reply is not compared | `CallsTakeEffect` |
| `FaultyHandleSync` | the error of the Berkeley DB store's sync is dropped | `SyncedSurvive` |
| `FaultyHandleWriteBlock` | no collision check | `NeverReplaced` |
| `FaultyReap` | the server does not notice that a client said bye | `RemoteStore!CallsReturn` |
| `FaultyOpened` | only one of the files is opened | `ArchiveTools!TypeOK` |
| `FaultyInitFetcher` | the fetcher is not told the hash method | `RestoreFaithful` |
| `FaultyIndexFails` | a write that failed is taken for done | `SuccessLasts` |
| `FaultyVisited` | the iterator stops after the first key | `ConvertComplete` |
| `FaultyStackWrites` | existence is asked after the write: no block is ever counted as new | `StatsExact` |

## Proofs

The theorems hold for every value of the constants that satisfies the named
assumptions of the modules; the bounds of the runs (`MaxFailures`, `MaxBlocks`,
`MaxOps`, ...) are constants of unknown value in them. Each safety theorem rests
on an inductive invariant, proved action by action.

| Theorem | States | Module |
|---|---|---|
| `TypeCorrect`, `LinksCorrect` | `TypeOK`, `TreeLinks` | `HashTreeProofs` |
| `InOrderCorrect`, `RootSpansInputCorrect` | `InOrder`, `RootSpansInput` | `HashTreeProofs` |
| `WrittenBeforeResetCorrect` | `WrittenBeforeReset` (action property) | `HashTreeProofs` |
| `NoOrphansCorrect`, `AssertionMeansTooDeepCorrect` | `NoOrphans`, `AssertionMeansTooDeep` | `HashTreeProofs` |
| `CompleteCorrect`, `SubsequenceCorrect` | `Complete`, `Subsequence` | `HashTreeProofs` |
| `ReadsNeverRepeat`, `ReadsProgress`, `RoundTripCorrect` | `NeverRepeats`, `SuccessMeansProgress`, `RoundTrip` | `TreeStreamProofs` |
| `ReadsInOrderCorrect` | `ReadsInOrder` | `TreeStreamProofs` |
| `SmartTypeCorrect`, `BlocksIntact`, `ReadsIntact` | `TypeOK`, `QuiescentIntact`, `ReadIntact` | `SmartStoreProofs` |
| `RemoteTypeCorrect`, `RepliesFounded`, `SyncedOutlivesServer`, `NoReplacement` | `TypeOK`, `CallsTakeEffect`, `SyncedSurvive`, `NeverReplaced` (action property) | `RemoteStoreProofs` |
| `FilterTypeCorrect`, `NothingLeftBehindCorrect` | `TypeOK`, `NothingLeftBehind` | `FilterProofs` |
| `WithinRequestCorrect`, `StreamFaithfulCorrect` | `WithinRequest`, `StreamFaithful` | `FilterProofs` |
| `FilteredStoreIsBlockStore` | `IsBlockStore` (refinement) | `FilterProofs` |
| `ChopperTypeCorrect`, `NothingIsLost` | `TypeOK`, `NothingLost` | `ChopperProofs` |
| `FingerprintIsExact`, `ContentDefinesBlocks` | `FingerprintExact`, `ContentDefined` | `ChopperProofs` |
| `ArchiveTypeCorrect`, `StatsExactCorrect`, `ConvertCompleteCorrect` | `TypeOK`, `StatsExact`, `ConvertComplete` | `ArchiveProofs` |
| `RestoreFaithfulCorrect`, `SuccessLastsCorrect` | `RestoreFaithful`, `SuccessLasts` | `ArchiveProofs` |

**Induction.** The library's induction theorems take an operator, which the
provers cannot instantiate. `SetInduction` proves induction over the natural
numbers in the form "a set with 0 that is closed under successor contains every
number" (from the theorem that an injection of a finite set into itself is
onto), and the strong form. With it, the recursive functions the properties use
(`Leaves`, `FlattenSeq`, `Capacity`, the fingerprint of a window, the cuts of an
input) are first shown to have a solution and then reasoned about by induction.

**Tree indexer, write side** (`IndexesPerBlock` ≥ 2, `DepthLimit` ≥ 1).

* `Shape`: `TypeOK` and `TreeLinks` are not inductive: a key block is well
  formed when written because the *pending* block it is written from is.
  `Shape` adds that every pending level has fewer keys than `IndexesPerBlock`,
  that every key of level `l` and every handle carried by the recursion refers
  to something one level below, and that the levels the recursion has passed
  are full, hence not empty.
* `IInv` relates spans. In every pending level the spans of the keys are
  increasing; each level starts no earlier than the one above it ends; the
  handles on the recursion stack continue the levels they are about to enter;
  and, unless an error was discarded, "no earlier" is "exactly".
* `WInv` says that each level the recursion passed, and each level below the
  flush cursor, has a stored inode with exactly its keys. It implies the action
  property `WrittenBeforeReset`.
* `OrphanInv` adds where the handle of every stored block is: in a stored
  parent, in the pending one or on its way to it (`Placed`). That there is only
  one parent is a matter of spans: the blocks of a level do not overlap
  (`Disjoint`), because what was written of a level lies before what is pending
  there (`Behind`), and a block lies within its parents.
* `DepthInv` says why a tree is never too tall. A block that the recursion
  writes is full of handles of full blocks, so one of depth d spans at least
  (`IndexesPerBlock` - 1)^(d+1) input blocks (`HeavyLevels`, `HeavyCarried`); the
  flush adds handles of partly filled blocks, but only to the level it comes to
  next, never above its cursor. So a level exists only if the input did not fit
  below it.
* `TreeInv` (`IInv`, and that a stored block's span is that of its keys) and
  strong induction over the order of writing give what the leaves of a stored
  block are: increasing numbers within its span (`LeavesOrdered`), and without a
  discarded error the whole span (`LeavesInterval`). `Subsequence` and `Complete`
  are these for the returned handle.

**Tree indexer, read side** (`BlockSize` ≥ 1, requests of any size). `ReadInv`
is `TreeInv` with, for each decoded block of the stream, that what it spans ends
where the keys its parent has consumed end (`Pair`): it was loaded from the key
its parent consumed last, or is used up and about to be reloaded. After a failed
fetch it may end earlier (`Precise`): the parent has advanced, the child has not,
and what results is a gap. The units delivered are increasing and lie up to the
current one; without an error they are all of them (`DeliveredGood`), and the end
is reported only when every level is exhausted, which is the end of the root's
span, by `RootSpansInput` that of the input.

`ReadsInOrder` also speaks of trees with gaps, left by an error the indexer
discarded, where spans do not say which block comes next. `LeafInv` adds what the
leaves say, as long as no read failed: a decoded block has all leaves of the tree
within its span (`Inside`); no leaf lies between the data block and the place the
search for the next one has come to, at any level (`Searched`); and if the data
block is the k-th leaf, what was delivered is the first k-1 blocks of the content
and the part of the k-th that was copied (`Located`, `Begins`). So the next data
block loaded is the next leaf, and when the root is exhausted there is none.

**File system and smart store** (`ContentAddressed`: a key admits one content).
A file no writer damaged is not right at every moment, so `QuiescentIntact` is
not inductive. `SmartInv` says that each unit of a file is right *or some process
that has it open for writing has still to come to it* (`RightOrPending`), that no
file serves two keys, also when it was deleted while open, and that a reader that
met no writer has read a prefix of the content (`ReadsPrefix`). Without
`ContentAddressed` the result is false: run `fs_overwrite`.

**Remote store** (finitely many keys; `None` is neither a block nor a client). A
request that is late or repeated is executed outside the call that sent it, so
what matters is which messages can still be taken: `NetInv` and `ServingInv` say
that a reply on its way, or about to be sent, *whose transaction id is that of
the call its client is waiting in* is justified by what the store held during
that call. Others may say anything. `AckedInv`, `DiskInv` and `SyncedInv` carry a
write from the acknowledgement through the sync to the medium; they hold as long
as the connection does, which is why a restart is harmless. They hold unless a
QDBM store has hidden a failing sync: a store that writes through has nothing in
memory that is not on the medium, and Berkeley DB reports. `NeverReplaced` needs of
this only the server's handlers; it speaks of what reading *finds*, which an empty
block of a Berkeley DB store is not.

**Filters and their clients** (blocks and sources are any sequences of plain
units; requests of a stream have any size up to `SizeMax`; the buffer of
`chop_filter_through`, 1024 bytes in the code, holds at least two headers less
two; the input buffer is no smaller than a header and smaller than `SizeMax`; only
blocks of zlib and bzip2 are damaged). None of the properties is inductive: they speak of the
moments when a call has returned, and hold because of what every step before did
to the library, the input buffer, the fault handler and the output. `FilterInv`
follows one session of a filter, from the first push to the flush that reports an
empty filter:

* what the library consumed, what is in the buffer and what the fault handler has
  still to give are, in this order, the client's input; what came out, with what
  the library or the LZO filter holds back, is the start of its image (`Zipping`,
  `LzoZips`), or of the text of which the input is the image (`Unzipping`,
  `LzoUnzips`). `Compresses`, `Decompresses` and `Restores` say so of the current
  call of either client;
* LZO cuts its input where a chunk is full, so only the last chunk may be short
  (`Multiple`): where the chunks end depends on the text and not on the requests;
* a filter that was told to flush gets no more input (`Drained`, `Flushed`), so
  the call that says "empty" leaves the whole image with the client and a filter as
  good as new (`Ended`, `Clean`). This gives `NothingLeftBehind`, and the ends of
  `StreamFaithful`;
* a request that is not `Short` never wraps around, because where a header may come
  either the call has met none before, so that more than half of the request is left,
  or a full chunk came before it (`Ample`, `SizesFit`). A short one may end in
  `Overrun`, where the properties still hold and nothing follows: what is invariant
  is `FiltersSafe`, which is `FilterInv` or `Overrun`;
* a damaged block of zlib or bzip2 leaves an inflate state that fails for ever
  (`Dead`), possible only after an operation has failed (`Rested`).

For the refinement, `BackendInv` says that whatever is under a key is the image of
a block, possibly damaged (`Stems`). Images are injective (`LzoInjective`, by
induction over chunks), and a damaged image whose end mark agrees with its content
is whole (`WholeStem`). While a write is under way, what came out of the filter is
the start of the image of the block it was given, and all of it at the end: so the
abstract store gets that block and no other. A read that returns 0 returned the one
block that the abstract store has under the key, and every other step of a filter
leaves the abstract state alone.

**Choppers** (inputs of any length over numbers; `Modulus` divides `Word`, and
the mask `Modulus`). `ChopInv` accounts for every byte: the two halves of the
window and the bytes of a refill that is under way are consecutive bytes of the
input (`ContentInv`), the blocks returned and the buffer are what comes before
(`AccountInv`), and only the last half loaded may be short, when nothing is left
to read (`HalvesInv`). `FprInv` adds that the rolling fingerprint is congruent to
the fingerprint computed from scratch. The code computes modulo the word size
and then masks, which is exact because the modulus divides the word. `CutInv`
says that the current block starts at a cut that the input defines and that no
position since then is an anchor; so a match is the next cut, wherever the halves
of the window lie. These two theorems assume `WindowSize` ≥ 2: with a window of
one byte `sliding_window_dest_buffer` (`offset %= window_size`) examines the last
byte of a half twice, and the statement is false. The code's windows have 48
bytes by default.

**Archiver and store converter** (documents of any length, any files, options and
number of processes). `ToolInv` is about shapes: which record a process has at
each point, which files are open, and `DbInv`: memory holds every key of the disk.
`StatsInv` and `ConvertInv` add what has been counted and copied so far.
`RestoreFaithful` and `SuccessLasts` speak of processes that ended long ago, so
`WholeInv` keeps, for every record in `archived`, the list of its data handles,
and says what each file holds under each of them: the block itself, nothing, or
for the hash and CHK indexers possibly something that fails the check
(`RecordsGood`). While a document is indexed the same is said of the blocks
written so far (`ArchiveInv`); `CopyInv` and `FreshInv` say why a conversion, or a
new UUID or number, does not disturb older records. `RestoreInv` then follows a
restore along these handles. For `SuccessLasts`, `EndsInv` says that the closings
still to come reach every open file, and `ContentInv` that an undamaged file in
which blocks of one form only were put has under a hash what was hashed, in that
form. `StatsInv` counts the existing blocks that a silent look-up made new. The
theorems assume `FitsIdentifiers` (the last two only): a document has fewer blocks
than there are integer identifiers (2^32 in the code), for the counter of the
integer indexer wraps silently. Nothing is assumed of classes, filters and proxies:
what QDBM and the mixture of compressed and plain blocks lose is excepted by name in
`SuccessLasts`.

**Only model-checked.**

* All liveness properties: the prover has neither fairness nor `ENABLED`.

## Not modelled

* Allocation failures, and malformed texts or key blocks, everywhere.
* The iterators of the file system store.
* The buffer pool: a sequential cache; all modules take a buffer as its content.
* The D-Bus store, which does not compile (`DBUS_TYPE_INaVALID` in its
  `blocks_exist`), and its server, which implements one method of the protocol.
* `blocks_exist` of the block indexers, `delete_block` of the data base stores
  (no tool calls them), and their failing opens. Processes that use one data base
  file at the same time: only GDBM locks it.
* The archiver over a remote store and with an input filter; `remote` and
  `filters` have these parts on their own. The two tools that only print.
* Avahi, Guile bindings, class registration, base32, logs: calls of other
  libraries or conversions without control of their own.
* After a damaged zlib block the inflate state stays bad, and later reads fail;
  that is in the model. Damage that LZO cannot notice (it has no end mark) is
  not: `Fragile` names the libraries whose blocks are damaged.

`PROJECT.json` gives the status and the reason component by component.

## Plan

1. *(done)* Tree indexer, both sides; file system store with the smart proxy;
   proofs about the write side.
2. *(done)* Filters with their two clients and the abstract block store;
   choppers; remote store, transport and block server; block indexers, data base
   stores, proxies and the two tools.
3. *(done)* Proofs about the tree indexer, both sides; the file system store with
   the smart proxy; the remote store; the choppers; the archiver and the converter;
   the filters with their clients, and the refinement of `BlockStore`.
4. The iterators of the file system store, with `chop-store-convert` over it;
   fetches rejected by the indexer below `TreeStream`.
