--------------------------- MODULE FilteredStore ---------------------------
(***************************************************************************)
(* The filtered block store (store-filtered.c) and chop_filter_through     *)
(* (filters.c): a block is compressed by the input filter before it goes   *)
(* to the backend store, and decompressed by the output filter on its way  *)
(* back.  The two filters live as long as the store: what a call leaves in *)
(* them meets the next block.                                              *)
(***************************************************************************)
EXTENDS Filter

CONSTANTS
    Key, Block,     \* Block: contents, sequences of plain units
    None,           \* no block
    OutputSize,     \* the 1024 bytes chop_filter_through pulls at a time
    Fragile,        \* libraries whose blocks get damaged; LZO's carry no checksum
    MaxOps,         \* bound: operations on the store
    MaxDamage,      \* bound: blocks damaged
    MaxBackend      \* bound: backend operations that fail

ASSUME FilteredStoreAssumption ==
    /\ Block \subseteq Seq(PlainUnit) /\ None \notin Seq(Unit)
    /\ OutputSize \in (2 * HeaderSize - 2)..SizeMax
    /\ Fragile \subseteq Stream
    /\ MaxOps \in Nat /\ MaxDamage \in Nat /\ MaxBackend \in Nat

VARIABLES
    backend,    \* backend[k]: the units stored under k, or None
    op,         \* the operation the filters are working for
    through,    \* the local variables of chop_filter_through
    ret,        \* the operation that returned last, and whether it returned 0
    failed,     \* some operation returned an error
    ops, damage, backendErrors

storeVars == <<backend, op, through, ret, failed, ops, damage, backendErrors>>

(* block: what the write was given, or what the read has returned. *)
NoOp == [name |-> "none", key |-> None, block |-> None]

StoreInit ==
    /\ backend = [k \in Key |-> None]
    /\ op = NoOp
    /\ through = [flush |-> FALSE, out |-> <<>>]
    /\ ret = [op |-> NoOp, ok |-> TRUE] /\ failed = FALSE
    /\ ops = 0 /\ damage = 0 /\ backendErrors = 0

(* The backend as BlockStore sees it: what each block decodes to. *)
Decoded(c) ==
    IF \E b \in Block : c = Image(lib, b, InputSize)
    THEN CHOOSE b \in Block : c = Image(lib, b, InputSize) ELSE None

Blocks == [k \in Key |-> IF backend[k] = None THEN None ELSE Decoded(backend[k])]

-----------------------------------------------------------------------------
(* chop_filter_set_input_from_buffer, and the first pull. *)
FilterThrough(d, input) ==
    /\ handler' = "buffer" /\ src' = input
    /\ through' = [flush |-> FALSE, out |-> <<>>]
    /\ Start(d, FALSE, OutputSize)

WriteBlock(k, b) ==
    /\ pc = "idle" /\ ops < MaxOps
    /\ op' = [name |-> "write", key |-> k, block |-> b]
    /\ FilterThrough("zip", b)
    /\ ops' = ops + 1
    /\ UNCHANGED <<lib, filt, errors, backend, ret, failed, damage, backendErrors>>

ReadBlock(k) ==
    /\ pc = "idle" /\ ops < MaxOps /\ backend[k] # None
    /\ op' = [name |-> "read", key |-> k, block |-> None]
    /\ FilterThrough("unzip", backend[k])
    /\ ops' = ops + 1
    /\ UNCHANGED <<lib, filt, errors, backend, ret, failed, damage, backendErrors>>

(* The backend has no such block, or its read fails. *)
ReadBackendFails(k) ==
    /\ pc = "idle" /\ ops < MaxOps /\ backendErrors < MaxBackend
    /\ failed' = TRUE
    /\ ret' = [op |-> [name |-> "read", key |-> k, block |-> None], ok |-> FALSE]
    /\ ops' = ops + 1 /\ backendErrors' = backendErrors + 1
    /\ UNCHANGED <<filterVars, backend, op, through, damage>>

DeleteBlock(k) ==
    /\ pc = "idle" /\ ops < MaxOps /\ backend[k] # None
    /\ backend' = [backend EXCEPT ![k] = None]
    /\ ops' = ops + 1
    /\ UNCHANGED <<filterVars, op, through, ret, failed, damage, backendErrors>>

(* A pull of chop_filter_through returned 0, or CHOP_FILTER_EMPTY for the  *)
(* first time: what it pulled is appended, and from an empty filter on     *)
(* everything is flushed.                                                  *)
ThroughContinues ==
    /\ pc = "pulled" /\ op # NoOp
    /\ call.err = "ok" \/ (call.err = "empty" /\ ~through.flush)
    /\ through' = [flush |-> through.flush \/ call.err = "empty",
                   out   |-> through.out \o call.out]
    /\ Start(call.dir, through'.flush, OutputSize)
    /\ UNCHANGED <<lib, filt, src, handler, errors,
                   backend, op, ret, failed, ops, damage, backendErrors>>

(* The loop ends, the previous handler is back, and the store goes on:     *)
(* chop_filtered_block_store_write_block hands the result to the backend   *)
(* if the filter did not fail, read_block returns it.                      *)
Restored == /\ handler' = "none" /\ src' = <<>> /\ pc' = "idle"
            /\ op' = NoOp /\ call' = NoCall
            /\ through' = [flush |-> FALSE, out |-> <<>>]

(* The operation with the block that went through. *)
Completed == IF op.name = "read" THEN [op EXCEPT !.block = through.out] ELSE op

FaultyThroughEnds ==
    /\ pc = "pulled" /\ op # NoOp
    /\ call.err = "filter_error" \/ (call.err = "empty" /\ through.flush)
    /\ backend' = IF op.name = "write"
                  THEN [backend EXCEPT ![op.key] = through.out] ELSE backend
    /\ ret' = [op |-> Completed, ok |-> TRUE]
    /\ Restored
    /\ UNCHANGED <<lib, filt, errors, failed, ops, damage, backendErrors>>

ThroughEnds ==
    /\ pc = "pulled" /\ op # NoOp
    /\ call.err = "empty" /\ through.flush
    /\ \E fails \in BOOLEAN :
          /\ fails => op.name = "write" /\ backendErrors < MaxBackend
          /\ backend' = IF op.name = "write" /\ ~fails
                        THEN [backend EXCEPT ![op.key] = through.out] ELSE backend
          /\ backendErrors' = IF fails THEN backendErrors + 1 ELSE backendErrors
          /\ failed' = (failed \/ fails)
          /\ ret' = [op |-> Completed, ok |-> ~fails]
    /\ Restored
    /\ UNCHANGED <<lib, filt, errors, ops, damage>>

(* The filter failed: its state is left as it is. *)
ThroughFails ==
    /\ pc = "pulled" /\ op # NoOp
    /\ call.err \notin {"ok", "empty"}
    /\ failed' = TRUE
    /\ ret' = [op |-> op, ok |-> FALSE]
    /\ Restored
    /\ UNCHANGED <<lib, filt, errors, backend, ops, damage, backendErrors>>

(* What the medium may do to a block: lose its tail, change a unit, grow.  *)
Damaged(c) ==
    {SubSeq(c, 1, n) : n \in 0..(Len(c) - 1)}
    \cup {[c EXCEPT ![i] = Noise] : i \in 1..Len(c)}
    \cup {Append(c, Noise)}

DamageBlock(k) ==
    /\ pc = "idle" /\ damage < MaxDamage /\ lib \in Fragile /\ Blocks[k] # None
    /\ \E c \in Damaged(backend[k]) : backend' = [backend EXCEPT ![k] = c]
    /\ damage' = damage + 1
    /\ UNCHANGED <<filterVars, op, through, ret, failed, ops, backendErrors>>

StoreStep == ThroughContinues \/ ThroughEnds \/ ThroughFails

StoreNext ==
    \/ \E k \in Key : \/ \E b \in Block : WriteBlock(k, b)
                      \/ ReadBlock(k) \/ ReadBackendFails(k)
                      \/ DeleteBlock(k) \/ DamageBlock(k)
    \/ StoreStep
=============================================================================
