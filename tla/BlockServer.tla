----------------------------- MODULE BlockServer -----------------------------
(***************************************************************************)
(* The block server (utils/chop-block-server.c): one thread that answers   *)
(* the six procedures of the block store program from a local store.  The  *)
(* handlers return pointers to static results, so that what one reply      *)
(* leaves in them is seen by the next.  The local store is a data base     *)
(* file.  GDBM and TDB hand what is written to the system at once; QDBM    *)
(* and Berkeley DB keep it in the process, whose crash loses what was not  *)
(* synchronised yet.  A signal closes the store first.                     *)
(***************************************************************************)
EXTENDS Naturals, FiniteSets

CONSTANTS
    Key, Block,
    Empty,          \* the block of no bytes
    None,           \* no block
    HashKey,        \* HashKey[b]: the key that is the hash of b
    Options,        \* how the server may be started
    Client,
    MaxFaults       \* bound: things that go wrong, of all kinds together

ASSUME BlockServerAssumption ==
    /\ IsFiniteSet(Key)
    /\ Empty \in Block /\ None \notin Block \cup Client
    /\ DOMAIN HashKey = Block
    /\ Options \subseteq [collision : BOOLEAN, hash : BOOLEAN,
                          class : {"gdbm", "tdb", "qdbm", "bdb"}]
    /\ MaxFaults \in Nat

VARIABLES
    options,    \* --no-collision-check (negated), --enforce-hash and --db-type
    server,     \* "up" or "down"
    local,      \* local_store: what a read of the local store finds
    disk,       \* what is found after a crash
    statics,    \* lengths left in the static results of two handlers
    serving,    \* the request executed and not answered yet
    unchecked,  \* a write went ahead after a failed collision check
    hidden,     \* a sync that wrote nothing was answered with success
    faults

serverVars == <<options, server, local, disk, statics, serving, unchecked, hidden, faults>>

NoRequest == [client |-> None]

FreshStatics == [exists |-> 0, read |-> 0]

ServerInit ==
    /\ options \in Options
    /\ server = "up"
    /\ local = [k \in Key |-> None] /\ disk = local
    /\ statics = FreshStatics
    /\ serving = NoRequest
    /\ unchecked = FALSE /\ hidden = FALSE /\ faults = 0

(* Something goes wrong, or nothing does. *)
Fault == faults < MaxFaults /\ faults' = faults + 1
NoFault == UNCHANGED faults

(* What the handler's pointer refers to, kept for svc_sendreply: a status  *)
(* ("ok" for the value that means success), and what READ_BLOCK and        *)
(* BLOCKS_EXIST return.                                                    *)
Result(status) == [status |-> status, block |-> None, len |-> 0, yes |-> {}]

(* What the local store's read_block finds: the Berkeley DB store takes an *)
(* empty block for a missing one.                                          *)
Found(k) == IF options.class = "bdb" /\ local[k] = Empty THEN None ELSE local[k]

WritesThrough == options.class \in {"gdbm", "tdb"}

Put(k, b) ==
    /\ local' = [local EXCEPT ![k] = b]
    /\ disk' = IF WritesThrough THEN [disk EXCEPT ![k] = b] ELSE disk

Done(m, result) == serving' = [client |-> m.client, xid |-> m.xid, result |-> result]

-----------------------------------------------------------------------------
(* handle_say_hello never refuses. *)
HandleSayHello(m) ==
    /\ Done(m, Result("ok"))
    /\ NoFault /\ UNCHANGED <<local, disk, statics, unchecked, hidden>>

(* The length of the static result is only set when the store answers:     *)
(* after an error the reply has the length of the last one that succeeded, *)
(* and says that no block exists.  Only the Berkeley DB store returns an   *)
(* error: with the others a look-up that fails reads as absent.            *)
HandleBlocksExist(m) ==
    /\ \/ /\ NoFault
          /\ statics' = [statics EXCEPT !.exists = Cardinality(m.args.keys)]
          /\ Done(m, [Result("ok") EXCEPT !.len = Cardinality(m.args.keys),
                                       !.yes = {k \in m.args.keys : local[k] # None}])
       \/ /\ options.class = "bdb" /\ Fault
          /\ Done(m, [Result("ok") EXCEPT !.len = statics.exists])
          /\ UNCHANGED statics
       \/ /\ options.class # "bdb" /\ Fault
          /\ statics' = [statics EXCEPT !.exists = Cardinality(m.args.keys)]
          /\ Done(m, [Result("ok") EXCEPT !.len = Cardinality(m.args.keys)])
    /\ UNCHANGED <<local, disk, unchecked, hidden>>

IsValidHashKey(k, b) == options.hash => HashKey[b] = k

StoreWrite(m) ==
    \/ NoFault /\ Put(m.args.key, m.args.block) /\ Done(m, Result("ok"))
    \/ Fault /\ UNCHANGED <<local, disk>> /\ Done(m, Result("error"))

FaultyHandleWriteBlock(m) ==
    /\ IF ~IsValidHashKey(m.args.key, m.args.block)
       THEN Done(m, Result("error")) /\ NoFault /\ UNCHANGED <<local, disk, unchecked>>
       ELSE StoreWrite(m) /\ UNCHANGED unchecked
    /\ UNCHANGED <<statics, hidden>>

(* A key that is not the block's hash is refused; so is a block that       *)
(* differs from the one stored under the key, and the same block is not    *)
(* written again.  When the store cannot be read, the write goes ahead.    *)
HandleWriteBlock(m) ==
    /\ IF ~IsValidHashKey(m.args.key, m.args.block)
       THEN Done(m, Result("error")) /\ NoFault /\ UNCHANGED <<local, disk, unchecked>>
       ELSE \/ /\ ~options.collision \/ Found(m.args.key) = None
               /\ StoreWrite(m) /\ UNCHANGED unchecked
            \/ /\ options.collision /\ Found(m.args.key) # None
               /\ Done(m, Result(IF Found(m.args.key) = m.args.block THEN "ok"
                                                                   ELSE "error"))
               /\ NoFault /\ UNCHANGED <<local, disk, unchecked>>
            \/ /\ options.collision /\ Fault
               /\ Put(m.args.key, m.args.block)
               /\ unchecked' = TRUE
               /\ Done(m, Result("ok"))
    /\ UNCHANGED <<statics, hidden>>

(* The length is set with a block of one byte or more and by a failure; an *)
(* empty block comes with the length of the reply before it.               *)
HandleReadBlock(m) ==
    LET b == Found(m.args.key) IN
    /\ \/ /\ b = None /\ NoFault
          /\ statics' = [statics EXCEPT !.read = 0] /\ Done(m, Result("error"))
       \/ /\ Fault
          /\ statics' = [statics EXCEPT !.read = 0] /\ Done(m, Result("error"))
       \/ /\ b \notin {None, Empty} /\ NoFault
          /\ statics' = [statics EXCEPT !.read = 1]
          /\ Done(m, [Result("ok") EXCEPT !.block = b, !.len = 1])
       \/ /\ b = Empty /\ NoFault
          /\ Done(m, [Result("ok") EXCEPT !.block = Empty, !.len = statics.read])
          /\ UNCHANGED statics
    /\ UNCHANGED <<local, disk, unchecked, hidden>>

(* The Berkeley DB store reports that the library could not write.  With   *)
(* the others DB_SYNC_METHOD drops its result and returns 0.               *)
ReportsSync == options.class = "bdb"

FaultyHandleSync(m) ==
    /\ \/ NoFault /\ disk' = local /\ UNCHANGED hidden
       \/ Fault /\ UNCHANGED disk /\ hidden' = (hidden \/ (~ReportsSync /\ disk # local))
    /\ Done(m, Result("ok"))
    /\ UNCHANGED <<local, statics, unchecked>>

(* handle_sync, and handle_close, which never closes the store.            *)
HandleSync(m) ==
    /\ \/ NoFault /\ disk' = local /\ Done(m, Result("ok")) /\ UNCHANGED hidden
       \/ /\ ReportsSync /\ Fault
          /\ Done(m, Result("error")) /\ UNCHANGED <<disk, hidden>>
       \/ /\ ~ReportsSync /\ Fault
          /\ hidden' = (hidden \/ disk # local)
          /\ Done(m, Result("ok")) /\ UNCHANGED disk
    /\ UNCHANGED <<local, statics, unchecked>>

(* chop_block_server_process_request, generated from block_rstore.x: it    *)
(* dispatches on the procedure, or reports that it could not decode the    *)
(* arguments without calling a handler.                                    *)
Undecodable(m) ==
    /\ Fault /\ Done(m, Result("undecoded"))
    /\ UNCHANGED <<local, disk, statics, unchecked, hidden>>

ProcessRequest(m) ==
    /\ server = "up" /\ serving = NoRequest
    /\ \/ m.args.proc = "hello" /\ HandleSayHello(m)
       \/ m.args.proc = "exists" /\ HandleBlocksExist(m)
       \/ m.args.proc = "write" /\ HandleWriteBlock(m)
       \/ m.args.proc = "read" /\ HandleReadBlock(m)
       \/ m.args.proc \in {"sync", "close"} /\ HandleSync(m)
       \/ m.args.proc \notin {"sync", "close"} /\ Undecodable(m)
    /\ UNCHANGED <<options, server>>

(* xdr_bytes copies from a null pointer when the length says so. *)
Encodes(result) == ~(result.block = Empty /\ result.len > 0)

-----------------------------------------------------------------------------
(* The end of the server process.  signal_handler jumps out of svc_run     *)
(* from wherever it is, and terminate closes the store, which writes what  *)
(* is left, or fails to; a crash writes nothing.                           *)
Stopped ==
    /\ server' = "down" /\ serving' = NoRequest
    /\ statics' = FreshStatics
    /\ UNCHANGED <<options, unchecked, hidden>>

Signal ==
    /\ server = "up" /\ Fault
    /\ \/ disk' = local /\ UNCHANGED local
       \/ local' = disk /\ UNCHANGED disk
    /\ Stopped

Crash ==
    /\ server = "up" /\ Fault
    /\ local' = disk /\ UNCHANGED disk
    /\ Stopped

EncodeCrash ==
    /\ serving # NoRequest /\ ~Encodes(serving.result)
    /\ local' = disk /\ UNCHANGED <<disk, faults>>
    /\ Stopped

(* main: the store is opened and the handlers registered anew. *)
Restart ==
    /\ server = "down" /\ server' = "up"
    /\ UNCHANGED <<options, local, disk, statics, serving, unchecked, hidden, faults>>

(* A store that buffers writes a block to the medium when it sees fit. *)
WriteBack(k) ==
    /\ server = "up" /\ disk[k] # local[k]
    /\ disk' = [disk EXCEPT ![k] = local[k]]
    /\ UNCHANGED <<options, server, local, statics, serving, unchecked, hidden, faults>>
=============================================================================
