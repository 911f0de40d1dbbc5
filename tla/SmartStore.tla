----------------------------- MODULE SmartStore -----------------------------
(***************************************************************************)
(* The smart proxy (src/src/store-smart.c) over the file system store:     *)
(* write_block first asks the backend whether the block exists and only    *)
(* writes it if it does not; every other operation is forwarded.  Some     *)
(* processes use the proxy and others the store itself, as they would when *)
(* chop-archiver and chop-block-server share a directory.                  *)
(***************************************************************************)
EXTENDS FsStore

(* chop_smart_block_store_write_block is called. *)
SmartWriteBlock(p, k, v) ==
    /\ Begin(p)
    /\ key' = [key EXCEPT ![p] = k]
    /\ val' = [val EXCEPT ![p] = v]
    /\ pc' = [pc EXCEPT ![p] = "stat"]
    /\ UNCHANGED <<dirs, entry, file, newDir, fd, pos, buf, ret, alone,
                   damaged, crashes, errors>>

(* chop_store_block_exists: a block that is there is not written. *)
SmartExists(p) ==
    /\ pc[p] = "stat"
    /\ entry[key[p]] # 0
    /\ Return(p, "ok")
    /\ UNCHANGED <<dirs, entry, file, damaged, ops, crashes, errors>>

(* A block that is not is passed to chop_fs_write_block. *)
SmartAbsent(p) ==
    /\ pc[p] = "stat"
    /\ entry[key[p]] = 0
    /\ pc' = [pc EXCEPT ![p] = "open"]
    /\ UNCHANGED <<dirs, entry, file, key, val, newDir, fd, pos, buf, ret,
                   alone, damaged, ops, crashes, errors>>

(* The existence check itself fails: its error is returned. *)
SmartStatFails(p) ==
    /\ pc[p] = "stat"
    /\ Fails
    /\ Return(p, "error")
    /\ UNCHANGED <<dirs, entry, file, damaged, ops, crashes>>

SmartStep(p) ==
    FsStep(p) \/ SmartExists(p) \/ SmartAbsent(p) \/ SmartStatFails(p)

Next ==
    \E p \in Proc :
        \/ \E k \in Key : FsCall(p, k)
        \/ \E k \in Key : \E v \in Allowed[k] : SmartWriteBlock(p, k, v)
        \/ SmartStep(p)
        \/ Crash(p)

Spec == FsInit /\ [][Next]_fsVars

(***************************************************************************)
(* The kernel schedules every process: one that is inside an operation     *)
(* makes its next system call unless it dies.                              *)
(***************************************************************************)
FairSpec == Spec /\ \A p \in Proc : WF_fsVars(SmartStep(p))

-----------------------------------------------------------------------------
PCs == {"idle", "stat", "open", "mkdir", "truncate", "write", "rmdir", "read"}

Results == {"none", "ok", "error", "unavail", "crashed"}

(* Every variable has its type; a process that writes or reads has a file. *)
TypeOK ==
    /\ dirs \subseteq Dirs
    /\ file \in Seq(Seq(Unit))
    /\ entry \in [Key -> 0..Len(file)]
    /\ pc \in [Proc -> PCs]
    /\ key \in [Proc -> Key]
    /\ val \in [Proc -> Value]
    /\ newDir \in [Proc -> BOOLEAN]
    /\ fd \in [Proc -> 0..Len(file)]
    /\ pos \in [Proc -> Nat]
    /\ buf \in [Proc -> Seq(Unit)]
    /\ ret \in [Proc -> Results]
    /\ alone \in [Proc -> BOOLEAN]
    /\ damaged \subseteq 1..Len(file)
    /\ ops \in Nat /\ crashes \in Nat /\ errors \in Nat
    /\ \A p \in Proc : pc[p] \in {"truncate", "write", "read"} <=> fd[p] # 0

(***************************************************************************)
(* Keys name one content each, as the hash and CHK block indexers make it. *)
(***************************************************************************)
ContentAddressed ==
    \A k \in Key : \A v, w \in Allowed[k] : v = w

(***************************************************************************)
(* However many processes wrote, rewrote, deleted or read it at once, a    *)
(* block that no process is writing and that no writer left half-way is    *)
(* complete: concurrent truncations and partial writes of                  *)
(* chop_fs_write_block always end up in the block's content.               *)
(***************************************************************************)
QuiescentIntact ==
    \A k \in Key :
        entry[k] # 0 /\ entry[k] \notin damaged /\ Writers(entry[k]) = {}
            => \E v \in Allowed[k] : file[entry[k]] = Whole(v)

(***************************************************************************)
(* A read_block that returns success, and during which nobody had the file *)
(* open for writing, returns the whole block, whatever was deleted or      *)
(* rewritten elsewhere, unless a writer of that very file was cut short.   *)
(***************************************************************************)
ReadIntact ==
    \A p \in Proc :
        pc[p] = "read" /\ alone[p] /\ fd[p] \notin damaged
            => \E v \in Allowed[key[p]] :
                  /\ file[fd[p]] = Whole(v)
                  /\ buf[p] = SubSeq(Whole(v), 1, pos[p])

(***************************************************************************)
(* Every operation returns, or its process dies, unless the sub-directory  *)
(* it writes to is removed for ever: the loop of chop_fs_write_block has   *)
(* no bound of its own, and nothing but the rmdir of other processes'      *)
(* delete_block, between its mkdir and its open, keeps it going round.     *)
(***************************************************************************)
OperationsReturn ==
    \A p \in Proc :
        \/ []<>(pc[p] = "idle")
        \/ []<><<Dir[key[p]] \in dirs /\ Dir[key[p]] \notin dirs'>>_fsVars

-----------------------------------------------------------------------------
(***************************************************************************)
(* "Overwrite the existing block, if any" (store-fs.c): a write_block that *)
(* is about to return success, and that was the only writer of the file    *)
(* since it opened it, leaves exactly its block in the file.               *)
(***************************************************************************)
OverwritesBlock ==
    \A p \in Proc :
        pc[p] = "write" /\ pos[p] = Size[val[p]] /\ alone[p]
            => file[fd[p]] = Whole(val[p])

(***************************************************************************)
(* stores.h: "Write the SIZE bytes pointed to by BLOCK under key KEY in    *)
(* STORE.  Return zero on success": when a write_block returns zero while  *)
(* nobody else is writing the block's file, the file holds the block.      *)
(***************************************************************************)
SuccessMeansStored ==
    [][ \A p \in Proc :
          LET f == entry[key[p]]
              returnsZero == /\ pc[p] \in {"stat", "write"}
                             /\ pc'[p] = "idle" /\ ret'[p] = "ok"
          IN  returnsZero /\ f # 0 /\ Writers(f) \subseteq {p}
                => file[f] = Whole(val[p]) ]_fsVars
=============================================================================
