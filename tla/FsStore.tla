------------------------------ MODULE FsStore ------------------------------
(***************************************************************************)
(* The file system block store (src/src/store-fs.c): a block is a file     *)
(* dd/rest below the store's directory, where dd is the first two          *)
(* characters of the key.  Several processes may have the directory open   *)
(* and nothing is locked, so the unit of atomicity is the system call: one *)
(* action is one call of open, mkdir, ftruncate, write, read, unlink or    *)
(* rmdir.  A process may die between any two of them; another one then     *)
(* works in the same directory.                                            *)
(*                                                                         *)
(* The file system is modelled by what the code uses of it: directories,   *)
(* directory entries, and files that live on while they are open.  A block *)
(* is a value of known size; each unit of its file holds the value it was  *)
(* written from, or Hole where a write went past the end.                  *)
(***************************************************************************)
EXTENDS Naturals, Sequences

CONSTANTS
    Proc,           \* processes
    Key,            \* block keys
    Dir,            \* Dir[k]: the sub-directory block_file_name puts k in
    Value,          \* block contents
    Allowed,        \* Allowed[k]: the contents written under k
    Size,           \* Size[v]: units of v
    Hole,           \* what reading an unwritten unit returns
    MaxOps,         \* bound: operations started; 0 for no bound
    MaxCrashes,     \* bound: processes that die
    MaxErrors       \* bound: system calls that fail

ASSUME FsAssumption ==
    /\ Key # {} /\ Value # {}
    /\ Allowed \in [Key -> SUBSET Value]
    /\ Size \in [Value -> Nat \ {0}]
    /\ Hole \notin Value
    /\ MaxOps \in Nat /\ MaxCrashes \in Nat /\ MaxErrors \in Nat

VARIABLES
    dirs,       \* the sub-directories that exist
    entry,      \* entry[k]: the file k names, 0 if none
    file,       \* file[f]: the units of file f, linked or not
    pc,         \* pc[p]: the system call p is about to make, or "idle"
    key, val,   \* the KEY and the block p's operation is about
    newDir,     \* new_dir of chop_fs_write_block
    fd,         \* the file p has open, 0 if none
    pos,        \* p's offset in it
    buf,        \* what p's last read_block has put into its buffer
    ret,        \* what p's last operation returned
    alone,      \* history: nobody else wrote to fd[p] since p opened it
    damaged,    \* history: files some writer left before its last unit
    ops, crashes, errors

fsVars == <<dirs, entry, file, pc, key, val, newDir, fd, pos, buf, ret,
            alone, damaged, ops, crashes, errors>>

Dirs == {Dir[k] : k \in Key}

Unit == Value \cup {Hole}

(* The file that holds exactly block v. *)
Whole(v) == [i \in 1..Size[v] |-> v]

Writers(f) == {p \in Proc : pc[p] \in {"truncate", "write"} /\ fd[p] = f}

(* The file system keeps a file while an entry names it or a process has   *)
(* it open, and then uses its number again.                                *)
Used == {entry[k] : k \in Key} \cup {fd[p] : p \in Proc}

FreeFile == CHOOSE f \in 1..(Len(file) + 1) : f \notin Used

(* write(2) of one unit at offset i - 1. *)
Overlay(c, i, v) ==
    [j \in 1..(IF i > Len(c) THEN i ELSE Len(c)) |->
        IF j = i THEN v ELSE IF j <= Len(c) THEN c[j] ELSE Hole]

(* What the locals of a process hold while it is in no operation. *)
AnyKey   == CHOOSE k \in Key : TRUE
AnyValue == CHOOSE v \in Value : TRUE

FsInit ==
    /\ dirs = {}
    /\ entry = [k \in Key |-> 0]
    /\ file = <<>>
    /\ pc = [p \in Proc |-> "idle"]
    /\ key = [p \in Proc |-> AnyKey]
    /\ val = [p \in Proc |-> AnyValue]
    /\ newDir = [p \in Proc |-> FALSE]
    /\ fd = [p \in Proc |-> 0]
    /\ pos = [p \in Proc |-> 0]
    /\ buf = [p \in Proc |-> <<>>]
    /\ ret = [p \in Proc |-> "none"]
    /\ alone = [p \in Proc |-> FALSE]
    /\ damaged = {}
    /\ ops = 0 /\ crashes = 0 /\ errors = 0

-----------------------------------------------------------------------------
(* An operation of p begins. *)
Begin(p) ==
    /\ pc[p] = "idle"
    /\ MaxOps = 0 \/ ops < MaxOps
    /\ ops' = IF MaxOps = 0 THEN ops ELSE ops + 1

(* Faulty variants, with a plausible mistake each, that no specification   *)
(* uses (see the README): the file is not closed.                          *)
FaultyReturn(p, r) ==
    /\ pc' = [pc EXCEPT ![p] = "idle"]
    /\ ret' = [ret EXCEPT ![p] = r]
    /\ key' = [key EXCEPT ![p] = AnyKey]
    /\ val' = [val EXCEPT ![p] = AnyValue]
    /\ newDir' = [newDir EXCEPT ![p] = FALSE]
    /\ pos' = [pos EXCEPT ![p] = 0]
    /\ buf' = [buf EXCEPT ![p] = <<>>]
    /\ alone' = [alone EXCEPT ![p] = FALSE]
    /\ UNCHANGED fd

(* An operation of p returns r; its file is closed, its locals are gone. *)
Return(p, r) ==
    /\ pc' = [pc EXCEPT ![p] = "idle"]
    /\ ret' = [ret EXCEPT ![p] = r]
    /\ key' = [key EXCEPT ![p] = AnyKey]
    /\ val' = [val EXCEPT ![p] = AnyValue]
    /\ newDir' = [newDir EXCEPT ![p] = FALSE]
    /\ fd' = [fd EXCEPT ![p] = 0]
    /\ pos' = [pos EXCEPT ![p] = 0]
    /\ buf' = [buf EXCEPT ![p] = <<>>]
    /\ alone' = [alone EXCEPT ![p] = FALSE]

(* A system call fails: EIO, ENOSPC, EACCES, EMFILE... *)
Fails ==
    /\ errors < MaxErrors
    /\ errors' = errors + 1

(* chop_fs_write_block is called. *)
WriteBlock(p, k, v) ==
    /\ Begin(p)
    /\ key' = [key EXCEPT ![p] = k]
    /\ val' = [val EXCEPT ![p] = v]
    /\ pc' = [pc EXCEPT ![p] = "open"]
    /\ UNCHANGED <<dirs, entry, file, newDir, fd, pos, buf, ret, alone,
                   damaged, crashes, errors>>

(* openat (O_CREAT | O_WRONLY) succeeds. *)
OpenForWrite(p) ==
    LET k == key[p]
        f == IF entry[k] = 0 THEN FreeFile ELSE entry[k]
    IN
    /\ pc[p] = "open"
    /\ Dir[k] \in dirs
    /\ entry' = [entry EXCEPT ![k] = f]
    /\ file' = IF entry[k] # 0 THEN file
               ELSE IF f > Len(file) THEN Append(file, <<>>)
               ELSE [file EXCEPT ![f] = <<>>]
    /\ damaged' = IF entry[k] = 0 THEN damaged \ {f} ELSE damaged
    /\ fd' = [fd EXCEPT ![p] = f]
    /\ pc' = [pc EXCEPT ![p] = IF newDir[p] THEN "write" ELSE "truncate"]
    /\ alone' = [q \in Proc |-> IF q = p THEN Writers(f) = {}
                                        ELSE alone[q] /\ fd[q] # f]
    /\ UNCHANGED <<dirs, key, val, newDir, pos, buf, ret, ops,
                   crashes, errors>>

(* openat fails with ENOENT: the sub-directory does not exist. *)
OpenFindsNoDir(p) ==
    /\ pc[p] = "open"
    /\ Dir[key[p]] \notin dirs
    /\ newDir' = [newDir EXCEPT ![p] = TRUE]
    /\ pc' = [pc EXCEPT ![p] = "mkdir"]
    /\ UNCHANGED <<dirs, entry, file, key, val, fd, pos, buf, ret, alone,
                   damaged, ops, crashes, errors>>

(* The sub-directory is created in the wrong place. *)
FaultyMakeDir(p) ==
    /\ pc[p] = "mkdir"
    /\ pc' = [pc EXCEPT ![p] = "open"]
    /\ UNCHANGED <<dirs, entry, file, key, val, newDir, fd, pos, buf, ret,
                   alone, damaged, ops, crashes, errors>>

(* mkdirat succeeds or fails with EEXIST; either way, try again. *)
MakeDir(p) ==
    /\ pc[p] = "mkdir"
    /\ dirs' = dirs \cup {Dir[key[p]]}
    /\ pc' = [pc EXCEPT ![p] = "open"]
    /\ UNCHANGED <<entry, file, key, val, newDir, fd, pos, buf, ret, alone,
                   damaged, ops, crashes, errors>>

(* "Overwrite the existing block, if any": ftruncate, whose result is      *)
(* ignored.                                                                *)
Truncate(p) ==
    /\ pc[p] = "truncate"
    /\ \/ /\ file' = [file EXCEPT ![fd[p]] = <<>>]
          /\ UNCHANGED errors
       \/ /\ Fails
          /\ UNCHANGED file
    /\ pc' = [pc EXCEPT ![p] = "write"]
    /\ UNCHANGED <<dirs, entry, key, val, newDir, fd, pos, buf, ret, alone,
                   damaged, ops, crashes>>

(* One write(2) of full_write; it may transfer less than what is left. *)
WriteUnit(p) ==
    /\ pc[p] = "write"
    /\ pos[p] < Size[val[p]]
    /\ file' = [file EXCEPT ![fd[p]] = Overlay(@, pos[p] + 1, val[p])]
    /\ pos' = [pos EXCEPT ![p] = @ + 1]
    /\ UNCHANGED <<dirs, entry, pc, key, val, newDir, fd, buf, ret, alone,
                   damaged, ops, crashes, errors>>

(* A short write is taken for a complete one. *)
FaultyWriteDone(p) ==
    /\ pc[p] = "write"
    /\ pos[p] + 1 >= Size[val[p]]
    /\ Return(p, "ok")
    /\ UNCHANGED <<dirs, entry, file, damaged, ops, crashes, errors>>

WriteDone(p) ==
    /\ pc[p] = "write"
    /\ pos[p] = Size[val[p]]
    /\ Return(p, "ok")
    /\ UNCHANGED <<dirs, entry, file, damaged, ops, crashes, errors>>

(* A write(2) fails: the error is returned, what is in the file stays. *)
WriteFails(p) ==
    /\ pc[p] = "write"
    /\ pos[p] < Size[val[p]]
    /\ Fails
    /\ damaged' = damaged \cup {fd[p]}
    /\ Return(p, "error")
    /\ UNCHANGED <<dirs, entry, file, ops, crashes>>

-----------------------------------------------------------------------------
(* chop_fs_delete_block: unlinkat of the block's file. *)
DeleteBlock(p, k) ==
    /\ Begin(p)
    /\ IF entry[k] = 0
         THEN Return(p, "unavail") /\ UNCHANGED entry
         ELSE /\ entry' = [entry EXCEPT ![k] = 0]
              /\ key' = [key EXCEPT ![p] = k]
              /\ pc' = [pc EXCEPT ![p] = "rmdir"]
              /\ UNCHANGED <<val, newDir, fd, pos, buf, ret, alone>>
    /\ UNCHANGED <<dirs, file, damaged, crashes, errors>>

(* unlinkat (AT_REMOVEDIR): ENOENT is an error, ENOTEMPTY is none. *)
RemoveDir(p) ==
    LET d == Dir[key[p]]
        empty == \A k \in Key : Dir[k] = d => entry[k] = 0
    IN
    /\ pc[p] = "rmdir"
    /\ dirs' = IF empty THEN dirs \ {d} ELSE dirs
    /\ Return(p, IF d \in dirs THEN "ok" ELSE "error")
    /\ UNCHANGED <<entry, file, damaged, ops, crashes, errors>>

(* chop_fs_read_block: openat (O_RDONLY). *)
ReadBlock(p, k) ==
    /\ Begin(p)
    /\ IF entry[k] = 0
         THEN Return(p, "unavail")
         ELSE /\ key' = [key EXCEPT ![p] = k]
              /\ fd' = [fd EXCEPT ![p] = entry[k]]
              /\ pc' = [pc EXCEPT ![p] = "read"]
              /\ alone' = [alone EXCEPT ![p] = Writers(entry[k]) = {}]
              /\ UNCHANGED <<val, newDir, pos, buf, ret>>
    /\ UNCHANGED <<dirs, entry, file, damaged, crashes, errors>>

(* The same unit is read again and again. *)
FaultyReadUnit(p) ==
    /\ pc[p] = "read"
    /\ pos[p] < Len(file[fd[p]])
    /\ buf' = [buf EXCEPT ![p] = Append(@, file[fd[p]][1])]
    /\ pos' = [pos EXCEPT ![p] = IF @ = 0 THEN 0 ELSE @ + 1]
    /\ UNCHANGED <<dirs, entry, file, pc, key, val, newDir, fd, ret, alone,
                   damaged, ops, crashes, errors>>

(* One read(2) of full_read. *)
ReadUnit(p) ==
    /\ pc[p] = "read"
    /\ pos[p] < Len(file[fd[p]])
    /\ buf' = [buf EXCEPT ![p] = Append(@, file[fd[p]][pos[p] + 1])]
    /\ pos' = [pos EXCEPT ![p] = @ + 1]
    /\ UNCHANGED <<dirs, entry, file, pc, key, val, newDir, fd, ret, alone,
                   damaged, ops, crashes, errors>>

(* read(2) returns 0: end of file. *)
ReadDone(p) ==
    /\ pc[p] = "read"
    /\ pos[p] >= Len(file[fd[p]])
    /\ Return(p, "ok")
    /\ UNCHANGED <<dirs, entry, file, damaged, ops, crashes, errors>>

(* openat, mkdirat, unlinkat or read fails with an errno the code does not *)
(* single out, which it returns.                                           *)
CallFails(p) ==
    /\ pc[p] \in {"open", "mkdir", "rmdir", "read"}
    /\ Fails
    /\ Return(p, "error")
    /\ UNCHANGED <<dirs, entry, file, damaged, ops, crashes>>

(* The first unlinkat of delete_block or openat of read_block does. *)
FirstCallFails(p) ==
    /\ Begin(p)
    /\ Fails
    /\ Return(p, "error")
    /\ UNCHANGED <<dirs, entry, file, damaged, crashes>>

-----------------------------------------------------------------------------
(* The process dies and another one takes its place. *)
Crash(p) ==
    /\ pc[p] # "idle"
    /\ crashes < MaxCrashes
    /\ crashes' = crashes + 1
    /\ damaged' = IF pc[p] \in {"truncate", "write"}
                    THEN damaged \cup {fd[p]} ELSE damaged
    /\ Return(p, "crashed")
    /\ UNCHANGED <<dirs, entry, file, ops, errors>>

(* The next system call of p's pending operation. *)
FsStep(p) ==
    \/ OpenForWrite(p)  \/ OpenFindsNoDir(p) \/ MakeDir(p)
    \/ Truncate(p)      \/ WriteUnit(p)      \/ WriteDone(p)
    \/ WriteFails(p)    \/ RemoveDir(p)
    \/ ReadUnit(p)      \/ ReadDone(p)       \/ CallFails(p)

FsCall(p, k) ==
    \/ \E v \in Allowed[k] : WriteBlock(p, k, v)
    \/ DeleteBlock(p, k)
    \/ ReadBlock(p, k)
    \/ FirstCallFails(p)
=============================================================================
