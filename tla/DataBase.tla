------------------------------ MODULE DataBase ------------------------------
(***************************************************************************)
(* The block stores on data base files: store-generic-db.c with GDBM, TDB  *)
(* or QDBM below it, and store-bdb.c on Berkeley DB.  disk is what a file  *)
(* holds for the next process; cache is what the running process sees of   *)
(* the files it has open.  That one process has a file open at a time is   *)
(* an assumption about their use: GDBM locks its files, but the code opens *)
(* TDB with TDB_NOLOCK and Berkeley DB without an environment.             *)
(*                                                                         *)
(* External: GDBM and TDB hand every update to the system, so it survives  *)
(* the process; QDBM and Berkeley DB keep updates in memory until the file *)
(* is synced or closed, and when the process dies before that each update  *)
(* may or may not have been written.                                       *)
(***************************************************************************)
EXTENDS Integers, Sequences, FiniteSets, Functions

CONSTANTS
  File,        \* data base files
  ClassOf,     \* [File -> class of the store on it]
  MaxFaults    \* bound on what goes wrong outside the program

ASSUME ClassAssumption ==
  ClassOf \in [File -> {"gdbm", "tdb", "qdbm", "bdb"}] /\ MaxFaults \in Nat

VARIABLES
  disk,     \* [File -> [keys -> contents]]
  cache,    \* [open files -> [keys -> contents]]
  faults    \* faults so far

dbVars == <<disk, cache, faults>>

Nothing == [k \in {} |-> {}]

DbInit ==
  /\ disk = [f \in File |-> Nothing]
  /\ cache = Nothing
  /\ faults = 0

Fault == faults < MaxFaults /\ faults' = faults + 1
NoFault == UNCHANGED faults

WritesThrough(f) == ClassOf[f] \in {"gdbm", "tdb"}
IsOpen(f) == f \in DOMAIN cache

\* What the file may hold when the process dies or a flush fails half-way.
Remains(f) ==
  {[k \in DOMAIN disk[f] \cup new |->
      IF k \in new THEN cache[f][k] ELSE disk[f][k]] :
      new \in SUBSET {k \in DOMAIN cache[f] :
                        k \in DOMAIN disk[f] => disk[f][k] # cache[f][k]}}

-----------------------------------------------------------------------------
FaultyOpened(files) == Restrict(disk, {CHOOSE f \in files : TRUE})

Opened(files) == Restrict(disk, files)

\* The cache once f is no longer open.
Without(f) == Restrict(cache, DOMAIN cache \ {f})

Exists(f, k) == k \in DOMAIN cache[f]

\* Only Berkeley DB tells a failing look-up from an absent block; with the
\* others a look-up that fails answers that the block does not exist.
ExistsMayFail(f) == ClassOf[f] = "bdb"

Unavailable == [ok |-> FALSE]

\* What files hold under a key of file f.  Berkeley DB stores take an empty
\* block for a missing one.
Held(files, f, k) ==
  IF k \in DOMAIN files[f] /\ (ClassOf[f] = "bdb" => files[f][k][2] > 0)
  THEN [ok |-> TRUE, block |-> files[f][k]] ELSE Unavailable

ReadBlock(f, k) == Held(cache, f, k)

Put(blocks, k, c) ==
  [x \in DOMAIN blocks \cup {k} |-> IF x = k THEN c ELSE blocks[x]]

WriteBlock(f, k, c) ==
  /\ cache' = [cache EXCEPT ![f] = Put(@, k, c)]
  /\ disk' = IF WritesThrough(f) THEN [disk EXCEPT ![f] = Put(@, k, c)] ELSE disk

-----------------------------------------------------------------------------
(***************************************************************************)
(* Closing flushes what is in memory.  Only the Berkeley DB store returns  *)
(* the library's error.  The destructors of the other stores set the       *)
(* handle to NULL before store_dtor closes the store, which then has       *)
(* nothing left to close.                                                  *)
(***************************************************************************)
ReportsClose(f) == ClassOf[f] = "bdb"
ForgetsHandle(f) == ClassOf[f] # "bdb"

Flush(f) ==
  /\ disk' = [disk EXCEPT ![f] = cache[f]]
  /\ cache' = Without(f)
  /\ NoFault

FlushFails(f) ==
  /\ ~WritesThrough(f)
  /\ \E left \in Remains(f) : disk' = [disk EXCEPT ![f] = left]
  /\ cache' = Without(f)
  /\ Fault

Forget(f) ==
  /\ \E left \in Remains(f) : disk' = [disk EXCEPT ![f] = left]
  /\ cache' = Without(f)
  /\ NoFault

\* The process ends: what is still open is no longer.
Abandon ==
  /\ \E left \in [DOMAIN cache -> UNION {Remains(f) : f \in DOMAIN cache}] :
       /\ \A f \in DOMAIN cache : left[f] \in Remains(f)
       /\ disk' = [f \in File |-> IF IsOpen(f) THEN left[f] ELSE disk[f]]
  /\ cache' = Nothing
=============================================================================
