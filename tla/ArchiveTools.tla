---------------------------- MODULE ArchiveTools ----------------------------
(***************************************************************************)
(* The archiver and the store converter used in turn on the same files,    *)
(* and what a user may expect of them.                                     *)
(***************************************************************************)
EXTENDS StoreConvert

Next ==
  \/ ArchiverNext /\ keys' = {}
  \/ ConvertNext

ToolsInit == Init /\ keys = {}
Spec == ToolsInit /\ [][Next]_toolVars

-----------------------------------------------------------------------------
(***************************************************************************)
(* Type invariant.  The relation between the parts of the state: a file is *)
(* open only while a process runs, and a process that reads or writes has  *)
(* its files open.                                                         *)
(***************************************************************************)
TypeOK ==
  /\ job.pc \in {"none", "index", "print", "root", "read", "copy", "leave",
                 "close", "exit"}
  /\ job.status \in {0, 1, 7}
  /\ faults \in 0..MaxFaults /\ sessions \in 0..MaxSessions
  /\ keys # {} => job.cmd = "convert"
  /\ job.cmd = "none" => \A f \in File : ~IsOpen(f)
  /\ job.pc \in {"index", "print", "root", "read", "copy", "leave"} =>
       \A f \in Files(opts.place) : IsOpen(f)

\* The content of the document d, block by block.
Plain(d) == [i \in DOMAIN d |-> Text(d[i])]

(***************************************************************************)
(* A restore that succeeds has written the document that was archived      *)
(* under the tuple: with the hash and CHK indexers whatever happened to    *)
(* the files (crashes, damage, failed flushes, other archives, a converted *)
(* file); with the integer and UUID indexers, which check nothing, if the  *)
(* files were not damaged and, for integers, no other process numbered     *)
(* blocks of the same files.  A failed write to the standard output goes   *)
(* unnoticed (chop-archiver.c:375) and is left out, and the tree is one    *)
(* key block.                                                              *)
(***************************************************************************)
RestoreFaithful ==
  job.cmd = "restore" /\ job.pc = "exit" /\ job.status = 0 /\ job.trust /\ ~job.lost
    => job.out = Plain(job.doc)

(***************************************************************************)
(* What an archiver that exited with success printed stays restorable from *)
(* its files: through crashes of later processes, failed writes, look-ups  *)
(* that fail, other archives, conversions, and smart stores that skip      *)
(* blocks; but not                                                         *)
(*  - if a flush failed when the file was closed by a destructor or a      *)
(*    dummy proxy, for nobody looks at that error, or a QDBM store forgot  *)
(*    its handle before it was closed (kept);                              *)
(*  - with the hash and CHK indexers, if blocks of one of its files were   *)
(*    written with --zip-blocks and others without: keys do not depend on  *)
(*    the filter, so a smart store skips the block in the other form, or   *)
(*    another archiver puts that form in its place (forms);                *)
(*  - with the integer indexer, if another process numbered blocks of the  *)
(*    same files (alone).                                                  *)
(* The tree is one key block here: HashTree has larger ones, and what the  *)
(* errors these discard do to an archive.                                  *)
(***************************************************************************)
OnDisk(r, role, handle) ==
  LET f == r.place[role]
      zipped == Filtered(r.place, r.zip, role)
      read == Held(disk, f, handle[2])
  IN Fetch(TupleFetcher(r.tuple), handle, IF zipped THEN Unzip(read) ELSE read)

Restorable(r) ==
  LET root == OnDisk(r, "metadata", TupleHandle(r.tuple))
  IN /\ root.ok /\ root.block[1] = "node"
     /\ Len(root.block[3]) = Len(r.doc)
     /\ \A i \in DOMAIN r.doc :
          OnDisk(r, "data", DeserialHandle(r.tuple[2], root.block[3][i]))
            = Fetched(Text(r.doc[i]))

SuccessLasts ==
  \A r \in archived :
    /\ r.kept /\ Files(r.place) \cap damaged = {}
    /\ r.class \in {"hash", "chk"} => \A f \in Files(r.place) : forms[f] # BOOLEAN
    /\ r.class = "integer" => r.alone
    => Restorable(r)

(***************************************************************************)
(* A conversion that succeeds has copied every block, unless an error of   *)
(* the library was hidden from it (store-generic-db.c's iterator and close *)
(* report none, chop-store-convert.c looks at no close).                   *)
(***************************************************************************)
ConvertComplete ==
  job.cmd = "convert" /\ job.pc = "exit" /\ job.status = 0 /\ ~job.lost
    => \A k \in DOMAIN disk[source] :
         k \in DOMAIN disk[dest] /\ disk[dest][k] = disk[source][k]

(***************************************************************************)
(* The new blocks the statistics stores count for a file are those the     *)
(* file has gained, and one more for every look-up of theirs that failed   *)
(* without an error (GDBM, TDB and QDBM, store-generic-db.c:76): through   *)
(* blocks written twice, blocks that a smart store skips or writes again,  *)
(* failed writes, and two statistics stores on one file.                   *)
(***************************************************************************)
VirginOn(f) ==
  LET n(role) == IF opts.place[role] = f THEN stats[role].virgin ELSE 0
  IN n("data") + n("metadata")

MisreadOn(f) ==
  LET n(role) == IF opts.place[role] = f THEN stats[role].misread ELSE 0
  IN n("data") + n("metadata")

StatsExact ==
  job.cmd = "archive" /\ opts.stats =>
    \A f \in Files(opts.place) :
      IsOpen(f) =>
        VirginOn(f) = Cardinality(DOMAIN cache[f]) - job.before[f] + MisreadOn(f)
=============================================================================
