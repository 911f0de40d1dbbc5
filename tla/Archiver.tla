------------------------------ MODULE Archiver ------------------------------
(***************************************************************************)
(* The chop-archiver tool: main and process_command, do_archive and        *)
(* do_retrieve, over the stacks of StoreStack and the indexers of          *)
(* BlockIndexer.  One process is taken to use the files at a time; it may  *)
(* die between any two steps.                                              *)
(*                                                                         *)
(* A document is the sequence of blocks its chopper made.  The tree        *)
(* indexer (HashTree, TreeStream) is reduced to one key block, which holds *)
(* the handles of all data blocks and goes to the meta-data store.  So     *)
(* every error of a block store reaches do_archive; the errors a tree of   *)
(* several levels discards (indexer-tree.c:528 and 678) are in HashTree.   *)
(***************************************************************************)
EXTENDS StoreStack, BlockIndexer

CONSTANTS
  Document,      \* sequences of data
  ArchiveOpts,   \* the options an archiver may be started with
  RestoreOpts,   \* those of a restoring archiver
  MaxSessions    \* bound on the processes started

VARIABLES
  job,        \* the running process
  archived,   \* history: the index tuples printed so far, and for what
  damaged,    \* history: the files damaged so far
  forms,      \* history: [file -> whether its blocks were filtered: yes, no, both]
  fresh,      \* source of UUIDs and random keys
  sessions    \* processes started so far

archiverVars ==
  <<disk, cache, faults, opts, stats, job, archived, damaged, forms, fresh,
    sessions>>

NoProcess ==
  [cmd |-> "none", pc |-> "none", doc |-> << >>, indexer |-> << >>,
   handles |-> << >>, tuple |-> << >>, left |-> << >>, out |-> << >>,
   failed |-> FALSE, status |-> 0, ends |-> << >>, lost |-> FALSE,
   trust |-> FALSE, before |-> [f \in File |-> 0]]

\* What the command line says, and what holds if it says nothing.
Option ==
  [place : [Role -> File], smart : BOOLEAN, stats : BOOLEAN, verbose : BOOLEAN,
   zip : BOOLEAN, indexer : IndexerClass \cup {"unknown"},
   first : 0..(IdSpace - 1)]

ASSUME OptionAssumption ==
  ArchiveOpts \cup RestoreOpts \subseteq Option /\ MaxSessions \in Nat

\* An empty source is refused (CHOP_INDEXER_EMPTY_SOURCE).
ASSUME DocumentAssumption ==
  \A d \in Document : Len(d) \in Nat \ {0} /\ DOMAIN d = 1..Len(d)

NoOpts ==
  [place |-> [role \in Role |-> CHOOSE f \in File : TRUE], smart |-> TRUE,
   stats |-> FALSE, verbose |-> FALSE, zip |-> FALSE, indexer |-> "hash",
   first |-> 0]

Init ==
  /\ DbInit
  /\ opts = NoOpts
  /\ stats = NoStats
  /\ job = NoProcess
  /\ archived = {}
  /\ damaged = {}
  /\ forms = [f \in File |-> {}]
  /\ fresh = 0
  /\ sessions = 0

Files(place) == {place[role] : role \in Role}

\* A new process, which opens its files.
Start(o, files) ==
  /\ job.cmd = "none"
  /\ sessions < MaxSessions
  /\ sessions' = sessions + 1
  /\ opts' = o
  /\ stats' = NoStats
  /\ cache' = Opened(files)
  /\ UNCHANGED <<disk, faults, fresh>>

\* History: the integer indexer starts from the identifier it is given in every
\* process, so what an earlier one wrote under integers may not stay its own.
HasIntegers(f) == \E k \in DOMAIN disk[f] : k[1] = "id"

Disturbed(files) ==
  {IF r.class = "integer" /\ Files(r.place) \cap files # {}
   THEN [r EXCEPT !.alone = FALSE] ELSE r : r \in archived}

-----------------------------------------------------------------------------
(***************************************************************************)
(* --archive.  A block indexer class that does not exist makes do_archive  *)
(* return its err, which is 0 by then: nothing is archived, nothing is     *)
(* printed, and the process succeeds.                                      *)
(***************************************************************************)
StartArchive(o, d) ==
  /\ Start(o, Files(o.place))
  /\ job' = [NoProcess EXCEPT
               !.cmd = "archive", !.doc = d,
               !.indexer = IF o.indexer = "unknown" THEN @ ELSE NewIndexer(o.indexer, o.first),
               !.pc = IF o.indexer = "unknown" THEN "leave" ELSE "index",
               !.trust = o.indexer = "integer" =>
                           ~\E f \in Files(o.place) : HasIntegers(f),
               !.before = [f \in File |-> Cardinality(DOMAIN disk[f])]]
  /\ archived' = IF o.indexer = "integer" THEN Disturbed(Files(o.place)) ELSE archived
  /\ forms' = [f \in File |->
       forms[f] \cup {Filtered(o.place, o.zip, role) : role \in {x \in Role : o.place[x] = f}}]
  /\ UNCHANGED damaged

Indexed(c) == Index(job.indexer, c, fresh)

IndexData ==
  /\ job.pc = "index" /\ Len(job.handles) < Len(job.doc)
  /\ LET r == Indexed(Text(job.doc[Len(job.handles) + 1]))
     IN /\ StackWrites("data", r.key, r.block)
        /\ job' = [job EXCEPT !.indexer = r.indexer,
                              !.handles = Append(@, SerialHandle(r.handle))]
  /\ fresh' = fresh + 1
  /\ UNCHANGED <<opts, archived, damaged, forms, sessions>>

\* The key block, and the tuple of its handle.
IndexRoot ==
  /\ job.pc = "index" /\ Len(job.handles) = Len(job.doc)
  /\ LET r == Indexed(Node(job.handles))
     IN /\ StackWrites("metadata", r.key, r.block)
        /\ job' = [job EXCEPT !.indexer = r.indexer, !.pc = "print",
                              !.tuple = SerializeIndexTuple(r.handle, r.indexer)]
  /\ fresh' = fresh + 1
  /\ UNCHANGED <<opts, archived, damaged, forms, sessions>>

FaultyIndexFails ==
  /\ job.pc = "index" /\ Len(job.handles) < Len(job.doc)
  /\ LET r == Indexed(Text(job.doc[Len(job.handles) + 1]))
     IN /\ StackWriteFails("data", r.key)
        /\ job' = [job EXCEPT !.indexer = r.indexer,
                              !.handles = Append(@, SerialHandle(r.handle))]
  /\ fresh' = fresh + 1
  /\ UNCHANGED <<opts, archived, damaged, forms, sessions>>

IndexFails ==
  /\ job.pc = "index"
  /\ LET done == Len(job.handles) = Len(job.doc)
         r == Indexed(IF done THEN Node(job.handles)
                      ELSE Text(job.doc[Len(job.handles) + 1]))
     IN /\ StackWriteFails(IF done THEN "metadata" ELSE "data", r.key)
        /\ job' = [job EXCEPT !.indexer = r.indexer, !.failed = TRUE, !.pc = "leave"]
  /\ fresh' = fresh + 1
  /\ UNCHANGED <<opts, archived, damaged, forms, sessions>>

\* The user has the tuple from here on, before any store is closed.
PrintHandle ==
  /\ job.pc = "print"
  /\ archived' = archived \cup
       {[tuple |-> job.tuple, doc |-> job.doc, place |-> opts.place,
         zip |-> opts.zip, class |-> opts.indexer, alone |-> job.trust,
         kept |-> FALSE]}
  /\ job' = [job EXCEPT !.pc = "leave"]
  /\ UNCHANGED <<dbVars, opts, stats, damaged, forms, fresh, sessions>>

-----------------------------------------------------------------------------
(***************************************************************************)
(* --restore, with the place and the filter that were used to archive.     *)
(* trust is history: whether the indexer lets the restored document be     *)
(* relied upon (see RestoreFaithful).                                      *)
(***************************************************************************)
StartRestore(o, r) ==
  /\ Start([o EXCEPT !.place = r.place, !.zip = r.zip], Files(r.place))
  /\ job' = [NoProcess EXCEPT
               !.cmd = "restore", !.pc = "root", !.doc = r.doc, !.tuple = r.tuple,
               !.trust = \/ r.class \in {"hash", "chk"}
                         \/ r.alone /\ Files(r.place) \cap damaged = {}]
  /\ UNCHANGED <<archived, damaged, forms>>

RestoreStep ==
  UNCHANGED <<disk, cache, opts, stats, archived, damaged, forms, fresh, sessions>>

FetchedFrom(role, handle) ==
  Fetch(TupleFetcher(job.tuple), handle, StackRead(role, handle[2]))

Fails == job' = [job EXCEPT !.failed = TRUE, !.pc = "leave"]

FetchRoot ==
  /\ job.pc = "root"
  /\ NoFault
  /\ LET got == FetchedFrom("metadata", TupleHandle(job.tuple))
     IN IF got.ok /\ got.block[1] = "node"
        THEN job' = [job EXCEPT !.left = got.block[3], !.pc = "read"]
        ELSE Fails
  /\ RestoreStep

\* One data block, written to the standard output; what write returns is
\* not looked at.
FetchData ==
  /\ job.pc = "read" /\ job.left # << >>
  /\ LET got == FetchedFrom("data", DeserialHandle(job.tuple[2], Head(job.left)))
     IN IF got.ok
        THEN \/ /\ NoFault
                /\ job' = [job EXCEPT !.out = Append(@, got.block), !.left = Tail(@)]
             \/ /\ Fault
                /\ job' = [job EXCEPT !.lost = TRUE, !.left = Tail(@)]
        ELSE NoFault /\ Fails
  /\ RestoreStep

ReadFails ==
  /\ job.pc = "root" \/ (job.pc = "read" /\ job.left # << >>)
  /\ Fault
  /\ Fails
  /\ RestoreStep

EndOfStream ==
  /\ job.pc = "read" /\ job.left = << >>
  /\ job' = [job EXCEPT !.pc = "leave"]
  /\ NoFault
  /\ RestoreStep

-----------------------------------------------------------------------------
(***************************************************************************)
(* The end of a process: its closings, one at a time.  lost is history:    *)
(* an error was met that nobody looked at, or a forgotten handle left      *)
(* updates unwritten.                                                      *)
(***************************************************************************)
Leave ==
  /\ job.pc = "leave" /\ job.cmd # "convert"
  /\ job' = [job EXCEPT !.pc = "close", !.ends = Closings]
  /\ UNCHANGED <<dbVars, opts, stats, archived, damaged, forms, fresh, sessions>>

Close ==
  /\ job.pc = "close" /\ job.ends # << >>
  /\ LET c == Head(job.ends)
     IN \/ /\ ~IsOpen(c.file)
           /\ job' = [job EXCEPT !.ends = Tail(@)]
           /\ UNCHANGED dbVars
        \/ /\ IsOpen(c.file)
           /\ IF c.forgets THEN Forget(c.file) ELSE Flush(c.file)
           /\ job' = IF disk'[c.file] = cache[c.file]
                     THEN [job EXCEPT !.ends = Tail(@)]
                     ELSE [job EXCEPT !.ends = Tail(@), !.lost = TRUE]
        \/ /\ IsOpen(c.file) /\ ~c.forgets
           /\ FlushFails(c.file)
           /\ job' = IF c.looks /\ ReportsClose(c.file)
                     THEN [job EXCEPT !.ends = << >>, !.status = 7, !.pc = "exit"]
                     ELSE [job EXCEPT !.ends = Tail(@), !.lost = TRUE]
  /\ UNCHANGED <<opts, stats, archived, damaged, forms, fresh, sessions>>

AllClosed ==
  /\ job.pc = "close" /\ job.ends = << >>
  /\ job' = [job EXCEPT !.pc = "exit", !.status = IF job.failed THEN 1 ELSE 0]
  /\ UNCHANGED <<dbVars, opts, stats, archived, damaged, forms, fresh, sessions>>

\* The process is gone.  History: a tuple whose process succeeded, with
\* every error seen, is kept.
Kept ==
  {IF /\ ~job.lost
      /\ r.tuple = job.tuple /\ r.doc = job.doc
      /\ r.place = opts.place /\ r.zip = opts.zip
   THEN [r EXCEPT !.kept = TRUE] ELSE r : r \in archived}

Gone ==
  /\ Abandon
  /\ job' = NoProcess
  /\ opts' = NoOpts
  /\ stats' = NoStats
  /\ UNCHANGED <<damaged, forms, fresh, sessions>>

Exit ==
  /\ job.pc = "exit"
  /\ Gone
  /\ archived' = IF job.cmd = "archive" /\ job.status = 0 THEN Kept ELSE archived
  /\ NoFault

Crash ==
  /\ job.pc \notin {"none", "exit"}
  /\ Gone
  /\ Fault
  /\ UNCHANGED archived

\* External: a block goes bad while no process runs.
Damage ==
  /\ job.cmd = "none"
  /\ \E f \in File : \E k \in DOMAIN disk[f] :
       /\ \E bad \in {Cut(disk[f][k]), Alter(disk[f][k])} :
            disk' = [disk EXCEPT ![f][k] = bad]
       /\ damaged' = damaged \cup {f}
  /\ Fault
  /\ UNCHANGED <<cache, opts, stats, job, archived, forms, fresh, sessions>>

ArchiverNext ==
  \/ \E o \in ArchiveOpts, d \in Document : StartArchive(o, d)
  \/ IndexData \/ IndexRoot \/ IndexFails \/ PrintHandle
  \/ \E o \in RestoreOpts, r \in archived : StartRestore(o, r)
  \/ FetchRoot \/ FetchData \/ ReadFails \/ EndOfStream
  \/ Leave \/ Close \/ AllClosed \/ Exit \/ Crash \/ Damage
=============================================================================
