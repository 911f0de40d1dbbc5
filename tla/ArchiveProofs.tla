---------------------------- MODULE ArchiveProofs ----------------------------
(***************************************************************************)
(* The archiver and the store converter, for any files, documents, options *)
(* and numbers of processes and faults.                                    *)
(***************************************************************************)
EXTENDS ArchiveTools, FiniteSetTheorems, TLAPS

-----------------------------------------------------------------------------
(***************************************************************************)
(* The data base files.                                                    *)
(***************************************************************************)
(* A file in memory holds every key of the file on disk, and the classes   *)
(* that write through hold the same in both.                               *)
DbInv ==
  /\ DOMAIN disk = File
  /\ DOMAIN cache \subseteq File
  /\ \A f \in DOMAIN cache : DOMAIN disk[f] \subseteq DOMAIN cache[f]
  /\ \A f \in DOMAIN cache : WritesThrough(f) => cache[f] = disk[f]
  /\ \A f \in File : IsFiniteSet(DOMAIN disk[f])
  /\ \A f \in DOMAIN cache : IsFiniteSet(DOMAIN cache[f])

(* File f holds content c under key k, on disk or in memory. *)
Holds(f, k, c) ==
  \/ k \in DOMAIN disk[f] /\ disk[f][k] = c
  \/ f \in DOMAIN cache /\ k \in DOMAIN cache[f] /\ cache[f][k] = c

(* Nothing that was on disk is gone, and nothing new appeared. *)
Settles ==
  /\ \A f \in File : DOMAIN disk[f] \subseteq DOMAIN disk'[f]
  /\ \A f \in File : \A k, c : Holds(f, k, c)' => Holds(f, k, c)

(* What remains of a file has the keys that were on disk, and contents from *)
(* disk or memory.                                                          *)
LEMMA RemainsFacts ==
  ASSUME DbInv, NEW f \in DOMAIN cache, NEW left \in Remains(f)
  PROVE  /\ DOMAIN disk[f] \subseteq DOMAIN left
         /\ DOMAIN left \subseteq DOMAIN cache[f]
         /\ IsFiniteSet(DOMAIN left)
         /\ \A k \in DOMAIN left : \/ k \in DOMAIN disk[f] /\ left[k] = disk[f][k]
                                   \/ left[k] = cache[f][k]
<1>1. PICK new \in SUBSET {k \in DOMAIN cache[f] :
                        k \in DOMAIN disk[f] => disk[f][k] # cache[f][k]} :
        left = [k \in DOMAIN disk[f] \cup new |->
                  IF k \in new THEN cache[f][k] ELSE disk[f][k]]
  BY DEF Remains
<1>2. DOMAIN left = DOMAIN disk[f] \cup new /\ new \subseteq DOMAIN cache[f]
  BY <1>1
<1>3. DOMAIN disk[f] \subseteq DOMAIN cache[f] /\ IsFiniteSet(DOMAIN cache[f])
  BY DEF DbInv
<1>4. IsFiniteSet(DOMAIN left)
  BY <1>2, <1>3, FS_Subset
<1> QED
  BY <1>1, <1>2, <1>3, <1>4

LEMMA OpenedDb ==
  ASSUME DbInv, NEW files, files \subseteq File, DOMAIN cache = {},
         cache' = Opened(files), UNCHANGED disk
  PROVE  DbInv' /\ Settles /\ DOMAIN cache' = files
<1>1. DOMAIN cache' = files /\ \A f \in files : cache'[f] = disk[f]
  BY DEF Opened, Restrict
<1>2. DbInv'
  BY <1>1 DEF DbInv, WritesThrough
<1>3. Settles
  BY <1>1 DEF Settles, Holds
<1> QED
  BY <1>1, <1>2, <1>3

(* Put adds one key. *)
LEMMA PutFacts ==
  ASSUME NEW m, NEW k, NEW c, IsFiniteSet(DOMAIN m)
  PROVE  /\ DOMAIN Put(m, k, c) = DOMAIN m \cup {k}
         /\ IsFiniteSet(DOMAIN Put(m, k, c))
         /\ Put(m, k, c)[k] = c
         /\ \A x \in DOMAIN m : x # k => Put(m, k, c)[x] = m[x]
<1>1. IsFiniteSet(DOMAIN m \cup {k})
  BY FS_AddElement
<1> QED
  BY <1>1 DEF Put

(* A write adds one block, and nothing else. *)
LEMMA WriteDb ==
  ASSUME DbInv, NEW f \in DOMAIN cache, NEW k, NEW c, WriteBlock(f, k, c)
  PROVE  /\ DbInv' /\ DOMAIN cache' = DOMAIN cache
         /\ cache'[f] = Put(cache[f], k, c)
         /\ \A g \in DOMAIN cache : g # f => cache'[g] = cache[g]
         /\ \A g \in File : g # f => disk'[g] = disk[g]
         /\ disk'[f] = IF WritesThrough(f) THEN Put(disk[f], k, c) ELSE disk[f]
<1> f \in File
  BY DEF DbInv
<1>1. /\ DOMAIN cache' = DOMAIN cache /\ cache'[f] = Put(cache[f], k, c)
      /\ \A g \in DOMAIN cache : g # f => cache'[g] = cache[g]
  BY DEF WriteBlock
<1>2. /\ DOMAIN disk' = File
      /\ \A g \in File : g # f => disk'[g] = disk[g]
      /\ disk'[f] = IF WritesThrough(f) THEN Put(disk[f], k, c) ELSE disk[f]
  BY DEF WriteBlock, DbInv
<1>3. /\ DOMAIN Put(cache[f], k, c) = DOMAIN cache[f] \cup {k}
      /\ IsFiniteSet(DOMAIN Put(cache[f], k, c))
  BY PutFacts DEF DbInv
<1>4. /\ DOMAIN Put(disk[f], k, c) = DOMAIN disk[f] \cup {k}
      /\ IsFiniteSet(DOMAIN Put(disk[f], k, c))
  BY PutFacts DEF DbInv
<1>5. \A g \in DOMAIN cache' : DOMAIN disk'[g] \subseteq DOMAIN cache'[g]
  BY <1>1, <1>2, <1>3, <1>4 DEF DbInv
<1>6. \A g \in DOMAIN cache' : WritesThrough(g) => cache'[g] = disk'[g]
  BY <1>1, <1>2 DEF DbInv
<1>7. \A g \in File : IsFiniteSet(DOMAIN disk'[g])
  BY <1>2, <1>4 DEF DbInv
<1>8. \A g \in DOMAIN cache' : IsFiniteSet(DOMAIN cache'[g])
  BY <1>1, <1>3 DEF DbInv
<1>9. DbInv'
  BY <1>1, <1>2, <1>5, <1>6, <1>7, <1>8 DEF DbInv, WritesThrough
<1> QED
  BY <1>1, <1>2, <1>9

LEMMA WriteHolds ==
  ASSUME DbInv, NEW f \in DOMAIN cache, NEW k, NEW c, WriteBlock(f, k, c)
  PROVE  /\ \A g \in File : DOMAIN disk[g] \subseteq DOMAIN disk'[g]
         /\ \A g \in File : \A x, b : Holds(g, x, b)' =>
              Holds(g, x, b) \/ (g = f /\ x = k /\ b = c)
         /\ Holds(f, k, c)'
<1>1. f \in File /\ IsFiniteSet(DOMAIN disk[f]) /\ IsFiniteSet(DOMAIN cache[f])
  BY DEF DbInv
<1>2. /\ DOMAIN cache' = DOMAIN cache
      /\ cache'[f] = Put(cache[f], k, c)
      /\ \A g \in DOMAIN cache : g # f => cache'[g] = cache[g]
      /\ \A g \in File : g # f => disk'[g] = disk[g]
      /\ disk'[f] = IF WritesThrough(f) THEN Put(disk[f], k, c) ELSE disk[f]
  BY WriteDb
<1> DEFINE Adds(m) == /\ DOMAIN Put(m, k, c) = DOMAIN m \cup {k}
                      /\ Put(m, k, c)[k] = c
                      /\ \A x \in DOMAIN m : x # k => Put(m, k, c)[x] = m[x]
<1>3. Adds(cache[f]) /\ Adds(disk[f])
  BY DEF Put
<1>4. \A g \in File : DOMAIN disk[g] \subseteq DOMAIN disk'[g]
  BY <1>2, <1>3
<1>5. ASSUME NEW g \in File, NEW x, NEW b, Holds(g, x, b)'
      PROVE  Holds(g, x, b) \/ (g = f /\ x = k /\ b = c)
  <2>1. CASE g # f
    BY <1>2, <1>5, <2>1 DEF Holds
  <2>2. CASE g = f /\ x \in DOMAIN disk'[g] /\ disk'[g][x] = b
    BY <1>2, <1>3, <2>2 DEF Holds
  <2>3. CASE g = f /\ x \in DOMAIN cache'[g] /\ cache'[g][x] = b
    BY <1>2, <1>3, <2>3 DEF Holds
  <2> QED
    BY <1>5, <2>1, <2>2, <2>3 DEF Holds
<1>6. Holds(f, k, c)'
  BY <1>2, <1>3 DEF Holds
<1> QED
  BY <1>4, <1>5, <1>6

(* Closing a file, in whichever way. *)
Shuts(f) ==
  /\ cache' = Without(f)
  /\ \E left \in Remains(f) \cup {cache[f]} : disk' = [disk EXCEPT ![f] = left]

LEMMA ShutsDb ==
  ASSUME DbInv, NEW f \in DOMAIN cache, Shuts(f)
  PROVE  DbInv' /\ Settles /\ DOMAIN cache' = DOMAIN cache \ {f}
         /\ \A g \in DOMAIN cache : g # f => cache'[g] = cache[g] /\ disk'[g] = disk[g]
<1> f \in File
  BY DEF DbInv
<1>1. /\ DOMAIN cache' = DOMAIN cache \ {f}
      /\ \A g \in DOMAIN cache : g # f => cache'[g] = cache[g]
  BY DEF Shuts, Without, Restrict
<1>2. PICK left \in Remains(f) \cup {cache[f]} : disk' = [disk EXCEPT ![f] = left]
  BY DEF Shuts
<1>3. /\ DOMAIN disk' = File /\ disk'[f] = left
      /\ \A g \in File : g # f => disk'[g] = disk[g]
  BY <1>2 DEF DbInv
<1>4. /\ DOMAIN disk[f] \subseteq DOMAIN left
      /\ IsFiniteSet(DOMAIN left)
      /\ \A k \in DOMAIN left : \/ k \in DOMAIN disk[f] /\ left[k] = disk[f][k]
                                \/ k \in DOMAIN cache[f] /\ left[k] = cache[f][k]
  <2>1. CASE left = cache[f]
    BY <2>1 DEF DbInv
  <2>2. CASE left \in Remains(f)
    BY <2>2, RemainsFacts
  <2> QED
    BY <1>2, <2>1, <2>2
<1>5. DbInv'
  BY <1>1, <1>3, <1>4 DEF DbInv, WritesThrough
<1>6. Settles
  <2>1. \A g \in File : DOMAIN disk[g] \subseteq DOMAIN disk'[g]
    BY <1>3, <1>4
  <2>2. ASSUME NEW g \in File, NEW k, NEW c, Holds(g, k, c)'
        PROVE  Holds(g, k, c)
    BY <1>1, <1>3, <1>4, <2>2 DEF Holds
  <2> QED
    BY <2>1, <2>2 DEF Settles
<1> QED
  BY <1>1, <1>3, <1>5, <1>6 DEF DbInv

LEMMA AbandonDb ==
  ASSUME DbInv, Abandon
  PROVE  DbInv' /\ Settles /\ DOMAIN cache' = {}
<1>1. DOMAIN cache' = {}
  BY DEF Abandon, Nothing
<1>2. PICK left \in [DOMAIN cache -> UNION {Remains(f) : f \in DOMAIN cache}] :
        /\ \A f \in DOMAIN cache : left[f] \in Remains(f)
        /\ disk' = [f \in File |-> IF IsOpen(f) THEN left[f] ELSE disk[f]]
  BY DEF Abandon
<1>3. /\ DOMAIN disk' = File
      /\ \A f \in DOMAIN cache : disk'[f] \in Remains(f)
      /\ \A f \in File \ DOMAIN cache : disk'[f] = disk[f]
  BY <1>2 DEF IsOpen, DbInv
<1>4. \A f \in DOMAIN cache :
        /\ DOMAIN disk[f] \subseteq DOMAIN disk'[f]
        /\ IsFiniteSet(DOMAIN disk'[f])
        /\ \A k \in DOMAIN disk'[f] :
              \/ k \in DOMAIN disk[f] /\ disk'[f][k] = disk[f][k]
              \/ k \in DOMAIN cache[f] /\ disk'[f][k] = cache[f][k]
  <2> SUFFICES ASSUME NEW f \in DOMAIN cache
               PROVE  /\ DOMAIN disk[f] \subseteq DOMAIN disk'[f]
                      /\ IsFiniteSet(DOMAIN disk'[f])
                      /\ \A k \in DOMAIN disk'[f] :
                            \/ k \in DOMAIN disk[f] /\ disk'[f][k] = disk[f][k]
                            \/ k \in DOMAIN cache[f] /\ disk'[f][k] = cache[f][k]
    OBVIOUS
  <2>1. PICK m \in Remains(f) : disk'[f] = m
    BY <1>3
  <2> QED
    BY <2>1, RemainsFacts
<1>5. DbInv'
  BY <1>1, <1>3, <1>4 DEF DbInv
<1>6. Settles
  <2>1. \A g \in File : DOMAIN disk[g] \subseteq DOMAIN disk'[g]
    BY <1>3, <1>4
  <2>2. ASSUME NEW g \in File, NEW k, NEW c, Holds(g, k, c)'
        PROVE  Holds(g, k, c)
    BY <1>1, <1>3, <1>4, <2>2 DEF Holds
  <2> QED
    BY <2>1, <2>2 DEF Settles
<1> QED
  BY <1>1, <1>5, <1>6

-----------------------------------------------------------------------------
(***************************************************************************)
(* Processes: what a process may be doing with which command, which files  *)
(* it has open, and the bounds.                                            *)
(***************************************************************************)
JobFields ==
  {"cmd", "pc", "doc", "indexer", "handles", "tuple", "left", "out", "failed",
   "status", "ends", "lost", "trust", "before"}

JobShape ==
  /\ DOMAIN job = JobFields
  /\ \/ job.cmd = "none" /\ job.pc = "none"
     \/ job.cmd = "archive" /\ job.pc \in {"index", "print", "leave", "close", "exit"}
     \/ job.cmd = "restore" /\ job.pc \in {"root", "read", "leave", "close", "exit"}
     \/ job.cmd = "convert" /\ job.pc \in {"copy", "leave", "close", "exit"}
  /\ job.failed \in BOOLEAN /\ job.lost \in BOOLEAN /\ job.trust \in BOOLEAN
  /\ job.status \in {0, 1, 7}
  /\ job.pc # "exit" => job.status = 0
  /\ job.pc = "exit" /\ job.status = 0 => ~job.failed

Bounds ==
  /\ faults \in 0..MaxFaults /\ sessions \in 0..MaxSessions /\ fresh \in Nat
  /\ damaged \subseteq File

Working == {"index", "print", "root", "read", "copy", "leave"}

OpenInv ==
  /\ job.cmd = "none" => DOMAIN cache = {}
  /\ job.cmd # "none" => opts \in Option /\ DOMAIN cache \subseteq Files(opts.place)
  /\ job.pc \in Working => Files(opts.place) \subseteq DOMAIN cache
  /\ keys # {} => job.cmd = "convert"

RecordFields == {"tuple", "doc", "place", "zip", "class", "alone", "kept"}

RecordShape(r) ==
  /\ DOMAIN r = RecordFields
  /\ r.place \in [Role -> File] /\ r.zip \in BOOLEAN /\ r.doc \in Document

Records ==
  /\ job.cmd = "archive" => job.doc \in Document
  /\ \A r \in archived : RecordShape(r)

ToolInv == DbInv /\ JobShape /\ Bounds /\ OpenInv /\ Records

USE DEF RecordFields

LEMMA FilesIn ==
  ASSUME NEW o \in Option
  PROVE  /\ Files(o.place) \subseteq File
         /\ \A role \in Role : o.place[role] \in Files(o.place)
         /\ Files(o.place) = {o.place["data"], o.place["metadata"]}
  BY DEF Option, Files, Role

LEMMA ToolInit == ToolsInit => ToolInv
<1> SUFFICES ASSUME ToolsInit PROVE ToolInv
  OBVIOUS
<1>1. DbInv
  BY FS_EmptySet DEF ToolsInit, Init, DbInit, DbInv, Nothing
<1>2. JobShape
  BY DEF ToolsInit, Init, NoProcess, JobShape, JobFields
<1>3. Bounds
  BY OptionAssumption, ClassAssumption DEF ToolsInit, Init, DbInit, Bounds
<1>4. OpenInv
  BY DEF ToolsInit, Init, DbInit, NoProcess, OpenInv, Nothing, Working
<1>5. Records
  BY DEF ToolsInit, Init, NoProcess, Records
<1> QED
  BY <1>1, <1>2, <1>3, <1>4, <1>5 DEF ToolInv

(* The options of a restore and of a conversion are options. *)
LEMMA RestoreOptions ==
  ASSUME NEW o \in Option, NEW r, RecordShape(r)
  PROVE  [o EXCEPT !.place = r.place, !.zip = r.zip] \in Option
  BY DEF Option, RecordShape

LEMMA ConvertOptions ==
  ASSUME NEW pair \in ConvertPair
  PROVE  LET o == [NoOpts EXCEPT !.place = [role \in Role |->
                       IF role = "data" THEN pair[1] ELSE pair[2]]]
         IN  /\ o \in Option
             /\ Files(o.place) = {pair[1], pair[2]}
             /\ o.place["data"] = pair[1] /\ o.place["metadata"] = pair[2]
<1>1. pair[1] \in File /\ pair[2] \in File
  BY ConvertAssumption
<1>2. 0 \in 0..(IdSpace - 1)
  BY IndexerAssumption
<1> QED
  BY <1>1, <1>2 DEF NoOpts, Option, Role, Files, IndexerClass

(* A process starts. *)
LEMMA StartTool ==
  ASSUME ToolInv, NEW o \in Option, Start(o, Files(o.place)),
         NEW j, job' = j, DOMAIN j = JobFields, j.cmd # "none",
         JobShape', keys' # {} => j.cmd = "convert",
         damaged' \subseteq File, \A r \in archived' : RecordShape(r),
         job'.cmd = "archive" => job'.doc \in Document
  PROVE  ToolInv' /\ Settles
<1>1. DOMAIN cache = {}
  BY DEF ToolInv, OpenInv, Start
<1>2. cache' = Opened(Files(o.place)) /\ UNCHANGED disk /\ Files(o.place) \subseteq File
  BY FilesIn DEF Start
<1>3. DbInv' /\ Settles /\ DOMAIN cache' = Files(o.place)
  BY <1>1, <1>2, OpenedDb DEF ToolInv
<1>4. Bounds'
  BY OptionAssumption DEF Start, ToolInv, Bounds
<1>5. OpenInv'
  BY <1>3 DEF Start, OpenInv
<1>6. Records'
  BY DEF Records
<1> QED
  BY <1>3, <1>4, <1>5, <1>6 DEF ToolInv

(* A step of a process that changes no file. *)
LEMMA QuietTool ==
  ASSUME ToolInv, UNCHANGED <<disk, cache, opts, sessions, archived, damaged>>,
         job.cmd # "none", job'.cmd = job.cmd, job'.doc = job.doc, JobShape',
         job'.pc \in Working => job.pc \in Working,
         faults' \in 0..MaxFaults, fresh' \in Nat,
         keys' # {} => keys # {}
  PROVE  ToolInv' /\ Settles
<1>1. DbInv'
  BY DEF ToolInv, DbInv, WritesThrough
<1>2. Bounds'
  BY DEF ToolInv, Bounds
<1>3. OpenInv'
  BY DEF ToolInv, OpenInv
<1>4. Records'
  BY DEF ToolInv, Records, RecordShape
<1>5. Settles
  BY DEF Settles, Holds
<1> QED
  BY <1>1, <1>2, <1>3, <1>4, <1>5 DEF ToolInv

(* A step of a process that writes a block. *)
LEMMA WriteTool ==
  ASSUME ToolInv, NEW f \in DOMAIN cache, NEW k, NEW c, WriteBlock(f, k, c),
         UNCHANGED <<opts, sessions, archived, damaged>>,
         job.cmd # "none", job'.cmd = job.cmd, job'.doc = job.doc, JobShape',
         job'.pc \in Working => job.pc \in Working,
         faults' \in 0..MaxFaults, fresh' \in Nat,
         keys' # {} => keys # {}
  PROVE  ToolInv'
<1>1. DbInv' /\ DOMAIN cache' = DOMAIN cache
  BY WriteDb DEF ToolInv
<1>2. Bounds'
  BY DEF ToolInv, Bounds
<1>3. OpenInv'
  BY <1>1 DEF ToolInv, OpenInv
<1>4. Records'
  BY DEF ToolInv, Records, RecordShape
<1> QED
  BY <1>1, <1>2, <1>3, <1>4 DEF ToolInv

(* A step of a process that closes a file. *)
LEMMA ShutTool ==
  ASSUME ToolInv, NEW f \in DOMAIN cache, Shuts(f),
         UNCHANGED <<opts, sessions, archived, damaged, fresh>>,
         job.cmd # "none", job'.cmd = job.cmd, job'.doc = job.doc, JobShape',
         job'.pc \notin Working, faults' \in 0..MaxFaults,
         keys' # {} => keys # {}
  PROVE  ToolInv' /\ Settles
<1>1. DbInv' /\ Settles /\ DOMAIN cache' = DOMAIN cache \ {f}
  BY ShutsDb DEF ToolInv
<1>2. Bounds'
  BY DEF ToolInv, Bounds
<1>3. OpenInv'
  BY <1>1 DEF ToolInv, OpenInv
<1>4. Records'
  BY DEF ToolInv, Records, RecordShape
<1> QED
  BY <1>1, <1>2, <1>3, <1>4 DEF ToolInv

(* A process ends. *)
LEMMA GoneTool ==
  ASSUME ToolInv, Gone, faults' \in 0..MaxFaults, keys' = {},
         \A r \in archived' : RecordShape(r)
  PROVE  ToolInv' /\ Settles
<1>1. DbInv' /\ Settles /\ DOMAIN cache' = {}
  BY AbandonDb DEF ToolInv, Gone
<1>2. Bounds'
  BY DEF ToolInv, Bounds, Gone
<1>3. JobShape'
  BY DEF Gone, NoProcess, JobShape, JobFields
<1>4. OpenInv'
  BY <1>1 DEF Gone, NoProcess, OpenInv, Working
<1>5. Records'
  BY DEF Gone, NoProcess, Records
<1> QED
  BY <1>1, <1>2, <1>3, <1>4, <1>5 DEF ToolInv

(* Faults keep to their bound. *)
LEMMA FaultBound ==
  ASSUME Bounds, Fault \/ NoFault
  PROVE  faults' \in 0..MaxFaults
  BY ClassAssumption DEF Bounds, Fault, NoFault

(* The stack writes a block or finds it there. *)
LEMMA StackWritten ==
  ASSUME ToolInv, NEW role \in Role, job.pc \in Working, NEW k, NEW c,
         StackWrites(role, k, c)
  PROVE  /\ opts.place[role] \in DOMAIN cache /\ opts.place[role] \in File
         /\ \/ WriteBlock(opts.place[role], k, StoredForm(role, c))
            \/ /\ k \in DOMAIN cache[opts.place[role]]
               /\ UNCHANGED <<disk, cache>>
         /\ Fault \/ NoFault
<1>1. job.cmd # "none"
  BY DEF ToolInv, JobShape, Working
<1>2. opts \in Option /\ Files(opts.place) \subseteq DOMAIN cache
  BY <1>1 DEF ToolInv, OpenInv
<1>3. opts.place[role] \in DOMAIN cache /\ opts.place[role] \in File
  BY <1>2, FilesIn DEF ToolInv, DbInv
<1> QED
  BY <1>3 DEF StackWrites, Told, Exists

(* The steps that touch no file. *)
Quiet ==
  \/ IndexFails \/ FetchRoot \/ FetchData \/ ReadFails \/ EndOfStream
  \/ Leave \/ AllClosed
  \/ CopyFails \/ IteratorFails \/ EndOfStore \/ ConvertLeave

LEMMA QuietStep ==
  ASSUME ToolInv, Quiet, keys' # {} => keys # {}
  PROVE  ToolInv' /\ Settles
<1> USE DEF JobFields
<1>1. DOMAIN job = JobFields /\ JobShape /\ Bounds
  BY DEF ToolInv, JobShape
<1> DEFINE Goal == /\ UNCHANGED <<disk, cache, opts, sessions, archived, damaged>>
                   /\ job.cmd # "none" /\ job'.cmd = job.cmd /\ job'.doc = job.doc
                   /\ JobShape' /\ (job'.pc \in Working => job.pc \in Working)
                   /\ (Fault \/ NoFault) /\ fresh' \in Nat
<1>2. ASSUME IndexFails PROVE Goal
  <2>1. job' = [job EXCEPT !.indexer = job'.indexer, !.failed = TRUE, !.pc = "leave"]
    BY <1>1, <1>2 DEF IndexFails
  <2>2. JobShape' /\ job.cmd # "none" /\ job'.cmd = job.cmd /\ job'.doc = job.doc
    BY <1>1, <1>2, <2>1 DEF IndexFails, JobShape
  <2> QED
    BY <1>1, <1>2, <2>2 DEF IndexFails, StackWriteFails, Bounds, Working
<1>3. ASSUME FetchRoot PROVE Goal
  <2>1. \/ job' = [job EXCEPT !.left = job'.left, !.pc = "read"]
        \/ job' = [job EXCEPT !.failed = TRUE, !.pc = "leave"]
    BY <1>1, <1>3 DEF FetchRoot, Fails
  <2>2. JobShape' /\ job.cmd # "none" /\ job'.cmd = job.cmd /\ job'.doc = job.doc
    BY <1>1, <1>3, <2>1 DEF FetchRoot, JobShape
  <2> QED
    BY <1>1, <1>3, <2>2 DEF FetchRoot, RestoreStep, Bounds, Working
<1>4. ASSUME FetchData PROVE Goal
  <2>1. \/ job' = [job EXCEPT !.out = job'.out, !.left = job'.left]
        \/ job' = [job EXCEPT !.lost = TRUE, !.left = job'.left]
        \/ job' = [job EXCEPT !.failed = TRUE, !.pc = "leave"]
    BY <1>1, <1>4 DEF FetchData, Fails
  <2>2. JobShape' /\ job.cmd # "none" /\ job'.cmd = job.cmd /\ job'.doc = job.doc
    BY <1>1, <1>4, <2>1 DEF FetchData, JobShape
  <2> QED
    BY <1>1, <1>4, <2>2 DEF FetchData, RestoreStep, Bounds, Working
<1>5. ASSUME ReadFails PROVE Goal
  <2>1. JobShape' /\ job.cmd # "none" /\ job'.cmd = job.cmd /\ job'.doc = job.doc
    BY <1>1, <1>5 DEF ReadFails, Fails, JobShape
  <2> QED
    BY <1>1, <1>5, <2>1 DEF ReadFails, RestoreStep, Bounds, Working
<1>6. ASSUME EndOfStream PROVE Goal
  <2>1. JobShape' /\ job.cmd # "none" /\ job'.cmd = job.cmd /\ job'.doc = job.doc
    BY <1>1, <1>6 DEF EndOfStream, JobShape
  <2> QED
    BY <1>1, <1>6, <2>1 DEF EndOfStream, RestoreStep, Bounds, Working
<1>7. ASSUME Leave PROVE Goal
  <2>1. JobShape' /\ job.cmd # "none" /\ job'.cmd = job.cmd /\ job'.doc = job.doc
    BY <1>1, <1>7 DEF Leave, JobShape
  <2> QED
    BY <1>1, <1>7, <2>1 DEF Leave, NoFault, Bounds, Working, dbVars
<1>8. ASSUME AllClosed PROVE Goal
  <2>1. JobShape' /\ job.cmd # "none" /\ job'.cmd = job.cmd /\ job'.doc = job.doc
    BY <1>1, <1>8 DEF AllClosed, JobShape
  <2> QED
    BY <1>1, <1>8, <2>1 DEF AllClosed, NoFault, Bounds, Working, dbVars, JobShape
<1>9. ASSUME CopyFails PROVE Goal
  <2>1. JobShape' /\ job.cmd # "none" /\ job'.cmd = job.cmd /\ job'.doc = job.doc
    BY <1>1, <1>9 DEF CopyFails, Fails, JobShape
  <2> QED
    BY <1>1, <1>9, <2>1 DEF CopyFails, ConvertStep, Bounds, Working
<1>10. ASSUME IteratorFails PROVE Goal
  <2>1. \/ job' = [job EXCEPT !.lost = TRUE]
        \/ job' = [job EXCEPT !.failed = TRUE, !.pc = "leave"]
    BY <1>10 DEF IteratorFails, Fails
  <2>2. JobShape' /\ job.cmd # "none" /\ job'.cmd = job.cmd /\ job'.doc = job.doc
    BY <1>1, <1>10, <2>1 DEF IteratorFails, JobShape
  <2> QED
    BY <1>1, <1>10, <2>2 DEF IteratorFails, ConvertStep, Bounds, Working
<1>11. ASSUME EndOfStore PROVE Goal
  <2>1. JobShape' /\ job.cmd # "none" /\ job'.cmd = job.cmd /\ job'.doc = job.doc
    BY <1>1, <1>11 DEF EndOfStore, JobShape
  <2> QED
    BY <1>1, <1>11, <2>1 DEF EndOfStore, ConvertStep, Bounds, Working
<1>12. ASSUME ConvertLeave PROVE Goal
  <2>1. JobShape' /\ job.cmd # "none" /\ job'.cmd = job.cmd /\ job'.doc = job.doc
    BY <1>1, <1>12 DEF ConvertLeave, JobShape
  <2> QED
    BY <1>1, <1>12, <2>1 DEF ConvertLeave, ConvertStep, NoFault, Bounds, Working, dbVars
<1>13. Goal
  BY <1>2, <1>3, <1>4, <1>5, <1>6, <1>7, <1>8, <1>9, <1>10, <1>11, <1>12 DEF Quiet
<1>14. faults' \in 0..MaxFaults
  BY <1>1, <1>13, FaultBound
<1> QED
  BY <1>13, <1>14, QuietTool

(* A step disturbs records and marks them as kept, and no more. *)
LEMMA DisturbedFacts ==
  ASSUME NEW files, NEW s \in Disturbed(files), \A r \in archived : DOMAIN r = RecordFields
  PROVE  \E r \in archived :
           \/ s = r /\ ~(r.class = "integer" /\ Files(r.place) \cap files # {})
           \/ /\ r.class = "integer" /\ DOMAIN s = RecordFields /\ s.alone = FALSE
              /\ s.tuple = r.tuple /\ s.doc = r.doc /\ s.place = r.place
              /\ s.zip = r.zip /\ s.class = r.class /\ s.kept = r.kept
<1>1. PICK r \in archived :
        s = IF r.class = "integer" /\ Files(r.place) \cap files # {}
            THEN [r EXCEPT !.alone = FALSE] ELSE r
  BY DEF Disturbed
<1> QED
  BY <1>1

Matches(r) ==
  /\ ~job.lost
  /\ r.tuple = job.tuple /\ r.doc = job.doc
  /\ r.place = opts.place /\ r.zip = opts.zip

LEMMA KeptFacts ==
  ASSUME NEW s \in Kept, \A r \in archived : DOMAIN r = RecordFields
  PROVE  \E r \in archived :
           \/ s = r
           \/ /\ Matches(r) /\ DOMAIN s = RecordFields /\ s.kept = TRUE
              /\ s.tuple = r.tuple /\ s.doc = r.doc /\ s.place = r.place
              /\ s.zip = r.zip /\ s.class = r.class /\ s.alone = r.alone
<1>1. PICK r \in archived :
        s = IF /\ ~job.lost
               /\ r.tuple = job.tuple /\ r.doc = job.doc
               /\ r.place = opts.place /\ r.zip = opts.zip
            THEN [r EXCEPT !.kept = TRUE] ELSE r
  BY DEF Kept
<1> QED
  BY <1>1 DEF Matches

LEMMA RecordsShaped ==
  ASSUME ToolInv
  PROVE  /\ \A r \in archived : DOMAIN r = RecordFields
         /\ \A files : \A s \in Disturbed(files) : RecordShape(s)
         /\ \A s \in Kept : RecordShape(s)
<1>1. \A r \in archived : RecordShape(r) /\ DOMAIN r = RecordFields
  BY DEF ToolInv, Records, RecordShape
<1>2. ASSUME NEW files, NEW s \in Disturbed(files) PROVE RecordShape(s)
  <2>0. \A r \in archived : DOMAIN r = RecordFields
    BY <1>1
  <2>1. PICK r \in archived :
           s = IF r.class = "integer" /\ Files(r.place) \cap files # {}
               THEN [r EXCEPT !.alone = FALSE] ELSE r
    BY <1>2 DEF Disturbed
  <2>2. \/ s = r
        \/ /\ DOMAIN s = RecordFields
           /\ s.doc = r.doc /\ s.place = r.place /\ s.zip = r.zip
    BY <2>0, <2>1
  <2> QED
    BY <1>1, <2>2 DEF RecordShape
<1>3. ASSUME NEW s \in Kept PROVE RecordShape(s)
  <2>0. \A r \in archived : DOMAIN r = RecordFields
    BY <1>1
  <2>1. PICK r \in archived :
           \/ s = r
           \/ /\ DOMAIN s = RecordFields
              /\ s.doc = r.doc /\ s.place = r.place /\ s.zip = r.zip
    BY <2>0, KeptFacts
  <2> QED
    BY <1>1, <2>1 DEF RecordShape
<1> QED
  BY <1>1, <1>2, <1>3

LEMMA StartArchiveStep ==
  ASSUME ToolInv, NEW o \in ArchiveOpts, NEW d \in Document, StartArchive(o, d), keys' = {}
  PROVE  ToolInv' /\ Settles /\ o \in Option
<1>1. o \in Option /\ Start(o, Files(o.place))
  BY OptionAssumption DEF StartArchive
<1>2. /\ DOMAIN job' = JobFields /\ job'.cmd = "archive" /\ job'.doc = d
      /\ JobShape'
  BY DEF StartArchive, NoProcess, JobShape, JobFields
<1>3. \A r \in archived' : RecordShape(r)
  BY RecordsShaped DEF StartArchive, ToolInv, Records
<1>4. damaged' \subseteq File
  BY DEF StartArchive, ToolInv, Bounds
<1>5. PICK j : job' = j
  OBVIOUS
<1>6. ToolInv' /\ Settles
  BY <1>1, <1>2, <1>3, <1>4, <1>5, StartTool
<1> QED
  BY <1>1, <1>6

LEMMA StartRestoreStep ==
  ASSUME ToolInv, NEW o \in RestoreOpts, NEW r \in archived, StartRestore(o, r), keys' = {}
  PROVE  ToolInv' /\ Settles /\ o \in Option /\ RecordShape(r)
<1> DEFINE p == [o EXCEPT !.place = r.place, !.zip = r.zip]
<1>1. o \in Option /\ RecordShape(r)
  BY OptionAssumption DEF ToolInv, Records
<1>2. p \in Option /\ p.place = r.place
  BY <1>1, RestoreOptions DEF Option
<1>3. Start(p, Files(p.place))
  BY <1>2 DEF StartRestore
<1>4. /\ DOMAIN job' = JobFields /\ job'.cmd = "restore"
      /\ JobShape'
  BY DEF StartRestore, NoProcess, JobShape, JobFields
<1>5. (\A s \in archived' : RecordShape(s)) /\ damaged' \subseteq File
  BY <1>3 DEF StartRestore, Start, ToolInv, Records, Bounds
<1>6. PICK j : job' = j
  OBVIOUS
<1> HIDE DEF p
<1>7. ToolInv' /\ Settles
  BY <1>2, <1>3, <1>4, <1>5, <1>6, StartTool
<1> QED
  BY <1>1, <1>7

LEMMA StartConvertStep ==
  ASSUME ToolInv, NEW pair \in ConvertPair, StartConvert(pair)
  PROVE  ToolInv' /\ Settles
<1> DEFINE p == [NoOpts EXCEPT !.place = [role \in Role |->
                    IF role = "data" THEN pair[1] ELSE pair[2]]]
<1>1. p \in Option /\ Files(p.place) = {pair[1], pair[2]}
  BY ConvertOptions
<1>2. Start(p, {pair[1], pair[2]})
  BY DEF StartConvert
<1>3. /\ DOMAIN job' = JobFields /\ job'.cmd = "convert"
      /\ JobShape'
  BY DEF StartConvert, NoProcess, JobShape, JobFields
<1>4. \A s \in archived' : RecordShape(s)
  BY RecordsShaped DEF StartConvert, ToolInv, Records
<1>5. damaged' \subseteq File
  BY ConvertAssumption DEF StartConvert, ToolInv, Bounds
<1>6. PICK j : job' = j
  OBVIOUS
<1> HIDE DEF p
<1> QED
  BY <1>1, <1>2, <1>3, <1>4, <1>5, <1>6, StartTool

(* Indexing a block, seen from the files: a write through the stack. *)
LEMMA IndexStep ==
  ASSUME ToolInv, NEW role \in Role, NEW k, NEW c, job.pc = "index",
         StackWrites(role, k, c), job'.cmd = job.cmd, job'.doc = job.doc, JobShape',
         job'.pc \in {"index", "print"}, fresh' \in Nat,
         UNCHANGED <<opts, archived, damaged, sessions>>, keys' = {}
  PROVE  ToolInv'
<1>1. job.pc \in Working /\ job'.pc \in Working /\ job.cmd # "none"
  BY DEF Working, ToolInv, JobShape
<1>2. /\ opts.place[role] \in DOMAIN cache
      /\ \/ WriteBlock(opts.place[role], k, StoredForm(role, c))
         \/ UNCHANGED <<disk, cache>>
      /\ Fault \/ NoFault
  BY <1>1, StackWritten
<1>a. faults' \in 0..MaxFaults
  BY <1>2, FaultBound DEF ToolInv
<1>3. CASE WriteBlock(opts.place[role], k, StoredForm(role, c))
  BY <1>1, <1>2, <1>3, <1>a, WriteTool
<1>4. CASE UNCHANGED <<disk, cache>>
  BY <1>1, <1>4, <1>a, QuietTool
<1> QED
  BY <1>2, <1>3, <1>4

LEMMA IndexDataStep ==
  ASSUME ToolInv, IndexData, keys' = {}
  PROVE  ToolInv'
<1>1. PICK k, c : StackWrites("data", k, c)
  BY DEF IndexData
<1>2. job' = [job EXCEPT !.indexer = job'.indexer, !.handles = job'.handles]
      /\ DOMAIN job = JobFields
  BY DEF IndexData, ToolInv, JobShape, JobFields
<1>3. /\ job'.cmd = job.cmd /\ job'.doc = job.doc /\ job'.pc = "index" /\ JobShape'
      /\ job.pc = "index"
  BY <1>2 DEF IndexData, ToolInv, JobShape, JobFields
<1>4. UNCHANGED <<opts, archived, damaged, sessions>> /\ fresh' \in Nat
  BY DEF IndexData, ToolInv, Bounds
<1> QED
  BY <1>1, <1>3, <1>4, IndexStep DEF Role

LEMMA IndexRootStep ==
  ASSUME ToolInv, IndexRoot, keys' = {}
  PROVE  ToolInv'
<1>1. PICK k, c : StackWrites("metadata", k, c)
  BY DEF IndexRoot
<1>2. job' = [job EXCEPT !.indexer = job'.indexer, !.pc = "print", !.tuple = job'.tuple]
      /\ DOMAIN job = JobFields
  BY DEF IndexRoot, ToolInv, JobShape, JobFields
<1>3. /\ job'.cmd = job.cmd /\ job'.doc = job.doc /\ job'.pc = "print" /\ JobShape'
      /\ job.pc = "index"
  BY <1>2 DEF IndexRoot, ToolInv, JobShape, JobFields
<1>4. UNCHANGED <<opts, archived, damaged, sessions>> /\ fresh' \in Nat
  BY DEF IndexRoot, ToolInv, Bounds
<1> QED
  BY <1>1, <1>3, <1>4, IndexStep DEF Role

(* What the converter copies it has read from its source. *)
LEMMA CopyBlockFacts ==
  ASSUME ToolInv, CopyBlock
  PROVE  /\ source \in DOMAIN cache /\ dest \in DOMAIN cache /\ NextKey \in keys
         /\ job.cmd = "convert"
         /\ \/ /\ WriteBlock(dest, NextKey, cache[source][NextKey])
               /\ NextKey \in DOMAIN cache[source]
               /\ keys' = keys \ {NextKey} /\ UNCHANGED job
            \/ /\ job' = [job EXCEPT !.failed = TRUE, !.pc = "leave"]
               /\ UNCHANGED <<disk, cache, keys>>
<1>1. job.pc \in Working /\ job.cmd = "convert"
  BY DEF CopyBlock, ToolInv, JobShape, Working
<1>2. opts \in Option /\ Files(opts.place) \subseteq DOMAIN cache
  BY <1>1 DEF ToolInv, OpenInv
<1>3. source \in DOMAIN cache /\ dest \in DOMAIN cache
  BY <1>2, FilesIn DEF source, dest, Role
<1>4. NextKey \in keys
  BY DEF CopyBlock, NextKey
<1>5. CASE ReadBlock(source, NextKey).ok
  <2>1. /\ NextKey \in DOMAIN cache[source]
        /\ ReadBlock(source, NextKey).block = cache[source][NextKey]
    BY <1>5 DEF ReadBlock, Held, Unavailable
  <2>2. WriteBlock(dest, NextKey, ReadBlock(source, NextKey).block)
        /\ keys' = keys \ {NextKey} /\ UNCHANGED job
    BY <1>5 DEF CopyBlock, Visited
  <2> QED
    BY <1>1, <1>3, <1>4, <2>1, <2>2
<1>6. CASE ~ReadBlock(source, NextKey).ok
  BY <1>1, <1>3, <1>4, <1>6 DEF CopyBlock, Fails
<1> QED
  BY <1>5, <1>6

LEMMA CopyBlockStep ==
  ASSUME ToolInv, CopyBlock
  PROVE  ToolInv'
<1>1. job.cmd # "none" /\ job.pc = "copy" /\ job.pc \in Working /\ keys # {}
  BY CopyBlockFacts DEF CopyBlock, Working
<1>2. UNCHANGED <<opts, sessions, archived, damaged, faults, fresh>>
      /\ faults' \in 0..MaxFaults /\ fresh' \in Nat
  BY DEF CopyBlock, ConvertStep, NoFault, ToolInv, Bounds
<1>3. CASE UNCHANGED job
  <2>1. JobShape'
    BY <1>3 DEF ToolInv, JobShape
  <2>2. /\ dest \in DOMAIN cache
        /\ \/ WriteBlock(dest, NextKey, cache[source][NextKey])
           \/ UNCHANGED <<disk, cache>>
    BY CopyBlockFacts
  <2> QED
    BY <1>1, <1>2, <1>3, <2>1, <2>2, WriteTool, QuietTool
<1>4. CASE job' = [job EXCEPT !.failed = TRUE, !.pc = "leave"]
           /\ UNCHANGED <<disk, cache, keys>>
  <2>1. JobShape' /\ job'.cmd = job.cmd /\ job'.doc = job.doc
    BY <1>1, <1>4 DEF ToolInv, JobShape, JobFields
  <2> QED
    BY <1>1, <1>2, <1>4, <2>1, QuietTool
<1> QED
  BY <1>3, <1>4, CopyBlockFacts

LEMMA PrintHandleStep ==
  ASSUME ToolInv, PrintHandle, keys' = {}
  PROVE  ToolInv' /\ Settles
<1>1. job.cmd = "archive" /\ opts \in Option /\ DOMAIN job = JobFields
  BY DEF PrintHandle, ToolInv, JobShape, OpenInv
<1>2. DbInv' /\ Settles
  BY DEF PrintHandle, dbVars, ToolInv, DbInv, WritesThrough, Settles, Holds
<1>3. JobShape' /\ job'.cmd = "archive" /\ job'.doc = job.doc
  BY <1>1 DEF PrintHandle, ToolInv, JobShape, JobFields
<1>4. Bounds'
  BY DEF PrintHandle, dbVars, ToolInv, Bounds
<1>5. OpenInv'
  BY <1>1, <1>3 DEF PrintHandle, dbVars, ToolInv, OpenInv, JobFields, Working
<1> DEFINE new == [tuple |-> job.tuple, doc |-> job.doc, place |-> opts.place,
                   zip |-> opts.zip, class |-> opts.indexer, alone |-> job.trust,
                   kept |-> FALSE]
<1>6. RecordShape(new)
  BY <1>1 DEF RecordShape, ToolInv, Records, Option
<1>7. Records'
  BY <1>3, <1>6 DEF PrintHandle, ToolInv, Records, RecordShape
<1> QED
  BY <1>2, <1>3, <1>4, <1>5, <1>7 DEF ToolInv

(* One closing: of a file that is open, in one of three ways, or of none. *)
LEMMA CloseFacts ==
  ASSUME ToolInv, Close
  PROVE  LET f == Head(job.ends).file
         IN  /\ job.pc = "close" /\ job.ends # << >> /\ job.cmd # "none"
             /\ \/ UNCHANGED <<disk, cache, faults>>
                   /\ f \notin DOMAIN cache /\ job' = [job EXCEPT !.ends = Tail(@)]
                \/ /\ f \in DOMAIN cache /\ Shuts(f)
                   /\ Fault \/ NoFault
                   /\ \/ /\ job' = [job EXCEPT !.ends = Tail(@)]
                         /\ disk' = [disk EXCEPT ![f] = cache[f]]
                      \/ /\ job' = [job EXCEPT !.ends = << >>, !.status = 7, !.pc = "exit"]
                         /\ Head(job.ends).looks
                      \/ job' = [job EXCEPT !.ends = Tail(@), !.lost = TRUE]
<1> DEFINE f == Head(job.ends).file
<1>1. job.pc = "close" /\ job.ends # << >> /\ job.cmd # "none"
  BY DEF Close, ToolInv, JobShape
<1>2. CASE ~IsOpen(f) /\ job' = [job EXCEPT !.ends = Tail(@)] /\ UNCHANGED dbVars
  BY <1>1, <1>2 DEF IsOpen, dbVars
<1>3. CASE /\ IsOpen(f)
           /\ IF Head(job.ends).forgets THEN Forget(f) ELSE Flush(f)
           /\ job' = IF disk'[f] = cache[f]
                     THEN [job EXCEPT !.ends = Tail(@)]
                     ELSE [job EXCEPT !.ends = Tail(@), !.lost = TRUE]
  <2>1. /\ f \in DOMAIN cache /\ Shuts(f) /\ NoFault
        /\ \E left : disk' = [disk EXCEPT ![f] = left]
    <3>1. CASE Head(job.ends).forgets
      BY <1>3, <3>1 DEF IsOpen, Forget, Shuts
    <3>2. CASE ~Head(job.ends).forgets
      BY <1>3, <3>2 DEF IsOpen, Flush, Shuts
    <3> QED
      BY <3>1, <3>2
  <2>2. f \in DOMAIN disk
    BY <2>1 DEF ToolInv, DbInv
  <2>3. disk'[f] = cache[f] => disk' = [disk EXCEPT ![f] = cache[f]]
    BY <2>1, <2>2
  <2> QED
    BY <1>1, <1>3, <2>1, <2>3
<1>4. CASE /\ IsOpen(f) /\ FlushFails(f)
           /\ job' = IF Head(job.ends).looks /\ ReportsClose(f)
                     THEN [job EXCEPT !.ends = << >>, !.status = 7, !.pc = "exit"]
                     ELSE [job EXCEPT !.ends = Tail(@), !.lost = TRUE]
  BY <1>1, <1>4 DEF IsOpen, FlushFails, Shuts
<1> QED
  BY <1>1, <1>2, <1>3, <1>4 DEF Close

LEMMA CloseStep ==
  ASSUME ToolInv, Close, keys' = {}
  PROVE  ToolInv' /\ Settles
<1> DEFINE f == Head(job.ends).file
<1>1. job.pc = "close" /\ job.cmd # "none" /\ DOMAIN job = JobFields
  BY CloseFacts DEF ToolInv, JobShape
<1>2. UNCHANGED <<opts, sessions, archived, damaged, fresh>>
  BY DEF Close
<1>3. \/ job' = [job EXCEPT !.ends = Tail(@)]
      \/ job' = [job EXCEPT !.ends = << >>, !.status = 7, !.pc = "exit"]
      \/ job' = [job EXCEPT !.ends = Tail(@), !.lost = TRUE]
  BY CloseFacts
<1>4. JobShape' /\ job'.cmd = job.cmd /\ job'.doc = job.doc /\ job'.pc \notin Working
  <2>1. CASE job' = [job EXCEPT !.ends = Tail(@)]
    BY <1>1, <2>1 DEF ToolInv, JobShape, JobFields, Working
  <2>2. CASE job' = [job EXCEPT !.ends = << >>, !.status = 7, !.pc = "exit"]
    BY <1>1, <2>2 DEF ToolInv, JobShape, JobFields, Working
  <2>3. CASE job' = [job EXCEPT !.ends = Tail(@), !.lost = TRUE]
    BY <1>1, <2>3 DEF ToolInv, JobShape, JobFields, Working
  <2> QED
    BY <1>3, <2>1, <2>2, <2>3
<1>5. CASE UNCHANGED <<disk, cache, faults>>
  <2>1. faults' \in 0..MaxFaults /\ fresh' \in Nat
    BY <1>2, <1>5 DEF ToolInv, Bounds
  <2> QED
    BY <1>1, <1>2, <1>4, <1>5, <2>1, QuietTool
<1>6. CASE f \in DOMAIN cache /\ Shuts(f) /\ (Fault \/ NoFault)
  <2>1. faults' \in 0..MaxFaults
    BY <1>6, FaultBound DEF ToolInv
  <2> QED
    BY <1>1, <1>2, <1>4, <1>6, <2>1, ShutTool
<1> QED
  BY <1>5, <1>6, CloseFacts

LEMMA EndStep ==
  ASSUME ToolInv, Exit \/ Crash, keys' = {}
  PROVE  ToolInv' /\ Settles
<1>1. Gone /\ (Fault \/ NoFault)
  BY DEF Exit, Crash
<1>2. faults' \in 0..MaxFaults
  BY <1>1, FaultBound DEF ToolInv
<1>3. \A r \in archived' : RecordShape(r)
  <2>1. archived' = archived \/ archived' = Kept
    BY DEF Exit, Crash
  <2> QED
    BY <2>1, RecordsShaped DEF ToolInv, Records
<1> QED
  BY <1>1, <1>2, <1>3, GoneTool

(* Damage changes the content of one block of a damaged file. *)
LEMMA DamageStep ==
  ASSUME ToolInv, Damage, keys' = {}
  PROVE  /\ ToolInv'
         /\ \A f \in File : DOMAIN disk[f] \subseteq DOMAIN disk'[f]
         /\ \A f \in File : \A k, c : Holds(f, k, c)' => 
               Holds(f, k, c) \/ (f \in damaged' /\ k \in DOMAIN disk[f])
         /\ damaged \subseteq damaged'
<1>a. PICK f \in File : \E k \in DOMAIN disk[f] :
        /\ damaged' = damaged \cup {f}
        /\ \E bad : disk' = [disk EXCEPT ![f][k] = bad]
  BY DEF Damage
<1>1. PICK k \in DOMAIN disk[f] :
        /\ damaged' = damaged \cup {f}
        /\ \E bad : disk' = [disk EXCEPT ![f][k] = bad]
  BY <1>a
<1>2. PICK bad : disk' = [disk EXCEPT ![f][k] = bad]
  BY <1>1
<1>3. DOMAIN disk = File /\ DOMAIN cache = {} /\ cache' = cache
  BY DEF ToolInv, DbInv, OpenInv, Damage
<1>4. /\ DOMAIN disk' = File /\ \A g \in File : DOMAIN disk'[g] = DOMAIN disk[g]
      /\ \A g \in File : g # f => disk'[g] = disk[g]
      /\ \A x \in DOMAIN disk[f] : x # k => disk'[f][x] = disk[f][x]
  BY <1>1, <1>2, <1>3
<1>5. DbInv'
  BY <1>3, <1>4 DEF ToolInv, DbInv
<1>6. ASSUME NEW g \in File, NEW x, NEW c, Holds(g, x, c)'
      PROVE  Holds(g, x, c) \/ (g \in damaged' /\ x \in DOMAIN disk[g])
  BY <1>1, <1>3, <1>4, <1>6 DEF Holds
<1>7. JobShape'
  BY DEF Damage, ToolInv, JobShape
<1>8. Bounds'
  BY <1>1, FaultBound DEF Damage, ToolInv, Bounds
<1>9. OpenInv' /\ Records'
  BY <1>3 DEF Damage, ToolInv, OpenInv, Records, RecordShape
<1> QED
  BY <1>1, <1>4, <1>5, <1>6, <1>7, <1>8, <1>9 DEF ToolInv

LEMMA ToolNext ==
  ASSUME ToolInv, [Next]_toolVars
  PROVE  ToolInv'
<1>1. CASE ArchiverNext /\ keys' = {}
  <2>1. CASE \E o \in ArchiveOpts, d \in Document : StartArchive(o, d)
    BY <1>1, <2>1, StartArchiveStep
  <2>2. CASE \E o \in RestoreOpts, r \in archived : StartRestore(o, r)
    BY <1>1, <2>2, StartRestoreStep
  <2>3. CASE IndexFails \/ FetchRoot \/ FetchData \/ ReadFails \/ EndOfStream
             \/ Leave \/ AllClosed
    BY <1>1, <2>3, QuietStep DEF Quiet
  <2>4. CASE IndexData \/ IndexRoot \/ PrintHandle \/ Close \/ Exit \/ Crash \/ Damage
    BY <1>1, <2>4, IndexDataStep, IndexRootStep, PrintHandleStep, CloseStep, EndStep,
       DamageStep
  <2> QED
    BY <1>1, <2>1, <2>2, <2>3, <2>4 DEF ArchiverNext
<1>2. CASE ConvertNext
  <2>1. CASE \E pair \in ConvertPair : StartConvert(pair)
    BY <2>1, StartConvertStep
  <2>2. CASE CopyBlock
    BY <2>2, CopyBlockStep
  <2>3. CASE CopyFails \/ IteratorFails \/ EndOfStore \/ ConvertLeave
    <3>1. keys' # {} => keys # {}
      BY <2>3 DEF CopyFails, IteratorFails, EndOfStore, ConvertLeave
    <3> QED
      BY <2>3, <3>1, QuietStep DEF Quiet
  <2> QED
    BY <1>2, <2>1, <2>2, <2>3 DEF ConvertNext
<1>3. CASE UNCHANGED toolVars
  <2>1. UNCHANGED <<disk, cache, faults, opts, job, archived, damaged, fresh, sessions, keys>>
    BY <1>3 DEF toolVars, archiverVars
  <2> QED
    BY <2>1 DEF ToolInv, DbInv, WritesThrough, JobShape, Bounds, OpenInv, Records,
                RecordShape
<1> QED
  BY <1>1, <1>2, <1>3 DEF Next

(* Files, process and options are always in step. *)
LEMMA ToolAlways == Spec => []ToolInv
<1>1. ToolInv /\ [Next]_toolVars => ToolInv'
  BY ToolNext
<1> QED
  BY ToolInit, <1>1, PTL DEF Spec

(***************************************************************************)
(* A file is open only while a process runs, a process that reads or       *)
(* writes has its files open, and the faults and processes keep to their   *)
(* bounds (chop-archiver.c's open_db_store and the closings of main).      *)
(***************************************************************************)
THEOREM ArchiveTypeCorrect == Spec => []TypeOK
<1>1. ToolInv => TypeOK
  <2> SUFFICES ASSUME ToolInv PROVE TypeOK
    OBVIOUS
  <2>1. job.cmd = "none" => \A f \in File : ~IsOpen(f)
    BY DEF ToolInv, OpenInv, IsOpen
  <2>2. job.pc \in {"index", "print", "root", "read", "copy", "leave"} =>
          \A f \in Files(opts.place) : IsOpen(f)
    BY DEF ToolInv, OpenInv, IsOpen, Working
  <2>3. /\ job.pc \in {"none", "index", "print", "root", "read", "copy", "leave",
                       "close", "exit"}
        /\ job.status \in {0, 1, 7}
    BY DEF ToolInv, JobShape
  <2> QED
    BY <2>1, <2>2, <2>3 DEF TypeOK, ToolInv, Bounds, OpenInv
<1> QED
  BY <1>1, ToolAlways, PTL

(* What a step that starts and ends no process, and indexes no block, leaves *)
(* alone.                                                                     *)
Frame ==
  /\ UNCHANGED <<opts, stats, damaged, sessions>>
  /\ DOMAIN job' = JobFields
  /\ job'.cmd = job.cmd /\ job'.doc = job.doc /\ job'.handles = job.handles
  /\ job'.tuple = job.tuple /\ job'.before = job.before /\ job'.trust = job.trust
  /\ fresh' \in {fresh, fresh + 1}

LEMMA FrameStep ==
  ASSUME ToolInv, Quiet \/ PrintHandle \/ CopyBlock \/ Close
  PROVE  Frame
<1>0. DOMAIN job = JobFields
  BY DEF ToolInv, JobShape
<1>1. ASSUME IndexFails PROVE Frame
  <2>1. job' = [job EXCEPT !.indexer = job'.indexer, !.failed = TRUE, !.pc = "leave"]
    BY <1>0, <1>1 DEF IndexFails, JobFields
  <2> QED
    BY <1>0, <1>1, <2>1 DEF IndexFails, StackWriteFails, Frame, JobFields
<1>2. ASSUME FetchRoot PROVE Frame
  BY <1>0, <1>2 DEF FetchRoot, Fails, RestoreStep, Frame, JobFields
<1>3. ASSUME FetchData PROVE Frame
  BY <1>0, <1>3 DEF FetchData, Fails, RestoreStep, Frame, JobFields
<1>4. ASSUME ReadFails PROVE Frame
  BY <1>0, <1>4 DEF ReadFails, Fails, RestoreStep, Frame, JobFields
<1>5. ASSUME EndOfStream PROVE Frame
  BY <1>0, <1>5 DEF EndOfStream, RestoreStep, Frame, JobFields
<1>6. ASSUME Leave PROVE Frame
  BY <1>0, <1>6 DEF Leave, Frame, JobFields
<1>7. ASSUME AllClosed PROVE Frame
  BY <1>0, <1>7 DEF AllClosed, Frame, JobFields
<1>8. ASSUME CopyFails PROVE Frame
  BY <1>0, <1>8 DEF CopyFails, Fails, ConvertStep, Frame, JobFields
<1>9. ASSUME IteratorFails PROVE Frame
  BY <1>0, <1>9 DEF IteratorFails, Fails, ConvertStep, Frame, JobFields
<1>10. ASSUME EndOfStore PROVE Frame
  BY <1>0, <1>10 DEF EndOfStore, ConvertStep, Frame, JobFields
<1>11. ASSUME ConvertLeave PROVE Frame
  BY <1>0, <1>11 DEF ConvertLeave, ConvertStep, Frame, JobFields
<1>12. ASSUME PrintHandle PROVE Frame
  BY <1>0, <1>12 DEF PrintHandle, Frame, JobFields
<1>13. ASSUME CopyBlock PROVE Frame
  <2>1. UNCHANGED job \/ job' = [job EXCEPT !.failed = TRUE, !.pc = "leave"]
    BY <1>13, CopyBlockFacts
  <2> QED
    BY <1>0, <1>13, <2>1 DEF CopyBlock, ConvertStep, Frame, JobFields
<1>14. ASSUME Close PROVE Frame
  <2>1. \/ job' = [job EXCEPT !.ends = Tail(@)]
        \/ job' = [job EXCEPT !.ends = << >>, !.status = 7, !.pc = "exit"]
        \/ job' = [job EXCEPT !.ends = Tail(@), !.lost = TRUE]
    BY <1>14, CloseFacts
  <2> QED
    BY <1>0, <1>14, <2>1 DEF Close, Frame, JobFields
<1> QED
  BY <1>1, <1>2, <1>3, <1>4, <1>5, <1>6, <1>7, <1>8, <1>9, <1>10, <1>11, <1>12, <1>13, <1>14 DEF Quiet

-----------------------------------------------------------------------------
(***************************************************************************)
(* The stack of stores.                                                    *)
(***************************************************************************)
IsIn(x, s) == \E i \in DOMAIN s : s[i] = x

IsSeq(s) == Len(s) \in Nat /\ s = [i \in 1..Len(s) |-> s[i]]

LEMMA SeqOf ==
  ASSUME NEW s, IsSeq(s)
  PROVE  s \in Seq({s[i] : i \in 1..Len(s)}) /\ DOMAIN s = 1..Len(s)
  BY DEF IsSeq

LEMMA SeqIs ==
  ASSUME NEW S, NEW s \in Seq(S)
  PROVE  IsSeq(s)
  BY DEF IsSeq

LEMMA ConcatIn ==
  ASSUME NEW s, NEW t, IsSeq(s), IsSeq(t), NEW x
  PROVE  IsSeq(s \o t) /\ (IsIn(x, s \o t) <=> IsIn(x, s) \/ IsIn(x, t))
<1> DEFINE S == {s[i] : i \in 1..Len(s)} \cup {t[i] : i \in 1..Len(t)}
<1>1. s \in Seq(S) /\ t \in Seq(S) /\ DOMAIN s = 1..Len(s) /\ DOMAIN t = 1..Len(t)
  BY DEF IsSeq
<1> HIDE DEF S
<1>2. PICK m \in Nat, n \in Nat : m = Len(s) /\ n = Len(t)
  BY DEF IsSeq
<1>3. /\ s \o t \in Seq(S) /\ Len(s \o t) = m + n /\ DOMAIN (s \o t) = 1..(m + n)
      /\ \A i \in 1..m : (s \o t)[i] = s[i]
      /\ \A i \in 1..n : (s \o t)[m + i] = t[i]
  BY <1>1, <1>2
<1>4. IsSeq(s \o t)
  BY <1>3, SeqIs
<1>5. IsIn(x, s \o t) => IsIn(x, s) \/ IsIn(x, t)
  <2> SUFFICES ASSUME NEW i \in 1..(m + n), (s \o t)[i] = x
               PROVE  IsIn(x, s) \/ IsIn(x, t)
    BY <1>3 DEF IsIn
  <2>1. CASE i <= m
    BY <1>1, <1>2, <1>3, <2>1 DEF IsIn
  <2>2. CASE i > m
    <3>1. i - m \in 1..n /\ i = m + (i - m)
      BY <2>2
    <3>2. t[i - m] = x
      BY <1>3, <3>1
    <3> QED
      BY <1>1, <1>2, <3>1, <3>2 DEF IsIn
  <2> QED
    BY <2>1, <2>2
<1>6. IsIn(x, s) => IsIn(x, s \o t)
  <2> SUFFICES ASSUME NEW i \in 1..m, s[i] = x PROVE IsIn(x, s \o t)
    BY <1>1, <1>2 DEF IsIn
  <2> QED
    BY <1>3 DEF IsIn
<1>7. IsIn(x, t) => IsIn(x, s \o t)
  <2> SUFFICES ASSUME NEW i \in 1..n, t[i] = x PROVE IsIn(x, s \o t)
    BY <1>1, <1>2 DEF IsIn
  <2>1. m + i \in 1..(m + n) /\ (s \o t)[m + i] = x
    BY <1>3
  <2> QED
    BY <1>3, <2>1 DEF IsIn
<1> QED
  BY <1>4, <1>5, <1>6, <1>7

LEMMA BelowIn ==
  ASSUME NEW p, NEW w \in BOOLEAN, NEW x
  PROVE  IsSeq(Below(p, w)) /\ (IsIn(x, Below(p, w)) <=> w /\ x = p)
  BY DEF Below, IsSeq, IsIn

LEMMA LayersHave ==
  ASSUME opts \in Option, NEW role \in Role
  PROVE  /\ Has(role, "stat") = opts.stats
         /\ Has(role, "smart") = opts.smart
         /\ Has(role, "filtered") = Filtered(opts.place, opts.zip, role)
<1> DEFINE a == Below("dummy", opts.verbose)
           b == Below("stat", opts.stats)
           c == Below("smart", opts.smart)
           w == Filtered(opts.place, opts.zip, role)
           d == Below("filtered", w)
<1>1. /\ opts.verbose \in BOOLEAN /\ opts.stats \in BOOLEAN /\ opts.smart \in BOOLEAN
      /\ opts.zip \in BOOLEAN /\ w \in BOOLEAN
  BY DEF Option, Filtered
<1>2. w = Filtered(opts.place, opts.zip, role)
  OBVIOUS
<1> HIDE DEF w
<1>3. \A x : /\ IsSeq(a) /\ (IsIn(x, a) <=> opts.verbose /\ x = "dummy")
             /\ IsSeq(b) /\ (IsIn(x, b) <=> opts.stats /\ x = "stat")
             /\ IsSeq(c) /\ (IsIn(x, c) <=> opts.smart /\ x = "smart")
             /\ IsSeq(d) /\ (IsIn(x, d) <=> w /\ x = "filtered")
  BY <1>1, BelowIn
<1> HIDE DEF a, b, c, d
<1>4. \A x : IsSeq(a \o b) /\ (IsIn(x, a \o b) <=> IsIn(x, a) \/ IsIn(x, b))
  BY <1>3, ConcatIn
<1>5. \A x : IsSeq((a \o b) \o c)
             /\ (IsIn(x, (a \o b) \o c) <=> IsIn(x, a \o b) \/ IsIn(x, c))
  BY <1>3, <1>4, ConcatIn
<1>6. \A x : IsIn(x, ((a \o b) \o c) \o d) <=> IsIn(x, (a \o b) \o c) \/ IsIn(x, d)
  BY <1>3, <1>5, ConcatIn
<1>7. Layers(role) = ((a \o b) \o c) \o d
  BY DEF Layers, a, b, c, d, w
<1>a. \A x : Has(role, x) <=> IsIn(x, ((a \o b) \o c) \o d)
  BY <1>7 DEF Has, IsIn
<1>8. \A x : Has(role, x) <=> \/ opts.verbose /\ x = "dummy"
                              \/ opts.stats /\ x = "stat"
                              \/ opts.smart /\ x = "smart"
                              \/ w /\ x = "filtered"
  BY <1>3, <1>4, <1>5, <1>6, <1>a
<1>9. \A x : Has(role, x) \in BOOLEAN
  BY DEF Has
<1> QED
  BY <1>1, <1>2, <1>8, <1>9

-----------------------------------------------------------------------------
(***************************************************************************)
(* Statistics.                                                             *)
(***************************************************************************)
StatsInv ==
  /\ stats \in [Role -> [written : Nat, virgin : Nat, misread : Nat]]
  /\ job.before \in [File -> Nat]
  /\ StatsExact

(* A step that writes nothing: files are closed at most. *)
LEMMA StatsQuiet ==
  ASSUME StatsInv, UNCHANGED <<opts, stats>>, job'.cmd = job.cmd,
         job'.before = job.before, DOMAIN cache' \subseteq DOMAIN cache,
         \A f \in DOMAIN cache' : cache'[f] = cache[f]
  PROVE  StatsInv'
<1>1. StatsExact'
  BY DEF StatsInv, StatsExact, VirginOn, MisreadOn, IsOpen
<1> QED
  BY <1>1 DEF StatsInv

(* A step after which no archiving process runs. *)
LEMMA StatsElsewhere ==
  ASSUME StatsInv, job'.cmd # "archive", stats' = NoStats,
         job'.before = NoProcess.before
  PROVE  StatsInv'
  BY DEF StatsInv, StatsExact, NoStats, NoProcess

LEMMA StatsWrites ==
  ASSUME ToolInv, StatsInv, NEW role \in Role, NEW k, NEW c,
         job.pc = "index", StackWrites(role, k, c), UNCHANGED opts,
         job'.cmd = job.cmd, job'.before = job.before
  PROVE  StatsInv'
<1> DEFINE f == opts.place[role]
<1>1. /\ f \in DOMAIN cache /\ f \in File
      /\ \/ WriteBlock(f, k, StoredForm(role, c))
         \/ k \in DOMAIN cache[f] /\ UNCHANGED <<disk, cache>>
  BY StackWritten DEF Working
<1>2. job.cmd = "archive" /\ opts \in Option /\ opts.stats \in BOOLEAN
      /\ opts.place["data"] \in File /\ opts.place["metadata"] \in File
  BY DEF ToolInv, JobShape, OpenInv, Option, Role
<1>3. Has(role, "stat") = opts.stats
  BY <1>2, LayersHave
<1>4. PICK said \in Told(role, "stat", k) :
        stats' = IF opts.stats THEN Counted(role, said, Exists(f, k)) ELSE stats
  BY <1>3 DEF StackWrites
<1>a. said = Exists(f, k) \/ said = FALSE
  BY DEF Told
<1> DEFINE wrong == IF said = Exists(f, k) THEN 0 ELSE 1
           new == IF k \in DOMAIN cache[f] THEN 0 ELSE 1
<1>b. (IF said THEN 0 ELSE 1) = new + wrong
  <2>0. Exists(f, k) \in BOOLEAN /\ (Exists(f, k) <=> k \in DOMAIN cache[f])
    BY DEF Exists
  <2>1. CASE said = Exists(f, k)
    <3>1. wrong = 0
      BY <2>1
    <3>2. said <=> k \in DOMAIN cache[f]
      BY <2>0, <2>1, Zenon
    <3> HIDE DEF wrong
    <3>3. CASE said
      BY <3>1, <3>2, <3>3
    <3>4. CASE ~said
      BY <3>1, <3>2, <3>4
    <3> QED
      BY <3>3, <3>4
  <2>2. CASE said # Exists(f, k)
    <3>1. wrong = 1
      BY <2>2
    <3>2. ~said
      BY <1>a, <2>2, Zenon
    <3>3. k \in DOMAIN cache[f]
      BY <1>a, <2>0, <2>2, Zenon
    <3> HIDE DEF wrong
    <3> QED
      BY <3>1, <3>2, <3>3
  <2> QED
    BY <2>1, <2>2
<1>c. wrong \in Nat /\ new \in Nat
  OBVIOUS
<1>5. /\ stats' \in [Role -> [written : Nat, virgin : Nat, misread : Nat]]
      /\ opts.stats => /\ \A x \in Role \ {role} : stats'[x] = stats[x]
                       /\ stats'[role].misread = stats[role].misread + wrong
                       /\ stats'[role].virgin = stats[role].virgin + new + wrong
  <2>1. opts.stats =>
          stats' = [stats EXCEPT ![role] =
                      [written |-> stats[role].written + 1,
                       virgin |-> stats[role].virgin + new + wrong,
                       misread |-> stats[role].misread + wrong]]
    <3>1. opts.stats =>
            stats' = [stats EXCEPT ![role] =
                        [written |-> stats[role].written + 1,
                         virgin |-> stats[role].virgin + IF said THEN 0 ELSE 1,
                         misread |-> stats[role].misread + wrong]]
      BY <1>4 DEF Counted
    <3>2. stats[role].virgin \in Nat
      BY DEF StatsInv
    <3> HIDE DEF wrong, new
    <3>3. stats[role].virgin + (IF said THEN 0 ELSE 1) = stats[role].virgin + new + wrong
      BY <1>b, <1>c, <3>2
    <3> QED
      BY <3>1, <3>3
  <2>2. ~opts.stats => stats' = stats
    BY <1>4
  <2> HIDE DEF wrong, new
  <2> QED
    BY <1>2, <1>c, <2>1, <2>2 DEF StatsInv
<1> HIDE DEF wrong
<1>6. StatsExact'
  <2> SUFFICES ASSUME opts.stats, NEW g \in Files(opts.place), g \in DOMAIN cache'
               PROVE  VirginOn(g)' = Cardinality(DOMAIN cache'[g]) - job.before[g]
                                       + MisreadOn(g)'
    BY DEF StatsExact, IsOpen
  <2>0. wrong \in Nat
    BY <1>c
  <2>1. /\ DOMAIN cache' = DOMAIN cache
        /\ \A x \in DOMAIN cache : x # f => cache'[x] = cache[x]
        /\ DOMAIN cache'[f] = DOMAIN cache[f] \cup {k}
    <3>1. CASE WriteBlock(f, k, StoredForm(role, c))
      <4>1. /\ DOMAIN cache' = DOMAIN cache
            /\ cache'[f] = Put(cache[f], k, StoredForm(role, c))
            /\ \A x \in DOMAIN cache : x # f => cache'[x] = cache[x]
        BY <1>1, <3>1, WriteDb DEF ToolInv
      <4> QED
        BY <4>1 DEF Put
    <3>2. CASE k \in DOMAIN cache[f] /\ UNCHANGED <<disk, cache>>
      BY <3>2
    <3> QED
      BY <1>1, <3>1, <3>2
  <2>2. VirginOn(g) = Cardinality(DOMAIN cache[g]) - job.before[g] + MisreadOn(g)
    BY <1>2, <2>1 DEF StatsInv, StatsExact, IsOpen
  <2>3. IsFiniteSet(DOMAIN cache[g]) /\ Cardinality(DOMAIN cache[g]) \in Nat
    BY <2>1, FS_CardinalityType DEF ToolInv, DbInv
  <2>4. job.before[g] \in Nat
    BY <1>2, FilesIn DEF StatsInv
  <2>5. /\ stats["data"].virgin \in Nat /\ stats["metadata"].virgin \in Nat
        /\ stats'["data"].virgin \in Nat /\ stats'["metadata"].virgin \in Nat
        /\ stats["data"].misread \in Nat /\ stats["metadata"].misread \in Nat
    BY <1>5 DEF StatsInv, Role
  <2>a. MisreadOn(g) \in Nat
    BY <2>5 DEF MisreadOn
  <2>6. CASE g # f
    <3>1. VirginOn(g)' = VirginOn(g) /\ MisreadOn(g)' = MisreadOn(g)
      BY <1>5, <2>6 DEF VirginOn, MisreadOn, Role
    <3> QED
      BY <2>1, <2>2, <2>6, <3>1
  <2>7. CASE g = f
    <3>1. VirginOn(g)' = VirginOn(g) + new + wrong /\ MisreadOn(g)' = MisreadOn(g) + wrong
      <4>1. opts.place[role] = g
        BY <2>7
      <4>2. CASE role = "data"
        <5>1. /\ stats'["data"].virgin = stats["data"].virgin + new + wrong
              /\ stats'["data"].misread = stats["data"].misread + wrong
              /\ stats'["metadata"] = stats["metadata"]
          BY <1>5, <4>2 DEF Role
        <5> QED
          BY <2>0, <2>5, <4>1, <4>2, <5>1 DEF VirginOn, MisreadOn
      <4>3. CASE role = "metadata"
        <5>1. /\ stats'["metadata"].virgin = stats["metadata"].virgin + new + wrong
              /\ stats'["metadata"].misread = stats["metadata"].misread + wrong
              /\ stats'["data"] = stats["data"]
          BY <1>5, <4>3 DEF Role
        <5> QED
          BY <2>0, <2>5, <4>1, <4>3, <5>1 DEF VirginOn, MisreadOn
      <4> QED
        BY <4>2, <4>3 DEF Role
    <3>2. Cardinality(DOMAIN cache'[g]) = Cardinality(DOMAIN cache[g]) + new
      <4>1. CASE k \in DOMAIN cache[f]
        <5>1. DOMAIN cache'[g] = DOMAIN cache[g]
          BY <2>1, <2>7, <4>1
        <5> QED
          BY <2>3, <4>1, <5>1
      <4>2. CASE k \notin DOMAIN cache[f]
        BY <2>1, <2>3, <2>7, <4>2, FS_AddElement
      <4> QED
        BY <4>1, <4>2
    <3> QED
      BY <2>0, <2>2, <2>3, <2>4, <2>a, <3>1, <3>2
  <2> QED
    BY <2>6, <2>7
<1> QED
  BY <1>5, <1>6 DEF StatsInv

LEMMA StatsNext ==
  ASSUME ToolInv, StatsInv, [Next]_toolVars
  PROVE  StatsInv'
<1>0. DOMAIN job = JobFields /\ DOMAIN disk = File
  BY DEF ToolInv, JobShape, DbInv
<1>1. ASSUME NEW o \in ArchiveOpts, NEW d \in Document, StartArchive(o, d)
      PROVE  StatsInv'
  <2>1. opts' = o /\ stats' = NoStats /\ cache' = Opened(Files(o.place))
        /\ Files(o.place) \subseteq File
    BY <1>1, FilesIn, OptionAssumption DEF StartArchive, Start
  <2>2. job'.before = [f \in File |-> Cardinality(DOMAIN disk[f])]
    BY <1>1 DEF StartArchive, NoProcess
  <2>3. \A f \in File : Cardinality(DOMAIN disk[f]) \in Nat
    BY FS_CardinalityType DEF ToolInv, DbInv
  <2>4. StatsExact'
    <3> SUFFICES ASSUME NEW f \in Files(o.place)
                 PROVE  VirginOn(f)' = Cardinality(DOMAIN cache'[f]) - job'.before[f]
                                         + MisreadOn(f)'
      BY <2>1 DEF StatsExact
    <3>1. VirginOn(f)' = 0 /\ MisreadOn(f)' = 0
      BY <2>1 DEF VirginOn, MisreadOn, NoStats, Role
    <3>2. cache'[f] = disk[f]
      BY <2>1 DEF Opened, Restrict
    <3> QED
      BY <2>1, <2>2, <2>3, <3>1, <3>2
  <2> QED
    BY <2>1, <2>2, <2>3, <2>4 DEF StatsInv, NoStats
<1>2. ASSUME NEW o \in RestoreOpts, NEW r \in archived, StartRestore(o, r)
      PROVE  StatsInv'
  BY <1>2, StatsElsewhere DEF StartRestore, Start, NoProcess
<1>3. ASSUME NEW pair \in ConvertPair, StartConvert(pair)
      PROVE  StatsInv'
  BY <1>3, StatsElsewhere DEF StartConvert, Start, NoProcess
<1>4. ASSUME IndexData PROVE StatsInv'
  <2>1. PICK k, c : StackWrites("data", k, c)
    BY <1>4 DEF IndexData
  <2>2. job'.cmd = job.cmd /\ job'.before = job.before /\ UNCHANGED opts /\ job.pc = "index"
    BY <1>0, <1>4 DEF IndexData, JobFields
  <2> QED
    BY <2>1, <2>2, StatsWrites DEF Role
<1>5. ASSUME IndexRoot PROVE StatsInv'
  <2>1. PICK k, c : StackWrites("metadata", k, c)
    BY <1>5 DEF IndexRoot
  <2>2. job'.cmd = job.cmd /\ job'.before = job.before /\ UNCHANGED opts /\ job.pc = "index"
    BY <1>0, <1>5 DEF IndexRoot, JobFields
  <2> QED
    BY <2>1, <2>2, StatsWrites DEF Role
<1>6. ASSUME Quiet \/ PrintHandle PROVE StatsInv'
  <2>1. cache' = cache
    BY <1>6 DEF Quiet, PrintHandle, dbVars, IndexFails, StackWriteFails, FetchRoot,
                FetchData, ReadFails, EndOfStream, RestoreStep, Leave, AllClosed,
                CopyFails, IteratorFails, EndOfStore, ConvertLeave
  <2> QED
    BY <1>6, <2>1, FrameStep, StatsQuiet DEF Frame
<1>7. ASSUME CopyBlock PROVE StatsInv'
  <2>1. job.cmd = "convert"
    BY <1>7, CopyBlockFacts
  <2>2. UNCHANGED stats /\ job'.cmd = "convert" /\ job'.before = job.before
    BY <1>7, <2>1, FrameStep DEF Frame
  <2> QED
    BY <2>2 DEF StatsInv, StatsExact
<1>8. ASSUME Close PROVE StatsInv'
  <2>1. \/ cache' = cache
        \/ \E f \in DOMAIN cache : Shuts(f)
    BY <1>8, CloseFacts
  <2>2. DOMAIN cache' \subseteq DOMAIN cache /\ \A f \in DOMAIN cache' : cache'[f] = cache[f]
    BY <2>1, ShutsDb DEF ToolInv
  <2> QED
    BY <1>8, <2>2, FrameStep, StatsQuiet DEF Frame
<1>9. ASSUME Exit \/ Crash PROVE StatsInv'
  BY <1>9, StatsElsewhere DEF Exit, Crash, Gone, NoProcess
<1>10. ASSUME Damage \/ UNCHANGED toolVars PROVE StatsInv'
  <2>1. UNCHANGED <<cache, opts, stats, job>>
    BY <1>10 DEF Damage, toolVars, archiverVars
  <2> QED
    BY <2>1, StatsQuiet
<1> QED
  BY <1>1, <1>2, <1>3, <1>4, <1>5, <1>6, <1>7, <1>8, <1>9, <1>10
     DEF Next, ArchiverNext, ConvertNext, Quiet

(***************************************************************************)
(* The new blocks that the statistics stores count for a file are those    *)
(* the file has gained and one more per look-up of theirs that failed and  *)
(* read as absent, for every stack of proxies, one file or two             *)
(* (chop_block_store_stats_update, behind blocks_exist).                   *)
(***************************************************************************)
THEOREM StatsExactCorrect == Spec => []StatsExact
<1>1. ToolsInit => StatsInv
  <2> SUFFICES ASSUME ToolsInit PROVE StatsInv
    OBVIOUS
  <2>1. job = NoProcess /\ stats = NoStats
    BY DEF ToolsInit, Init
  <2> QED
    BY <2>1 DEF StatsInv, StatsExact, NoStats, NoProcess
<1>2. ToolInv /\ StatsInv /\ [Next]_toolVars => StatsInv'
  BY StatsNext
<1>3. StatsInv => StatsExact
  BY DEF StatsInv
<1> QED
  BY <1>1, <1>2, <1>3, ToolAlways, PTL DEF Spec

-----------------------------------------------------------------------------
(***************************************************************************)
(* Conversion.                                                             *)
(***************************************************************************)
(* What a file will hold if nothing more goes wrong. *)
View(f) == IF f \in DOMAIN cache THEN cache[f] ELSE disk[f]

Copied(from, to, left) ==
  \A k \in DOMAIN View(from) :
    k \notin left => k \in DOMAIN View(to) /\ View(to)[k] = View(from)[k]

ClosesOnly(f) == Closing(f, FALSE, FALSE)

ConvertInv ==
  job.cmd = "convert" =>
    /\ ~job.failed /\ ~job.lost => /\ Copied(source, dest, keys)
                                   /\ job.pc # "copy" => keys = {}
    /\ job.pc = "close" =>
         \/ job.ends = <<ClosesOnly(source), ClosesOnly(dest)>>
         \/ job.ends = <<ClosesOnly(dest)>> /\ source \notin DOMAIN cache
         \/ job.ends = << >> /\ {source, dest} \cap DOMAIN cache = {}
    /\ job.pc = "exit" => {source, dest} \cap DOMAIN cache = {}

LEMMA ConvertStartInv ==
  ASSUME ToolInv, NEW pair \in ConvertPair, StartConvert(pair)
  PROVE  ConvertInv'
<1> DEFINE p == [NoOpts EXCEPT !.place = [role \in Role |->
                    IF role = "data" THEN pair[1] ELSE pair[2]]]
<1>1. p.place["data"] = pair[1] /\ p.place["metadata"] = pair[2] /\ opts' = p
  BY ConvertOptions DEF StartConvert, Start
<1> HIDE DEF p
<1>2. source' = pair[1] /\ dest' = pair[2]
  BY <1>1 DEF source, dest
<1>3. cache' = Opened({pair[1], pair[2]}) /\ keys' = DOMAIN disk[pair[1]]
  BY DEF StartConvert, Start
<1>4. View(pair[1])' = disk[pair[1]]
  BY <1>3 DEF View, Opened, Restrict
<1>5. Copied(source, dest, keys)'
  BY <1>2, <1>3, <1>4 DEF Copied
<1>6. job'.pc = "copy" /\ job'.cmd = "convert"
  BY DEF StartConvert, NoProcess
<1> QED
  BY <1>5, <1>6 DEF ConvertInv

LEMMA CopyBlockInv ==
  ASSUME ToolInv, ConvertInv, CopyBlock
  PROVE  ConvertInv'
<1>1. /\ source \in DOMAIN cache /\ dest \in DOMAIN cache /\ job.cmd = "convert"
      /\ NextKey \in keys
  BY CopyBlockFacts
<1>2. source' = source /\ dest' = dest /\ job.pc = "copy" /\ DOMAIN job = JobFields
  BY DEF CopyBlock, ConvertStep, source, dest, ToolInv, JobShape
<1>3. CASE /\ WriteBlock(dest, NextKey, cache[source][NextKey])
           /\ NextKey \in DOMAIN cache[source]
           /\ keys' = keys \ {NextKey} /\ UNCHANGED job
  <2> SUFFICES ASSUME ~job.failed, ~job.lost
               PROVE  Copied(source, dest, keys)'
    BY <1>1, <1>2, <1>3 DEF ConvertInv
  <2>1. Copied(source, dest, keys)
    BY <1>1 DEF ConvertInv
  <2>2. /\ DOMAIN cache' = DOMAIN cache
        /\ cache'[dest] = Put(cache[dest], NextKey, cache[source][NextKey])
        /\ \A g \in DOMAIN cache : g # dest => cache'[g] = cache[g]
    BY <1>1, <1>3, WriteDb DEF ToolInv
  <2>3. View(source)' = cache'[source] /\ View(dest)' = cache'[dest]
        /\ View(source) = cache[source] /\ View(dest) = cache[dest]
    BY <1>1, <1>2, <2>2 DEF View
  <2>4. PICK x : x = NextKey
    OBVIOUS
  <2>5. \A k \in DOMAIN cache[source] : k \notin keys =>
           k \in DOMAIN cache[dest] /\ cache[dest][k] = cache[source][k]
    BY <2>1, <2>3 DEF Copied
  <2>6. CASE source = dest
    BY <1>2, <2>3, <2>6 DEF Copied
  <2>7. CASE source # dest
    <3>1. \A k \in DOMAIN cache'[source] : k \notin keys' =>
           k \in DOMAIN cache'[dest] /\ cache'[dest][k] = cache'[source][k]
      BY <1>1, <1>3, <2>2, <2>4, <2>5, <2>7 DEF Put
    <3> QED
      BY <1>2, <2>3, <3>1 DEF Copied
  <2> QED
    BY <2>6, <2>7
<1>4. CASE job' = [job EXCEPT !.failed = TRUE, !.pc = "leave"]
  BY <1>1, <1>2, <1>4 DEF ConvertInv, JobFields
<1> QED
  BY <1>3, <1>4, CopyBlockFacts

(* The steps of a conversion that touch no file. *)
LEMMA ConvertQuietInv ==
  ASSUME ToolInv, ConvertInv, Quiet, job.cmd = "convert", AllClosed => keys' = {}
  PROVE  ConvertInv'
<1>1. /\ UNCHANGED <<opts, disk, cache>> /\ DOMAIN job = JobFields
  <2>1. UNCHANGED opts /\ DOMAIN job = JobFields
    BY FrameStep DEF Frame, ToolInv, JobShape
  <2> QED
    BY <2>1 DEF Quiet, dbVars, IndexFails, StackWriteFails, FetchRoot,
                FetchData, ReadFails, EndOfStream, RestoreStep, Leave, AllClosed,
                CopyFails, IteratorFails, EndOfStore, ConvertLeave
<1>2. source' = source /\ dest' = dest
  BY <1>1 DEF source, dest
<1>4. ASSUME UNCHANGED keys, Copied(source, dest, keys) PROVE Copied(source, dest, keys)'
  BY <1>1, <1>2, <1>4 DEF Copied, View
<1>5. /\ ~job.failed /\ ~job.lost => /\ Copied(source, dest, keys)
                                     /\ job.pc # "copy" => keys = {}
      /\ job.pc = "close" =>
           \/ job.ends = <<ClosesOnly(source), ClosesOnly(dest)>>
           \/ job.ends = <<ClosesOnly(dest)>> /\ source \notin DOMAIN cache
           \/ job.ends = << >> /\ {source, dest} \cap DOMAIN cache = {}
  BY DEF ConvertInv
<1>6. ASSUME CopyFails PROVE ConvertInv'
  BY <1>1, <1>6 DEF CopyFails, Fails, ConvertInv, JobFields
<1>7. ASSUME IteratorFails PROVE ConvertInv'
  BY <1>1, <1>7 DEF IteratorFails, Fails, ConvertInv, JobFields
<1>8. ASSUME EndOfStore PROVE ConvertInv'
  <2>1. UNCHANGED keys /\ keys = {} /\ job' = [job EXCEPT !.pc = "leave"]
    BY <1>8 DEF EndOfStore
  <2> QED
    BY <1>1, <1>4, <1>5, <2>1 DEF ConvertInv, JobFields
<1>9. ASSUME ConvertLeave PROVE ConvertInv'
  <2>1. /\ keys' = {} /\ job.pc = "leave"
        /\ job' = [job EXCEPT !.pc = "close",
                     !.ends = <<ClosesOnly(source), ClosesOnly(dest)>>]
    BY <1>9 DEF ConvertLeave, ClosesOnly
  <2>2. /\ job'.failed = job.failed /\ job'.lost = job.lost /\ job'.pc = "close"
        /\ job'.ends = <<ClosesOnly(source), ClosesOnly(dest)>>
    BY <1>1, <2>1 DEF JobFields
  <2>3. ~job.failed /\ ~job.lost => Copied(source, dest, keys)'
    BY <1>4, <1>5, <2>1
  <2>4. job'.ends = <<ClosesOnly(source)', ClosesOnly(dest)'>>
    BY <1>2, <2>2 DEF ClosesOnly, Closing
  <2> QED
    BY <2>1, <2>2, <2>3, <2>4 DEF ConvertInv
<1>10. ASSUME AllClosed PROVE ConvertInv'
  <2>1. /\ job'.failed = job.failed /\ job'.lost = job.lost /\ job'.pc = "exit"
        /\ job.pc = "close" /\ job.ends = << >>
    BY <1>1, <1>10 DEF AllClosed, JobFields
  <2>2. {source, dest} \cap DOMAIN cache = {}
    BY <1>5, <2>1
  <2>3. {source', dest'} \cap DOMAIN cache' = {}
    BY <1>1, <1>2, <2>2
  <2>4. ~job.failed /\ ~job.lost => keys' = {} /\ Copied(source, dest, keys)'
    BY <1>4, <1>5, <1>10, <2>1
  <2> QED
    BY <1>10, <2>1, <2>3, <2>4 DEF ConvertInv
<1> QED
  BY <1>6, <1>7, <1>8, <1>9, <1>10 DEF Quiet, IndexFails, FetchRoot, FetchData,
     ReadFails, EndOfStream, Leave, ToolInv, JobShape

LEMMA ConvertCloseInv ==
  ASSUME ToolInv, ConvertInv, Close, job.cmd = "convert", keys' = {}
  PROVE  ConvertInv'
<1> DEFINE f == Head(job.ends).file
<1>0. /\ UNCHANGED opts /\ DOMAIN job = JobFields
      /\ source' = source /\ dest' = dest /\ job'.cmd = "convert"
      /\ job.pc = "close" /\ job.ends # << >>
  BY FrameStep, CloseFacts DEF Frame, ToolInv, JobShape, source, dest
<1>1. /\ ~job.failed /\ ~job.lost => Copied(source, dest, keys) /\ keys = {}
      /\ \/ job.ends = <<ClosesOnly(source), ClosesOnly(dest)>>
         \/ job.ends = <<ClosesOnly(dest)>> /\ source \notin DOMAIN cache
  BY <1>0 DEF ConvertInv
<1>2. /\ \/ f = source /\ Tail(job.ends) = <<ClosesOnly(dest)>>
         \/ f = dest /\ Tail(job.ends) = << >> /\ source \notin DOMAIN cache
      /\ ~Head(job.ends).forgets /\ ~Head(job.ends).looks
  <2>0. \A g : LET c == ClosesOnly(g)
              IN c.file = g /\ ~c.forgets /\ ~c.looks
    BY DEF ClosesOnly, Closing
  <2>1. PICK a : a = ClosesOnly(source)
    OBVIOUS
  <2>2. PICK b : b = ClosesOnly(dest)
    OBVIOUS
  <2>3. CASE job.ends = <<a, b>>
    <3>1. Head(job.ends) = a /\ Tail(job.ends) = <<b>>
      BY <2>3
    <3> QED
      BY <2>0, <2>1, <2>2, <3>1
  <2>4. CASE job.ends = <<b>> /\ source \notin DOMAIN cache
    <3>1. Head(job.ends) = b /\ Tail(job.ends) = << >>
      BY <2>4
    <3> QED
      BY <2>0, <2>2, <2>4, <3>1
  <2> QED
    BY <1>1, <2>1, <2>2, <2>3, <2>4
<1>3. \/ /\ UNCHANGED <<disk, cache>> /\ f \notin DOMAIN cache
         /\ job' = [job EXCEPT !.ends = Tail(@)]
      \/ /\ f \in DOMAIN cache /\ Shuts(f)
         /\ \/ /\ job' = [job EXCEPT !.ends = Tail(@)]
               /\ disk' = [disk EXCEPT ![f] = cache[f]]
            \/ job' = [job EXCEPT !.ends = Tail(@), !.lost = TRUE]
  BY <1>2, CloseFacts
<1>4. /\ job'.ends = Tail(job.ends) /\ job'.pc = "close" /\ job'.failed = job.failed
      /\ job'.lost \/ job'.lost = job.lost
  BY <1>0, <1>3 DEF JobFields
<1>5. f \notin DOMAIN cache' /\ DOMAIN cache' \subseteq DOMAIN cache
  <2>1. CASE UNCHANGED <<disk, cache>> /\ f \notin DOMAIN cache
    BY <2>1
  <2>2. CASE f \in DOMAIN cache /\ Shuts(f)
    BY <2>2, ShutsDb DEF ToolInv
  <2> QED
    BY <1>3, <2>1, <2>2
<1>6. ASSUME ~job'.lost PROVE \A g \in File : View(g)' = View(g)
  <2>1. CASE UNCHANGED <<disk, cache>>
    BY <2>1 DEF View
  <2>2. CASE f \in DOMAIN cache /\ Shuts(f) /\ disk' = [disk EXCEPT ![f] = cache[f]]
    <3>1. /\ DOMAIN cache' = DOMAIN cache \ {f}
          /\ \A g \in DOMAIN cache : g # f => cache'[g] = cache[g]
      BY <2>2, ShutsDb DEF ToolInv
    <3>2. DOMAIN disk = File
      BY DEF ToolInv, DbInv
    <3> QED
      BY <2>2, <3>1, <3>2 DEF View
  <2>3. CASE job' = [job EXCEPT !.ends = Tail(@), !.lost = TRUE]
    BY <1>0, <1>6, <2>3 DEF JobFields
  <2> QED
    BY <1>3, <2>1, <2>2, <2>3
<1>7. source \in File /\ dest \in File
  BY <1>0, FilesIn DEF ToolInv, OpenInv, Option, source, dest, Role
<1>8. ~job'.failed /\ ~job'.lost => Copied(source, dest, keys)' /\ keys' = {}
  <2> SUFFICES ASSUME ~job'.failed, ~job'.lost PROVE Copied(source, dest, keys)'
    OBVIOUS
  <2>1. Copied(source, dest, keys) /\ keys = {}
    BY <1>1, <1>3, <1>4, <1>0 DEF JobFields
  <2>2. View(source)' = View(source) /\ View(dest)' = View(dest)
    BY <1>0, <1>6, <1>7
  <2> QED
    BY <1>0, <2>1, <2>2 DEF Copied
<1>9. \/ job'.ends = <<ClosesOnly(dest)'>> /\ source' \notin DOMAIN cache'
      \/ job'.ends = << >> /\ {source', dest'} \cap DOMAIN cache' = {}
  BY <1>0, <1>2, <1>4, <1>5 DEF ClosesOnly, Closing
<1> QED
  BY <1>4, <1>8, <1>9 DEF ConvertInv

LEMMA ConvertNextInv ==
  ASSUME ToolInv, ConvertInv, [Next]_toolVars
  PROVE  ConvertInv'
<1>1. CASE UNCHANGED toolVars \/ Damage
  <2>1. CASE Damage
    BY <2>1 DEF Damage, ConvertInv
  <2>2. CASE UNCHANGED toolVars
    BY <2>2 DEF toolVars, archiverVars, ConvertInv, Copied, View, source, dest,
                ClosesOnly, Closing
  <2> QED
    BY <1>1, <2>1, <2>2
<1>2. CASE \/ \E o \in ArchiveOpts, d \in Document : StartArchive(o, d)
           \/ \E o \in RestoreOpts, r \in archived : StartRestore(o, r)
           \/ Exit \/ Crash
  <2>1. ASSUME NEW o, NEW d, StartArchive(o, d) PROVE job'.cmd = "archive"
    BY <2>1 DEF StartArchive, NoProcess
  <2>2. ASSUME NEW o, NEW r, StartRestore(o, r) PROVE job'.cmd = "restore"
    BY <2>2 DEF StartRestore, NoProcess
  <2>3. ASSUME Exit \/ Crash PROVE job'.cmd = "none"
    BY <2>3 DEF Exit, Crash, Gone, NoProcess
  <2>4. job'.cmd # "convert"
    BY <1>2, <2>1, <2>2, <2>3
  <2> QED
    BY <2>4 DEF ConvertInv
<1>3. CASE \E pair \in ConvertPair : StartConvert(pair)
  BY <1>3, ConvertStartInv
<1>4. CASE IndexData \/ IndexRoot
  <2>1. job.cmd = "archive" /\ DOMAIN job = JobFields
    BY <1>4 DEF IndexData, IndexRoot, ToolInv, JobShape
  <2>2. job'.cmd = "archive"
    BY <1>4, <2>1 DEF IndexData, IndexRoot, JobFields
  <2> QED
    BY <2>2 DEF ConvertInv
<1>5. CASE CopyBlock
  BY <1>5, CopyBlockInv
<1>6. CASE (Quiet \/ PrintHandle \/ (Close /\ keys' = {})) /\ (AllClosed => keys' = {})
  <2>1. job'.cmd = job.cmd
    BY <1>6, FrameStep DEF Frame
  <2>2. CASE job.cmd # "convert"
    BY <2>1, <2>2 DEF ConvertInv
  <2>3. CASE job.cmd = "convert"
    <3>1. ~PrintHandle
      BY <2>3 DEF PrintHandle, ToolInv, JobShape
    <3> QED
      BY <1>6, <2>3, <3>1, ConvertQuietInv, ConvertCloseInv
  <2> QED
    BY <2>2, <2>3
<1>7. ASSUME AllClosed PROVE ~ConvertNext
  BY <1>7 DEF AllClosed, ConvertNext, StartConvert, Start, CopyBlock, CopyFails,
              IteratorFails, EndOfStore, ConvertLeave, ToolInv, JobShape
<1> QED
  BY <1>1, <1>2, <1>3, <1>4, <1>5, <1>6, <1>7 DEF Next, ArchiverNext, ConvertNext, Quiet

(***************************************************************************)
(* A conversion that succeeds, and from which the library hid no error,    *)
(* has copied every block of its source (chop-store-convert.c).            *)
(***************************************************************************)
THEOREM ConvertCompleteCorrect == Spec => []ConvertComplete
<1>1. ToolsInit => ConvertInv
  BY DEF ToolsInit, Init, NoProcess, ConvertInv
<1>2. ToolInv /\ ConvertInv /\ [Next]_toolVars => ConvertInv'
  BY ConvertNextInv
<1>3. ToolInv /\ ConvertInv => ConvertComplete
  <2> SUFFICES ASSUME ToolInv, ConvertInv, job.cmd = "convert", job.pc = "exit",
                      job.status = 0, ~job.lost, NEW k \in DOMAIN disk[source]
               PROVE  k \in DOMAIN disk[dest] /\ disk[dest][k] = disk[source][k]
    BY DEF ConvertComplete
  <2>1. ~job.failed
    BY DEF ToolInv, JobShape
  <2>2. Copied(source, dest, keys) /\ keys = {} /\ {source, dest} \cap DOMAIN cache = {}
    BY <2>1 DEF ConvertInv
  <2>3. View(source) = disk[source] /\ View(dest) = disk[dest]
    BY <2>2 DEF View
  <2> QED
    BY <2>2, <2>3 DEF Copied
<1> QED
  BY <1>1, <1>2, <1>3, ToolAlways, PTL DEF Spec

-----------------------------------------------------------------------------
(***************************************************************************)
(* Block indexers and fetchers.                                            *)
(***************************************************************************)
(* The classes whose fetcher checks what the store returned. *)
Checked == {"hash", "chk"}
HashFor(class) == IF class \in Checked THEN "sha1" ELSE "none"

IndexerOK(ix) ==
  /\ DOMAIN ix = {"class", "id", "hash"}
  /\ ix.class \in IndexerClass /\ ix.hash = HashFor(ix.class) /\ ix.id \in Nat

(* The identifier that follows n, and the one n places after the first. *)
After(n) == IF n + 1 = IdSpace THEN 0 ELSE n + 1
Wrap(n) == IF n < IdSpace THEN n ELSE n - IdSpace

LEMMA WrapFacts ==
  ASSUME NEW first \in 0..(IdSpace - 1), NEW m \in 0..(IdSpace - 1)
  PROVE  /\ Wrap(first + m) \in 0..(IdSpace - 1)
         /\ Wrap(first + m + 1) = After(Wrap(first + m))
         /\ \A k \in 0..(IdSpace - 1) : Wrap(first + m) = Wrap(first + k) => m = k
         /\ \A g \in 0..(IdSpace - 1) : Wrap(first + m) = Wrap(g + m) => first = g
<1>1. PICK N \in Nat \ {0} : N = IdSpace
  BY IndexerAssumption
<1>2. first \in 0..(N - 1) /\ m \in 0..(N - 1)
  BY <1>1
<1>3. \A n : Wrap(n) = IF n < N THEN n ELSE n - N
  BY <1>1 DEF Wrap
<1>4. \A n : After(n) = IF n + 1 = N THEN 0 ELSE n + 1
  BY <1>1 DEF After
<1>5. Wrap(first + m) \in 0..(N - 1) /\ Wrap(first + m + 1) = After(Wrap(first + m))
  BY <1>2, <1>3, <1>4
<1>6. \A k \in 0..(N - 1) : Wrap(first + m) = Wrap(first + k) => m = k
  BY <1>2, <1>3
<1>7. \A g \in 0..(N - 1) : Wrap(first + m) = Wrap(g + m) => first = g
  BY <1>2, <1>3
<1> QED
  BY <1>1, <1>5, <1>6, <1>7

(* The handles hs are numbered from the first identifier on. *)
Numbers(first, hs) ==
  /\ first \in 0..(IdSpace - 1)
  /\ \A i \in 1..Len(hs) : hs[i] = <<Wrap(first + (i - 1))>>

(* The serial form of a handle that refers to content c. *)
Refers(class, form, c) ==
  \/ class = "hash" /\ form = <<Hash(c), Size(c)>>
  \/ class = "chk" /\ \E key : form = <<key, Hash(Encrypt(key, c)), Size(c)>>
  \/ class \in {"integer", "uuid"} /\ \E n \in Nat : form = <<n>>

KeyOf(class, form) == DeserialHandle(class, form)[2]

(* What the store is given for content c. *)
Written(class, form, c) == IF class = "chk" THEN Encrypt(form[1], c) ELSE c

TupleOK(class, t) ==
  /\ t # << >> /\ t[1] = class /\ t[2] = class
  /\ TupleFetcher(t) = [class |-> class, hash |-> HashFor(class)]

LEMMA KeyForms ==
  ASSUME NEW form
  PROVE  /\ KeyOf("hash", form) = form[1]
         /\ KeyOf("chk", form) = form[2]
         /\ KeyOf("integer", form) = <<"id", form[1]>>
         /\ KeyOf("uuid", form) = <<"uuid", form[1]>>
<1>1. KeyOf("hash", form) = form[1]
  BY DEF KeyOf, DeserialHandle, HihDeserialize
<1>2. KeyOf("chk", form) = form[2]
  BY DEF KeyOf, DeserialHandle, ChkDeserialize
<1>3. KeyOf("integer", form) = <<"id", form[1]>>
  BY DEF KeyOf, DeserialHandle, IihDeserialize
<1>4. KeyOf("uuid", form) = <<"uuid", form[1]>>
  BY DEF KeyOf, DeserialHandle, UihDeserialize
<1> QED
  BY <1>1, <1>2, <1>3, <1>4

(* Indexing returns a handle that refers to the block, and writes the block *)
(* under the key of the handle.                                             *)
LEMMA IndexFacts ==
  ASSUME NEW ix, IndexerOK(ix), NEW c, NEW n \in Nat
  PROVE  LET r == Index(ix, c, n)
             form == SerialHandle(r.handle)
         IN  /\ IndexerOK(r.indexer) /\ r.indexer.class = ix.class
             /\ r.handle[1] = ix.class
             /\ Refers(ix.class, form, c) /\ r.key = KeyOf(ix.class, form)
             /\ r.block = Written(ix.class, form, c)
             /\ ix.class = "integer" => /\ form = <<ix.id>>
                                        /\ r.indexer.id = After(ix.id)
             /\ ix.class = "uuid" => form = <<n>>
<1> DEFINE r == Index(ix, c, n)
           form == SerialHandle(r.handle)
<1>1. CASE ix.class = "hash"
  <2>1. r = HashIndex(ix, c)
    BY <1>1 DEF Index
  <2>2. /\ r.indexer = ix /\ r.key = Hash(c) /\ r.block = c
        /\ r.handle = <<"hash", Hash(c), Size(c)>>
    BY <2>1 DEF HashIndex
  <2>3. form = <<Hash(c), Size(c)>> /\ r.handle[1] = "hash"
    BY <2>2 DEF SerialHandle, HihSerialize
  <2> HIDE DEF r, form
  <2> QED
    BY <1>1, <2>2, <2>3, KeyForms DEF Refers, Written, r, form
<1>2. CASE ix.class = "chk"
  <2> DEFINE key == CipherKey(c, n)
  <2>1. r = ChkIndex(ix, c, n)
    BY <1>2 DEF Index
  <2>2. /\ r.indexer = ix /\ r.key = Hash(Encrypt(key, c)) /\ r.block = Encrypt(key, c)
        /\ r.handle = <<"chk", Hash(Encrypt(key, c)), key, Size(c)>>
    BY <2>1 DEF ChkIndex
  <2>3. form = <<key, Hash(Encrypt(key, c)), Size(c)>> /\ r.handle[1] = "chk"
    BY <2>2 DEF SerialHandle, ChkSerialize
  <2> HIDE DEF r, form, key
  <2>4. form[1] = key /\ form[2] = Hash(Encrypt(key, c))
    BY <2>3
  <2> QED
    BY <1>2, <2>2, <2>3, <2>4, KeyForms DEF Refers, Written, r, form
<1>3. CASE ix.class = "integer"
  <2>1. r = IntegerIndex(ix, c)
    BY <1>3 DEF Index
  <2>2. /\ r.indexer = [ix EXCEPT !.id = After(@)] /\ r.key = <<"id", ix.id>>
        /\ r.block = c /\ r.handle = <<"integer", <<"id", ix.id>>>>
    BY <2>1 DEF IntegerIndex, After
  <2>3. form = <<ix.id>> /\ r.handle[1] = "integer"
    BY <2>2 DEF SerialHandle, IihSerialize
  <2> HIDE DEF r, form
  <2>4. /\ IndexerOK(r.indexer) /\ r.indexer.class = ix.class
        /\ r.indexer.id = After(ix.id)
    BY <2>2, IndexerAssumption DEF IndexerOK, After
  <2>5. ix.id \in Nat
    BY DEF IndexerOK
  <2>6. /\ Refers(ix.class, form, c) /\ r.block = Written(ix.class, form, c)
        /\ form[1] = ix.id
    BY <1>3, <2>2, <2>3, <2>5 DEF Refers, Written
  <2>7. r.key = KeyOf(ix.class, form)
    BY <1>3, <2>2, <2>6, KeyForms
  <2> QED
    BY <1>3, <2>3, <2>4, <2>6, <2>7 DEF r, form
<1>4. CASE ix.class = "uuid"
  <2>1. r = UuidIndex(ix, c, n)
    BY <1>4 DEF Index
  <2>2. /\ r.indexer = ix /\ r.key = <<"uuid", n>>
        /\ r.block = c /\ r.handle = <<"uuid", <<"uuid", n>>>>
    BY <2>1 DEF UuidIndex
  <2>3. form = <<n>> /\ r.handle[1] = "uuid"
    BY <2>2 DEF SerialHandle, UihSerialize
  <2> HIDE DEF r, form
  <2> QED
    BY <1>4, <2>2, <2>3, KeyForms DEF Refers, Written, r, form
<1> QED
  BY <1>1, <1>2, <1>3, <1>4 DEF IndexerOK, IndexerClass

(* The tuple of a handle can be read back: the handle and the fetcher. *)
LEMMA TupleForms ==
  ASSUME NEW ix, IndexerOK(ix), NEW handle, handle[1] = ix.class
  PROVE  LET t == SerializeIndexTuple(handle, ix)
         IN  TupleOK(ix.class, t) /\ t[4] = SerialHandle(handle)
<1> DEFINE t == SerializeIndexTuple(handle, ix)
<1>1. PICK form : form = SerialHandle(handle)
  OBVIOUS
<1>2. InitFetcher(ix) = [class |-> ix.class, hash |-> ix.hash]
  BY DEF InitFetcher
<1>3. CASE ix.class = "hash"
  <2>1. t = <<"hash", "hash", <<"sha1">>, form>>
    BY <1>1, <1>2, <1>3 DEF SerializeIndexTuple, HbfSerialize, IndexerOK, HashFor, Checked
  <2> HIDE DEF t
  <2>2. TupleFetcher(t) = [class |-> "hash", hash |-> "sha1"]
    BY <2>1 DEF TupleFetcher, HbfDeserialize
  <2> QED
    BY <1>1, <1>3, <2>1, <2>2 DEF TupleOK, HashFor, Checked, t
<1>4. CASE ix.class = "chk"
  <2> DEFINE x == <<"blowfish", "cbc">> \o <<"sha1">>
  <2>1. CbfSerialize(InitFetcher(ix)) = x
    BY <1>2, <1>4 DEF CbfSerialize, IndexerOK, HashFor, Checked
  <2>2. Len(x) = 3 /\ x[3] = "sha1"
    OBVIOUS
  <2> HIDE DEF x
  <2>3. t = <<"chk", "chk", x, form>>
    BY <1>1, <1>2, <1>4, <2>1 DEF SerializeIndexTuple
  <2> HIDE DEF t
  <2>4. TupleFetcher(t) = [class |-> "chk", hash |-> "sha1"]
    BY <2>2, <2>3 DEF TupleFetcher, CbfDeserialize
  <2> QED
    BY <1>1, <1>4, <2>3, <2>4 DEF TupleOK, HashFor, Checked, t
<1>5. CASE ix.class \in {"integer", "uuid"}
  <2>1. t = <<ix.class, ix.class, << >>, form>>
    BY <1>1, <1>2, <1>5 DEF SerializeIndexTuple
  <2> HIDE DEF t
  <2>2. TupleFetcher(t) = [class |-> ix.class, hash |-> "none"]
    BY <1>5, <2>1 DEF TupleFetcher
  <2> QED
    BY <1>1, <1>5, <2>1, <2>2 DEF TupleOK, HashFor, Checked, t
<1> QED
  BY <1>3, <1>4, <1>5 DEF IndexerOK, IndexerClass

(* A checking fetcher returns the content its handle refers to, or nothing. *)
LEMMA FetchSafe ==
  ASSUME NEW class \in Checked, NEW form, NEW c, Refers(class, form, c), NEW read,
         Fetch([class |-> class, hash |-> "sha1"], DeserialHandle(class, form), read).ok
  PROVE  Fetch([class |-> class, hash |-> "sha1"], DeserialHandle(class, form), read)
           = Fetched(c)
<1> DEFINE got == Fetch([class |-> class, hash |-> "sha1"],
                        DeserialHandle(class, form), read)
<1>1. CASE class = "hash"
  <2>1. DeserialHandle(class, form) = <<"hash", Hash(c), Size(c)>>
    BY <1>1 DEF Refers, DeserialHandle, HihDeserialize
  <2>2. /\ Hash(read.block) = Hash(c) /\ got = Fetched(read.block)
    BY <1>1, <2>1 DEF Fetch, HashFetch, Genuine, Unfaithful
  <2>3. read.block = c
    BY <2>2 DEF Hash
  <2> QED
    BY <2>2, <2>3
<1>2. CASE class = "chk"
  <2>1. PICK key : form = <<key, Hash(Encrypt(key, c)), Size(c)>>
    BY <1>2 DEF Refers
  <2>2. DeserialHandle(class, form) = <<"chk", Hash(Encrypt(key, c)), key, Size(c)>>
    BY <1>2, <2>1 DEF DeserialHandle, ChkDeserialize
  <2>3. /\ Hash(read.block) = Hash(Encrypt(key, c))
        /\ got = Fetched(Decrypt(key, read.block, Size(c)))
    BY <1>2, <2>2 DEF Fetch, ChkFetch, Genuine, Unfaithful
  <2>4. read.block = Encrypt(key, c)
    BY <2>3 DEF Hash
  <2>5. Decrypt(key, read.block, Size(c)) = c
    BY <2>4 DEF Decrypt, Encrypt
  <2> QED
    BY <2>3, <2>5
<1> QED
  BY <1>1, <1>2 DEF Checked

(* The other fetchers return what the store holds. *)
LEMMA FetchPlain ==
  ASSUME NEW class \in {"integer", "uuid"}, NEW handle, NEW read,
         NEW fetcher, fetcher.class = class
  PROVE  Fetch(fetcher, handle, read) =
           IF read.ok THEN Fetched(read.block) ELSE Unfaithful
  BY DEF Fetch, IntegerFetch, UuidFetch

(* Padding to whole cipher blocks only adds. *)
LEMMA PaddedSize ==
  ASSUME NEW n \in Nat
  PROVE  Padded(n) \in Nat /\ Padded(n) >= n
<1>1. PICK b \in Nat \ {0} : b = CipherBlock
  BY IndexerAssumption
<1>2. PICK q \in Int, r \in 0..(b - 1) :
        n + b - 1 = b * q + r /\ q = (n + b - 1) \div b
  BY Z3
<1>3. q * b \in Int /\ q * b >= n
  BY <1>2
<1>4. Padded(n) = q * b
  BY <1>1, <1>2 DEF Padded
<1> QED
  BY <1>3, <1>4

(* From what was written for a content, every fetcher returns the content. *)
LEMMA FetchWritten ==
  ASSUME NEW class \in IndexerClass, NEW form, NEW c, Refers(class, form, c),
         Size(c) \in Nat
  PROVE  Fetch([class |-> class, hash |-> HashFor(class)], DeserialHandle(class, form),
               Fetched(Written(class, form, c))) = Fetched(c)
<1> DEFINE f == [class |-> class, hash |-> HashFor(class)]
           read == Fetched(Written(class, form, c))
<1>1. f.class = class /\ f.hash = HashFor(class) /\ read.ok
      /\ read.block = Written(class, form, c)
  BY DEF Fetched
<1> HIDE DEF f, read
<1>2. CASE class \in {"integer", "uuid"}
  BY <1>1, <1>2, FetchPlain DEF Written, f, read
<1>3. CASE class = "hash"
  <2>1. DeserialHandle(class, form) = <<"hash", Hash(c), Size(c)>> /\ read.block = c
    BY <1>1, <1>3 DEF Refers, DeserialHandle, HihDeserialize, Written
  <2> QED
    BY <1>1, <1>3, <2>1 DEF Fetch, HashFetch, Genuine, f, read
<1>4. CASE class = "chk"
  <2>1. PICK key : form = <<key, Hash(Encrypt(key, c)), Size(c)>>
    BY <1>4 DEF Refers
  <2>2. /\ DeserialHandle(class, form) = <<"chk", Hash(Encrypt(key, c)), key, Size(c)>>
        /\ read.block = Encrypt(key, c)
    BY <1>1, <1>4, <2>1 DEF DeserialHandle, ChkDeserialize, Written
  <2>3. Size(Encrypt(key, c)) >= Size(c)
    <3>1. PICK n \in Nat : n = Size(c)
      OBVIOUS
    <3>2. Padded(n) >= n
      BY PaddedSize
    <3> QED
      BY <3>1, <3>2 DEF Encrypt, Size
  <2>4. Decrypt(key, Encrypt(key, c), Size(c)) = c
    BY DEF Decrypt, Encrypt
  <2> QED
    BY <1>1, <1>4, <2>2, <2>3, <2>4 DEF Fetch, ChkFetch, Genuine, f, read
<1> QED
  BY <1>2, <1>3, <1>4 DEF IndexerClass

-----------------------------------------------------------------------------
(***************************************************************************)
(* Archives: the blocks of a document, what the files hold of them, and    *)
(* the tuples that name them.                                              *)
(***************************************************************************)
(* Every document has fewer blocks than there are integer identifiers. *)
FitsIdentifiers == \A d \in Document : Len(d) < IdSpace

(* Blocks as role, form of the handle and content. *)
DataBlocks(doc, hs) == {<<"data", hs[i], Text(doc[i])>> : i \in 1..Len(hs)}
RootBlock(tuple, hs) == <<"metadata", tuple[4], Node(hs)>>
Blocks(tuple, doc, hs) == DataBlocks(doc, hs) \cup {RootBlock(tuple, hs)}

(* UUIDs mean the same in all files that are not damaged, integers only in *)
(* the files of their archive.                                             *)
Region(class, place) ==
  (IF class = "uuid" THEN File ELSE Files(place)) \ damaged

(* The keys that may have been given to blocks already. *)
Known(class) ==
  IF class = "uuid" THEN {<<"uuid", n>> : n \in 0..(fresh - 1)}
  ELSE {<<"id", n>> : n \in Nat}

Filed(zipped, x) == IF zipped THEN Zip(x) ELSE x

Sound(class, place, zip, b) ==
  \A f \in Region(class, place) : \A x :
    Holds(f, KeyOf(class, b[2]), x) => x = Filed(Filtered(place, zip, b[1]), b[3])

(* Nobody checks the blocks, but nobody else can have written them. *)
Relied(class, alone) == class = "uuid" \/ (class = "integer" /\ alone)

GoodBlock(class, place, zip, alone, b) ==
  /\ b[1] \in Role /\ Refers(class, b[2], b[3]) /\ Size(b[3]) \in Nat \ {0}
  /\ class \notin Checked => KeyOf(class, b[2]) \in Known(class)
  /\ Relied(class, alone) => Sound(class, place, zip, b)

Good(class, place, zip, alone, B) ==
  \A b \in B : GoodBlock(class, place, zip, alone, b)

InView(class, place, B) ==
  \A b \in B : KeyOf(class, b[2]) \in DOMAIN View(place[b[1]])

OnDisks(class, place, B) ==
  \A b \in B : KeyOf(class, b[2]) \in DOMAIN disk[place[b[1]]]

Recorded(r, hs) ==
  /\ TupleOK(r.class, r.tuple) /\ r.class \in IndexerClass
  /\ IsSeq(hs) /\ Len(hs) = Len(r.doc)
  /\ r.class = "integer" => \E first :
       Numbers(first, hs) /\ r.tuple[4] = <<Wrap(first + Len(hs))>>
  /\ Good(r.class, r.place, r.zip, r.alone, Blocks(r.tuple, r.doc, hs))
  /\ r.kept => OnDisks(r.class, r.place, Blocks(r.tuple, r.doc, hs))

RecordsGood == \A r \in archived : \E hs : Recorded(r, hs)

FreshInv ==
  \A f \in File : \A n, x : Holds(f, <<"uuid", n>>, x) => n \in 0..(fresh - 1)

(* A step after which known keys hold what they held before. *)
Harmless(class, place) ==
  \A f \in Region(class, place)' : \A k, x :
    Holds(f, k, x)' => k \notin Known(class) \/ \E g \in Region(class, place) : Holds(g, k, x)

LEMMA Longer ==
  ASSUME NEW m \in Nat, NEW n \in Nat, m <= n
  PROVE  0..(m - 1) \subseteq 0..(n - 1)
  OBVIOUS

LEMMA GoodKept ==
  ASSUME NEW class, NEW place, NEW zip, NEW alone, NEW B,
         Good(class, place, zip, alone, B), class \in IndexerClass,
         Relied(class, alone) => Harmless(class, place),
         fresh \in Nat, fresh' \in Nat, fresh <= fresh'
  PROVE  Good(class, place, zip, alone, B)'
<1> SUFFICES ASSUME NEW b \in B PROVE GoodBlock(class, place, zip, alone, b)'
  BY DEF Good
<1>1. GoodBlock(class, place, zip, alone, b)
  BY DEF Good
<1>2. Known(class) \subseteq Known(class)'
  <2>1. 0..(fresh - 1) \subseteq 0..(fresh' - 1)
    BY Longer
  <2> QED
    BY <2>1 DEF Known
<1>3. ASSUME Relied(class, alone) PROVE Sound(class, place, zip, b)'
  <2>1. KeyOf(class, b[2]) \in Known(class)
    BY <1>1, <1>3 DEF GoodBlock, Relied, Checked
  <2>2. Sound(class, place, zip, b) /\ Harmless(class, place)
    BY <1>1, <1>3 DEF GoodBlock
  <2> QED
    BY <2>1, <2>2 DEF Sound, Harmless
<1> QED
  BY <1>1, <1>2, <1>3 DEF GoodBlock

LEMMA SettlesHarmless ==
  ASSUME Settles, damaged \subseteq damaged', NEW class, NEW place, Files(place) \subseteq File
  PROVE  Harmless(class, place)
  BY DEF Settles, Harmless, Region

LEMMA DamageHarmless ==
  ASSUME ToolInv, Damage, keys' = {}, NEW class, NEW place, Files(place) \subseteq File
  PROVE  Harmless(class, place)
<1>1. /\ \A f \in File : \A k, c : Holds(f, k, c)' =>
            Holds(f, k, c) \/ (f \in damaged' /\ k \in DOMAIN disk[f])
      /\ damaged \subseteq damaged'
  BY DamageStep
<1> QED
  BY <1>1 DEF Harmless, Region

(* A step that is harmless to the archives, and loses nothing on disk. *)
Gentle ==
  /\ fresh \in Nat /\ fresh' \in Nat /\ fresh <= fresh'
  /\ \A f \in File : DOMAIN disk[f] \subseteq DOMAIN disk'[f]
  /\ \A r \in archived : Relied(r.class, r.alone) => Harmless(r.class, r.place)

LEMMA RecordedKept ==
  ASSUME ToolInv, Gentle, NEW r \in archived, NEW hs, Recorded(r, hs)
  PROVE  Recorded(r, hs)'
<1>1. PICK class, place, zip, alone, B :
        /\ class = r.class /\ place = r.place /\ zip = r.zip /\ alone = r.alone
        /\ B = Blocks(r.tuple, r.doc, hs)
  OBVIOUS
<1>2. Good(class, place, zip, alone, B)'
  <2>1. /\ Good(class, place, zip, alone, B) /\ class \in IndexerClass
        /\ Relied(class, alone) => Harmless(class, place)
    BY <1>1 DEF Recorded, Gentle
  <2> QED
    BY <2>1, GoodKept DEF Gentle
<1>3. place \in [Role -> File]
  BY <1>1 DEF ToolInv, Records, RecordShape
<1>4. OnDisks(class, place, B) => OnDisks(class, place, B)'
  <2>1. \A b \in B : b[1] \in Role
    BY <1>1 DEF Recorded, Good, GoodBlock
  <2> QED
    BY <1>3, <2>1 DEF OnDisks, Gentle
<1> QED
  BY <1>1, <1>2, <1>4 DEF Recorded

(* A record of the same archive, of which no more is claimed. *)
LEMMA RecordedLike ==
  ASSUME NEW r, NEW s, NEW hs, Recorded(r, hs)', s.tuple = r.tuple, s.doc = r.doc,
         s.place = r.place, s.zip = r.zip, s.class = r.class, s.alone => r.alone,
         s.kept => OnDisks(r.class, r.place, Blocks(r.tuple, r.doc, hs))'
  PROVE  Recorded(s, hs)'
<1>1. Good(s.class, s.place, s.zip, s.alone, Blocks(s.tuple, s.doc, hs))'
  BY DEF Recorded, Good, GoodBlock, Relied
<1> QED
  BY <1>1 DEF Recorded

LEMMA RecordedDisturbed ==
  ASSUME ToolInv, RecordsGood, Gentle, NEW files, NEW s \in Disturbed(files)
  PROVE  \E hs : Recorded(s, hs)'
<1>0. PICK r \in archived :
        s = IF r.class = "integer" /\ Files(r.place) \cap files # {}
            THEN [r EXCEPT !.alone = FALSE] ELSE r
  BY DEF Disturbed
<1>. DOMAIN r = RecordFields
  BY RecordsShaped
<1>1. \/ s = r
      \/ /\ s.alone = FALSE
         /\ s.tuple = r.tuple /\ s.doc = r.doc /\ s.place = r.place
         /\ s.zip = r.zip /\ s.class = r.class /\ s.kept = r.kept
  BY <1>0
<1>2. PICK hs : Recorded(r, hs)
  BY DEF RecordsGood
<1>3. Recorded(r, hs)'
  BY <1>2, RecordedKept
<1>4. CASE s = r
  BY <1>3, <1>4
<1>5. CASE s # r
  BY <1>1, <1>3, <1>5, RecordedLike DEF Recorded
<1> QED
  BY <1>4, <1>5

Same(r) ==
  /\ r.tuple = job.tuple /\ r.doc = job.doc
  /\ r.place = opts.place /\ r.zip = opts.zip

(* While the blocks of a document are indexed. *)
IndexInv ==
  /\ opts.indexer \in IndexerClass
  /\ IndexerOK(job.indexer) /\ job.indexer.class = opts.indexer
  /\ IsSeq(job.handles) /\ Len(job.handles) <= Len(job.doc) /\ job.tuple = << >>
  /\ Good(opts.indexer, opts.place, opts.zip, job.trust,
          DataBlocks(job.doc, job.handles))
  /\ InView(opts.indexer, opts.place, DataBlocks(job.doc, job.handles))
  /\ opts.indexer = "integer" =>
       /\ job.indexer.id = Wrap(opts.first + Len(job.handles))
       /\ Numbers(opts.first, job.handles)
       /\ job.trust => \A f \in Files(opts.place) : \A n, x :
            Holds(f, <<"id", n>>, x) =>
              \E i \in 1..Len(job.handles) : n = Wrap(opts.first + (i - 1))
       /\ \A r \in archived : r.class = "integer" /\ r.alone =>
            Files(r.place) \cap Files(opts.place) = {}

(* The record that printing the tuple adds. *)
NewRecord ==
  [tuple |-> job.tuple, doc |-> job.doc, place |-> opts.place, zip |-> opts.zip,
   class |-> opts.indexer, alone |-> job.trust, kept |-> FALSE]

PrintInv ==
  /\ Recorded(NewRecord, job.handles)
  /\ InView(opts.indexer, opts.place, Blocks(job.tuple, job.doc, job.handles))
  /\ opts.indexer = "uuid" => \A r \in archived : r.tuple # job.tuple

(* Once the tuple is printed: the blocks are still in the files, as long   *)
(* as no error was hidden.                                                 *)
DoneInv ==
  \A r \in archived : Same(r) =>
    /\ Recorded(r, job.handles)
    /\ ~job.lost /\ job.status = 0 =>
         InView(r.class, r.place, Blocks(r.tuple, r.doc, job.handles))

ArchiveInv ==
  job.cmd = "archive" =>
    /\ opts \in ArchiveOpts
    /\ job.pc = "index" => IndexInv
    /\ job.pc = "print" => PrintInv
    /\ job.pc \in {"leave", "close", "exit"} => DoneInv

(* A conversion copies no damaged block to an undamaged file, and no       *)
(* numbered block to a file on whose numbers an archive relies.            *)
CopyInv ==
  job.cmd = "convert" =>
    /\ <<source, dest>> \in ConvertPair
    /\ dest \notin damaged => source \notin damaged
    /\ (\E n, x : Holds(source, <<"id", n>>, x)) =>
         \A r \in archived : r.class = "integer" /\ r.alone => dest \notin Files(r.place)

(* A write through the stack, seen from the files. *)
LEMMA WriteFacts ==
  ASSUME ToolInv, NEW role \in Role, job.pc \in Working, NEW k, NEW c,
         StackWrites(role, k, c), UNCHANGED opts
  PROVE  LET f == opts.place[role]
         IN  /\ f \in File /\ f \in DOMAIN cache
             /\ \A g \in File : \A y, x : Holds(g, y, x)' => \/ Holds(g, y, x)
                  \/ /\ g = f /\ y = k
                     /\ x = Filed(Filtered(opts.place, opts.zip, role), c)
             /\ \A g \in File : DOMAIN disk[g] \subseteq DOMAIN disk'[g]
             /\ \A g \in File : DOMAIN View(g) \subseteq DOMAIN View(g)'
             /\ k \in DOMAIN View(f)'
<1>0. PICK f : f = opts.place[role] /\ f = opts'.place[role]
  OBVIOUS
<1>1. /\ f \in DOMAIN cache /\ f \in File
      /\ \/ WriteBlock(f, k, StoredForm(role, c))
         \/ k \in DOMAIN cache[f] /\ UNCHANGED <<disk, cache>>
  BY <1>0, StackWritten
<1>2. opts \in Option
  BY DEF ToolInv, OpenInv, JobShape, Working
<1>3. StoredForm(role, c) = Filed(Filtered(opts.place, opts.zip, role), c)
  BY <1>2, LayersHave DEF StoredForm, Filed
<1>4. CASE WriteBlock(f, k, StoredForm(role, c))
  <2>1. /\ \A g \in File : DOMAIN disk[g] \subseteq DOMAIN disk'[g]
        /\ \A g \in File : \A y, x : Holds(g, y, x)' =>
              Holds(g, y, x) \/ (g = f /\ y = k /\ x = StoredForm(role, c))
    BY <1>1, <1>4, WriteHolds DEF ToolInv
  <2>2. /\ DOMAIN cache' = DOMAIN cache
        /\ cache'[f] = Put(cache[f], k, StoredForm(role, c))
        /\ \A g \in DOMAIN cache : g # f => cache'[g] = cache[g]
        /\ \A g \in File : g # f => disk'[g] = disk[g]
    BY <1>1, <1>4, WriteDb DEF ToolInv
  <2>3. DOMAIN cache'[f] = DOMAIN cache[f] \cup {k}
    BY <2>2 DEF Put
  <2>4. /\ \A g \in File : DOMAIN View(g) \subseteq DOMAIN View(g)'
        /\ k \in DOMAIN View(f)'
    BY <1>1, <2>2, <2>3 DEF View
  <2> QED
    BY <1>0, <1>1, <1>3, <2>1, <2>4
<1>5. CASE k \in DOMAIN cache[f] /\ UNCHANGED <<disk, cache>>
  <2>1. /\ \A g \in File : \A y, x : Holds(g, y, x)' => Holds(g, y, x)
        /\ \A g \in File : View(g)' = View(g)
        /\ k \in DOMAIN View(f)
    BY <1>1, <1>5 DEF View, Holds
  <2> QED
    BY <1>0, <1>1, <1>5, <2>1
<1> QED
  BY <1>1, <1>4, <1>5

LEMMA KeyTags ==
  ASSUME NEW class \in IndexerClass, NEW form, NEW c, Refers(class, form, c)
  PROVE  /\ class \in Checked => \E y : KeyOf(class, form) = <<"hash", y>>
         /\ class = "integer" => KeyOf(class, form) = <<"id", form[1]>>
         /\ class = "uuid" => KeyOf(class, form) = <<"uuid", form[1]>>
<1>1. CASE class = "hash"
  <2>1. form[1] = <<"hash", c>>
    BY <1>1 DEF Refers, Hash
  <2> QED
    BY <1>1, <2>1, KeyForms
<1>2. CASE class = "chk"
  <2>1. \E y : form[2] = <<"hash", y>>
    BY <1>2 DEF Refers, Hash
  <2> QED
    BY <1>2, <2>1, KeyForms
<1>3. CASE class \in {"integer", "uuid"}
  BY <1>3, KeyForms DEF Checked
<1> QED
  BY <1>1, <1>2, <1>3 DEF IndexerClass

(* What indexing a block gives, and the write it makes. *)
IndexesBlock(role, c, form) ==
  /\ job.pc = "index" /\ role \in Role
  /\ form = SerialHandle(Indexed(c).handle)
  /\ StackWrites(role, Indexed(c).key, Indexed(c).block)
  /\ fresh' = fresh + 1
  /\ UNCHANGED <<opts, archived, damaged>>

LEMMA IndexesFacts ==
  ASSUME ToolInv, ArchiveInv, NEW role, NEW c, NEW form, IndexesBlock(role, c, form)
  PROVE  /\ job.cmd = "archive" /\ IndexInv /\ opts \in Option /\ fresh \in Nat
         /\ opts.place[role] \in File /\ opts.place[role] \in Files(opts.place)
         /\ Refers(opts.indexer, form, c)
         /\ \A g \in File : \A y, x : Holds(g, y, x)' => \/ Holds(g, y, x)
              \/ /\ g = opts.place[role] /\ y = KeyOf(opts.indexer, form)
                 /\ x = Filed(Filtered(opts.place, opts.zip, role),
                              Written(opts.indexer, form, c))
         /\ \A g \in File : DOMAIN disk[g] \subseteq DOMAIN disk'[g]
         /\ \A g \in File : DOMAIN View(g) \subseteq DOMAIN View(g)'
         /\ KeyOf(opts.indexer, form) \in DOMAIN View(opts.place[role])'
         /\ opts.indexer = "integer" => form = <<Wrap(opts.first + Len(job.handles))>>
         /\ opts.indexer = "uuid" => form = <<fresh>>
         /\ IndexerOK(Indexed(c).indexer) /\ Indexed(c).indexer.class = opts.indexer
         /\ opts.indexer = "integer" =>
              Indexed(c).indexer.id = After(Wrap(opts.first + Len(job.handles)))
         /\ Indexed(c).handle[1] = opts.indexer
<1>1. job.cmd = "archive" /\ opts \in Option /\ fresh \in Nat /\ job.pc \in Working
  BY DEF IndexesBlock, ToolInv, JobShape, OpenInv, Bounds, Working
<1>2. IndexInv /\ role \in Role
  BY <1>1 DEF ArchiveInv, IndexesBlock
<1>3. PICK ix : ix = job.indexer /\ IndexerOK(ix) /\ ix.class = opts.indexer
  BY <1>2 DEF IndexInv
<1>4. PICK r : r = Indexed(c)
  OBVIOUS
<1>5. r = Index(ix, c, fresh) /\ form = SerialHandle(r.handle)
  BY <1>3, <1>4 DEF Indexed, IndexesBlock
<1>6. /\ IndexerOK(r.indexer) /\ r.indexer.class = ix.class /\ r.handle[1] = ix.class
      /\ Refers(ix.class, form, c) /\ r.key = KeyOf(ix.class, form)
      /\ r.block = Written(ix.class, form, c)
      /\ ix.class = "integer" => /\ form = <<ix.id>>
                                 /\ r.indexer.id = After(ix.id)
      /\ ix.class = "uuid" => form = <<fresh>>
  BY <1>1, <1>3, <1>5, IndexFacts
<1>7. ix.class = "integer" => ix.id = Wrap(opts.first + Len(job.handles))
  BY <1>2, <1>3 DEF IndexInv
<1>8. StackWrites(role, r.key, r.block)
  BY <1>4 DEF IndexesBlock
<1>9. /\ opts.place[role] \in File
      /\ \A g \in File : \A y, x : Holds(g, y, x)' => \/ Holds(g, y, x)
              \/ /\ g = opts.place[role] /\ y = r.key
                 /\ x = Filed(Filtered(opts.place, opts.zip, role), r.block)
      /\ \A g \in File : DOMAIN disk[g] \subseteq DOMAIN disk'[g]
      /\ \A g \in File : DOMAIN View(g) \subseteq DOMAIN View(g)'
      /\ r.key \in DOMAIN View(opts.place[role])'
  <2>1. PICK k, b : k = r.key /\ b = r.block
    OBVIOUS
  <2>2. StackWrites(role, k, b)
    BY <1>8, <2>1
  <2> QED
    BY <1>1, <1>2, <2>1, <2>2, WriteFacts DEF IndexesBlock
<1>10. opts.place[role] \in Files(opts.place)
  BY <1>1, <1>2, FilesIn
<1> QED
  BY <1>1, <1>2, <1>3, <1>4, <1>6, <1>7, <1>9, <1>10

LEMMA IndexGentle ==
  ASSUME ToolInv, ArchiveInv, FreshInv, NEW role, NEW c, NEW form,
         IndexesBlock(role, c, form)
  PROVE  Gentle /\ FreshInv'
<1>0. PICK class, place, key : /\ class = opts.indexer /\ place = opts.place
                               /\ key = KeyOf(class, form)
  OBVIOUS
<1>1. /\ IndexInv /\ fresh \in Nat /\ place[role] \in File
      /\ place[role] \in Files(place) /\ Refers(class, form, c)
      /\ class = "uuid" => form = <<fresh>>
      /\ class \in IndexerClass
  BY <1>0, IndexesFacts DEF IndexInv
<1>2. \A g \in File : \A y, x : Holds(g, y, x)' =>
        Holds(g, y, x) \/ (g = place[role] /\ y = key)
  BY <1>0, IndexesFacts
<1>3. fresh' = fresh + 1 /\ damaged' = damaged /\ archived' = archived
  BY DEF IndexesBlock
<1>4. /\ class \in Checked => \E y : key = <<"hash", y>>
      /\ class = "integer" => key = <<"id", form[1]>>
      /\ class = "uuid" => key = <<"uuid", fresh>>
  BY <1>0, <1>1, KeyTags
<1>5. \A n : key = <<"uuid", n>> => n = fresh
  BY <1>1, <1>4 DEF IndexerClass, Checked
<1>6. FreshInv'
  <2> SUFFICES ASSUME NEW f \in File, NEW n, NEW x, Holds(f, <<"uuid", n>>, x)'
               PROVE  n \in 0..(fresh' - 1)
    BY DEF FreshInv
  <2>1. n \in 0..(fresh - 1) \/ n = fresh
    BY <1>2, <1>5 DEF FreshInv
  <2> QED
    BY <1>1, <1>3, <2>1
<1>7. ASSUME NEW r \in archived, Relied(r.class, r.alone)
      PROVE  Harmless(r.class, r.place)
  <2> SUFFICES ASSUME NEW f \in Region(r.class, r.place)', NEW k, NEW x, Holds(f, k, x)',
                      k \in Known(r.class)
               PROVE  \E g \in Region(r.class, r.place) : Holds(g, k, x)
    BY DEF Harmless
  <2>1. f \in Region(r.class, r.place)
    BY <1>3 DEF Region
  <2>2. f \in File /\ (r.class = "integer" => f \in Files(r.place))
    BY <2>1 DEF Region, Files, ToolInv, Records, RecordShape
  <2>3. ASSUME f = place[role], k = key PROVE FALSE
    <3>1. CASE r.class = "uuid"
      BY <1>1, <1>5, <2>3, <3>1 DEF Known
    <3>2. CASE r.class = "integer"
      <4>1. \E n : key = <<"id", n>>
        BY <2>3, <3>2 DEF Known
      <4>2. class = "integer"
        BY <1>1, <1>4, <4>1 DEF IndexerClass, Checked
      <4> QED
        BY <1>0, <1>1, <1>7, <2>2, <2>3, <3>2, <4>2 DEF IndexInv, Relied
    <3> QED
      BY <1>7, <3>1, <3>2 DEF Relied
  <2> QED
    BY <1>2, <2>1, <2>2, <2>3
<1>8. \A f \in File : DOMAIN disk[f] \subseteq DOMAIN disk'[f]
  BY IndexesFacts
<1> QED
  BY <1>1, <1>3, <1>6, <1>7, <1>8 DEF Gentle

(* Indexing adds a good block to the good ones. *)
LEMMA IndexAdds ==
  ASSUME FitsIdentifiers, ToolInv, ArchiveInv, FreshInv, NEW role, NEW c, NEW form,
         IndexesBlock(role, c, form), Size(c) \in Nat \ {0},
         NEW class, NEW place, NEW zip, NEW alone, NEW B,
         class = opts.indexer, place = opts.place, zip = opts.zip, alone = job.trust,
         B = DataBlocks(job.doc, job.handles) \cup {<<role, form, c>>}
  PROVE  Good(class, place, zip, alone, B)' /\ InView(class, place, B)'
<1> DEFINE key == KeyOf(class, form)
           D == DataBlocks(job.doc, job.handles)
           new == <<role, form, c>>
           next == Wrap(opts.first + Len(job.handles))
<1>1. /\ IndexInv /\ fresh \in Nat /\ place[role] \in File
      /\ Refers(class, form, c) /\ class \in IndexerClass /\ role \in Role
      /\ class = "integer" => form = <<next>>
      /\ class = "uuid" => form = <<fresh>>
      /\ Len(job.handles) \in Nat
  BY IndexesFacts DEF IndexInv, IndexesBlock, IsSeq
<1>a. class = "integer" =>
        /\ opts.first \in 0..(IdSpace - 1) /\ Len(job.handles) \in 0..(IdSpace - 1)
        /\ next \in 0..(IdSpace - 1)
  <2>1. job.doc \in Document /\ Len(job.doc) \in Nat /\ Len(job.doc) < IdSpace
    BY IndexesFacts, DocumentAssumption
       DEF ToolInv, JobShape, Records, IndexInv, FitsIdentifiers
  <2>2. Len(job.handles) \in 0..(IdSpace - 1)
    BY <1>1, <2>1, IndexerAssumption DEF IndexInv
  <2> QED
    BY <1>1, <2>2, WrapFacts DEF IndexInv, Numbers
<1>2. \A g \in File : \A y, x : Holds(g, y, x)' => \/ Holds(g, y, x)
         \/ /\ g = place[role] /\ y = key
            /\ x = Filed(Filtered(place, zip, role), Written(class, form, c))
  BY IndexesFacts
<1>3. fresh' = fresh + 1 /\ damaged' = damaged /\ opts' = opts
  BY DEF IndexesBlock
<1>4. /\ class = "integer" => key = <<"id", next>>
      /\ class = "uuid" => key = <<"uuid", fresh>>
  BY <1>1, KeyTags
<1>5. place \in [Role -> File] /\ Files(place) \subseteq File
  BY IndexesFacts, FilesIn DEF Option
<1>6. /\ Region(class, place)' = Region(class, place)
      /\ \A f \in Region(class, place) : f \in File
      /\ class = "integer" => \A f \in Region(class, place) : f \in Files(place)
  BY <1>3, <1>5 DEF Region
<1>7. Known(class) \subseteq Known(class)'
  <2>1. 0..(fresh - 1) \subseteq 0..(fresh' - 1)
    BY <1>1, <1>3, Longer
  <2> QED
    BY <2>1 DEF Known
<1>b. class = "integer" =>
        \A i \in 1..Len(job.handles) : Wrap(opts.first + (i - 1)) # next
  <2> SUFFICES ASSUME class = "integer", NEW i \in 1..Len(job.handles)
               PROVE  Wrap(opts.first + (i - 1)) # next
    OBVIOUS
  <2>1. i - 1 \in 0..(IdSpace - 1) /\ i - 1 # Len(job.handles)
    BY <1>1, <1>a, IndexerAssumption
  <2> QED
    BY <1>a, <2>1, WrapFacts
<1> HIDE DEF key, next
<1>8. ASSUME NEW b \in D PROVE GoodBlock(class, place, zip, alone, b)'
  <2>1. GoodBlock(class, place, zip, alone, b)
    BY <1>1 DEF IndexInv, Good
  <2>2. PICK i \in 1..Len(job.handles) : b = <<"data", job.handles[i], Text(job.doc[i])>>
    BY DEF DataBlocks
  <2>3. class \notin Checked => KeyOf(class, b[2]) \in Known(class)
    BY <2>1 DEF GoodBlock
  <2>4. ASSUME Relied(class, alone) PROVE KeyOf(class, b[2]) # key
    <3>1. CASE class = "uuid"
      <4>1. \E n \in 0..(fresh - 1) : KeyOf(class, b[2]) = <<"uuid", n>>
        BY <2>3, <3>1 DEF Known, Checked
      <4> QED
        BY <1>1, <1>4, <3>1, <4>1
    <3>2. CASE class = "integer"
      <4>1. b[2] = <<Wrap(opts.first + (i - 1))>>
        BY <1>1, <2>2, <3>2 DEF IndexInv, Numbers
      <4>2. KeyOf(class, b[2]) = <<"id", Wrap(opts.first + (i - 1))>>
        BY <3>2, <4>1, KeyForms
      <4>3. Wrap(opts.first + (i - 1)) # next
        BY <1>b, <3>2
      <4> QED
        BY <1>4, <3>2, <4>2, <4>3
    <3> QED
      BY <2>4, <3>1, <3>2 DEF Relied
  <2>5. Relied(class, alone) => Sound(class, place, zip, b)'
    BY <1>2, <1>6, <2>1, <2>4 DEF GoodBlock, Sound
  <2> QED
    BY <1>7, <2>1, <2>5 DEF GoodBlock
<1>9. GoodBlock(class, place, zip, alone, new)'
  <2>1. class \notin Checked => key \in Known(class)'
    <3>1. fresh \in 0..(fresh' - 1)
      BY <1>1, <1>3
    <3>2. class = "integer" => next \in Nat
      BY <1>a, IndexerAssumption
    <3> QED
      BY <1>1, <1>4, <3>1, <3>2 DEF Known, IndexerClass, Checked
  <2>2. ASSUME Relied(class, alone), NEW f \in Region(class, place), NEW x,
               Holds(f, key, x)'
        PROVE  x = Filed(Filtered(place, zip, role), c)
    <3>1. ~Holds(f, key, x)
      <4>1. CASE class = "uuid"
        BY <1>1, <1>4, <1>6, <4>1 DEF FreshInv
      <4>2. CASE class = "integer"
        <5>1. \A n : Holds(f, <<"id", n>>, x) =>
                \E i \in 1..Len(job.handles) : n = Wrap(opts.first + (i - 1))
          BY <1>1, <1>6, <2>2, <4>2 DEF IndexInv, Relied
        <5> QED
          BY <1>4, <1>b, <4>2, <5>1
      <4> QED
        BY <2>2, <4>1, <4>2 DEF Relied
    <3>2. Written(class, form, c) = c
      BY <2>2 DEF Written, Relied
    <3> QED
      BY <1>2, <1>6, <2>2, <3>1, <3>2
  <2>3. new[1] = role /\ new[2] = form /\ new[3] = c
    OBVIOUS
  <2> HIDE DEF new
  <2>4. Relied(class, alone) => Sound(class, place, zip, new)'
    BY <1>6, <2>2, <2>3 DEF Sound, key
  <2> QED
    BY <1>1, <2>1, <2>3, <2>4 DEF GoodBlock, key
<1>10. ASSUME NEW b \in D PROVE KeyOf(class, b[2]) \in DOMAIN View(place[b[1]])'
  <2>1. KeyOf(class, b[2]) \in DOMAIN View(place[b[1]])
    BY <1>1 DEF IndexInv, InView
  <2>2. b[1] = "data" /\ place[b[1]] \in File
    BY <1>5 DEF DataBlocks, Role
  <2> QED
    BY <2>1, <2>2, IndexesFacts
<1>11. KeyOf(class, new[2]) \in DOMAIN View(place[new[1]])'
  BY <1>3, IndexesFacts
<1> QED
  BY <1>8, <1>9, <1>10, <1>11 DEF Good, InView

-----------------------------------------------------------------------------
(***************************************************************************)
(* The closings of an archiver reach every file it has open.               *)
(***************************************************************************)
(* Closings that forget no Berkeley DB handle. *)
Closes(s) == IsSeq(s) /\ \A e : IsIn(e, s) /\ e.forgets => ForgetsHandle(e.file)

Reaches(s, f) == \E e : IsIn(e, s) /\ e.file = f

EndsInv ==
  job.cmd = "archive" =>
    /\ job.pc = "close" => /\ Closes(job.ends)
                           /\ \A f \in DOMAIN cache : Reaches(job.ends, f)
    /\ job.pc = "exit" /\ job.status = 0 => DOMAIN cache = {}

LEMMA ClosesConcat ==
  ASSUME NEW s, NEW t, Closes(s), Closes(t)
  PROVE  /\ Closes(s \o t)
         /\ \A f : Reaches(s, f) \/ Reaches(t, f) => Reaches(s \o t, f)
<1>1. IsSeq(s) /\ IsSeq(t)
  BY DEF Closes
<1>2. IsSeq(s \o t)
  BY <1>1, ConcatIn
<1>3. \A e : IsIn(e, s \o t) <=> IsIn(e, s) \/ IsIn(e, t)
  BY <1>1, ConcatIn
<1> QED
  BY <1>2, <1>3 DEF Closes, Reaches

LEMMA ClosesNothing == Closes(<< >>)
  BY DEF Closes, IsSeq, IsIn

LEMMA ClosesBelow ==
  ASSUME NEW f, NEW looks, NEW forgets, forgets => ForgetsHandle(f), NEW w \in BOOLEAN
  PROVE  /\ Closes(Below(Closing(f, looks, forgets), w))
         /\ w => Reaches(Below(Closing(f, looks, forgets), w), f)
<1>1. PICK e : e = Closing(f, looks, forgets)
  OBVIOUS
<1>2. e.file = f /\ e.forgets = forgets
  BY <1>1 DEF Closing
<1>3. \A x : IsSeq(Below(e, w)) /\ (IsIn(x, Below(e, w)) <=> w /\ x = e)
  BY BelowIn
<1> QED
  BY <1>1, <1>2, <1>3 DEF Closes, Reaches

LEMMA ClosingsReach ==
  ASSUME opts \in Option
  PROVE  Closes(Closings) /\ \A f \in Files(opts.place) : Reaches(Closings, f)
<1>0. /\ \A role \in Role : LeavesAsIs(role) \in BOOLEAN /\ CloseReaches(role) \in BOOLEAN
                            /\ DestroyReaches(role) \in BOOLEAN
      /\ "data" \in Role /\ "metadata" \in Role
  BY DEF Option, LeavesAsIs, CloseReaches, DestroyReaches, Role, OneStore
<1>1. \A role \in Role : Closes(CloseDummy(role))
  BY <1>0, ClosesBelow DEF CloseDummy
<1>2. \A role \in Role : Closes(CloseStore(role))
  BY <1>0, ClosesBelow DEF CloseStore
<1>3. \A role \in Role : /\ Closes(DestroyStore(role))
                         /\ DestroyReaches(role) => Reaches(DestroyStore(role), opts.place[role])
  BY <1>0, ClosesBelow DEF DestroyStore, DestroyForgets
<1> DEFINE x == IF opts.verbose THEN CloseDummy("data") \o CloseDummy("metadata") ELSE << >>
           y == IF SameStore THEN << >>
                ELSE CloseStore("metadata") \o DestroyStore("metadata")
<1>4. Closes(x)
  BY <1>0, <1>1, ClosesConcat, ClosesNothing
<1>5. /\ Closes(y)
      /\ ~SameStore /\ DestroyReaches("metadata") => Reaches(y, opts.place["metadata"])
  BY <1>0, <1>2, <1>3, ClosesConcat, ClosesNothing
<1>6. Closings = ((x \o CloseStore("data")) \o DestroyStore("data")) \o y
  BY DEF Closings
<1> HIDE DEF x, y
<1>7. Closes(x \o CloseStore("data"))
  BY <1>0, <1>2, <1>4, ClosesConcat
<1>8. /\ Closes((x \o CloseStore("data")) \o DestroyStore("data"))
      /\ DestroyReaches("data") =>
           Reaches((x \o CloseStore("data")) \o DestroyStore("data"), opts.place["data"])
  BY <1>0, <1>3, <1>7, ClosesConcat
<1>9. /\ Closes(Closings)
      /\ DestroyReaches("data") => Reaches(Closings, opts.place["data"])
      /\ ~SameStore /\ DestroyReaches("metadata") => Reaches(Closings, opts.place["metadata"])
  BY <1>5, <1>6, <1>8, ClosesConcat
<1>10. DestroyReaches("data")
  BY DEF DestroyReaches, LeavesAsIs
<1>11. \/ opts.place["data"] = opts.place["metadata"]
       \/ ~SameStore /\ DestroyReaches("metadata")
  BY DEF DestroyReaches, LeavesAsIs, SameStore, OneStore
<1> QED
  BY <1>9, <1>10, <1>11, FilesIn

LEMMA ClosesTail ==
  ASSUME NEW s, Closes(s), s # << >>
  PROVE  /\ Closes(Tail(s)) /\ IsIn(Head(s), s)
         /\ \A f : Reaches(s, f) /\ f # Head(s).file => Reaches(Tail(s), f)
<1>1. s \in Seq({s[i] : i \in 1..Len(s)}) /\ DOMAIN s = 1..Len(s) /\ Len(s) \in Nat
  BY SeqOf DEF Closes, IsSeq
<1>2. PICK S : s \in Seq(S)
  BY <1>1
<1>3. Len(s) # 0
  BY <1>2
<1>4. /\ Tail(s) \in Seq(S) /\ Len(Tail(s)) = Len(s) - 1 /\ Head(s) = s[1]
      /\ \A i \in 1..(Len(s) - 1) : Tail(s)[i] = s[i + 1]
  BY <1>2, <1>3
<1>5. IsSeq(Tail(s)) /\ DOMAIN Tail(s) = 1..(Len(s) - 1)
  BY <1>4, SeqIs, SeqOf
<1>6. ASSUME NEW e, IsIn(e, Tail(s)) PROVE IsIn(e, s)
  <2>1. PICK i \in 1..(Len(s) - 1) : s[i + 1] = e
    BY <1>4, <1>5, <1>6 DEF IsIn
  <2> QED
    BY <1>1, <2>1 DEF IsIn
<1>7. ASSUME NEW e, IsIn(e, s), e # Head(s) PROVE IsIn(e, Tail(s))
  <2>1. PICK i \in 1..Len(s) : s[i] = e
    BY <1>1, <1>7 DEF IsIn
  <2>2. i - 1 \in 1..(Len(s) - 1) /\ Tail(s)[i - 1] = s[(i - 1) + 1] /\ (i - 1) + 1 = i
    BY <1>1, <1>4, <1>7, <2>1
  <2> QED
    BY <1>5, <2>1, <2>2 DEF IsIn
<1>8. IsIn(Head(s), s)
  BY <1>1, <1>3, <1>4 DEF IsIn
<1> QED
  BY <1>5, <1>6, <1>7, <1>8 DEF Closes, Reaches

LEMMA EndsNext ==
  ASSUME ToolInv, EndsInv, [Next]_toolVars
  PROVE  EndsInv'
<1>0. DOMAIN job = JobFields
  BY DEF ToolInv, JobShape
<1>1. ASSUME UNCHANGED toolVars PROVE EndsInv'
  BY <1>1 DEF toolVars, archiverVars, EndsInv, Closes, Reaches, ForgetsHandle
<1>2. ASSUME job'.pc \notin {"close", "exit"} PROVE EndsInv'
  BY <1>2 DEF EndsInv
<1>3. ASSUME job'.cmd # "archive" PROVE EndsInv'
  BY <1>3 DEF EndsInv
<1>4. ASSUME Leave PROVE EndsInv'
  <2>1. opts \in Option /\ DOMAIN cache \subseteq Files(opts.place)
    BY <1>4 DEF Leave, ToolInv, OpenInv, JobShape
  <2>2. Closes(Closings) /\ \A f \in DOMAIN cache : Reaches(Closings, f)
    BY <2>1, ClosingsReach
  <2>3. job'.pc = "close" /\ job'.ends = Closings /\ cache' = cache
    BY <1>0, <1>4 DEF Leave, JobFields, dbVars
  <2>4. PICK s : s = Closings
    OBVIOUS
  <2>5. Closes(s)' /\ \A f \in DOMAIN cache' : Reaches(s, f)'
    BY <2>2, <2>3, <2>4 DEF Closes, Reaches, ForgetsHandle, IsSeq, IsIn
  <2> QED
    BY <2>3, <2>4, <2>5 DEF EndsInv
<1>5. ASSUME Close PROVE EndsInv'
  <2> DEFINE f == Head(job.ends).file
  <2> SUFFICES ASSUME job'.cmd = "archive" PROVE EndsInv'
    BY DEF EndsInv
  <2>1. job.cmd = "archive" /\ job.pc = "close" /\ job.ends # << >>
    BY <1>5, FrameStep, CloseFacts DEF Frame
  <2>2. Closes(job.ends) /\ \A g \in DOMAIN cache : Reaches(job.ends, g)
    BY <2>1 DEF EndsInv
  <2>3. PICK s : s = Tail(job.ends)
    OBVIOUS
  <2>4. Closes(s) /\ \A g \in DOMAIN cache : g # f => Reaches(s, g)
    BY <2>1, <2>2, <2>3, ClosesTail
  <2>5. DOMAIN cache' \subseteq DOMAIN cache \ {f}
    <3>1. \/ UNCHANGED <<disk, cache>> /\ f \notin DOMAIN cache
          \/ f \in DOMAIN cache /\ Shuts(f)
      BY <1>5, CloseFacts
    <3> QED
      BY <3>1, ShutsDb DEF ToolInv
  <2>6. \/ job' = [job EXCEPT !.ends = Tail(@)]
        \/ job' = [job EXCEPT !.ends = << >>, !.status = 7, !.pc = "exit"]
        \/ job' = [job EXCEPT !.ends = Tail(@), !.lost = TRUE]
    BY <1>5, CloseFacts
  <2>7. \/ job'.ends = s /\ job'.pc = "close"
        \/ job'.pc = "exit" /\ job'.status = 7
    BY <1>0, <2>1, <2>3, <2>6 DEF JobFields
  <2>8. Closes(s)' /\ \A g \in DOMAIN cache' : Reaches(s, g)'
    BY <2>4, <2>5 DEF Closes, Reaches, ForgetsHandle
  <2> QED
    BY <2>7, <2>8 DEF EndsInv
<1>6. ASSUME AllClosed PROVE EndsInv'
  <2> SUFFICES ASSUME job'.cmd = "archive" PROVE DOMAIN cache' = {}
    BY <1>0, <1>6 DEF EndsInv, AllClosed, JobFields
  <2>1. job.cmd = "archive" /\ job.pc = "close" /\ job.ends = << >> /\ cache' = cache
    BY <1>0, <1>6 DEF AllClosed, JobFields, dbVars
  <2>2. \A g \in DOMAIN cache : Reaches(<< >>, g)
    BY <2>1 DEF EndsInv
  <2>3. \A g : ~Reaches(<< >>, g)
    BY DEF Reaches, IsIn
  <2> QED
    BY <2>1, <2>2, <2>3
<1>7. ASSUME \/ \E o \in ArchiveOpts, d \in Document : StartArchive(o, d)
             \/ \E o \in RestoreOpts, r \in archived : StartRestore(o, r)
             \/ \E pair \in ConvertPair : StartConvert(pair)
             \/ Exit \/ Crash
      PROVE  job'.pc \notin {"close", "exit"}
  <2>1. ASSUME NEW o, NEW d, StartArchive(o, d) PROVE job'.pc \notin {"close", "exit"}
    BY <2>1 DEF StartArchive, NoProcess
  <2>2. ASSUME NEW o, NEW r, StartRestore(o, r) PROVE job'.pc \notin {"close", "exit"}
    BY <2>2 DEF StartRestore, NoProcess
  <2>3. ASSUME NEW pair, StartConvert(pair) PROVE job'.pc \notin {"close", "exit"}
    BY <2>3 DEF StartConvert, NoProcess
  <2>4. ASSUME Exit \/ Crash PROVE job'.pc \notin {"close", "exit"}
    BY <2>4 DEF Exit, Crash, Gone, NoProcess
  <2> QED
    BY <1>7, <2>1, <2>2, <2>3, <2>4
<1>8. ASSUME IndexData \/ IndexRoot \/ IndexFails \/ PrintHandle
      PROVE  job'.pc \notin {"close", "exit"}
  BY <1>0, <1>8 DEF IndexData, IndexRoot, IndexFails, PrintHandle, JobFields
<1>9. ASSUME FetchRoot \/ FetchData \/ ReadFails \/ EndOfStream
             \/ CopyBlock \/ CopyFails \/ IteratorFails \/ EndOfStore \/ ConvertLeave
      PROVE  job'.cmd # "archive"
  <2>1. job.cmd # "archive"
    BY <1>9 DEF FetchRoot, FetchData, ReadFails, EndOfStream, CopyBlock, CopyFails,
                IteratorFails, EndOfStore, ConvertLeave, ToolInv, JobShape
  <2> QED
    BY <1>9, <2>1, FrameStep DEF Frame, Quiet
<1>10. ASSUME Damage PROVE job'.cmd # "archive"
  BY <1>10 DEF Damage
<1> QED
  BY <1>1, <1>2, <1>3, <1>4, <1>5, <1>6, <1>7, <1>8, <1>9, <1>10
     DEF Next, ArchiverNext, ConvertNext

-----------------------------------------------------------------------------
(***************************************************************************)
(* Archiving: the blocks are indexed, the tuple is printed.                *)
(***************************************************************************)
LEMMA AppendSeq ==
  ASSUME NEW s, IsSeq(s), NEW x
  PROVE  /\ IsSeq(Append(s, x)) /\ Len(Append(s, x)) = Len(s) + 1
         /\ \A i \in 1..Len(s) : Append(s, x)[i] = s[i]
         /\ Append(s, x)[Len(s) + 1] = x
<1> DEFINE S == {s[i] : i \in 1..Len(s)} \cup {x}
<1>1. s \in Seq(S) /\ x \in S /\ DOMAIN s = 1..Len(s) /\ Len(s) \in Nat
  BY DEF IsSeq
<1> HIDE DEF S
<1>2. Append(s, x) \in Seq(S)
  BY <1>1
<1>3. IsSeq(Append(s, x))
  BY <1>2, SeqIs
<1> QED
  BY <1>1, <1>3

LEMMA DataBlocksAdd ==
  ASSUME NEW doc, NEW hs, NEW more, NEW form, Len(hs) \in Nat, Len(more) = Len(hs) + 1,
         \A i \in 1..Len(hs) : more[i] = hs[i], more[Len(hs) + 1] = form
  PROVE  DataBlocks(doc, more) =
           DataBlocks(doc, hs) \cup {<<"data", form, Text(doc[Len(hs) + 1])>>}
<1>1. 1..Len(more) = 1..Len(hs) \cup {Len(hs) + 1}
  OBVIOUS
<1>2. DataBlocks(doc, more) = {<<"data", more[i], Text(doc[i])>> : i \in 1..Len(hs)}
                              \cup {<<"data", form, Text(doc[Len(hs) + 1])>>}
  BY <1>1 DEF DataBlocks
<1>3. {<<"data", more[i], Text(doc[i])>> : i \in 1..Len(hs)}
        = {<<"data", hs[i], Text(doc[i])>> : i \in 1..Len(hs)}
  OBVIOUS
<1> QED
  BY <1>2, <1>3 DEF DataBlocks

LEMMA IndexDataInv ==
  ASSUME FitsIdentifiers, ToolInv, ArchiveInv, FreshInv, IndexData
  PROVE  ArchiveInv' /\ Gentle /\ FreshInv' /\ archived' = archived /\ damaged' = damaged
         /\ job'.cmd = "archive"
<1>0. PICK c, form, n, hs, doc :
        /\ doc = job.doc /\ hs = job.handles /\ n = Len(hs) /\ c = Text(doc[n + 1])
        /\ form = SerialHandle(Indexed(c).handle)
  OBVIOUS
<1>1. IndexesBlock("data", c, form)
  BY <1>0 DEF IndexData, IndexesBlock, Role
<1>2. /\ job.cmd = "archive" /\ IndexInv /\ opts \in Option /\ opts \in ArchiveOpts
      /\ DOMAIN job = JobFields /\ doc \in Document /\ IsSeq(hs) /\ n \in Nat
      /\ Len(doc) \in Nat /\ n < Len(doc) /\ Len(doc) < IdSpace
  BY <1>0, <1>1, IndexesFacts, DocumentAssumption
     DEF ArchiveInv, ToolInv, JobShape, Records, IndexInv, IsSeq, IndexData, FitsIdentifiers
<1>3. /\ job'.handles = Append(hs, form) /\ job'.indexer = Indexed(c).indexer
      /\ job'.pc = "index" /\ job'.cmd = "archive" /\ job'.doc = doc
      /\ job'.trust = job.trust /\ job'.tuple = job.tuple
  BY <1>0, <1>2 DEF IndexData, JobFields
<1>4. PICK more : more = Append(hs, form)
  OBVIOUS
<1>5. /\ IsSeq(more) /\ Len(more) = n + 1 /\ more[n + 1] = form
      /\ \A i \in 1..n : more[i] = hs[i]
  BY <1>0, <1>2, <1>4, AppendSeq
<1>6. PICK class, place, zip, alone, B, first :
        /\ class = opts.indexer /\ place = opts.place /\ zip = opts.zip
        /\ alone = job.trust /\ B = DataBlocks(doc, more) /\ first = opts.first
  OBVIOUS
<1>7. B = DataBlocks(job.doc, job.handles) \cup {<<"data", form, c>>}
  <2>1. /\ Len(hs) \in Nat /\ Len(more) = Len(hs) + 1
        /\ \A i \in 1..Len(hs) : more[i] = hs[i]
        /\ more[Len(hs) + 1] = form
    BY <1>0, <1>2, <1>5
  <2>2. DataBlocks(doc, more) =
          DataBlocks(doc, hs) \cup {<<"data", form, Text(doc[Len(hs) + 1])>>}
    BY <2>1, DataBlocksAdd
  <2> QED
    BY <1>0, <1>6, <2>2
<1>8. Size(c) \in Nat \ {0}
  BY <1>0 DEF Size, Text, DataSize
<1>9. Good(class, place, zip, alone, B)' /\ InView(class, place, B)'
  BY <1>1, <1>6, <1>7, <1>8, IndexAdds
<1>10. opts' = opts /\ archived' = archived /\ damaged' = damaged
  BY <1>1 DEF IndexesBlock
<1>11. /\ IndexerOK(job'.indexer) /\ job'.indexer.class = class
       /\ class = "integer" => /\ job'.indexer.id = After(Wrap(first + n))
                               /\ form = <<Wrap(first + n)>>
  BY <1>0, <1>1, <1>3, <1>6, IndexesFacts
<1>12. class = "integer" => After(Wrap(first + n)) = Wrap(first + (n + 1))
  <2>1. class = "integer" => first \in 0..(IdSpace - 1)
    BY <1>2, <1>6 DEF IndexInv, Numbers
  <2>2. n \in 0..(IdSpace - 1)
    BY <1>2, IndexerAssumption
  <2>3. class = "integer" => first + n + 1 = first + (n + 1)
    BY <2>1, <2>2
  <2> QED
    BY <2>1, <2>2, <2>3, WrapFacts
<1>13. ASSUME class = "integer"
       PROVE  /\ Numbers(first, more)
              /\ job.trust => \A f \in Files(place) : \A m, x :
                   Holds(f, <<"id", m>>, x)' =>
                     \E i \in 1..Len(more) : m = Wrap(first + (i - 1))
  <2>1. /\ first \in 0..(IdSpace - 1)
        /\ \A i \in 1..n : hs[i] = <<Wrap(first + (i - 1))>>
    BY <1>0, <1>2, <1>6, <1>13 DEF IndexInv, Numbers
  <2>2. Numbers(first, more)
    <3> SUFFICES ASSUME NEW i \in 1..(n + 1) PROVE more[i] = <<Wrap(first + (i - 1))>>
      BY <1>5, <2>1 DEF Numbers
    <3>1. CASE i = n + 1
      <4>1. i - 1 = n
        BY <1>2, <3>1
      <4> QED
        BY <1>5, <1>11, <1>13, <3>1, <4>1
    <3>2. CASE i # n + 1
      BY <1>2, <1>5, <2>1, <3>2
    <3> QED
      BY <3>1, <3>2
  <2>3. ASSUME job.trust, NEW f \in Files(place), NEW m, NEW x, Holds(f, <<"id", m>>, x)'
        PROVE  \E i \in 1..Len(more) : m = Wrap(first + (i - 1))
    <3>1. f \in File
      BY <1>2, <1>6, FilesIn
    <3>2. Holds(f, <<"id", m>>, x) \/ <<"id", m>> = KeyOf(class, form)
      BY <1>1, <1>6, <2>3, <3>1, IndexesFacts
    <3>3. KeyOf(class, form) = <<"id", Wrap(first + n)>>
      BY <1>11, <1>13, KeyForms
    <3>4. Holds(f, <<"id", m>>, x) => \E i \in 1..n : m = Wrap(first + (i - 1))
      BY <1>0, <1>2, <1>6, <1>13, <2>3 DEF IndexInv
    <3>5. CASE Holds(f, <<"id", m>>, x)
      BY <1>2, <1>5, <3>4, <3>5
    <3>6. CASE <<"id", m>> = KeyOf(class, form)
      <4>1. n + 1 \in 1..Len(more) /\ (n + 1) - 1 = n
        BY <1>2, <1>5
      <4>2. m = Wrap(first + n)
        BY <3>3, <3>6
      <4> QED
        BY <4>1, <4>2
    <3> QED
      BY <3>2, <3>5, <3>6
  <2> QED
    BY <2>2, <2>3
<1>14. IndexInv'
  <2>1. /\ opts'.indexer \in IndexerClass /\ job'.tuple = << >>
        /\ opts'.indexer = "integer" => \A r \in archived' : r.class = "integer" /\ r.alone =>
             Files(r.place) \cap Files(opts'.place) = {}
    BY <1>2, <1>3, <1>10 DEF IndexInv
  <2>2. opts'.indexer = "integer" =>
          /\ job'.indexer.id = Wrap(opts'.first + Len(job'.handles))
          /\ Numbers(opts'.first, job'.handles)
          /\ job'.trust => \A f \in Files(opts'.place) : \A m, x :
               Holds(f, <<"id", m>>, x)' =>
                 \E i \in 1..Len(job'.handles) : m = Wrap(opts'.first + (i - 1))
    BY <1>3, <1>4, <1>5, <1>6, <1>10, <1>11, <1>12, <1>13
  <2>3. /\ IndexerOK(job'.indexer) /\ job'.indexer.class = opts'.indexer
        /\ IsSeq(job'.handles) /\ Len(job'.handles) <= Len(job'.doc)
    BY <1>2, <1>3, <1>4, <1>5, <1>6, <1>10, <1>11
  <2>4. /\ Good(opts.indexer, opts.place, opts.zip, job.trust, DataBlocks(job.doc, job.handles))'
        /\ InView(opts.indexer, opts.place, DataBlocks(job.doc, job.handles))'
    BY <1>3, <1>4, <1>6, <1>9, <1>10
  <2> QED
    BY <2>1, <2>2, <2>3, <2>4 DEF IndexInv
<1>15. ArchiveInv'
  BY <1>2, <1>3, <1>10, <1>14 DEF ArchiveInv
<1> QED
  BY <1>1, <1>3, <1>10, <1>15, IndexGentle

LEMMA IndexRootInv ==
  ASSUME FitsIdentifiers, ToolInv, ArchiveInv, FreshInv, RecordsGood, IndexRoot
  PROVE  ArchiveInv' /\ Gentle /\ FreshInv' /\ archived' = archived /\ damaged' = damaged
         /\ job'.cmd = "archive"
<1>0. PICK c, form, hs, doc, t :
        /\ doc = job.doc /\ hs = job.handles /\ c = Node(hs)
        /\ form = SerialHandle(Indexed(c).handle)
        /\ t = SerializeIndexTuple(Indexed(c).handle, Indexed(c).indexer)
  OBVIOUS
<1>1. IndexesBlock("metadata", c, form)
  BY <1>0 DEF IndexRoot, IndexesBlock, Role
<1>2. /\ job.cmd = "archive" /\ IndexInv /\ opts \in Option /\ opts \in ArchiveOpts
      /\ DOMAIN job = JobFields /\ doc \in Document /\ IsSeq(hs) /\ Len(hs) = Len(doc)
      /\ Len(doc) \in Nat \ {0} /\ fresh \in Nat
  BY <1>0, <1>1, IndexesFacts, DocumentAssumption
     DEF ArchiveInv, ToolInv, JobShape, Records, IndexInv, IndexRoot
<1>3. /\ job'.handles = hs /\ job'.tuple = t
      /\ job'.pc = "print" /\ job'.cmd = "archive" /\ job'.doc = doc
      /\ job'.trust = job.trust
  BY <1>0, <1>2 DEF IndexRoot, JobFields
<1>6. PICK class, place, zip, alone, B :
        /\ class = opts.indexer /\ place = opts.place /\ zip = opts.zip
        /\ alone = job.trust /\ B = Blocks(t, doc, hs)
  OBVIOUS
<1>7. TupleOK(class, t) /\ t[4] = form
  <2>1. PICK h, ix : h = Indexed(c).handle /\ ix = Indexed(c).indexer
    OBVIOUS
  <2>2. IndexerOK(ix) /\ ix.class = class /\ h[1] = class
    BY <1>1, <1>6, <2>1, IndexesFacts
  <2>3. t = SerializeIndexTuple(h, ix) /\ form = SerialHandle(h)
    BY <1>0, <2>1
  <2> QED
    BY <2>2, <2>3, TupleForms
<1>8. B = DataBlocks(job.doc, job.handles) \cup {<<"metadata", form, c>>}
  BY <1>0, <1>6, <1>7 DEF Blocks, RootBlock
<1>9. Size(c) \in Nat \ {0}
  BY <1>0, <1>2 DEF Size, Node, HandleSize
<1>10. Good(class, place, zip, alone, B)' /\ InView(class, place, B)'
  BY <1>1, <1>6, <1>8, <1>9, IndexAdds
<1>11. opts' = opts /\ archived' = archived /\ damaged' = damaged
  BY <1>1 DEF IndexesBlock
<1>12. ASSUME class = "uuid", NEW r \in archived PROVE r.tuple # t
  <2> SUFFICES ASSUME r.tuple = t PROVE FALSE
    OBVIOUS
  <2>1. PICK h : Recorded(r, h)
    BY DEF RecordsGood
  <2>2. r.class = "uuid"
    BY <1>7, <1>12, <2>1 DEF Recorded, TupleOK
  <2>3. GoodBlock(r.class, r.place, r.zip, r.alone, RootBlock(r.tuple, h))
    BY <2>1 DEF Recorded, Good, Blocks
  <2>4. KeyOf("uuid", form) \in Known("uuid")
    BY <1>7, <2>2, <2>3 DEF GoodBlock, RootBlock, Checked
  <2>5. form = <<fresh>>
    BY <1>1, <1>6, <1>12, IndexesFacts
  <2>6. KeyOf("uuid", form) = <<"uuid", fresh>>
    BY <2>5, KeyForms
  <2> QED
    BY <1>2, <2>4, <2>6 DEF Known
<1>13. PICK new : new = NewRecord'
  OBVIOUS
<1>14. /\ new.tuple = t /\ new.doc = doc /\ new.place = place /\ new.zip = zip
       /\ new.class = class /\ new.alone = alone /\ new.kept = FALSE
  BY <1>3, <1>6, <1>11, <1>13 DEF NewRecord
<1>15. Recorded(new, hs)'
  <2>1. class \in IndexerClass /\ (class = "integer" => Numbers(opts.first, hs))
    BY <1>0, <1>2, <1>6 DEF IndexInv
  <2>2. class = "integer" => t[4] = <<Wrap(opts.first + Len(hs))>>
    BY <1>0, <1>1, <1>6, <1>7, IndexesFacts
  <2> QED
    BY <1>2, <1>6, <1>7, <1>10, <1>14, <2>1, <2>2 DEF Recorded
<1>16. PrintInv'
  <2>1. Recorded(NewRecord, job.handles)'
    BY <1>3, <1>13, <1>15
  <2>2. InView(opts.indexer, opts.place, Blocks(job.tuple, job.doc, job.handles))'
    BY <1>3, <1>6, <1>10, <1>11
  <2> QED
    BY <1>3, <1>6, <1>11, <1>12, <2>1, <2>2 DEF PrintInv
<1>17. ArchiveInv'
  BY <1>2, <1>3, <1>11, <1>16 DEF ArchiveInv
<1> QED
  BY <1>1, <1>3, <1>11, <1>17, IndexGentle

-----------------------------------------------------------------------------
(***************************************************************************)
(* The other steps.                                                        *)
(***************************************************************************)
WholeInv == RecordsGood /\ ArchiveInv /\ CopyInv /\ FreshInv

LEMMA SettlesGentle ==
  ASSUME ToolInv, FreshInv, Settles, damaged \subseteq damaged',
         fresh' \in {fresh, fresh + 1}
  PROVE  Gentle /\ FreshInv'
<1>1. fresh \in Nat /\ fresh' \in Nat /\ fresh <= fresh'
  BY DEF ToolInv, Bounds
<1>2. \A r \in archived : Files(r.place) \subseteq File
  BY DEF ToolInv, Records, RecordShape, Files
<1>3. \A r \in archived : Harmless(r.class, r.place)
  BY <1>2, SettlesHarmless
<1>4. 0..(fresh - 1) \subseteq 0..(fresh' - 1)
  BY <1>1, Longer
<1>5. FreshInv'
  BY <1>4 DEF FreshInv, Settles
<1> QED
  BY <1>1, <1>3, <1>5 DEF Gentle, Settles

LEMMA RecordsKept ==
  ASSUME ToolInv, RecordsGood, Gentle, archived' = archived
  PROVE  RecordsGood'
<1> SUFFICES ASSUME NEW r \in archived PROVE \E hs : Recorded(r, hs)'
  BY DEF RecordsGood
<1>1. PICK hs : Recorded(r, hs)
  BY DEF RecordsGood
<1> QED
  BY <1>1, RecordedKept

(* A record is never without a tuple. *)
LEMMA NothingPrinted ==
  ASSUME RecordsGood', job'.tuple = << >>
  PROVE  DoneInv'
  BY DEF RecordsGood, Recorded, TupleOK, DoneInv, Same

LEMMA DoneKept ==
  ASSUME ToolInv, DoneInv, Gentle, archived' = archived, opts' = opts,
         job'.tuple = job.tuple, job'.doc = job.doc, job'.handles = job.handles,
         ~job'.lost /\ job'.status = 0 =>
           /\ ~job.lost /\ job.status = 0
           /\ \A f \in File : DOMAIN View(f) \subseteq DOMAIN View(f)'
  PROVE  DoneInv'
<1> SUFFICES ASSUME NEW r \in archived, Same(r)
             PROVE  /\ Recorded(r, job.handles)'
                    /\ ~job'.lost /\ job'.status = 0 =>
                         InView(r.class, r.place, Blocks(r.tuple, r.doc, job.handles))'
  BY DEF DoneInv, Same
<1>0. PICK hs, class, place, B : /\ hs = job.handles /\ class = r.class /\ place = r.place
                                 /\ B = Blocks(r.tuple, r.doc, hs)
  OBVIOUS
<1>1. /\ Recorded(r, hs)
      /\ ~job.lost /\ job.status = 0 => InView(class, place, B)
  BY <1>0 DEF DoneInv
<1>2. Recorded(r, hs)'
  BY <1>1, RecordedKept
<1>3. place \in [Role -> File]
  BY <1>0 DEF ToolInv, Records, RecordShape
<1>4. \A b \in B : b[1] \in Role
  BY <1>0, <1>1 DEF Recorded, Good, GoodBlock
<1>5. ~job'.lost /\ job'.status = 0 => InView(class, place, B)'
  BY <1>1, <1>3, <1>4 DEF InView
<1> QED
  BY <1>0, <1>2, <1>5

LEMMA DisturbedAlone ==
  ASSUME ToolInv, NEW files, NEW s \in Disturbed(files), s.class = "integer", s.alone
  PROVE  Files(s.place) \cap files = {}
<1>1. PICK r \in archived :
        \/ s = r /\ ~(r.class = "integer" /\ Files(r.place) \cap files # {})
        \/ s.alone = FALSE
  BY RecordsShaped, DisturbedFacts
<1> QED
  BY <1>1

LEMMA StartArchiveInv ==
  ASSUME ToolInv, WholeInv, NEW o \in ArchiveOpts, NEW d \in Document,
         StartArchive(o, d), keys' = {}
  PROVE  WholeInv'
<1>1. Settles /\ damaged' = damaged /\ fresh' = fresh
  BY StartArchiveStep DEF StartArchive, Start
<1>2. Gentle /\ FreshInv'
  BY <1>1, SettlesGentle DEF WholeInv
<1>3. RecordsGood'
  <2>1. archived' = archived \/ archived' = Disturbed(Files(o.place))
    BY DEF StartArchive
  <2>2. CASE archived' = archived
    BY <1>2, <2>2, RecordsKept DEF WholeInv
  <2>3. CASE archived' = Disturbed(Files(o.place))
    BY <1>2, <2>3, RecordedDisturbed DEF WholeInv, RecordsGood
  <2> QED
    BY <2>1, <2>2, <2>3
<1>4. PICK ix : ix = o.indexer
  OBVIOUS
<1>5. /\ opts' = o /\ job'.cmd = "archive" /\ job'.doc = d /\ job'.handles = << >>
      /\ job'.tuple = << >> /\ o \in Option
      /\ job'.pc = IF ix = "unknown" THEN "leave" ELSE "index"
      /\ ix # "unknown" => job'.indexer = NewIndexer(ix, o.first)
      /\ job'.trust = (ix = "integer" => ~\E f \in Files(o.place) : HasIntegers(f))
  BY <1>4, StartArchiveStep DEF StartArchive, Start, NoProcess
<1>6. CASE ix = "unknown"
  <2>1. DoneInv'
    BY <1>3, <1>5, NothingPrinted
  <2>2. ArchiveInv'
    BY <1>5, <1>6, <2>1 DEF ArchiveInv
  <2> QED
    BY <1>2, <1>3, <1>5, <2>2 DEF WholeInv, CopyInv
<1>7. CASE ix # "unknown"
  <2>1. ix \in IndexerClass
    BY <1>4, <1>5, <1>7 DEF Option
  <2>2. PICK n : n = NewIndexer(ix, o.first)
    OBVIOUS
  <2>a. o.first \in 0..(IdSpace - 1) /\ o.first \in Nat
    BY <1>5, IndexerAssumption DEF Option
  <2>3. IndexerOK(n) /\ n.class = ix /\ (ix = "integer" => n.id = o.first)
    BY <2>1, <2>2, <2>a DEF IndexerClass, NewIndexer, HbiDeserialize, CbiDeserialize,
                      IbiDeserialize, UbiDeserialize, IndexerOK, HashFor, Checked
  <2>4. IsSeq(<< >>) /\ Len(<< >>) = 0 /\ \A x : DataBlocks(x, << >>) = {}
    BY DEF IsSeq, DataBlocks
  <2>5. ASSUME ix = "integer"
        PROVE  \A s \in archived' : s.class = "integer" /\ s.alone =>
                 Files(s.place) \cap Files(o.place) = {}
    <3> SUFFICES ASSUME NEW s \in Disturbed(Files(o.place)), s.class = "integer", s.alone
                 PROVE  Files(s.place) \cap Files(o.place) = {}
      BY <1>4, <2>5 DEF StartArchive
    <3> QED
      BY DisturbedAlone
  <2>6. ASSUME ix = "integer", job'.trust, NEW f \in Files(o.place), NEW m, NEW x,
               Holds(f, <<"id", m>>, x)'
        PROVE  FALSE
    <3>1. disk' = disk /\ cache' = Opened(Files(o.place))
      BY DEF StartArchive, Start
    <3>2. cache'[f] = disk[f]
      BY <3>1 DEF Opened, Restrict
    <3>3. <<"id", m>> \in DOMAIN disk[f]
      BY <2>6, <3>1, <3>2 DEF Holds
    <3>4. HasIntegers(f)
      BY <3>3 DEF HasIntegers
    <3> QED
      BY <1>5, <2>6, <3>4
  <2>7. Len(d) \in Nat
    BY DocumentAssumption
  <2>b. Numbers(o.first, << >>) /\ Wrap(o.first + 0) = o.first
    BY <2>4, <2>a, IndexerAssumption DEF Numbers, Wrap
  <2>8. /\ Good(opts.indexer, opts.place, opts.zip, job.trust, DataBlocks(job.doc, job.handles))'
        /\ InView(opts.indexer, opts.place, DataBlocks(job.doc, job.handles))'
    BY <1>5, <2>4 DEF Good, InView
  <2>9. IndexInv'
    BY <1>4, <1>5, <1>7, <2>1, <2>2, <2>3, <2>4, <2>5, <2>6, <2>7, <2>8, <2>b DEF IndexInv
  <2>10. ArchiveInv'
    BY <1>5, <1>7, <2>9 DEF ArchiveInv
  <2> QED
    BY <1>2, <1>3, <1>5, <2>10 DEF WholeInv, CopyInv
<1> QED
  BY <1>6, <1>7

LEMMA StartRestoreInv ==
  ASSUME ToolInv, WholeInv, NEW o \in RestoreOpts, NEW r \in archived,
         StartRestore(o, r), keys' = {}
  PROVE  WholeInv'
<1>1. Settles /\ damaged' = damaged /\ fresh' = fresh /\ archived' = archived
      /\ job'.cmd = "restore"
  BY StartRestoreStep DEF StartRestore, Start, NoProcess
<1>2. Gentle /\ FreshInv'
  BY <1>1, SettlesGentle DEF WholeInv
<1> QED
  BY <1>1, <1>2, RecordsKept DEF WholeInv, ArchiveInv, CopyInv

LEMMA StartConvertInv ==
  ASSUME ToolInv, WholeInv, NEW pair \in ConvertPair, StartConvert(pair)
  PROVE  WholeInv'
<1>1. Settles /\ damaged \subseteq damaged' /\ fresh' = fresh /\ job'.cmd = "convert"
  BY StartConvertStep DEF StartConvert, Start, NoProcess
<1>2. Gentle /\ FreshInv'
  BY <1>1, SettlesGentle DEF WholeInv
<1>3. RecordsGood'
  <2>1. archived' = archived \/ archived' = Disturbed({pair[2]})
    BY DEF StartConvert
  <2>2. CASE archived' = archived
    BY <1>2, <2>2, RecordsKept DEF WholeInv
  <2>3. CASE archived' = Disturbed({pair[2]})
    BY <1>2, <2>3, RecordedDisturbed DEF WholeInv, RecordsGood
  <2> QED
    BY <2>1, <2>2, <2>3
<1> DEFINE p == [NoOpts EXCEPT !.place = [role \in Role |->
                    IF role = "data" THEN pair[1] ELSE pair[2]]]
<1>4. p.place["data"] = pair[1] /\ p.place["metadata"] = pair[2] /\ opts' = p
  BY ConvertOptions DEF StartConvert, Start
<1> HIDE DEF p
<1>5. source' = pair[1] /\ dest' = pair[2] /\ <<pair[1], pair[2]>> \in ConvertPair
  BY <1>4, ConvertAssumption DEF source, dest
<1>6. dest' \notin damaged' => source' \notin damaged'
  BY <1>5 DEF StartConvert
<1>7. ASSUME NEW n, NEW x, Holds(pair[1], <<"id", n>>, x)', NEW s \in archived',
             s.class = "integer", s.alone
      PROVE  pair[2] \notin Files(s.place)
  <2>1. disk' = disk /\ cache' = Opened({pair[1], pair[2]})
    BY DEF StartConvert, Start
  <2>2. cache'[pair[1]] = disk[pair[1]]
    BY <2>1 DEF Opened, Restrict
  <2>3. <<"id", n>> \in DOMAIN disk[pair[1]]
    BY <1>7, <2>1, <2>2 DEF Holds
  <2>4. HasIntegers(pair[1])
    BY <2>3 DEF HasIntegers
  <2>5. s \in Disturbed({pair[2]})
    BY <1>7, <2>4 DEF StartConvert
  <2> QED
    BY <1>7, <2>5, DisturbedAlone
<1>8. CopyInv'
  BY <1>5, <1>6, <1>7 DEF CopyInv
<1> QED
  BY <1>1, <1>2, <1>3, <1>8 DEF WholeInv, ArchiveInv

LEMMA QuietWhole ==
  ASSUME ToolInv, WholeInv, Quiet, keys' # {} => keys # {}
  PROVE  WholeInv'
<1>0. /\ Frame /\ Settles /\ DOMAIN job = JobFields
      /\ UNCHANGED <<disk, cache, archived, opts, damaged>>
  <2>1. UNCHANGED <<disk, cache, archived>>
    BY DEF Quiet, dbVars, IndexFails, StackWriteFails, FetchRoot, FetchData, ReadFails,
           EndOfStream, RestoreStep, Leave, AllClosed, CopyFails, IteratorFails,
           EndOfStore, ConvertLeave, ConvertStep
  <2> QED
    BY <2>1, FrameStep, QuietStep DEF Frame, ToolInv, JobShape
<1>1. /\ job'.cmd = job.cmd /\ job'.doc = job.doc /\ job'.handles = job.handles
      /\ job'.tuple = job.tuple /\ fresh' \in {fresh, fresh + 1}
  BY <1>0 DEF Frame
<1>2. Gentle /\ FreshInv' /\ RecordsGood'
  BY <1>0, <1>1, SettlesGentle, RecordsKept DEF WholeInv
<1>3. ArchiveInv'
  <2> SUFFICES ASSUME job.cmd = "archive"
               PROVE  opts' \in ArchiveOpts /\ DoneInv' /\ job'.pc \notin {"index", "print"}
    BY <1>1 DEF ArchiveInv
  <2>1. IndexFails \/ Leave \/ AllClosed
    BY DEF Quiet, FetchRoot, FetchData, ReadFails, EndOfStream, CopyFails,
           IteratorFails, EndOfStore, ConvertLeave, ToolInv, JobShape
  <2>2. opts' \in ArchiveOpts
    BY <1>0 DEF WholeInv, ArchiveInv
  <2>3. CASE IndexFails
    <3>1. job.pc = "index" /\ job'.pc = "leave"
      BY <1>0, <2>3 DEF IndexFails, JobFields
    <3>2. job'.tuple = << >>
      BY <1>1, <3>1 DEF WholeInv, ArchiveInv, IndexInv
    <3> QED
      BY <1>2, <2>2, <3>1, <3>2, NothingPrinted
  <2>4. CASE Leave \/ AllClosed
    <3>1. /\ job.pc \in {"leave", "close"} /\ job'.pc \in {"close", "exit"}
          /\ job'.lost = job.lost
      BY <1>0, <2>4 DEF Leave, AllClosed, JobFields
    <3>2. DoneInv /\ job.status = 0
      BY <3>1 DEF WholeInv, ArchiveInv, ToolInv, JobShape
    <3>3. \A f \in File : View(f)' = View(f)
      BY <1>0 DEF View
    <3>4. DoneInv'
      BY <1>0, <1>1, <1>2, <3>1, <3>2, <3>3, DoneKept
    <3> QED
      BY <2>2, <3>1, <3>4
  <2> QED
    BY <2>1, <2>3, <2>4
<1>4. CopyInv'
  <2>1. source' = source /\ dest' = dest
    BY <1>0 DEF source, dest
  <2>2. \A f, k, x : Holds(f, k, x)' => Holds(f, k, x)
    BY <1>0 DEF Holds
  <2> QED
    BY <1>0, <1>1, <2>1, <2>2 DEF WholeInv, CopyInv
<1> QED
  BY <1>2, <1>3, <1>4 DEF WholeInv

LEMMA RootRefers ==
  ASSUME NEW r, NEW hs, Recorded(r, hs)
  PROVE  Refers(r.class, r.tuple[4], Node(hs))
<1>1. GoodBlock(r.class, r.place, r.zip, r.alone, RootBlock(r.tuple, hs))
  BY DEF Recorded, Good, Blocks
<1>2. RootBlock(r.tuple, hs)[2] = r.tuple[4] /\ RootBlock(r.tuple, hs)[3] = Node(hs)
  BY DEF RootBlock
<1> QED
  BY <1>1, <1>2 DEF GoodBlock

(* Two records with one tuple have the same handles. *)
LEMMA SameHandles ==
  ASSUME NEW r, NEW s, NEW hs, NEW more, Recorded(r, hs), Recorded(s, more),
         r.tuple = s.tuple, r.doc = s.doc, s.class # "uuid",
         Len(s.doc) \in Nat, Len(s.doc) < IdSpace
  PROVE  hs = more
<1>1. r.class = s.class /\ s.class \in IndexerClass
  BY DEF Recorded, TupleOK
<1>2. /\ Refers(s.class, s.tuple[4], Node(hs))
      /\ Refers(s.class, s.tuple[4], Node(more))
  BY <1>1, RootRefers
<1>3. CASE s.class = "integer"
  <2>1. PICK n : n = Len(s.doc) /\ n \in 0..(IdSpace - 1)
    BY IndexerAssumption
  <2>2. PICK a : Numbers(a, hs) /\ s.tuple[4] = <<Wrap(a + n)>>
    BY <1>1, <1>3, <2>1 DEF Recorded
  <2>3. PICK b : Numbers(b, more) /\ s.tuple[4] = <<Wrap(b + n)>>
    BY <1>3, <2>1 DEF Recorded
  <2>4. Wrap(a + n) = Wrap(b + n)
    BY <2>2, <2>3
  <2>5. a = b
    BY <2>1, <2>2, <2>3, <2>4, WrapFacts DEF Numbers
  <2> QED
    BY <2>2, <2>3, <2>5 DEF Recorded, IsSeq, Numbers
<1>4. CASE s.class = "hash"
  <2>1. Hash(Node(hs)) = Hash(Node(more))
    BY <1>2, <1>4 DEF Refers
  <2> QED
    BY <2>1 DEF Hash, Node
<1>5. CASE s.class = "chk"
  <2>1. PICK k : s.tuple[4] = <<k, Hash(Encrypt(k, Node(hs))), Size(Node(hs))>>
    BY <1>2, <1>5 DEF Refers
  <2>2. PICK l : s.tuple[4] = <<l, Hash(Encrypt(l, Node(more))), Size(Node(more))>>
    BY <1>2, <1>5 DEF Refers
  <2>3. Hash(Encrypt(k, Node(hs))) = Hash(Encrypt(l, Node(more)))
    BY <2>1, <2>2
  <2>4. Encrypt(k, Node(hs)) = Encrypt(l, Node(more))
    BY <2>3 DEF Hash
  <2>5. Node(hs) = Node(more)
    BY <2>4 DEF Encrypt
  <2> QED
    BY <2>5 DEF Node
<1> QED
  BY <1>1, <1>3, <1>4, <1>5 DEF IndexerClass

LEMMA PrintHandleWhole ==
  ASSUME FitsIdentifiers, ToolInv, WholeInv, PrintHandle, keys' = {}
  PROVE  WholeInv'
<1>0. /\ Frame /\ Settles /\ DOMAIN job = JobFields
      /\ UNCHANGED <<disk, cache, opts, damaged, fresh>>
      /\ job.pc = "print" /\ job.cmd = "archive"
      /\ job'.pc = "leave" /\ job'.cmd = "archive"
  <2>1. DOMAIN job = JobFields /\ job.pc = "print" /\ job.cmd = "archive"
    BY DEF PrintHandle, ToolInv, JobShape
  <2> QED
    BY <2>1, FrameStep, PrintHandleStep DEF Frame, PrintHandle, dbVars, JobFields
<1>1. Gentle /\ FreshInv'
  BY <1>0, SettlesGentle DEF WholeInv
<1>2. PICK new, hs, B : /\ new = NewRecord /\ hs = job.handles
                        /\ B = Blocks(job.tuple, job.doc, hs)
  OBVIOUS
<1>3. /\ new.tuple = job.tuple /\ new.doc = job.doc /\ new.place = opts.place
      /\ new.zip = opts.zip /\ new.class = opts.indexer /\ new.alone = job.trust
      /\ new.kept = FALSE /\ archived' = archived \cup {new}
  BY <1>2 DEF PrintHandle, NewRecord
<1>4. /\ Recorded(new, hs) /\ InView(new.class, new.place, B)
      /\ new.class = "uuid" => \A r \in archived : r.tuple # new.tuple
  BY <1>0, <1>2, <1>3 DEF WholeInv, ArchiveInv, PrintInv
<1>5. Recorded(new, hs)'
  <2>1. PICK class, place, zip, alone, C :
          /\ class = new.class /\ place = new.place /\ zip = new.zip
          /\ alone = new.alone /\ C = Blocks(new.tuple, new.doc, hs)
    OBVIOUS
  <2>2. Good(class, place, zip, alone, C) /\ class \in IndexerClass
    BY <1>4, <2>1 DEF Recorded
  <2>3. Files(place) \subseteq File
    BY <1>0, <1>3, <2>1, FilesIn DEF ToolInv, OpenInv
  <2>4. Harmless(class, place)
    BY <1>0, <2>3, SettlesHarmless
  <2>5. Good(class, place, zip, alone, C)'
    BY <1>1, <2>2, <2>4, GoodKept DEF Gentle
  <2> QED
    BY <1>3, <1>4, <2>1, <2>5 DEF Recorded
<1>6. RecordsGood'
  <2> SUFFICES ASSUME NEW r \in archived' PROVE \E h : Recorded(r, h)'
    BY DEF RecordsGood
  <2>1. CASE r = new
    BY <1>5, <2>1
  <2>2. CASE r \in archived
    <3>1. PICK h : Recorded(r, h)
      BY <2>2 DEF WholeInv, RecordsGood
    <3> QED
      BY <1>1, <2>2, <3>1, RecordedKept
  <2> QED
    BY <1>3, <2>1, <2>2
<1>7. DoneInv'
  <2> SUFFICES ASSUME NEW r \in archived', Same(r)'
               PROVE  /\ Recorded(r, hs)'
                      /\ InView(r.class, r.place, Blocks(r.tuple, r.doc, hs))'
    <3>1. job'.handles = hs
      BY <1>0, <1>2 DEF Frame
    <3> QED
      BY <3>1 DEF DoneInv
  <2>1. /\ r.tuple = new.tuple /\ r.doc = new.doc /\ r.place = new.place
    BY <1>0, <1>3 DEF Same, Frame
  <2>2. CASE r = new
    <3>1. InView(new.class, new.place, B)'
      BY <1>0, <1>4 DEF InView, View
    <3> QED
      BY <1>2, <1>3, <1>5, <2>2, <3>1
  <2>3. CASE r \in archived
    <3>1. PICK h : Recorded(r, h)
      BY <2>3 DEF WholeInv, RecordsGood
    <3>2. new.class # "uuid"
      BY <1>4, <2>1, <2>3
    <3>a. Len(new.doc) \in Nat /\ Len(new.doc) < IdSpace
      BY <2>1, <2>3, DocumentAssumption DEF ToolInv, Records, RecordShape, FitsIdentifiers
    <3>3. h = hs
      BY <1>4, <2>1, <3>1, <3>2, <3>a, SameHandles
    <3>4. Recorded(r, hs)'
      BY <1>1, <2>3, <3>1, <3>3, RecordedKept
    <3>5. r.class = new.class
      BY <1>4, <2>1, <3>1 DEF Recorded, TupleOK
    <3>6. InView(new.class, new.place, B)'
      BY <1>0, <1>4 DEF InView, View
    <3> QED
      BY <1>2, <1>3, <2>1, <3>4, <3>5, <3>6
  <2> QED
    BY <1>3, <2>2, <2>3
<1>8. ArchiveInv'
  BY <1>0, <1>7 DEF ArchiveInv, WholeInv
<1> QED
  BY <1>0, <1>1, <1>6, <1>8 DEF WholeInv, CopyInv

LEMMA CopyBlockWhole ==
  ASSUME ToolInv, WholeInv, CopyBlock
  PROVE  WholeInv'
<1>0. /\ Frame /\ job.cmd = "convert" /\ source \in DOMAIN cache /\ dest \in DOMAIN cache
      /\ DOMAIN job = JobFields /\ fresh' = fresh
      /\ source \in File /\ dest \in File /\ fresh \in Nat
  BY FrameStep, CopyBlockFacts
     DEF CopyBlock, ConvertStep, ToolInv, JobShape, DbInv, Bounds
<1>1. UNCHANGED <<opts, damaged, archived>> /\ job'.cmd = "convert"
  BY <1>0 DEF CopyBlock, ConvertStep, Frame
<1>2. /\ \A g \in File : DOMAIN disk[g] \subseteq DOMAIN disk'[g]
      /\ \A g \in File : \A k, x : Holds(g, k, x)' =>
            Holds(g, k, x) \/ (g = dest /\ Holds(source, k, x))
  <2>1. CASE /\ WriteBlock(dest, NextKey, cache[source][NextKey])
             /\ NextKey \in DOMAIN cache[source]
    <3>1. PICK d, k, c : d = dest /\ k = NextKey /\ c = cache[source][NextKey]
      OBVIOUS
    <3>2. d \in DOMAIN cache /\ WriteBlock(d, k, c)
      BY <1>0, <2>1, <3>1
    <3>3. /\ \A g \in File : DOMAIN disk[g] \subseteq DOMAIN disk'[g]
          /\ \A g \in File : \A y, x : Holds(g, y, x)' =>
                Holds(g, y, x) \/ (g = d /\ y = k /\ x = c)
      BY <3>2, WriteHolds DEF ToolInv
    <3>4. Holds(source, k, c)
      BY <1>0, <2>1, <3>1 DEF Holds
    <3> QED
      BY <3>1, <3>3, <3>4
  <2>2. CASE UNCHANGED <<disk, cache>>
    BY <2>2 DEF Holds
  <2> QED
    BY <2>1, <2>2, CopyBlockFacts
<1>3. /\ dest \notin damaged => source \notin damaged
      /\ (\E n, x : Holds(source, <<"id", n>>, x)) =>
           \A r \in archived : r.class = "integer" /\ r.alone => dest \notin Files(r.place)
      /\ <<source, dest>> \in ConvertPair
  BY <1>0 DEF WholeInv, CopyInv
<1>4. ASSUME NEW r \in archived, Relied(r.class, r.alone)
      PROVE  Harmless(r.class, r.place)
  <2> SUFFICES ASSUME NEW f \in Region(r.class, r.place)', NEW k, NEW x, Holds(f, k, x)',
                      k \in Known(r.class)
               PROVE  \E g \in Region(r.class, r.place) : Holds(g, k, x)
    BY DEF Harmless
  <2>1. f \in Region(r.class, r.place)
    BY <1>1 DEF Region
  <2>2. f \in File /\ f \notin damaged /\ (r.class = "integer" => f \in Files(r.place))
    BY <2>1 DEF Region, Files, ToolInv, Records, RecordShape
  <2>3. CASE f = dest /\ Holds(source, k, x)
    <3>1. CASE r.class = "uuid"
      BY <1>0, <1>3, <2>2, <2>3, <3>1 DEF Region
    <3>2. CASE r.class = "integer"
      <4>1. PICK n : k = <<"id", n>>
        BY <3>2 DEF Known
      <4> QED
        BY <1>3, <1>4, <2>2, <2>3, <3>2, <4>1 DEF Relied
    <3> QED
      BY <1>4, <3>1, <3>2 DEF Relied
  <2> QED
    BY <1>2, <2>1, <2>2, <2>3
<1>5. Gentle
  BY <1>0, <1>2, <1>4 DEF Gentle
<1>6. FreshInv'
  BY <1>0, <1>2 DEF WholeInv, FreshInv
<1>7. CopyInv'
  <2>1. source' = source /\ dest' = dest
    BY <1>1 DEF source, dest
  <2>2. \A k, x : Holds(source, k, x)' => Holds(source, k, x)
    BY <1>0, <1>2, <2>1
  <2> QED
    BY <1>1, <1>3, <2>1, <2>2 DEF CopyInv
<1> QED
  BY <1>1, <1>5, <1>6, <1>7, RecordsKept DEF WholeInv, ArchiveInv

LEMMA CloseWhole ==
  ASSUME ToolInv, WholeInv, EndsInv, Close, keys' = {}
  PROVE  WholeInv'
<1> DEFINE f == Head(job.ends).file
<1>0. /\ Frame /\ Settles /\ DOMAIN job = JobFields /\ job.pc = "close"
      /\ job.ends # << >> /\ UNCHANGED <<opts, damaged, archived, fresh>>
  BY FrameStep, CloseStep, CloseFacts DEF ToolInv, JobShape, Close
<1>1. Gentle /\ FreshInv' /\ RecordsGood'
  BY <1>0, SettlesGentle, RecordsKept DEF WholeInv
<1>2. /\ job'.cmd = job.cmd /\ job'.doc = job.doc /\ job'.handles = job.handles
      /\ job'.tuple = job.tuple
  BY <1>0 DEF Frame
<1>3. ArchiveInv'
  <2> SUFFICES ASSUME job.cmd = "archive"
               PROVE  DoneInv' /\ opts' \in ArchiveOpts /\ job'.pc \in {"close", "exit"}
    BY <1>2 DEF ArchiveInv
  <2>1. DoneInv /\ opts' \in ArchiveOpts /\ job.status = 0
    BY <1>0 DEF WholeInv, ArchiveInv, ToolInv, JobShape
  <2>2. \/ job' = [job EXCEPT !.ends = Tail(@)]
        \/ job' = [job EXCEPT !.ends = << >>, !.status = 7, !.pc = "exit"]
        \/ job' = [job EXCEPT !.ends = Tail(@), !.lost = TRUE]
    BY CloseFacts
  <2>3. job'.pc \in {"close", "exit"}
    BY <1>0, <2>2 DEF JobFields
  <2>4. ASSUME ~job'.lost, job'.status = 0
        PROVE  ~job.lost /\ \A g \in File : DOMAIN View(g) \subseteq DOMAIN View(g)'
    <3>1. ~job.lost
      BY <1>0, <2>2, <2>4 DEF JobFields
    <3>2. CASE UNCHANGED <<disk, cache>>
      BY <3>1, <3>2 DEF View
    <3>3. CASE /\ f \in DOMAIN cache /\ Shuts(f)
               /\ disk' = [disk EXCEPT ![f] = cache[f]]
      <4>1. f \in File /\ DOMAIN disk = File
        BY <3>3 DEF ToolInv, DbInv
      <4>2. /\ DOMAIN cache' = DOMAIN cache \ {f}
            /\ \A g \in DOMAIN cache : g # f => cache'[g] = cache[g]
            /\ \A g \in File : DOMAIN disk[g] \subseteq DOMAIN disk'[g]
        BY <1>0, <3>3, ShutsDb DEF ToolInv, Settles
      <4>3. DOMAIN cache[f] \subseteq DOMAIN disk'[f]
        BY <3>3, <4>1
      <4> QED
        BY <3>1, <4>1, <4>2, <4>3 DEF View
    <3>4. \/ UNCHANGED <<disk, cache>>
          \/ /\ f \in DOMAIN cache /\ Shuts(f)
             /\ disk' = [disk EXCEPT ![f] = cache[f]]
      <4>1. ASSUME job' = [job EXCEPT !.ends = << >>, !.status = 7, !.pc = "exit"]
            PROVE  FALSE
        BY <1>0, <2>4, <4>1 DEF JobFields
      <4>2. ASSUME job' = [job EXCEPT !.ends = Tail(@), !.lost = TRUE] PROVE FALSE
        BY <1>0, <2>4, <4>2 DEF JobFields
      <4> QED
        BY <4>1, <4>2, CloseFacts
    <3> QED
      BY <3>2, <3>3, <3>4
  <2>5. DoneInv'
    BY <1>0, <1>1, <1>2, <2>1, <2>4, DoneKept
  <2> QED
    BY <2>1, <2>3, <2>5
<1>4. CopyInv'
  <2> SUFFICES ASSUME job.cmd = "convert" PROVE CopyInv'
    BY <1>2 DEF CopyInv
  <2>1. source' = source /\ dest' = dest
    BY <1>0 DEF source, dest
  <2>2. source \in File
    BY FilesIn DEF ToolInv, OpenInv, Option, source, Role
  <2>3. \A k, x : Holds(source, k, x)' => Holds(source, k, x)
    BY <1>0, <2>1, <2>2 DEF Settles
  <2> QED
    BY <1>0, <2>1, <2>3 DEF WholeInv, CopyInv
<1> QED
  BY <1>1, <1>3, <1>4 DEF WholeInv

LEMMA EndWhole ==
  ASSUME ToolInv, WholeInv, EndsInv, Exit \/ Crash, keys' = {}
  PROVE  WholeInv'
<1>0. Settles /\ Gone /\ damaged' = damaged /\ fresh' = fresh /\ job'.cmd = "none"
  BY EndStep DEF Exit, Crash, Gone, NoProcess
<1>1. Gentle /\ FreshInv'
  BY <1>0, SettlesGentle DEF WholeInv
<1>2. CASE archived' = archived
  BY <1>0, <1>1, <1>2, RecordsKept DEF WholeInv, ArchiveInv, CopyInv
<1>3. CASE archived' # archived
  <2>1. archived' = Kept /\ job.cmd = "archive" /\ job.status = 0 /\ job.pc = "exit"
    BY <1>3 DEF Exit, Crash
  <2>2. DoneInv /\ DOMAIN cache = {}
    BY <2>1 DEF WholeInv, ArchiveInv, EndsInv
  <2>3. RecordsGood'
    <3> SUFFICES ASSUME NEW s \in Kept PROVE \E hs : Recorded(s, hs)'
      BY <2>1 DEF RecordsGood
    <3>1. PICK r \in archived :
             \/ s = r
             \/ /\ Matches(r)
                /\ s.tuple = r.tuple /\ s.doc = r.doc /\ s.place = r.place
                /\ s.zip = r.zip /\ s.class = r.class /\ s.alone = r.alone
      BY RecordsShaped, KeptFacts
    <3>2. CASE s = r
      <4>1. PICK hs : Recorded(r, hs)
        BY DEF WholeInv, RecordsGood
      <4> QED
        BY <1>1, <3>2, <4>1, RecordedKept
    <3>3. CASE s # r
      <4>1. Same(r) /\ ~job.lost
        BY <3>1, <3>3 DEF Matches, Same
      <4>2. PICK hs, B : hs = job.handles /\ B = Blocks(r.tuple, r.doc, hs)
        OBVIOUS
      <4>3. Recorded(r, hs) /\ InView(r.class, r.place, B)
        BY <2>1, <2>2, <4>1, <4>2 DEF DoneInv
      <4>4. Recorded(r, hs)'
        BY <1>1, <4>3, RecordedKept
      <4>5. OnDisks(r.class, r.place, B)'
        <5>1. \A b \in B : r.place[b[1]] \in File
          <6>1. \A b \in B : b[1] \in Role
            BY <4>2, <4>3 DEF Recorded, Good, GoodBlock
          <6> QED
            BY <6>1 DEF ToolInv, Records, RecordShape
        <5>2. \A g : View(g) = disk[g]
          BY <2>2 DEF View
        <5> QED
          BY <1>0, <4>3, <5>1, <5>2 DEF InView, OnDisks, Settles
      <4> QED
        BY <3>1, <3>3, <4>2, <4>4, <4>5, RecordedLike
    <3> QED
      BY <3>2, <3>3
  <2> QED
    BY <1>0, <1>1, <2>3 DEF WholeInv, ArchiveInv, CopyInv
<1> QED
  BY <1>2, <1>3

LEMMA DamageWhole ==
  ASSUME ToolInv, WholeInv, Damage, keys' = {}
  PROVE  WholeInv'
<1>1. /\ \A f \in File : DOMAIN disk[f] \subseteq DOMAIN disk'[f]
      /\ \A f \in File : \A k, c : Holds(f, k, c)' =>
            Holds(f, k, c) \/ k \in DOMAIN disk[f]
      /\ fresh' = fresh /\ fresh \in Nat /\ archived' = archived /\ job'.cmd = "none"
  BY DamageStep DEF Damage, ToolInv, Bounds
<1>2. \A r \in archived : Files(r.place) \subseteq File
  BY DEF ToolInv, Records, RecordShape, Files
<1>3. Gentle
  BY <1>1, <1>2, DamageHarmless DEF Gentle
<1>4. FreshInv'
  <2> SUFFICES ASSUME NEW f \in File, NEW n, NEW x, Holds(f, <<"uuid", n>>, x)'
               PROVE  n \in 0..(fresh - 1)
    BY <1>1 DEF FreshInv
  <2>1. \E c : Holds(f, <<"uuid", n>>, c)
    BY <1>1 DEF Holds
  <2> QED
    BY <2>1 DEF WholeInv, FreshInv
<1> QED
  BY <1>1, <1>3, <1>4, RecordsKept DEF WholeInv, ArchiveInv, CopyInv

LEMMA StutterWhole ==
  ASSUME ToolInv, WholeInv, UNCHANGED toolVars
  PROVE  WholeInv'
<1>1. UNCHANGED <<disk, cache, opts, job, archived, damaged, fresh, keys>>
  BY DEF toolVars, archiverVars
<1>2. Settles
  BY <1>1 DEF Settles, Holds
<1>3. Gentle /\ FreshInv' /\ RecordsGood'
  BY <1>1, <1>2, SettlesGentle, RecordsKept DEF WholeInv
<1>4. CopyInv'
  BY <1>1 DEF WholeInv, CopyInv, Holds, source, dest
<1>5. ASSUME NEW class, NEW place, NEW zip, NEW alone, NEW B
      PROVE  /\ Good(class, place, zip, alone, B)' <=> Good(class, place, zip, alone, B)
             /\ InView(class, place, B)' <=> InView(class, place, B)
  BY <1>1 DEF Good, GoodBlock, Sound, Known, Region, Holds, InView, View
<1>6. ASSUME IndexInv PROVE IndexInv'
  BY <1>1, <1>5, <1>6 DEF IndexInv, Holds
<1>7. ASSUME NEW r, NEW hs PROVE Recorded(r, hs)' <=> Recorded(r, hs)
  BY <1>1, <1>5 DEF Recorded, OnDisks
<1>8. ASSUME PrintInv PROVE PrintInv'
  <2>1. NewRecord' = NewRecord
    BY <1>1 DEF NewRecord
  <2> QED
    BY <1>1, <1>5, <1>7, <1>8, <2>1 DEF PrintInv
<1>9. ASSUME DoneInv PROVE DoneInv'
  BY <1>1, <1>5, <1>7, <1>9 DEF DoneInv, Same
<1> QED
  BY <1>1, <1>3, <1>4, <1>6, <1>8, <1>9 DEF WholeInv, ArchiveInv

LEMMA WholeNext ==
  ASSUME FitsIdentifiers, ToolInv, EndsInv, WholeInv, [Next]_toolVars
  PROVE  WholeInv'
<1>1. CASE ArchiverNext /\ keys' = {}
  <2>1. CASE \E o \in ArchiveOpts, d \in Document : StartArchive(o, d)
    BY <1>1, <2>1, StartArchiveInv
  <2>2. CASE \E o \in RestoreOpts, r \in archived : StartRestore(o, r)
    BY <1>1, <2>2, StartRestoreInv
  <2>3. CASE IndexFails \/ FetchRoot \/ FetchData \/ ReadFails \/ EndOfStream
             \/ Leave \/ AllClosed
    BY <1>1, <2>3, QuietWhole DEF Quiet
  <2>4. CASE IndexData \/ IndexRoot
    <3>1. /\ ArchiveInv' /\ Gentle /\ FreshInv' /\ archived' = archived
          /\ job'.cmd = "archive"
      BY <2>4, IndexDataInv, IndexRootInv DEF WholeInv
    <3> QED
      BY <3>1, RecordsKept DEF WholeInv, CopyInv
  <2>5. CASE PrintHandle \/ Close \/ Exit \/ Crash \/ Damage
    BY <1>1, <2>5, PrintHandleWhole, CloseWhole, EndWhole, DamageWhole
  <2> QED
    BY <1>1, <2>1, <2>2, <2>3, <2>4, <2>5 DEF ArchiverNext
<1>2. CASE ConvertNext
  <2>1. CASE \E pair \in ConvertPair : StartConvert(pair)
    BY <2>1, StartConvertInv
  <2>2. CASE CopyBlock
    BY <2>2, CopyBlockWhole
  <2>3. CASE CopyFails \/ IteratorFails \/ EndOfStore \/ ConvertLeave
    <3>1. keys' # {} => keys # {}
      BY <2>3 DEF CopyFails, IteratorFails, EndOfStore, ConvertLeave
    <3> QED
      BY <2>3, <3>1, QuietWhole DEF Quiet
  <2> QED
    BY <1>2, <2>1, <2>2, <2>3 DEF ConvertNext
<1>3. CASE UNCHANGED toolVars
  BY <1>3, StutterWhole
<1> QED
  BY <1>1, <1>2, <1>3 DEF Next

(* What the tuples name, always. *)
LEMMA WholeAlways ==
  ASSUME FitsIdentifiers
  PROVE  Spec => [](ToolInv /\ EndsInv /\ WholeInv)
<1>1. ToolsInit => EndsInv /\ WholeInv
  <2> SUFFICES ASSUME ToolsInit PROVE EndsInv /\ WholeInv
    OBVIOUS
  <2>1. job.cmd = "none" /\ archived = {} /\ disk = [f \in File |-> Nothing]
        /\ cache = Nothing
    BY DEF ToolsInit, Init, DbInit, NoProcess
  <2>2. \A f \in File : \A k, x : ~Holds(f, k, x)
    BY <2>1 DEF Holds, Nothing
  <2> QED
    BY <2>1, <2>2 DEF EndsInv, WholeInv, RecordsGood, ArchiveInv, CopyInv, FreshInv
<1>2. ToolInv /\ EndsInv /\ WholeInv /\ [Next]_toolVars => EndsInv' /\ WholeInv'
  BY EndsNext, WholeNext
<1> QED
  BY <1>1, <1>2, ToolAlways, PTL DEF Spec

-----------------------------------------------------------------------------
(***************************************************************************)
(* Restoring.                                                              *)
(***************************************************************************)
(* What is read for a block, if anything, is the block. *)
Faithful(class, role, form, c) ==
  /\ Refers(class, form, c)
  /\ class \notin Checked => \A x : Holds(opts.place[role], KeyOf(class, form), x) =>
       x = Filed(Filtered(opts.place, opts.zip, role), c)

Readable(class, hs) ==
  /\ class \in IndexerClass /\ TupleOK(class, job.tuple)
  /\ job.doc \in Document /\ IsSeq(hs) /\ Len(hs) = Len(job.doc)
  /\ Faithful(class, "metadata", job.tuple[4], Node(hs))
  /\ \A i \in 1..Len(hs) : Faithful(class, "data", hs[i], Text(job.doc[i]))

(* The first n blocks of the document. *)
FirstBlocks(s, doc, n) == IsSeq(s) /\ Len(s) = n /\ \A i \in 1..n : s[i] = Text(doc[i])

(* After n blocks. *)
ReadTo(hs, n) ==
  /\ IsSeq(job.left) /\ Len(job.left) = Len(hs) - n
  /\ \A i \in 1..(Len(hs) - n) : job.left[i] = hs[n + i]
  /\ ~job.lost => FirstBlocks(job.out, job.doc, n)

Progress(hs) ==
  /\ job.pc = "root" => job.out = << >> /\ ~job.lost
  /\ job.pc = "read" => \E n \in 0..Len(hs) : ReadTo(hs, n)
  /\ job.pc \in {"leave", "close", "exit"} /\ ~job.failed /\ ~job.lost =>
       FirstBlocks(job.out, job.doc, Len(job.doc))

RestoreInv ==
  job.cmd = "restore" /\ job.trust => \E class, hs : Readable(class, hs) /\ Progress(hs)

LEMMA FetchFaithful ==
  ASSUME ToolInv, job.pc \in {"root", "read"}, NEW role \in Role,
         NEW class \in IndexerClass, NEW form, NEW c, Faithful(class, role, form, c),
         TupleOK(class, job.tuple), NEW got,
         got = FetchedFrom(role, DeserialHandle(class, form)), got.ok
  PROVE  got = Fetched(c)
<1> DEFINE k == KeyOf(class, form)
           f == opts.place[role]
           read == StackRead(role, k)
<1>1. opts \in Option /\ Has(role, "filtered") = Filtered(opts.place, opts.zip, role)
  BY LayersHave DEF ToolInv, OpenInv, JobShape
<1>2. f \in DOMAIN cache
  BY <1>1, FilesIn DEF ToolInv, OpenInv, Working
<1>3. got = Fetch([class |-> class, hash |-> HashFor(class)], DeserialHandle(class, form), read)
  BY DEF FetchedFrom, TupleOK, KeyOf
<1>4. CASE class \in Checked
  <2>1. HashFor(class) = "sha1" /\ Refers(class, form, c)
    BY <1>4 DEF HashFor, Faithful
  <2> HIDE DEF read
  <2> QED
    BY <1>3, <1>4, <2>1, FetchSafe
<1>5. CASE class \notin Checked
  <2>1. class \in {"integer", "uuid"}
    BY <1>5 DEF IndexerClass, Checked
  <2>2. PICK fetcher : fetcher = [class |-> class, hash |-> HashFor(class)]
    OBVIOUS
  <2>3. PICK r : r = read
    OBVIOUS
  <2>4. got = IF r.ok THEN Fetched(r.block) ELSE Unfaithful
    <3>1. fetcher.class = class
      BY <2>2
    <3> HIDE DEF read
    <3> QED
      BY <1>3, <2>1, <2>2, <2>3, <3>1, FetchPlain
  <2>5. r.ok /\ got = Fetched(r.block)
    BY <2>4 DEF Unfaithful
  <2>6. PICK inner : inner = ReadBlock(f, k)
    OBVIOUS
  <2>7. r = IF Filtered(opts.place, opts.zip, role) THEN Unzip(inner) ELSE inner
    BY <1>1, <2>3, <2>6 DEF StackRead
  <2>8. inner.ok
    BY <2>5, <2>7 DEF Unzip, Unavailable
  <2>9. k \in DOMAIN cache[f] /\ inner.block = cache[f][k]
    BY <2>6, <2>8 DEF ReadBlock, Held, Unavailable
  <2>10. Holds(f, k, inner.block)
    BY <1>2, <2>9 DEF Holds
  <2>11. inner.block = Filed(Filtered(opts.place, opts.zip, role), c)
    BY <1>5, <2>10 DEF Faithful
  <2>12. r.block = c
    <3>1. CASE Filtered(opts.place, opts.zip, role)
      <4>1. inner.block = Zip(c)
        BY <2>11, <3>1 DEF Filed
      <4> QED
        BY <2>5, <2>7, <3>1, <4>1 DEF Unzip, Zip, Unavailable
    <3>2. CASE ~Filtered(opts.place, opts.zip, role)
      BY <2>7, <2>11, <3>2 DEF Filed
    <3> QED
      BY <3>1, <3>2
  <2> QED
    BY <2>5, <2>12
<1> QED
  BY <1>4, <1>5

LEMMA ReadableKept ==
  ASSUME ToolInv, job.cmd = "restore", Settles, opts' = opts, job'.tuple = job.tuple,
         job'.doc = job.doc, NEW class, NEW hs, Readable(class, hs)
  PROVE  Readable(class, hs)'
<1>1. \A role \in Role : opts.place[role] \in File
  BY FilesIn DEF ToolInv, OpenInv
<1>2. ASSUME NEW role \in Role, NEW form, NEW c, Faithful(class, role, form, c)
      PROVE  Faithful(class, role, form, c)'
  BY <1>1, <1>2 DEF Faithful, Settles
<1> QED
  BY <1>2 DEF Readable, Role

LEMMA StartRestoreReadable ==
  ASSUME ToolInv, WholeInv, NEW o \in RestoreOpts, NEW r \in archived,
         StartRestore(o, r), keys' = {}
  PROVE  RestoreInv'
<1> SUFFICES ASSUME job'.trust PROVE \E class, hs : (Readable(class, hs) /\ Progress(hs))'
  BY DEF RestoreInv
<1>1. /\ Settles /\ o \in Option /\ RecordShape(r)
      /\ damaged' = damaged
  BY StartRestoreStep DEF StartRestore
<1>2. opts' = [o EXCEPT !.place = r.place, !.zip = r.zip]
  BY DEF StartRestore, Start
<1>3. opts'.place = r.place /\ opts'.zip = r.zip /\ r.place \in [Role -> File]
  BY <1>1, <1>2 DEF Option, RecordShape
<1>4. /\ job'.pc = "root" /\ job'.doc = r.doc /\ job'.tuple = r.tuple
      /\ job'.out = << >> /\ job'.lost = FALSE
      /\ \/ r.class \in Checked
         \/ r.alone /\ Files(r.place) \cap damaged = {}
  BY DEF StartRestore, NoProcess, Checked
<1>5. PICK hs : Recorded(r, hs)
  BY DEF WholeInv, RecordsGood
<1>6. PICK class, B : class = r.class /\ B = Blocks(r.tuple, r.doc, hs)
  OBVIOUS
<1>7. class \in IndexerClass /\ \A b \in B : GoodBlock(class, r.place, r.zip, r.alone, b)
  BY <1>5, <1>6 DEF Recorded, Good
<1>8. ASSUME NEW b \in B PROVE Faithful(class, b[1], b[2], b[3])'
  <2>1. GoodBlock(class, r.place, r.zip, r.alone, b)
    BY <1>7
  <2>2. ASSUME class \notin Checked, NEW x, Holds(r.place[b[1]], KeyOf(class, b[2]), x)'
        PROVE  x = Filed(Filtered(r.place, r.zip, b[1]), b[3])
    <3>1. Relied(class, r.alone) /\ Files(r.place) \cap damaged = {}
      BY <1>4, <1>6, <1>7, <2>2 DEF Relied, IndexerClass, Checked
    <3>2. r.place[b[1]] \in File /\ r.place[b[1]] \in Files(r.place)
      BY <1>3, <2>1 DEF GoodBlock, Files
    <3>3. r.place[b[1]] \in Region(class, r.place)
      BY <3>1, <3>2 DEF Region
    <3>4. Holds(r.place[b[1]], KeyOf(class, b[2]), x)
      BY <1>1, <2>2, <3>2 DEF Settles
    <3> QED
      BY <2>1, <3>1, <3>3, <3>4 DEF GoodBlock, Sound
  <2> QED
    BY <1>3, <2>1, <2>2 DEF Faithful, GoodBlock
<1>9. Readable(class, hs)'
  <2>1. /\ IsSeq(hs) /\ Len(hs) = Len(r.doc) /\ TupleOK(class, r.tuple)
        /\ r.doc \in Document
    BY <1>1, <1>5, <1>6 DEF Recorded, RecordShape
  <2>2. Faithful(class, "metadata", r.tuple[4], Node(hs))'
    <3>1. PICK b : b = <<"metadata", r.tuple[4], Node(hs)>>
      OBVIOUS
    <3>2. b \in B
      BY <1>6, <3>1 DEF Blocks, RootBlock
    <3> QED
      BY <1>8, <3>1, <3>2
  <2>3. ASSUME NEW i \in 1..Len(hs) PROVE Faithful(class, "data", hs[i], Text(r.doc[i]))'
    <3>1. PICK b : b = <<"data", hs[i], Text(r.doc[i])>>
      OBVIOUS
    <3>2. b \in B
      BY <1>6, <3>1 DEF Blocks, DataBlocks
    <3> QED
      BY <1>8, <3>1, <3>2
  <2> QED
    BY <1>4, <1>7, <2>1, <2>2, <2>3 DEF Readable
<1>10. Progress(hs)'
  BY <1>4 DEF Progress
<1> QED
  BY <1>9, <1>10

LEMMA RestoreSteps ==
  ASSUME ToolInv, RestoreInv, job.cmd = "restore", Settles, Frame,
         FetchRoot \/ FetchData \/ ReadFails \/ EndOfStream \/ Leave \/ Close \/ AllClosed
  PROVE  RestoreInv'
<1>0. DOMAIN job = JobFields /\ job.failed \in BOOLEAN /\ job.lost \in BOOLEAN
  BY DEF ToolInv, JobShape
<1>1. /\ opts' = opts /\ job'.cmd = "restore" /\ job'.tuple = job.tuple
      /\ job'.doc = job.doc /\ job'.trust = job.trust
  BY DEF Frame
<1> SUFFICES ASSUME job.trust PROVE \E class, hs : (Readable(class, hs) /\ Progress(hs))'
  BY <1>1 DEF RestoreInv
<1>2. PICK class, hs : Readable(class, hs) /\ Progress(hs)
  BY DEF RestoreInv
<1>3. Readable(class, hs)'
  BY <1>1, <1>2, ReadableKept
<1>4. /\ class \in IndexerClass /\ TupleOK(class, job.tuple) /\ IsSeq(hs)
      /\ Len(hs) \in Nat /\ Len(hs) = Len(job.doc) /\ job.tuple[2] = class
  BY <1>2 DEF Readable, IsSeq, TupleOK
<1>5. ASSUME FetchRoot PROVE Progress(hs)'
  <2>1. PICK got : got = FetchedFrom("metadata", TupleHandle(job.tuple))
    OBVIOUS
  <2>2. got = FetchedFrom("metadata", DeserialHandle(class, job.tuple[4]))
    BY <1>4, <2>1 DEF TupleHandle
  <2>3. CASE got.ok /\ got.block[1] = "node"
    <3>1. job.pc = "root" /\ job' = [job EXCEPT !.left = got.block[3], !.pc = "read"]
      BY <1>5, <2>1, <2>3 DEF FetchRoot
    <3>2. got = Fetched(Node(hs))
      <4>1. PICK form, c : form = job.tuple[4] /\ c = Node(hs)
        OBVIOUS
      <4>2. Faithful(class, "metadata", form, c)
        BY <1>2, <4>1 DEF Readable
      <4> QED
        BY <1>4, <2>2, <2>3, <3>1, <4>1, <4>2, FetchFaithful DEF Role
    <3>3. got.block[3] = hs
      BY <3>2 DEF Fetched, Node
    <3>4. job'.left = hs /\ job'.pc = "read" /\ job'.out = << >> /\ ~job'.lost
      BY <1>0, <1>2, <3>1, <3>3 DEF JobFields, Progress
    <3>5. FirstBlocks(<< >>, job'.doc, 0)
      BY DEF FirstBlocks, IsSeq
    <3>6. ReadTo(hs, 0)'
      BY <1>4, <3>4, <3>5 DEF ReadTo
    <3> QED
      BY <1>4, <3>4, <3>6 DEF Progress
  <2>4. CASE ~(got.ok /\ got.block[1] = "node")
    <3>1. job'.pc = "leave" /\ job'.failed = TRUE
      BY <1>0, <1>5, <2>1, <2>4 DEF FetchRoot, Fails, JobFields
    <3> QED
      BY <3>1 DEF Progress
  <2> QED
    BY <2>3, <2>4
<1>6. ASSUME FetchData PROVE Progress(hs)'
  <2>1. job.pc = "read" /\ job.left # << >>
    BY <1>6 DEF FetchData
  <2>2. PICK n \in 0..Len(hs) : ReadTo(hs, n)
    BY <1>2, <2>1 DEF Progress
  <2>3. PICK form, left, S : form = Head(job.left) /\ left = Tail(job.left)
                             /\ job.left \in Seq(S)
    BY <2>2, SeqOf DEF ReadTo
  <2>4. /\ Len(hs) - n # 0 /\ form = job.left[1] /\ left \in Seq(S)
        /\ Len(left) = Len(job.left) - 1
        /\ \A i \in 1..Len(left) : left[i] = job.left[i + 1]
    BY <1>4, <2>1, <2>2, <2>3 DEF ReadTo
  <2>5. n + 1 \in 1..Len(hs) /\ form = hs[n + 1]
    BY <1>4, <2>2, <2>4 DEF ReadTo
  <2>6. /\ IsSeq(left) /\ Len(left) = Len(hs) - (n + 1)
        /\ \A i \in 1..(Len(hs) - (n + 1)) : left[i] = hs[(n + 1) + i]
    <3>1. IsSeq(left)
      BY <2>4, SeqIs
    <3>2. Len(left) = Len(hs) - (n + 1)
      BY <1>4, <2>2, <2>4 DEF ReadTo
    <3>3. ASSUME NEW i \in 1..(Len(hs) - (n + 1)) PROVE left[i] = hs[(n + 1) + i]
      <4>1. i + 1 \in 1..(Len(hs) - n) /\ n + (i + 1) = (n + 1) + i
        BY <1>4, <2>2
      <4>2. left[i] = job.left[i + 1] /\ job.left[i + 1] = hs[n + (i + 1)]
        BY <2>2, <2>4, <3>2, <4>1 DEF ReadTo
      <4> QED
        BY <4>1, <4>2
    <3> QED
      BY <3>1, <3>2, <3>3
  <2>7. PICK got, c : /\ got = FetchedFrom("data", DeserialHandle(class, form))
                      /\ c = Text(job.doc[n + 1])
    OBVIOUS
  <2>8. got = FetchedFrom("data", DeserialHandle(job.tuple[2], Head(job.left)))
    BY <1>4, <2>3, <2>7
  <2>9. CASE got.ok /\ job' = [job EXCEPT !.out = Append(@, got.block), !.left = Tail(@)]
    <3>1. got = Fetched(c)
      <4>1. Faithful(class, "data", form, c)
        BY <1>2, <2>5, <2>7 DEF Readable
      <4> QED
        BY <1>4, <2>1, <2>7, <2>9, <4>1, FetchFaithful DEF Role
    <3>2. /\ job'.out = Append(job.out, c) /\ job'.left = left /\ job'.pc = "read"
          /\ job'.lost = job.lost
      BY <1>0, <2>1, <2>3, <2>9, <3>1 DEF JobFields, Fetched
    <3>3. ASSUME ~job.lost PROVE FirstBlocks(job'.out, job'.doc, n + 1)
      <4>1. IsSeq(job.out) /\ Len(job.out) = n /\ \A i \in 1..n : job.out[i] = Text(job.doc[i])
        BY <2>2, <3>3 DEF ReadTo, FirstBlocks
      <4>2. PICK out, more : out = job.out /\ more = Append(out, c)
        OBVIOUS
      <4>3. /\ IsSeq(more) /\ Len(more) = n + 1 /\ more[n + 1] = c
            /\ \A i \in 1..n : more[i] = Text(job.doc[i])
        BY <4>1, <4>2, AppendSeq
      <4>4. \A i \in 1..(n + 1) : more[i] = Text(job.doc[i])
        <5> SUFFICES ASSUME NEW i \in 1..(n + 1) PROVE more[i] = Text(job.doc[i])
          OBVIOUS
        <5>1. CASE i = n + 1
          BY <2>7, <4>3, <5>1
        <5>2. CASE i # n + 1
          BY <2>2, <4>3, <5>2
        <5> QED
          BY <5>1, <5>2
      <4> QED
        BY <1>1, <3>2, <4>2, <4>3, <4>4 DEF FirstBlocks
    <3>4. ReadTo(hs, n + 1)'
      BY <2>6, <3>2, <3>3 DEF ReadTo
    <3> QED
      BY <1>4, <2>5, <3>2, <3>4 DEF Progress
  <2>10. CASE job' = [job EXCEPT !.lost = TRUE, !.left = Tail(@)]
    <3>1. job'.left = left /\ job'.pc = "read" /\ job'.lost = TRUE
      BY <1>0, <2>1, <2>3, <2>10 DEF JobFields
    <3>2. ReadTo(hs, n + 1)'
      BY <2>6, <3>1 DEF ReadTo
    <3> QED
      BY <1>4, <2>5, <3>1, <3>2 DEF Progress
  <2>11. CASE job' = [job EXCEPT !.failed = TRUE, !.pc = "leave"]
    <3>1. job'.pc = "leave" /\ job'.failed = TRUE
      BY <1>0, <2>11 DEF JobFields
    <3> QED
      BY <3>1 DEF Progress
  <2> QED
    BY <1>6, <2>8, <2>9, <2>10, <2>11 DEF FetchData, Fails
<1>7. ASSUME ReadFails PROVE Progress(hs)'
  <2>1. job'.pc = "leave" /\ job'.failed = TRUE
    BY <1>0, <1>7 DEF ReadFails, Fails, JobFields
  <2> QED
    BY <2>1 DEF Progress
<1>8. ASSUME EndOfStream PROVE Progress(hs)'
  <2>1. /\ job.pc = "read" /\ job.left = << >> /\ job'.pc = "leave"
        /\ job'.out = job.out /\ job'.lost = job.lost
    BY <1>0, <1>8 DEF EndOfStream, JobFields
  <2>2. PICK n \in 0..Len(hs) : ReadTo(hs, n)
    BY <1>2, <2>1 DEF Progress
  <2>3. n = Len(hs)
    <3>1. Len(job.left) = Len(hs) - n /\ Len(job.left) = 0
      BY <2>1, <2>2 DEF ReadTo
    <3> QED
      BY <1>4, <2>2, <3>1
  <2> QED
    BY <1>1, <1>4, <2>1, <2>2, <2>3 DEF ReadTo, Progress, FirstBlocks
<1>9. ASSUME Leave \/ Close \/ AllClosed PROVE Progress(hs)'
  <2>1. job.pc \in {"leave", "close"} /\ job'.pc \in {"close", "exit"}
        /\ job'.out = job.out /\ job'.failed = job.failed /\ (job'.lost \/ job'.lost = job.lost)
    <3>1. CASE Leave \/ AllClosed
      BY <1>0, <3>1 DEF Leave, AllClosed, JobFields
    <3>2. CASE Close
      <4>1. /\ job.pc = "close"
            /\ \/ job' = [job EXCEPT !.ends = Tail(@)]
               \/ job' = [job EXCEPT !.ends = << >>, !.status = 7, !.pc = "exit"]
               \/ job' = [job EXCEPT !.ends = Tail(@), !.lost = TRUE]
        BY <3>2, CloseFacts
      <4> QED
        BY <1>0, <4>1 DEF JobFields
    <3> QED
      BY <1>9, <3>1, <3>2
  <2> QED
    BY <1>1, <1>2, <2>1 DEF Progress, FirstBlocks
<1> QED
  BY <1>3, <1>5, <1>6, <1>7, <1>8, <1>9

LEMMA RestoreNext ==
  ASSUME ToolInv, WholeInv, RestoreInv, [Next]_toolVars
  PROVE  RestoreInv'
<1>1. ASSUME NEW o \in RestoreOpts, NEW r \in archived, StartRestore(o, r), keys' = {}
      PROVE  RestoreInv'
  BY <1>1, StartRestoreReadable
<1>2. ASSUME FetchRoot \/ FetchData \/ ReadFails \/ EndOfStream \/ Leave \/ Close \/ AllClosed,
             keys' = {}
      PROVE  RestoreInv'
  <2>1. Frame /\ Settles
    BY <1>2, FrameStep, QuietStep, CloseStep DEF Quiet
  <2>2. CASE job.cmd = "restore"
    BY <1>2, <2>1, <2>2, RestoreSteps
  <2>3. CASE job.cmd # "restore"
    BY <2>1, <2>3 DEF Frame, RestoreInv
  <2> QED
    BY <2>2, <2>3
<1>3. ASSUME job'.cmd # "restore" PROVE RestoreInv'
  BY <1>3 DEF RestoreInv
<1>4. ASSUME \/ \E o \in ArchiveOpts, d \in Document : StartArchive(o, d)
             \/ \E pair \in ConvertPair : StartConvert(pair)
             \/ Exit \/ Crash \/ Damage
      PROVE  job'.cmd # "restore"
  <2>1. ASSUME NEW o, NEW d, StartArchive(o, d) PROVE job'.cmd # "restore"
    BY <2>1 DEF StartArchive, NoProcess
  <2>2. ASSUME NEW pair, StartConvert(pair) PROVE job'.cmd # "restore"
    BY <2>2 DEF StartConvert, NoProcess
  <2>3. ASSUME Exit \/ Crash PROVE job'.cmd # "restore"
    BY <2>3 DEF Exit, Crash, Gone, NoProcess
  <2>4. ASSUME Damage PROVE job'.cmd # "restore"
    BY <2>4 DEF Damage
  <2> QED
    BY <1>4, <2>1, <2>2, <2>3, <2>4
<1>5. ASSUME IndexData \/ IndexRoot PROVE job'.cmd # "restore"
  BY <1>5 DEF IndexData, IndexRoot, ToolInv, JobShape, JobFields
<1>6. ASSUME IndexFails \/ PrintHandle \/ CopyBlock \/ CopyFails \/ IteratorFails
             \/ EndOfStore \/ ConvertLeave
      PROVE  job'.cmd # "restore"
  <2>1. job.cmd # "restore"
    BY <1>6 DEF IndexFails, PrintHandle, CopyBlock, CopyFails,
                IteratorFails, EndOfStore, ConvertLeave, ToolInv, JobShape
  <2> QED
    BY <1>6, <2>1, FrameStep DEF Frame, Quiet
<1>7. ASSUME UNCHANGED toolVars PROVE RestoreInv'
  <2>1. UNCHANGED <<disk, cache, job, opts>>
    BY <1>7 DEF toolVars, archiverVars
  <2> QED
    BY <2>1 DEF RestoreInv, Readable, Faithful, Holds, Progress, ReadTo
<1> QED
  BY <1>1, <1>2, <1>3, <1>4, <1>5, <1>6, <1>7 DEF Next, ArchiverNext, ConvertNext

(***************************************************************************)
(* A restore that succeeds has written the document archived under the     *)
(* tuple, whatever happened to the files if the block fetcher checks what  *)
(* it reads, and otherwise as long as the files were left alone            *)
(* (chop-archiver.c's do_retrieve over block-indexer-*.c).  A document of  *)
(* 2^32 blocks would make the integer indexer start over.                  *)
(***************************************************************************)
THEOREM RestoreFaithfulCorrect ==
  ASSUME FitsIdentifiers
  PROVE  Spec => []RestoreFaithful
<1>1. ToolsInit => RestoreInv
  BY DEF ToolsInit, Init, NoProcess, RestoreInv
<1>2. ToolInv /\ EndsInv /\ WholeInv /\ RestoreInv /\ [Next]_toolVars => RestoreInv'
  BY RestoreNext
<1>3. ToolInv /\ RestoreInv => RestoreFaithful
  <2> SUFFICES ASSUME ToolInv, RestoreInv, job.cmd = "restore", job.pc = "exit",
                      job.status = 0, job.trust, ~job.lost
               PROVE  job.out = Plain(job.doc)
    BY DEF RestoreFaithful
  <2>1. ~job.failed
    BY DEF ToolInv, JobShape
  <2>2. FirstBlocks(job.out, job.doc, Len(job.doc)) /\ job.doc \in Document
    BY <2>1 DEF RestoreInv, Progress, Readable
  <2>3. DOMAIN job.doc = 1..Len(job.doc)
    BY <2>2, DocumentAssumption
  <2> QED
    BY <2>2, <2>3 DEF FirstBlocks, IsSeq, Plain
<1> QED
  BY <1>1, <1>2, <1>3, WholeAlways, PTL DEF Spec

-----------------------------------------------------------------------------
(***************************************************************************)
(* What success promises.                                                  *)
(***************************************************************************)
(* Under a hash, an undamaged file has what was hashed, in one of the      *)
(* forms that were written to it.                                          *)
HeldForms ==
  \A f \in File \ damaged : \A y, x :
    Holds(f, <<"hash", y>>, x) => \E z \in forms[f] : x = Filed(z, y)

(* The forms of the running process, and of every archive, are known. *)
KnownForms ==
  /\ forms \in [File -> SUBSET BOOLEAN]
  /\ job.cmd = "archive" => \A role \in Role :
       Filtered(opts.place, opts.zip, role) \in forms[opts.place[role]]
  /\ job.cmd = "convert" => forms[source] \subseteq forms[dest]
  /\ \A r \in archived : \A role \in Role :
       Filtered(r.place, r.zip, role) \in forms[r.place[role]]

ContentInv == HeldForms /\ KnownForms

(* The hash is that of what the store is given. *)
LEMMA HashOfWritten ==
  ASSUME NEW class \in IndexerClass, NEW form, NEW c, Refers(class, form, c)
  PROVE  /\ class \in Checked => KeyOf(class, form) = <<"hash", Written(class, form, c)>>
         /\ class \notin Checked => \A y : KeyOf(class, form) # <<"hash", y>>
<1>1. CASE class = "hash"
  BY <1>1, KeyForms DEF Refers, Hash, Written, Checked
<1>2. CASE class = "chk"
  <2>1. PICK key : form = <<key, Hash(Encrypt(key, c)), Size(c)>>
    BY <1>2 DEF Refers
  <2>2. PICK x : x = Encrypt(key, c)
    OBVIOUS
  <2>3. form[1] = key /\ form[2] = <<"hash", x>>
    BY <2>1, <2>2 DEF Hash
  <2> QED
    BY <1>2, <2>2, <2>3, KeyForms DEF Written, Checked
<1>3. CASE class = "integer"
  BY <1>3, KeyForms DEF Checked
<1>4. CASE class = "uuid"
  BY <1>4, KeyForms DEF Checked
<1> QED
  BY <1>1, <1>2, <1>3, <1>4 DEF IndexerClass

(* Forms are only added. *)
MoreForms == \A f \in File : forms[f] \subseteq forms'[f]

LEMMA DisturbedPlace ==
  ASSUME ToolInv
  PROVE  \A files : \A s \in Disturbed(files) :
           \E r \in archived : s.place = r.place /\ s.zip = r.zip
<1> SUFFICES ASSUME NEW files, NEW s \in Disturbed(files)
             PROVE  \E r \in archived : s.place = r.place /\ s.zip = r.zip
  OBVIOUS
<1>1. \A r \in archived : DOMAIN r = RecordFields
  BY RecordsShaped
<1>2. PICK r \in archived :
        s = IF r.class = "integer" /\ Files(r.place) \cap files # {}
            THEN [r EXCEPT !.alone = FALSE] ELSE r
  BY DEF Disturbed
<1> QED
  BY <1>1, <1>2 DEF RecordFields

LEMMA FormsStart ==
  ASSUME ToolInv, KnownForms, NEW o \in Option, NEW d, StartArchive(o, d)
  PROVE  MoreForms /\ KnownForms'
<1>1. /\ forms' = [f \in File |-> forms[f] \cup
             {Filtered(o.place, o.zip, role) : role \in {x \in Role : o.place[x] = f}}]
      /\ opts' = o /\ job'.cmd = "archive"
      /\ o.place \in [Role -> File] /\ o.zip \in BOOLEAN
  BY DEF StartArchive, Start, NoProcess, Option
<1>2. \A role : Filtered(o.place, o.zip, role) \in BOOLEAN
  BY <1>1 DEF Filtered
<1>3. forms' \in [File -> SUBSET BOOLEAN] /\ MoreForms
  BY <1>1, <1>2 DEF KnownForms, MoreForms
<1>4. \A role \in Role : Filtered(o.place, o.zip, role) \in forms'[o.place[role]]
  BY <1>1
<1>5. ASSUME NEW s \in archived', NEW role \in Role
      PROVE  Filtered(s.place, s.zip, role) \in forms'[s.place[role]]
  <2>1. PICK r \in archived : s.place = r.place /\ s.zip = r.zip
    <3>1. s \in archived \/ s \in Disturbed(Files(o.place))
      BY DEF StartArchive
    <3>2. CASE s \in archived
      BY <3>2
    <3>3. CASE s \in Disturbed(Files(o.place))
      BY <3>3, DisturbedPlace
    <3> QED
      BY <3>1, <3>2, <3>3
  <2>2. r.place \in [Role -> File]
    BY DEF ToolInv, Records, RecordShape
  <2> QED
    BY <1>3, <2>1, <2>2 DEF KnownForms, MoreForms
<1> QED
  BY <1>1, <1>3, <1>4, <1>5 DEF KnownForms

LEMMA FormsConvert ==
  ASSUME ToolInv, KnownForms, NEW pair \in ConvertPair, StartConvert(pair)
  PROVE  MoreForms /\ KnownForms'
<1>1. /\ forms' = [forms EXCEPT ![pair[2]] = @ \cup forms[pair[1]]]
      /\ pair[1] \in File /\ pair[2] \in File /\ job'.cmd = "convert"
  BY ConvertAssumption DEF StartConvert, NoProcess
<1>2. forms \in [File -> SUBSET BOOLEAN]
  BY DEF KnownForms
<1>3. forms' \in [File -> SUBSET BOOLEAN] /\ MoreForms
  BY <1>1, <1>2 DEF MoreForms
<1> DEFINE p == [NoOpts EXCEPT !.place = [role \in Role |->
                    IF role = "data" THEN pair[1] ELSE pair[2]]]
<1>4. p.place["data"] = pair[1] /\ p.place["metadata"] = pair[2] /\ opts' = p
  BY ConvertOptions DEF StartConvert, Start
<1> HIDE DEF p
<1>5. source' = pair[1] /\ dest' = pair[2]
  BY <1>4 DEF source, dest
<1>6. forms'[pair[1]] \subseteq forms'[pair[2]]
  BY <1>1, <1>2
<1>7. ASSUME NEW s \in archived', NEW role \in Role
      PROVE  Filtered(s.place, s.zip, role) \in forms'[s.place[role]]
  <2>1. PICK r \in archived : s.place = r.place /\ s.zip = r.zip
    <3>1. s \in archived \/ s \in Disturbed({pair[2]})
      BY DEF StartConvert
    <3>2. CASE s \in archived
      BY <3>2
    <3>3. CASE s \in Disturbed({pair[2]})
      BY <3>3, DisturbedPlace
    <3> QED
      BY <3>1, <3>2, <3>3
  <2>2. r.place \in [Role -> File]
    BY DEF ToolInv, Records, RecordShape
  <2> QED
    BY <1>3, <2>1, <2>2 DEF KnownForms, MoreForms
<1> QED
  BY <1>1, <1>3, <1>5, <1>6, <1>7 DEF KnownForms

(* A step of a running process, or one that ends it. *)
LEMMA FormsOn ==
  ASSUME ToolInv, KnownForms, forms' = forms,
         \/ job'.cmd = job.cmd /\ opts' = opts
         \/ job'.cmd \in {"none", "restore"},
         \A s \in archived' :
           \/ \E r \in archived : s.place = r.place /\ s.zip = r.zip
           \/ job.cmd = "archive" /\ s.place = opts.place /\ s.zip = opts.zip
  PROVE  MoreForms /\ KnownForms'
<1>1. forms' \in [File -> SUBSET BOOLEAN] /\ MoreForms
  BY DEF KnownForms, MoreForms
<1>2. ASSUME job'.cmd = "archive", NEW role \in Role
      PROVE  Filtered(opts'.place, opts'.zip, role) \in forms'[opts'.place[role]]
  BY <1>2 DEF KnownForms
<1>3. ASSUME job'.cmd = "convert" PROVE forms'[source'] \subseteq forms'[dest']
  BY <1>3 DEF KnownForms, source, dest
<1>4. ASSUME NEW s \in archived', NEW role \in Role
      PROVE  Filtered(s.place, s.zip, role) \in forms'[s.place[role]]
  <2>1. CASE \E r \in archived : s.place = r.place /\ s.zip = r.zip
    BY <2>1 DEF KnownForms
  <2>2. CASE job.cmd = "archive" /\ s.place = opts.place /\ s.zip = opts.zip
    BY <2>2 DEF KnownForms
  <2> QED
    BY <2>1, <2>2
<1> QED
  BY <1>1, <1>2, <1>3, <1>4 DEF KnownForms

LEMMA ContentSettles ==
  ASSUME HeldForms, MoreForms, Settles, damaged \subseteq damaged'
  PROVE  HeldForms'
<1> SUFFICES ASSUME NEW f \in File \ damaged, NEW y, NEW x, Holds(f, <<"hash", y>>, x)
             PROVE  \E z \in forms'[f] : x = Filed(z, y)
  BY DEF HeldForms, Settles
<1>1. PICK z \in forms[f] : x = Filed(z, y)
  BY DEF HeldForms
<1> QED
  BY <1>1 DEF MoreForms

LEMMA ContentIndex ==
  ASSUME ContentInv, ToolInv, ArchiveInv, forms' = forms,
         NEW role, NEW c, NEW form, IndexesBlock(role, c, form)
  PROVE  HeldForms'
<1>1. PICK class, f, content :
        /\ class = opts.indexer /\ f = opts.place[role]
        /\ content = Written(class, form, c)
  OBVIOUS
<1>2. /\ job.cmd = "archive" /\ class \in IndexerClass /\ Refers(class, form, c)
      /\ \A g \in File : \A y, x : Holds(g, y, x)' => \/ Holds(g, y, x)
           \/ /\ g = f /\ y = KeyOf(class, form)
              /\ x = Filed(Filtered(opts.place, opts.zip, role), content)
  BY <1>1, IndexesFacts DEF IndexInv
<1>3. opts \in ArchiveOpts /\ role \in Role /\ damaged' = damaged
  BY <1>2 DEF ArchiveInv, IndexesBlock
<1>4. Filtered(opts.place, opts.zip, role) \in forms[f]
  BY <1>1, <1>2, <1>3 DEF ContentInv, KnownForms
<1>5. \A y : KeyOf(class, form) = <<"hash", y>> => y = content
  <2>1. CASE class \in Checked
    BY <1>1, <1>2, <2>1, HashOfWritten
  <2>2. CASE class \notin Checked
    BY <1>2, <2>2, HashOfWritten
  <2> QED
    BY <2>1, <2>2
<1> SUFFICES ASSUME NEW g \in File \ damaged, NEW y, NEW x, Holds(g, <<"hash", y>>, x)'
             PROVE  \E z \in forms[g] : x = Filed(z, y)
  BY <1>3 DEF HeldForms
<1>6. CASE Holds(g, <<"hash", y>>, x)
  BY <1>6 DEF ContentInv, HeldForms
<1>7. CASE /\ g = f /\ <<"hash", y>> = KeyOf(class, form)
           /\ x = Filed(Filtered(opts.place, opts.zip, role), content)
  BY <1>4, <1>5, <1>7
<1> QED
  BY <1>2, <1>6, <1>7

LEMMA ContentCopy ==
  ASSUME ContentInv, ToolInv, WholeInv, CopyBlock
  PROVE  HeldForms'
<1>1. PICK from, to : from = source /\ to = dest
  OBVIOUS
<1>2. /\ from \in DOMAIN cache /\ to \in DOMAIN cache /\ from \in File /\ to \in File
      /\ job.cmd = "convert" /\ damaged' = damaged
  BY <1>1, CopyBlockFacts DEF CopyBlock, ConvertStep, ToolInv, DbInv
<1>3. \A g \in File : \A k, x : Holds(g, k, x)' =>
        Holds(g, k, x) \/ (g = to /\ Holds(from, k, x))
  <2>1. CASE WriteBlock(to, NextKey, cache[from][NextKey]) /\ NextKey \in DOMAIN cache[from]
    <3>1. PICK k, c : k = NextKey /\ c = cache[from][NextKey]
      OBVIOUS
    <3>2. \A g \in File : \A y, x : Holds(g, y, x)' =>
            Holds(g, y, x) \/ (g = to /\ y = k /\ x = c)
      BY <1>2, <2>1, <3>1, WriteHolds DEF ToolInv
    <3>3. Holds(from, k, c)
      BY <1>2, <2>1, <3>1 DEF Holds
    <3> QED
      BY <3>2, <3>3
  <2>2. CASE UNCHANGED <<disk, cache>>
    BY <2>2 DEF Holds
  <2> QED
    BY <1>1, <2>1, <2>2, CopyBlockFacts
<1>4. to \notin damaged => from \notin damaged
  BY <1>1, <1>2 DEF WholeInv, CopyInv
<1>5. forms[from] \subseteq forms[to] /\ forms' = forms
  BY <1>1, <1>2 DEF ContentInv, KnownForms, CopyBlock, ConvertStep
<1> SUFFICES ASSUME NEW g \in File \ damaged, NEW y, NEW x, Holds(g, <<"hash", y>>, x)'
             PROVE  \E z \in forms[g] : x = Filed(z, y)
  BY <1>2, <1>5 DEF HeldForms
<1>6. CASE Holds(g, <<"hash", y>>, x)
  BY <1>6 DEF ContentInv, HeldForms
<1>7. CASE g = to /\ Holds(from, <<"hash", y>>, x)
  <2>1. from \in File \ damaged
    BY <1>2, <1>4, <1>7
  <2> QED
    BY <1>5, <1>7, <2>1 DEF ContentInv, HeldForms
<1> QED
  BY <1>3, <1>6, <1>7

(* What the tools do about forms. *)
LEMMA FormsNext ==
  ASSUME KnownForms, ToolInv, [Next]_toolVars
  PROVE  MoreForms /\ KnownForms'
<1>0. DOMAIN job = JobFields
  BY DEF ToolInv, JobShape
<1>1. CASE \E o \in ArchiveOpts, d \in Document : StartArchive(o, d)
  BY <1>1, FormsStart, OptionAssumption
<1>2. CASE \E pair \in ConvertPair : StartConvert(pair)
  BY <1>2, FormsConvert
<1>3. CASE \E o \in RestoreOpts, r \in archived : StartRestore(o, r)
  <2>1. forms' = forms /\ archived' = archived /\ job'.cmd = "restore"
    BY <1>3 DEF StartRestore, NoProcess
  <2> QED
    BY <2>1, FormsOn
<1>4. CASE Exit \/ Crash
  <2>1. forms' = forms /\ job'.cmd = "none"
    BY <1>4 DEF Exit, Crash, Gone, NoProcess
  <2>2. \A s \in archived' : \E r \in archived : s.place = r.place /\ s.zip = r.zip
    BY <1>4, RecordsShaped, KeptFacts DEF Exit, Crash
  <2> QED
    BY <2>1, <2>2, FormsOn
<1>5. CASE PrintHandle
  <2>1. /\ job'.cmd = job.cmd /\ opts' = opts /\ forms' = forms
        /\ job.cmd = "archive"
    BY <1>0, <1>5 DEF PrintHandle, JobFields, ToolInv, JobShape
  <2>2. \A s \in archived' :
          s \in archived \/ (s.place = opts.place /\ s.zip = opts.zip)
    BY <1>5 DEF PrintHandle
  <2> QED
    BY <2>1, <2>2, FormsOn
<1>6. CASE IndexData \/ IndexRoot \/ IndexFails \/ Leave \/ AllClosed \/ Damage
  <2>1. job'.cmd = job.cmd /\ opts' = opts /\ forms' = forms /\ archived' = archived
    BY <1>0, <1>6 DEF IndexData, IndexRoot, IndexFails, Leave, AllClosed, Damage, JobFields
  <2> QED
    BY <2>1, FormsOn
<1>7. CASE FetchRoot \/ FetchData \/ ReadFails \/ EndOfStream
  <2>1. job'.cmd = job.cmd
    BY <1>0, <1>7 DEF FetchRoot, FetchData, ReadFails, EndOfStream, Fails, JobFields
  <2>2. opts' = opts /\ forms' = forms /\ archived' = archived
    BY <1>7 DEF FetchRoot, FetchData, ReadFails, EndOfStream, RestoreStep
  <2> QED
    BY <2>1, <2>2, FormsOn
<1>8. CASE Close
  <2>1. \/ job' = [job EXCEPT !.ends = Tail(@)]
        \/ job' = [job EXCEPT !.ends = << >>, !.status = 7, !.pc = "exit"]
        \/ job' = [job EXCEPT !.ends = Tail(@), !.lost = TRUE]
    BY <1>8, CloseFacts
  <2>2. job'.cmd = job.cmd
    BY <1>0, <2>1 DEF JobFields
  <2>3. opts' = opts /\ forms' = forms /\ archived' = archived
    BY <1>8 DEF Close
  <2> QED
    BY <2>2, <2>3, FormsOn
<1>9. CASE CopyBlock \/ CopyFails \/ IteratorFails \/ EndOfStore \/ ConvertLeave
  <2>1. job'.cmd = job.cmd
    BY <1>0, <1>9 DEF CopyBlock, CopyFails, IteratorFails, EndOfStore, ConvertLeave,
                      Fails, JobFields
  <2>2. opts' = opts /\ forms' = forms /\ archived' = archived
    BY <1>9 DEF CopyBlock, CopyFails, IteratorFails, EndOfStore, ConvertLeave, ConvertStep
  <2> QED
    BY <2>1, <2>2, FormsOn
<1>10. CASE UNCHANGED toolVars
  BY <1>10, FormsOn DEF toolVars, archiverVars
<1> QED
  BY <1>1, <1>2, <1>3, <1>4, <1>5, <1>6, <1>7, <1>8, <1>9, <1>10
     DEF Next, ArchiverNext, ConvertNext

LEMMA ContentNext ==
  ASSUME ContentInv, ToolInv, WholeInv, [Next]_toolVars
  PROVE  ContentInv'
<1>0. HeldForms /\ MoreForms /\ KnownForms'
  BY FormsNext DEF ContentInv
<1>1. ASSUME keys' = {}, \/ \E o \in ArchiveOpts, d \in Document : StartArchive(o, d)
                         \/ \E o \in RestoreOpts, r \in archived : StartRestore(o, r)
                         \/ PrintHandle \/ Close \/ Exit \/ Crash
      PROVE  Settles /\ damaged' = damaged
  <2>1. Settles
    BY <1>1, StartArchiveStep, StartRestoreStep, PrintHandleStep, CloseStep, EndStep
  <2>2. damaged' = damaged
    BY <1>1 DEF StartArchive, StartRestore, PrintHandle, Close, Exit, Crash, Gone
  <2> QED
    BY <2>1, <2>2
<1>2. ASSUME Quiet, keys' # {} => keys # {} PROVE Settles /\ damaged' = damaged
  <2>1. damaged' = damaged
    BY <1>2 DEF Quiet, IndexFails, FetchRoot, FetchData, ReadFails, EndOfStream, RestoreStep,
                Leave, AllClosed, CopyFails, IteratorFails, EndOfStore, ConvertLeave, ConvertStep
  <2> QED
    BY <1>2, <2>1, QuietStep
<1>3. ASSUME CopyFails \/ IteratorFails \/ EndOfStore \/ ConvertLeave
      PROVE  keys' # {} => keys # {}
  BY <1>3 DEF CopyFails, IteratorFails, EndOfStore, ConvertLeave
<1>4. ASSUME NEW pair \in ConvertPair, StartConvert(pair)
      PROVE  Settles /\ damaged \subseteq damaged'
  BY <1>4, StartConvertStep DEF StartConvert
<1>5. ASSUME UNCHANGED toolVars PROVE Settles /\ damaged' = damaged
  BY <1>5 DEF toolVars, archiverVars, Settles, Holds
<1>6. ASSUME Damage, keys' = {} PROVE HeldForms'
  <2>1. /\ \A f \in File : \A k, c : Holds(f, k, c)' =>
             Holds(f, k, c) \/ (f \in damaged' /\ k \in DOMAIN disk[f])
        /\ damaged \subseteq damaged'
    BY <1>6, DamageStep
  <2> QED
    BY <1>0, <2>1 DEF HeldForms, MoreForms
<1>7. ASSUME IndexData PROVE HeldForms'
  <2>1. PICK c, form : /\ c = Text(job.doc[Len(job.handles) + 1])
                       /\ form = SerialHandle(Indexed(c).handle)
    OBVIOUS
  <2>2. IndexesBlock("data", c, form)
    BY <1>7, <2>1 DEF IndexData, IndexesBlock, Role
  <2>3. forms' = forms
    BY <1>7 DEF IndexData
  <2> QED
    BY <2>2, <2>3, ContentIndex DEF WholeInv
<1>8. ASSUME IndexRoot PROVE HeldForms'
  <2>1. PICK c, form : c = Node(job.handles) /\ form = SerialHandle(Indexed(c).handle)
    OBVIOUS
  <2>2. IndexesBlock("metadata", c, form)
    BY <1>8, <2>1 DEF IndexRoot, IndexesBlock, Role
  <2>3. forms' = forms
    BY <1>8 DEF IndexRoot
  <2> QED
    BY <2>2, <2>3, ContentIndex DEF WholeInv
<1>9. ASSUME CopyBlock PROVE HeldForms'
  BY <1>9, ContentCopy
<1>10. ASSUME ArchiverNext, keys' = {} PROVE HeldForms'
  <2>1. CASE Quiet
    BY <1>0, <1>2, <1>10, <2>1, ContentSettles
  <2>2. CASE IndexData \/ IndexRoot \/ Damage
    BY <1>6, <1>7, <1>8, <1>10, <2>2
  <2>3. CASE ~Quiet /\ ~(IndexData \/ IndexRoot \/ Damage)
    <3>1. \/ \E o \in ArchiveOpts, d \in Document : StartArchive(o, d)
          \/ \E o \in RestoreOpts, r \in archived : StartRestore(o, r)
          \/ PrintHandle \/ Close \/ Exit \/ Crash
      BY <1>10, <2>3 DEF ArchiverNext, Quiet
    <3> QED
      BY <1>0, <1>1, <1>10, <3>1, ContentSettles
  <2> QED
    BY <2>1, <2>2, <2>3
<1>11. ASSUME ConvertNext PROVE HeldForms'
  <2>1. CASE CopyFails \/ IteratorFails \/ EndOfStore \/ ConvertLeave
    BY <1>0, <1>2, <1>3, <2>1, ContentSettles DEF Quiet
  <2>2. CASE \E pair \in ConvertPair : StartConvert(pair)
    BY <1>0, <1>4, <2>2, ContentSettles
  <2> QED
    BY <1>9, <1>11, <2>1, <2>2 DEF ConvertNext
<1>12. ASSUME UNCHANGED toolVars PROVE HeldForms'
  BY <1>0, <1>5, <1>12, ContentSettles
<1> QED
  BY <1>0, <1>10, <1>11, <1>12 DEF Next, ContentInv

(* What is filed for a block that is not empty is not empty either. *)
LEMMA FiledSize ==
  ASSUME NEW class, NEW form, NEW c, Size(c) \in Nat \ {0}, NEW zipped
  PROVE  Filed(zipped, Written(class, form, c))[2] > 0
<1>1. PICK w : w = Written(class, form, c)
  OBVIOUS
<1>2. PICK n \in Nat \ {0} : n = Size(c)
  OBVIOUS
<1>3. w[2] = n \/ w[2] = Padded(n)
  BY <1>1, <1>2 DEF Written, Encrypt, Size
<1>4. Padded(n) \in Nat /\ Padded(n) >= n
  BY PaddedSize
<1>5. w[2] > 0
  BY <1>3, <1>4
<1>6. Filed(zipped, w)[2] = w[2]
  BY DEF Filed, Zip
<1> QED
  BY <1>1, <1>5, <1>6

(* A block of an archive that was kept is read back from the disk. *)
LEMMA BlockLasts ==
  ASSUME ContentInv, ToolInv, NEW r \in archived,
         NEW hs, Recorded(r, hs), r.kept, Files(r.place) \cap damaged = {},
         r.class \in Checked => \A f \in Files(r.place) : forms[f] # BOOLEAN,
         r.class = "integer" => r.alone, NEW b \in Blocks(r.tuple, r.doc, hs)
  PROVE  OnDisk(r, b[1], DeserialHandle(r.class, b[2])) = Fetched(b[3])
<1>1. PICK class, role, form, c, f, k :
        /\ class = r.class /\ role = b[1] /\ form = b[2] /\ c = b[3]
        /\ f = r.place[role] /\ k = KeyOf(class, form)
  OBVIOUS
<1>2. PICK zipped, w, x : /\ zipped = Filtered(r.place, r.zip, role)
                          /\ w = Written(class, form, c) /\ x = disk[f][k]
  OBVIOUS
<1>3. /\ class \in IndexerClass /\ TupleOK(class, r.tuple)
      /\ GoodBlock(class, r.place, r.zip, r.alone, b)
      /\ k \in DOMAIN disk[f]
  BY <1>1 DEF Recorded, Good, OnDisks
<1>4. role \in Role /\ Refers(class, form, c) /\ Size(c) \in Nat \ {0}
  BY <1>1, <1>3 DEF GoodBlock
<1>5. r.place \in [Role -> File]
  BY DEF ToolInv, Records, RecordShape
<1>6. f \in File \ damaged /\ f \in Files(r.place)
  BY <1>1, <1>4, <1>5 DEF Files
<1>7. Holds(f, k, x)
  BY <1>2, <1>3 DEF Holds
<1>8. x = Filed(zipped, w)
  <2>1. CASE class \in Checked
    <3>1. k = <<"hash", w>>
      BY <1>1, <1>2, <1>3, <1>4, <2>1, HashOfWritten
    <3>2. PICK z \in forms[f] : x = Filed(z, w)
      BY <1>6, <1>7, <3>1 DEF ContentInv, HeldForms
    <3>3. zipped \in forms[f] /\ forms[f] \in SUBSET BOOLEAN /\ forms[f] # BOOLEAN
      BY <1>1, <1>2, <1>4, <1>6, <2>1 DEF ContentInv, KnownForms
    <3>4. PICK b0 \in BOOLEAN : b0 \notin forms[f]
      BY <3>3
    <3>5. z = zipped
      <4>1. z \in BOOLEAN /\ zipped \in BOOLEAN /\ z # b0 /\ zipped # b0
        BY <3>2, <3>3, <3>4
      <4> QED
        BY <3>4, <4>1
    <3> QED
      BY <3>2, <3>5
  <2>2. CASE class \notin Checked
    <3>1. Relied(class, r.alone) /\ w = c
      BY <1>1, <1>2, <1>3, <2>2 DEF Relied, IndexerClass, Checked, Written
    <3>2. f \in Region(class, r.place)
      BY <1>6 DEF Region
    <3> QED
      BY <1>1, <1>2, <1>3, <1>7, <3>1, <3>2 DEF GoodBlock, Sound
  <2> QED
    BY <2>1, <2>2
<1>9. Held(disk, f, k) = Fetched(x)
  <2>1. x[2] > 0
    BY <1>2, <1>4, <1>8, FiledSize
  <2> QED
    BY <1>2, <1>3, <2>1 DEF Held, Fetched
<1>10. PICK read : read = IF zipped THEN Unzip(Held(disk, f, k)) ELSE Held(disk, f, k)
  OBVIOUS
<1>11. read = Fetched(w)
  <2>1. CASE zipped
    <3>1. Held(disk, f, k) = Fetched(Zip(w))
      BY <1>8, <1>9, <2>1 DEF Filed
    <3>2. Unzip(Fetched(Zip(w))) = Fetched(w)
      BY DEF Unzip, Fetched, Zip
    <3> QED
      BY <1>10, <2>1, <3>1, <3>2
  <2>2. CASE ~zipped
    BY <1>8, <1>9, <1>10, <2>2 DEF Filed
  <2> QED
    BY <2>1, <2>2
<1>12. PICK handle : handle = DeserialHandle(class, form)
  OBVIOUS
<1>13. handle[2] = k
  BY <1>1, <1>12 DEF KeyOf
<1>14. OnDisk(r, role, handle) = Fetch(TupleFetcher(r.tuple), handle, read)
  BY <1>1, <1>2, <1>10, <1>13 DEF OnDisk, Filtered
<1>15. TupleFetcher(r.tuple) = [class |-> class, hash |-> HashFor(class)]
  BY <1>3 DEF TupleOK
<1>16. Fetch([class |-> class, hash |-> HashFor(class)], handle, read) = Fetched(c)
  BY <1>2, <1>3, <1>4, <1>11, <1>12, FetchWritten
<1> QED
  BY <1>1, <1>12, <1>14, <1>15, <1>16

(***************************************************************************)
(* The tuple that a successful archiver printed stays restorable from its  *)
(* files, whatever crashes, fails or is archived later (chop-archiver.c's  *)
(* do_archive, over every stack of proxies, every class of data base and   *)
(* the block indexers), with the exceptions that SuccessLasts states: what *)
(* was lost while closing, files with blocks in both forms, and integers   *)
(* given out again.                                                        *)
(***************************************************************************)
THEOREM SuccessLastsCorrect ==
  ASSUME FitsIdentifiers
  PROVE  Spec => []SuccessLasts
<1>1. ToolsInit => ContentInv
  <2> SUFFICES ASSUME ToolsInit PROVE ContentInv
    OBVIOUS
  <2>1. disk = [f \in File |-> Nothing] /\ cache = Nothing
    BY DEF ToolsInit, Init, DbInit
  <2>2. \A f \in File : \A k, x : ~Holds(f, k, x)
    BY <2>1 DEF Holds, Nothing
  <2>3. KnownForms
    BY DEF ToolsInit, Init, NoProcess, KnownForms
  <2> QED
    BY <2>2, <2>3 DEF ContentInv, HeldForms
<1>2. ToolInv /\ EndsInv /\ WholeInv /\ ContentInv /\ [Next]_toolVars => ContentInv'
  BY ContentNext
<1>3. ToolInv /\ WholeInv /\ ContentInv => SuccessLasts
  <2> SUFFICES ASSUME ToolInv, WholeInv, ContentInv, NEW r \in archived, r.kept,
                      Files(r.place) \cap damaged = {},
                      r.class \in Checked => \A f \in Files(r.place) : forms[f] # BOOLEAN,
                      r.class = "integer" => r.alone
               PROVE  Restorable(r)
    BY DEF SuccessLasts, Checked
  <2>1. PICK hs : Recorded(r, hs)
    BY DEF WholeInv, RecordsGood
  <2>2. /\ TupleOK(r.class, r.tuple) /\ IsSeq(hs) /\ Len(hs) = Len(r.doc)
        /\ r.doc \in Document
    BY <2>1 DEF Recorded, ToolInv, Records, RecordShape
  <2>3. DOMAIN r.doc = 1..Len(hs) /\ r.tuple[2] = r.class
    BY <2>2, DocumentAssumption DEF TupleOK
  <2>4. PICK root : root = OnDisk(r, "metadata", TupleHandle(r.tuple))
    OBVIOUS
  <2>5. root = Fetched(Node(hs))
    <3>1. PICK b : b = <<"metadata", r.tuple[4], Node(hs)>>
      OBVIOUS
    <3>2. b \in Blocks(r.tuple, r.doc, hs)
      BY <3>1 DEF Blocks, RootBlock
    <3>3. OnDisk(r, b[1], DeserialHandle(r.class, b[2])) = Fetched(b[3])
      BY <2>1, <3>2, BlockLasts
    <3> QED
      BY <2>3, <2>4, <3>1, <3>3 DEF TupleHandle
  <2>6. root.ok /\ root.block[1] = "node" /\ root.block[3] = hs
    BY <2>5 DEF Fetched, Node
  <2>7. ASSUME NEW i \in 1..Len(hs)
        PROVE  OnDisk(r, "data", DeserialHandle(r.class, hs[i])) = Fetched(Text(r.doc[i]))
    <3>1. PICK b : b = <<"data", hs[i], Text(r.doc[i])>>
      OBVIOUS
    <3>2. b \in Blocks(r.tuple, r.doc, hs)
      BY <3>1 DEF Blocks, DataBlocks
    <3>3. OnDisk(r, b[1], DeserialHandle(r.class, b[2])) = Fetched(b[3])
      BY <2>1, <3>2, BlockLasts
    <3> QED
      BY <3>1, <3>3
  <2> QED
    BY <2>2, <2>3, <2>4, <2>6, <2>7 DEF Restorable
<1> QED
  BY <1>1, <1>2, <1>3, WholeAlways, PTL DEF Spec
=============================================================================
