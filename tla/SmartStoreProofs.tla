-------------------------- MODULE SmartStoreProofs --------------------------
(***************************************************************************)
(* Processes that write, rewrite, delete and read blocks of one directory  *)
(* at once, one system call at a time: whatever they do, a block that      *)
(* nobody is writing and that no writer left half-way is complete, and so  *)
(* is what a reader that met no writer has read.                           *)
(***************************************************************************)
EXTENDS SmartStore, TLAPS

(* File f is block k's: the directory says so, or a process opened it so.  *)
Names(k, f) == entry[k] = f \/ \E p \in Proc : fd[p] = f /\ key[p] = k

(* Some writer of f has not come to unit i yet. *)
Pending(f, i) ==
    \E q \in Proc : /\ fd[q] = f
                    /\ pc[q] = "truncate" \/ (pc[q] = "write" /\ pos[q] < i)

Right(f, i, v) == i <= Len(file[f]) /\ file[f][i] = v

-----------------------------------------------------------------------------
(* What the locals of a process are in each part of an operation. *)
LocalInv ==
    \A p \in Proc :
        /\ pc[p] \notin {"write", "read"} => pos[p] = 0
        /\ pc[p] # "read" => buf[p] = <<>>
        /\ pc[p] = "write" => pos[p] <= Size[val[p]]
        /\ pc[p] \in {"stat", "open", "mkdir", "truncate", "write"}
               => val[p] \in Allowed[key[p]]

(* No file serves two keys. *)
OneKeyPerFile ==
    \A f \in 1..Len(file) : \A k, l \in Key : Names(k, f) /\ Names(l, f) => k = l

(* Each unit of a file is right or will be written. *)
RightOrPending ==
    \A f \in 1..Len(file) : \A k \in Key : Names(k, f) =>
        /\ Allowed[k] # {}
        /\ \A v \in Allowed[k] :
              /\ Len(file[f]) <= Size[v]
              /\ f \notin damaged =>
                    \A i \in 1..Size[v] : Right(f, i, v) \/ Pending(f, i)

(* A reader that met no writer has a prefix of the file. *)
ReadsPrefix ==
    \A p \in Proc : pc[p] = "read" /\ alone[p] =>
        /\ Writers(fd[p]) = {}
        /\ pos[p] <= Len(file[fd[p]]) /\ Len(buf[p]) = pos[p]
        /\ \A i \in 1..pos[p] : buf[p][i] = file[fd[p]][i]

SmartInv == TypeOK /\ LocalInv /\ OneKeyPerFile /\ RightOrPending /\ ReadsPrefix

-----------------------------------------------------------------------------
USE FsAssumption

(* w is what writing v as unit i makes of a file c. *)
Overlaid(w, c, i, v) ==
    /\ Len(w) = IF i > Len(c) THEN i ELSE Len(c)
    /\ \A j \in 1..Len(w) :
          w[j] = IF j = i THEN v ELSE IF j <= Len(c) THEN c[j] ELSE Hole

(* Overlay is such a file. *)
LEMMA OverlayType ==
  ASSUME NEW c \in Seq(Unit), NEW i \in Nat \ {0}, NEW v \in Unit
  PROVE  Overlay(c, i, v) \in Seq(Unit) /\ Overlaid(Overlay(c, i, v), c, i, v)
<1> DEFINE n == IF i > Len(c) THEN i ELSE Len(c)
<1>1. n \in Nat
  OBVIOUS
<1>2. \A j \in 1..n : (IF j = i THEN v ELSE IF j <= Len(c) THEN c[j] ELSE Hole) \in Unit
  BY DEF Unit
<1> QED
  BY <1>1, <1>2 DEF Overlay, Overlaid

(* The types of the variables that an operation's end resets. *)
LEMMA ReturnType ==
  ASSUME TypeOK, NEW p \in Proc, NEW r \in Results, Return(p, r), file' = file
  PROVE  /\ pc' \in [Proc -> PCs] /\ key' \in [Proc -> Key] /\ val' \in [Proc -> Value]
         /\ newDir' \in [Proc -> BOOLEAN] /\ fd' \in [Proc -> 0..Len(file')]
         /\ pos' \in [Proc -> Nat] /\ buf' \in [Proc -> Seq(Unit)]
         /\ ret' \in [Proc -> Results] /\ alone' \in [Proc -> BOOLEAN]
         /\ \A q \in Proc : pc'[q] \in {"truncate", "write", "read"} <=> fd'[q] # 0
<1>1. AnyKey \in Key /\ AnyValue \in Value
  BY DEF AnyKey, AnyValue
<1>2. /\ pc' \in [Proc -> PCs] /\ ret' \in [Proc -> Results]
      /\ key' \in [Proc -> Key] /\ val' \in [Proc -> Value]
  BY <1>1 DEF TypeOK, Return, PCs
<1>3. newDir' \in [Proc -> BOOLEAN] /\ alone' \in [Proc -> BOOLEAN]
  BY DEF TypeOK, Return
<1>4. /\ fd' \in [Proc -> 0..Len(file')] /\ pos' \in [Proc -> Nat]
      /\ buf' \in [Proc -> Seq(Unit)]
  BY DEF TypeOK, Return
<1>5. \A q \in Proc : pc'[q] \in {"truncate", "write", "read"} <=> fd'[q] # 0
  BY DEF TypeOK, Return
<1> QED
  BY <1>2, <1>3, <1>4, <1>5

(* A step that only ends an operation. *)
LEMMA CloseType ==
  ASSUME TypeOK, NEW p \in Proc, NEW r \in Results, Return(p, r),
         UNCHANGED <<entry, file>>, dirs' \subseteq dirs,
         damaged' = damaged \/ (fd[p] # 0 /\ damaged' = damaged \cup {fd[p]}),
         ops' \in Nat, crashes' \in Nat, errors' \in Nat
  PROVE  TypeOK'
<1>1. dirs' \subseteq Dirs /\ file' \in Seq(Seq(Unit)) /\ entry' \in [Key -> 0..Len(file')]
  BY DEF TypeOK
<1>2. damaged' \subseteq 1..Len(file')
  <2>1. fd[p] \in 0..Len(file) /\ damaged \subseteq 1..Len(file) /\ Len(file) \in Nat
    BY DEF TypeOK
  <2>2. CASE damaged' = damaged
    BY <2>1, <2>2
  <2>3. CASE fd[p] # 0 /\ damaged' = damaged \cup {fd[p]}
    <3>1. {fd[p]} \subseteq 1..Len(file)
      BY <2>1, <2>3
    <3> QED
      BY <2>1, <2>3, <3>1
  <2> QED
    BY <2>2, <2>3
<1> QED
  BY <1>1, <1>2, ReturnType DEF TypeOK

(* The number a new file gets is no one's. *)
LEMMA FreeFileIsFree ==
  ASSUME TypeOK
  PROVE  FreeFile \in 1..(Len(file) + 1) /\ FreeFile \notin Used
<1>1. Len(file) \in Nat
  BY DEF TypeOK
<1>2. Len(file) + 1 \notin Used
  BY <1>1 DEF TypeOK, Used
<1>3. \E f \in 1..(Len(file) + 1) : f \notin Used
  BY <1>1, <1>2
<1> QED
  BY <1>3 DEF FreeFile

(* Type correctness is inductive. *)
LEMMA TypeStep ==
  ASSUME TypeOK, Next
  PROVE  TypeOK'
<1>1. PICK p \in Proc : \/ \E k \in Key : FsCall(p, k)
                        \/ \E k \in Key : \E v \in Allowed[k] : SmartWriteBlock(p, k, v)
                        \/ SmartStep(p)
                        \/ Crash(p)
  BY DEF Next
<1>2. ASSUME NEW k \in Key, NEW v \in Allowed[k],
             WriteBlock(p, k, v) \/ SmartWriteBlock(p, k, v)
      PROVE  TypeOK'
  <2>1. v \in Value
    OBVIOUS
  <2>2. pc' \in [Proc -> PCs] /\ key' \in [Proc -> Key] /\ val' \in [Proc -> Value]
    <3>1. /\ pc \in [Proc -> PCs] /\ key \in [Proc -> Key] /\ val \in [Proc -> Value]
          /\ key' = [key EXCEPT ![p] = k] /\ val' = [val EXCEPT ![p] = v]
          /\ pc' = [pc EXCEPT ![p] = "stat"] \/ pc' = [pc EXCEPT ![p] = "open"]
      BY <1>2 DEF WriteBlock, SmartWriteBlock, TypeOK
    <3> QED
      BY <2>1, <3>1 DEF PCs
  <2>3. \A q \in Proc : pc'[q] \in {"truncate", "write", "read"} <=> fd'[q] # 0
    BY <1>2 DEF WriteBlock, SmartWriteBlock, Begin, TypeOK
  <2>4. ops' \in Nat
    BY <1>2, SMTT(30) DEF WriteBlock, SmartWriteBlock, Begin, TypeOK
  <2> QED
    BY <1>2, <2>2, <2>3, <2>4 DEF WriteBlock, SmartWriteBlock, TypeOK
<1>3. ASSUME NEW k \in Key, DeleteBlock(p, k)
      PROVE  TypeOK'
  <2>1. ops' \in Nat /\ crashes' \in Nat /\ errors' \in Nat
    BY <1>3 DEF DeleteBlock, Begin, TypeOK
  <2>2. CASE entry[k] = 0
    BY <1>3, <2>1, <2>2, CloseType DEF DeleteBlock, Results
  <2>3. CASE entry[k] # 0
    <3>1. /\ pc' \in [Proc -> PCs] /\ key' \in [Proc -> Key]
          /\ entry' \in [Key -> 0..Len(file')]
      <4>1. /\ entry \in [Key -> 0..Len(file)] /\ entry' = [entry EXCEPT ![k] = 0]
            /\ Len(file) \in Nat /\ file' = file
        BY <1>3, <2>3 DEF DeleteBlock, TypeOK
      <4>2. entry' \in [Key -> 0..Len(file')]
        BY <4>1
      <4>3. /\ pc \in [Proc -> PCs] /\ pc' = [pc EXCEPT ![p] = "rmdir"]
            /\ key \in [Proc -> Key] /\ key' = [key EXCEPT ![p] = k]
        BY <1>3, <2>3 DEF DeleteBlock, TypeOK
      <4>4. pc' \in [Proc -> PCs] /\ key' \in [Proc -> Key]
        BY <4>3 DEF PCs
      <4> QED
        BY <4>2, <4>4
    <3>2. \A q \in Proc : pc'[q] \in {"truncate", "write", "read"} <=> fd'[q] # 0
      BY <1>3, <2>3 DEF DeleteBlock, Begin, TypeOK
    <3> QED
      BY <1>3, <2>1, <2>3, <3>1, <3>2 DEF DeleteBlock, TypeOK
  <2> QED
    BY <2>2, <2>3
<1>4. ASSUME NEW k \in Key, ReadBlock(p, k)
      PROVE  TypeOK'
  <2>1. ops' \in Nat /\ crashes' \in Nat /\ errors' \in Nat
    BY <1>4 DEF ReadBlock, Begin, TypeOK
  <2>2. CASE entry[k] = 0
    BY <1>4, <2>1, <2>2, CloseType DEF ReadBlock, Results
  <2>3. CASE entry[k] # 0
    <3>1. /\ pc' \in [Proc -> PCs] /\ key' \in [Proc -> Key]
          /\ fd' \in [Proc -> 0..Len(file')]
      <4>1. /\ fd \in [Proc -> 0..Len(file)] /\ fd' = [fd EXCEPT ![p] = entry[k]]
            /\ entry[k] \in 0..Len(file) /\ file' = file
        BY <1>4, <2>3 DEF ReadBlock, TypeOK
      <4>2. fd' \in [Proc -> 0..Len(file')]
        BY <4>1
      <4>3. /\ pc \in [Proc -> PCs] /\ pc' = [pc EXCEPT ![p] = "read"]
            /\ key \in [Proc -> Key] /\ key' = [key EXCEPT ![p] = k]
        BY <1>4, <2>3 DEF ReadBlock, TypeOK
      <4>4. pc' \in [Proc -> PCs] /\ key' \in [Proc -> Key]
        BY <4>3 DEF PCs
      <4> QED
        BY <4>2, <4>4
    <3>2. alone' \in [Proc -> BOOLEAN]
      BY <1>4, <2>3 DEF ReadBlock, TypeOK
    <3>3. \A q \in Proc : pc'[q] \in {"truncate", "write", "read"} <=> fd'[q] # 0
      BY <1>4, <2>3 DEF ReadBlock, TypeOK
    <3> QED
      BY <1>4, <2>1, <2>3, <3>1, <3>2, <3>3 DEF ReadBlock, TypeOK
  <2> QED
    BY <2>2, <2>3
<1>5. ASSUME FirstCallFails(p) \/ SmartStatFails(p) \/ CallFails(p) \/ WriteFails(p)
      PROVE  TypeOK'
  <2>1. ops' \in Nat /\ crashes' \in Nat /\ errors' \in Nat
    BY <1>5, SMTT(30) DEF FirstCallFails, SmartStatFails, CallFails, WriteFails, Begin, Fails, TypeOK
  <2>2. damaged' = damaged \/ (fd[p] # 0 /\ damaged' = damaged \cup {fd[p]})
    BY <1>5 DEF FirstCallFails, SmartStatFails, CallFails, WriteFails, TypeOK
  <2> QED
    BY <1>5, <2>1, <2>2, CloseType
       DEF FirstCallFails, SmartStatFails, CallFails, WriteFails, Results
<1>6. ASSUME WriteDone(p) \/ ReadDone(p) \/ SmartExists(p)
      PROVE  TypeOK'
  <2>1. ops' \in Nat /\ crashes' \in Nat /\ errors' \in Nat
    BY <1>6 DEF WriteDone, ReadDone, SmartExists, TypeOK
  <2> QED
    BY <1>6, <2>1, CloseType DEF WriteDone, ReadDone, SmartExists, Results
<1>7. ASSUME RemoveDir(p)
      PROVE  TypeOK'
  <2>1. ops' \in Nat /\ crashes' \in Nat /\ errors' \in Nat
    BY <1>7 DEF RemoveDir, TypeOK
  <2>2. PICK r \in Results : Return(p, r)
    BY <1>7 DEF RemoveDir, Results
  <2> QED
    BY <1>7, <2>1, <2>2, CloseType DEF RemoveDir
<1>8. ASSUME Crash(p)
      PROVE  TypeOK'
  <2>1. ops' \in Nat /\ crashes' \in Nat /\ errors' \in Nat
    BY <1>8 DEF Crash, TypeOK
  <2>2. damaged' = damaged \/ (fd[p] # 0 /\ damaged' = damaged \cup {fd[p]})
    BY <1>8 DEF Crash, TypeOK
  <2> QED
    BY <1>8, <2>1, <2>2, CloseType DEF Crash, Results
<1>9. ASSUME OpenFindsNoDir(p) \/ MakeDir(p) \/ SmartAbsent(p)
      PROVE  TypeOK'
  <2>1. /\ pc' \in [Proc -> PCs] /\ newDir' \in [Proc -> BOOLEAN] /\ dirs' \subseteq Dirs
        /\ \A q \in Proc : pc'[q] \in {"truncate", "write", "read"} <=> fd'[q] # 0
    BY <1>9, ZenonT(30) DEF OpenFindsNoDir, MakeDir, SmartAbsent, TypeOK, PCs, Dirs
  <2> QED
    BY <1>9, <2>1 DEF OpenFindsNoDir, MakeDir, SmartAbsent, TypeOK
<1>10. ASSUME OpenForWrite(p)
       PROVE  TypeOK'
  <2> DEFINE k == key[p]
             f == IF entry[k] = 0 THEN FreeFile ELSE entry[k]
  <2>1. /\ file' \in Seq(Seq(Unit)) /\ f \in 1..Len(file') /\ Len(file) <= Len(file')
        /\ Len(file) \in Nat /\ Len(file') \in Nat
    <3>1. FreeFile \in 1..(Len(file) + 1)
      BY FreeFileIsFree
    <3>2. file \in Seq(Seq(Unit)) /\ <<>> \in Seq(Unit) /\ entry[k] \in 0..Len(file)
      BY DEF TypeOK
    <3>3. CASE entry[k] # 0
      BY <1>10, <3>2, <3>3 DEF OpenForWrite
    <3>4. CASE entry[k] = 0 /\ FreeFile > Len(file)
      <4>1. file' = Append(file, <<>>) /\ FreeFile = Len(file) + 1
        BY <1>10, <3>1, <3>4 DEF OpenForWrite
      <4> QED
        BY <3>2, <3>4, <4>1
    <3>5. CASE entry[k] = 0 /\ ~(FreeFile > Len(file))
      <4>1. file' = [file EXCEPT ![FreeFile] = <<>>] /\ FreeFile \in 1..Len(file)
        BY <1>10, <3>1, <3>5 DEF OpenForWrite
      <4> QED
        BY <3>2, <3>5, <4>1
    <3> QED
      BY <3>3, <3>4, <3>5
  <2>2. entry' \in [Key -> 0..Len(file')] /\ fd' \in [Proc -> 0..Len(file')]
    BY <1>10, <2>1, SMTT(30) DEF OpenForWrite, TypeOK
  <2>3. /\ pc' \in [Proc -> PCs]
        /\ \A q \in Proc : pc'[q] \in {"truncate", "write", "read"} <=> fd'[q] # 0
    BY <1>10, <2>1, SMTT(30) DEF OpenForWrite, TypeOK, PCs
  <2>4. alone' \in [Proc -> BOOLEAN]
    BY <1>10 DEF OpenForWrite, TypeOK
  <2>5. damaged' \subseteq 1..Len(file')
    <3>1. damaged' \subseteq damaged
      BY <1>10 DEF OpenForWrite
    <3>2. damaged \subseteq 1..Len(file)
      BY DEF TypeOK
    <3> QED
      BY <2>1, <3>1, <3>2
  <2> QED
    BY <1>10, <2>1, <2>2, <2>3, <2>4, <2>5 DEF OpenForWrite, TypeOK
<1>11. ASSUME Truncate(p)
       PROVE  TypeOK'
  <2>1. file' \in Seq(Seq(Unit)) /\ Len(file') = Len(file) /\ errors' \in Nat
    <3>1. file \in Seq(Seq(Unit)) /\ fd[p] \in 1..Len(file) /\ errors' \in Nat
      BY <1>11 DEF Truncate, TypeOK, Fails
    <3>2. CASE file' = [file EXCEPT ![fd[p]] = <<>>]
      BY <3>1, <3>2
    <3>3. CASE file' = file
      BY <3>1, <3>3
    <3> QED
      BY <1>11, <3>1, <3>2, <3>3 DEF Truncate
  <2>2. pc' \in [Proc -> PCs]
    BY <1>11 DEF Truncate, TypeOK, PCs
  <2>3. \A q \in Proc : pc'[q] \in {"truncate", "write", "read"} <=> fd'[q] # 0
    BY <1>11 DEF Truncate, TypeOK
  <2> QED
    BY <1>11, <2>1, <2>2, <2>3 DEF Truncate, TypeOK
<1>12. ASSUME WriteUnit(p)
       PROVE  TypeOK'
  <2>1. file[fd[p]] \in Seq(Unit) /\ pos[p] + 1 \in Nat \ {0} /\ val[p] \in Unit
    BY <1>12 DEF WriteUnit, TypeOK, Unit
  <2>2. Overlay(file[fd[p]], pos[p] + 1, val[p]) \in Seq(Unit)
    BY <2>1, OverlayType
  <2>3. file' \in Seq(Seq(Unit)) /\ Len(file') = Len(file)
    BY <1>12, <2>2 DEF WriteUnit, TypeOK
  <2>4. pos' \in [Proc -> Nat]
    BY <1>12, SMTT(30) DEF WriteUnit, TypeOK
  <2> QED
    BY <1>12, <2>3, <2>4 DEF WriteUnit, TypeOK
<1>13. ASSUME ReadUnit(p)
       PROVE  TypeOK'
  <2>1. file[fd[p]] \in Seq(Unit) /\ pos[p] \in Nat /\ buf[p] \in Seq(Unit)
    BY <1>13 DEF ReadUnit, TypeOK
  <2>2. file[fd[p]][pos[p] + 1] \in Unit
    BY <1>13, <2>1 DEF ReadUnit
  <2>3. buf' \in [Proc -> Seq(Unit)] /\ pos' \in [Proc -> Nat]
    <3>1. Append(buf[p], file[fd[p]][pos[p] + 1]) \in Seq(Unit)
      BY <2>1, <2>2
    <3>2. buf \in [Proc -> Seq(Unit)] /\ pos \in [Proc -> Nat]
      BY DEF TypeOK
    <3>3. buf' \in [Proc -> Seq(Unit)]
      BY <1>13, <3>1, <3>2, Zenon DEF ReadUnit
    <3>4. pos' \in [Proc -> Nat]
      BY <1>13, <3>2 DEF ReadUnit
    <3> QED
      BY <3>3, <3>4
  <2> QED
    BY <1>13, <2>3 DEF ReadUnit, TypeOK
<1> QED
  BY <1>1, <1>2, <1>3, <1>4, <1>5, <1>6, <1>7, <1>8, <1>9, <1>10, <1>11, <1>12, <1>13
     DEF FsCall, SmartStep, FsStep

(***************************************************************************)
(* Every variable has its type, for any number of processes, keys, blocks, *)
(* crashes and failing system calls.                                       *)
(***************************************************************************)
THEOREM SmartTypeCorrect == Spec => []TypeOK
<1>1. FsInit => TypeOK
  <2> SUFFICES ASSUME FsInit PROVE TypeOK
    OBVIOUS
  <2>1. AnyKey \in Key /\ AnyValue \in Value
    BY DEF AnyKey, AnyValue
  <2>2. file = <<>> /\ file \in Seq(Seq(Unit)) /\ Len(file) = 0
    BY DEF FsInit
  <2>3. /\ entry \in [Key -> 0..Len(file)] /\ fd \in [Proc -> 0..Len(file)]
        /\ damaged \subseteq 1..Len(file) /\ dirs \subseteq Dirs
    BY <2>2 DEF FsInit
  <2>4. /\ pc \in [Proc -> PCs] /\ key \in [Proc -> Key] /\ val \in [Proc -> Value]
        /\ newDir \in [Proc -> BOOLEAN] /\ pos \in [Proc -> Nat]
        /\ ret \in [Proc -> Results] /\ alone \in [Proc -> BOOLEAN]
    BY <2>1 DEF FsInit, PCs, Results
  <2>5. /\ buf \in [Proc -> Seq(Unit)]
        /\ \A p \in Proc : pc[p] \in {"truncate", "write", "read"} <=> fd[p] # 0
        /\ ops \in Nat /\ crashes \in Nat /\ errors \in Nat
    BY DEF FsInit
  <2> QED
    BY <2>2, <2>3, <2>4, <2>5 DEF TypeOK
<1>2. TypeOK /\ [Next]_fsVars => TypeOK'
  <2>1. ASSUME TypeOK, UNCHANGED fsVars PROVE TypeOK'
    BY <2>1 DEF TypeOK, fsVars
  <2> QED
    BY <2>1, TypeStep
<1> QED
  BY <1>1, <1>2, PTL DEF Spec

-----------------------------------------------------------------------------
(* The steps, by what they do to files, descriptors and locals. *)

OthersKeep(p) ==
    \A q \in Proc : q # p =>
        /\ pc'[q] = pc[q] /\ key'[q] = key[q] /\ val'[q] = val[q]
        /\ fd'[q] = fd[q] /\ pos'[q] = pos[q] /\ buf'[q] = buf[q]

(* An operation ends. *)
Closes(p) ==
    /\ OthersKeep(p)
    /\ pc'[p] = "idle" /\ fd'[p] = 0 /\ pos'[p] = 0 /\ buf'[p] = <<>>
    /\ \A q \in Proc : q # p => alone'[q] = alone[q]
    /\ UNCHANGED <<entry, file>> /\ damaged \subseteq damaged'
    /\ pc[p] = "truncate" \/ (pc[p] = "write" /\ pos[p] # Size[val[p]])
           => fd[p] \in damaged'

(* Nothing is opened or closed; an entry may go. *)
Prepares(p) ==
    /\ OthersKeep(p)
    /\ pc[p] \notin {"truncate", "write", "read"}
    /\ pc'[p] \in {"stat", "open", "mkdir", "rmdir"}
    /\ pc'[p] # "rmdir" => val'[p] \in Allowed[key'[p]]
    /\ \A k \in Key : entry'[k] \in {0, entry[k]}
    /\ UNCHANGED <<file, fd, pos, buf, alone, damaged>>

(* A file is opened for reading. *)
OpensForRead(p) ==
    \E k \in Key :
        /\ OthersKeep(p)
        /\ pc[p] = "idle" /\ entry[k] # 0
        /\ key'[p] = k /\ fd'[p] = entry[k] /\ pc'[p] = "read"
        /\ alone' = [alone EXCEPT ![p] = Writers(entry[k]) = {}]
        /\ UNCHANGED <<pos, buf, entry, file, damaged>>

(* One of the kinds of step. *)
Steps(p) == \/ Closes(p) \/ Prepares(p) \/ OpensForRead(p)
            \/ OpenForWrite(p) \/ Truncate(p) \/ WriteUnit(p) \/ ReadUnit(p)

(* The end of an operation, seen from the others. *)
LEMMA ReturnCloses ==
  ASSUME TypeOK, NEW p \in Proc, NEW r, Return(p, r)
  PROVE  /\ OthersKeep(p)
         /\ pc'[p] = "idle" /\ fd'[p] = 0 /\ pos'[p] = 0 /\ buf'[p] = <<>>
         /\ \A q \in Proc : q # p => alone'[q] = alone[q]
  BY DEF TypeOK, Return, OthersKeep

(* The step of one process is of one of these kinds. *)
LEMMA StepKinds ==
  ASSUME TypeOK, LocalInv, Next
  PROVE  \E p \in Proc : Steps(p)
<1>1. PICK p \in Proc : \/ \E k \in Key : FsCall(p, k)
                        \/ \E k \in Key : \E v \in Allowed[k] : SmartWriteBlock(p, k, v)
                        \/ SmartStep(p)
                        \/ Crash(p)
  BY DEF Next
<1>2. ASSUME NEW k \in Key, NEW v \in Allowed[k],
             WriteBlock(p, k, v) \/ SmartWriteBlock(p, k, v)
      PROVE  Prepares(p)
  BY <1>2 DEF WriteBlock, SmartWriteBlock, Begin, TypeOK, Prepares, OthersKeep
<1>3. ASSUME NEW k \in Key, DeleteBlock(p, k)
      PROVE  Closes(p) \/ Prepares(p)
  <2>1. CASE entry[k] = 0
    <3>1. Return(p, "unavail") /\ pc[p] = "idle" /\ UNCHANGED <<entry, file, damaged>>
      BY <1>3, <2>1 DEF DeleteBlock, Begin
    <3> QED
      BY <3>1, ReturnCloses DEF Closes
  <2>2. CASE entry[k] # 0
    <3>1. /\ entry' = [entry EXCEPT ![k] = 0] /\ key' = [key EXCEPT ![p] = k]
          /\ pc' = [pc EXCEPT ![p] = "rmdir"] /\ pc[p] = "idle"
          /\ UNCHANGED <<val, fd, pos, buf, alone, file, damaged>>
      BY <1>3, <2>2 DEF DeleteBlock, Begin
    <3> QED
      BY <3>1 DEF TypeOK, Prepares, OthersKeep
  <2> QED
    BY <2>1, <2>2
<1>4. ASSUME NEW k \in Key, ReadBlock(p, k)
      PROVE  Closes(p) \/ OpensForRead(p)
  <2>1. CASE entry[k] = 0
    <3>1. Return(p, "unavail") /\ pc[p] = "idle" /\ UNCHANGED <<entry, file, damaged>>
      BY <1>4, <2>1 DEF ReadBlock, Begin
    <3> QED
      BY <3>1, ReturnCloses DEF Closes
  <2>2. CASE entry[k] # 0
    <3>1. /\ key' = [key EXCEPT ![p] = k] /\ fd' = [fd EXCEPT ![p] = entry[k]]
          /\ pc' = [pc EXCEPT ![p] = "read"] /\ pc[p] = "idle"
          /\ alone' = [alone EXCEPT ![p] = Writers(entry[k]) = {}]
          /\ UNCHANGED <<val, pos, buf, entry, file, damaged>>
      BY <1>4, <2>2 DEF ReadBlock, Begin
    <3>2. OthersKeep(p) /\ key'[p] = k /\ fd'[p] = entry[k] /\ pc'[p] = "read"
      BY <3>1 DEF TypeOK, OthersKeep
    <3> QED
      BY <2>2, <3>1, <3>2 DEF OpensForRead
  <2> QED
    BY <2>1, <2>2
<1>5. ASSUME FirstCallFails(p) \/ SmartStatFails(p) \/ CallFails(p) \/ WriteFails(p)
      PROVE  Closes(p)
  <2>1. Return(p, "error")
    BY <1>5 DEF FirstCallFails, SmartStatFails, CallFails, WriteFails
  <2> QED
    BY <1>5, <2>1, ReturnCloses
       DEF FirstCallFails, SmartStatFails, CallFails, WriteFails, Begin, Closes
<1>6. ASSUME WriteDone(p) \/ ReadDone(p) \/ SmartExists(p)
      PROVE  Closes(p)
  <2>1. Return(p, "ok")
    BY <1>6 DEF WriteDone, ReadDone, SmartExists
  <2> QED
    BY <1>6, <2>1, ReturnCloses DEF WriteDone, ReadDone, SmartExists, Closes
<1>7. ASSUME RemoveDir(p)
      PROVE  Closes(p)
  BY <1>7, ReturnCloses DEF RemoveDir, Closes
<1>8. ASSUME Crash(p)
      PROVE  Closes(p)
  BY <1>8, ReturnCloses DEF Crash, Closes
<1>9. ASSUME OpenFindsNoDir(p) \/ MakeDir(p) \/ SmartAbsent(p)
      PROVE  Prepares(p)
  BY <1>9 DEF OpenFindsNoDir, MakeDir, SmartAbsent, TypeOK, LocalInv, Prepares, OthersKeep
<1> QED
  BY <1>1, <1>2, <1>3, <1>4, <1>5, <1>6, <1>7, <1>8, <1>9
     DEF FsCall, SmartStep, FsStep, Steps

(* The file that chop_fs_write_block opens: the block's, or a new one. *)
Opened(p) == IF entry[key[p]] = 0 THEN FreeFile ELSE entry[key[p]]

(* The step of p creates file f. *)
Creates(p, f) == OpenForWrite(p) /\ entry[key[p]] = 0 /\ f = Opened(p)

(* Opening for writing, variable by variable. *)
LEMMA OpenFacts ==
  ASSUME TypeOK, NEW p \in Proc, OpenForWrite(p)
  PROVE  /\ OthersKeep(p) /\ pc[p] = "open" /\ pc'[p] \in {"write", "truncate"}
         /\ key'[p] = key[p] /\ val'[p] = val[p] /\ pos' = pos /\ buf' = buf
         /\ fd'[p] = Opened(p) /\ Opened(p) \in Nat \ {0}
         /\ \A k \in Key : entry'[k] = IF k = key[p] THEN Opened(p) ELSE entry[k]
         /\ \A q \in Proc : q # p /\ alone'[q] => alone[q] /\ fd[q] # Opened(p)
<1>1. /\ pc[p] = "open" /\ pos' = pos /\ buf' = buf
      /\ entry' = [entry EXCEPT ![key[p]] = Opened(p)]
      /\ fd' = [fd EXCEPT ![p] = Opened(p)]
      /\ pc' = [pc EXCEPT ![p] = IF newDir[p] THEN "write" ELSE "truncate"]
      /\ UNCHANGED <<key, val>>
      /\ alone' = [q \in Proc |-> IF q = p THEN Writers(Opened(p)) = {}
                                           ELSE alone[q] /\ fd[q] # Opened(p)]
  BY DEF OpenForWrite, Opened
<1>2. Opened(p) \in Nat \ {0} /\ key[p] \in Key
  <2>1. key[p] \in Key /\ entry[key[p]] \in 0..Len(file) /\ Len(file) \in Nat
    BY DEF TypeOK
  <2> QED
    BY <2>1, FreeFileIsFree DEF Opened
<1>3. OthersKeep(p) /\ pc'[p] \in {"write", "truncate"} /\ fd'[p] = Opened(p)
  BY <1>1 DEF TypeOK, OthersKeep
<1>4. \A k \in Key : entry'[k] = IF k = key[p] THEN Opened(p) ELSE entry[k]
  BY <1>1, <1>2 DEF TypeOK
<1>5. \A q \in Proc : q # p /\ alone'[q] => alone[q] /\ fd[q] # Opened(p)
  BY <1>1
<1> QED
  BY <1>1, <1>2, <1>3, <1>4, <1>5

(* The files after it: the new one is empty and was no one's, the others   *)
(* are as they were.                                                       *)
LEMMA OpenFiles ==
  ASSUME TypeOK, NEW p \in Proc, OpenForWrite(p)
  PROVE  /\ Len(file) \in Nat
         /\ \/ entry[key[p]] # 0 /\ file' = file /\ damaged' = damaged
            \/ /\ entry[key[p]] = 0 /\ Opened(p) \notin Used
               /\ file'[Opened(p)] = <<>> /\ damaged' = damaged \ {Opened(p)}
               /\ 1..Len(file') = 1..Len(file) \cup {Opened(p)}
               /\ \A f \in 1..Len(file) : f # Opened(p) => file'[f] = file[f]
<1>1. file \in Seq(Seq(Unit)) /\ <<>> \in Seq(Unit)
  BY DEF TypeOK
<1>2. CASE entry[key[p]] # 0
  BY <1>1, <1>2 DEF OpenForWrite
<1>3. CASE entry[key[p]] = 0
  <2>1. /\ Opened(p) \in 1..(Len(file) + 1) /\ Opened(p) \notin Used
        /\ damaged' = damaged \ {Opened(p)}
    BY <1>3, FreeFileIsFree DEF OpenForWrite, Opened
  <2>2. CASE Opened(p) > Len(file)
    <3>1. file' = Append(file, <<>>) /\ Opened(p) = Len(file) + 1
      BY <1>1, <1>3, <2>1, <2>2 DEF OpenForWrite, Opened
    <3> QED
      BY <1>1, <1>3, <2>1, <3>1
  <2>3. CASE ~(Opened(p) > Len(file))
    <3>1. file' = [file EXCEPT ![Opened(p)] = <<>>] /\ Opened(p) \in 1..Len(file)
      BY <1>1, <1>3, <2>1, <2>3 DEF OpenForWrite, Opened
    <3> QED
      BY <1>1, <1>3, <2>1, <3>1
  <2> QED
    BY <2>2, <2>3
<1> QED
  BY <1>2, <1>3

(* ftruncate, if it works, empties the file. *)
LEMMA TruncateFacts ==
  ASSUME TypeOK, NEW p \in Proc, Truncate(p)
  PROVE  /\ OthersKeep(p) /\ pc[p] = "truncate" /\ pc'[p] = "write"
         /\ fd[p] \in 1..Len(file) /\ Len(file') = Len(file)
         /\ \A f \in 1..Len(file) : \/ file'[f] = file[f]
                                    \/ f = fd[p] /\ file'[f] = <<>>
         /\ UNCHANGED <<entry, key, val, fd, pos, buf, alone, damaged>>
<1>1. /\ OthersKeep(p) /\ pc[p] = "truncate" /\ pc'[p] = "write"
      /\ fd[p] \in 1..Len(file) /\ file \in Seq(Seq(Unit))
      /\ UNCHANGED <<entry, key, val, fd, pos, buf, alone, damaged>>
  BY DEF TypeOK, Truncate, OthersKeep
<1>2. CASE file' = [file EXCEPT ![fd[p]] = <<>>]
  BY <1>1, <1>2
<1>3. CASE file' = file
  BY <1>1, <1>3
<1> QED
  BY <1>1, <1>2, <1>3 DEF Truncate

(* write(2) puts the writer's value into one unit, and holes before it. *)
LEMMA WriteFacts ==
  ASSUME TypeOK, LocalInv, NEW p \in Proc, WriteUnit(p)
  PROVE  /\ OthersKeep(p) /\ pc[p] = "write" /\ pc' = pc
         /\ pos[p] \in Nat /\ pos[p] < Size[val[p]] /\ pos'[p] = pos[p] + 1
         /\ fd[p] \in 1..Len(file) /\ Len(file') = Len(file)
         /\ \A f \in 1..Len(file) : f # fd[p] => file'[f] = file[f]
         /\ file'[fd[p]] = Overlay(file[fd[p]], pos[p] + 1, val[p])
         /\ UNCHANGED <<entry, key, val, fd, buf, alone, damaged>>
<1>1. /\ pc[p] = "write" /\ pc' = pc /\ pos[p] \in Nat /\ pos[p] < Size[val[p]]
      /\ pos' = [pos EXCEPT ![p] = @ + 1] /\ pos \in [Proc -> Nat]
      /\ fd[p] \in 1..Len(file) /\ file \in Seq(Seq(Unit))
      /\ UNCHANGED <<entry, key, val, fd, buf, alone, damaged>>
  BY DEF TypeOK, WriteUnit
<1>2. file' = [file EXCEPT ![fd[p]] = Overlay(file[fd[p]], pos[p] + 1, val[p])]
  BY DEF WriteUnit
<1>3. /\ Len(file') = Len(file)
      /\ \A f \in 1..Len(file) : f # fd[p] => file'[f] = file[f]
      /\ file'[fd[p]] = Overlay(file[fd[p]], pos[p] + 1, val[p])
  BY <1>1, <1>2
<1>4. pos'[p] = pos[p] + 1 /\ OthersKeep(p)
  BY <1>1 DEF OthersKeep
<1> QED
  BY <1>1, <1>3, <1>4

(* read(2) appends one unit of the file to the buffer. *)
LEMMA ReadFacts ==
  ASSUME TypeOK, NEW p \in Proc, ReadUnit(p)
  PROVE  /\ OthersKeep(p) /\ pc[p] = "read" /\ pc' = pc
         /\ pos[p] \in Nat /\ pos[p] < Len(file[fd[p]]) /\ pos'[p] = pos[p] + 1
         /\ buf'[p] = Append(buf[p], file[fd[p]][pos[p] + 1])
         /\ UNCHANGED <<entry, file, key, val, fd, alone, damaged>>
  BY DEF TypeOK, ReadUnit, OthersKeep

(* Nobody else moves. *)
LEMMA StepsKeepOthers ==
  ASSUME TypeOK, LocalInv, NEW p \in Proc, Steps(p)
  PROVE  OthersKeep(p)
  BY OpenFacts, TruncateFacts, WriteFacts, ReadFacts
     DEF Steps, Closes, Prepares, OpensForRead

-----------------------------------------------------------------------------
(* The locals stay in order. *)
LEMMA LocalStep ==
  ASSUME TypeOK, LocalInv, NEW p \in Proc, Steps(p)
  PROVE  LocalInv'
<1>1. OthersKeep(p)
  BY StepsKeepOthers
<1>2. ASSUME NEW q \in Proc, q # p
      PROVE  /\ pc'[q] \notin {"write", "read"} => pos'[q] = 0
             /\ pc'[q] # "read" => buf'[q] = <<>>
             /\ pc'[q] = "write" => pos'[q] <= Size[val'[q]]
             /\ pc'[q] \in {"stat", "open", "mkdir", "truncate", "write"}
                    => val'[q] \in Allowed[key'[q]]
  BY <1>1, <1>2 DEF LocalInv, OthersKeep
<1>3. /\ pc'[p] \notin {"write", "read"} => pos'[p] = 0
      /\ pc'[p] # "read" => buf'[p] = <<>>
      /\ pc'[p] = "write" => pos'[p] <= Size[val'[p]]
      /\ pc'[p] \in {"stat", "open", "mkdir", "truncate", "write"}
             => val'[p] \in Allowed[key'[p]]
  <2>1. CASE Closes(p)
    BY <2>1 DEF Closes
  <2>2. CASE Prepares(p)
    BY <2>2 DEF Prepares, LocalInv
  <2>3. CASE OpensForRead(p)
    BY <2>3 DEF OpensForRead
  <2>4. CASE OpenForWrite(p) \/ Truncate(p)
    <3>1. val[p] \in Value /\ Size[val[p]] \in Nat /\ val'[p] = val[p] /\ key'[p] = key[p]
      BY <2>4, OpenFacts, TruncateFacts DEF TypeOK
    <3>2. /\ pc[p] \in {"open", "truncate"} /\ pos'[p] = pos[p] /\ buf'[p] = buf[p]
          /\ pc'[p] \in {"write", "truncate"}
      BY <2>4, OpenFacts, TruncateFacts
    <3> QED
      BY <3>1, <3>2 DEF LocalInv
  <2>5. CASE WriteUnit(p)
    <3>1. val[p] \in Value /\ Size[val[p]] \in Nat /\ val'[p] = val[p] /\ key'[p] = key[p]
      BY <2>5, WriteFacts DEF TypeOK
    <3> QED
      BY <2>5, <3>1, WriteFacts DEF LocalInv
  <2>6. CASE ReadUnit(p)
    BY <2>6, ReadFacts
  <2> QED
    BY <2>1, <2>2, <2>3, <2>4, <2>5, <2>6 DEF Steps
<1> QED
  BY <1>2, <1>3 DEF LocalInv

(* A file that exists gets no new name. *)
LEMMA NamesStep ==
  ASSUME TypeOK, LocalInv, NEW p \in Proc, Steps(p), NEW f \in 1..Len(file),
         ~Creates(p, f), NEW k \in Key, Names(k, f)'
  PROVE  Names(k, f)
<1>0. Len(file) \in Nat /\ f # 0 /\ key[p] \in Key
  BY SMTT(30) DEF TypeOK
<1>1. CASE entry'[k] = f
  <2>1. CASE entry'[k] = entry[k]
    BY <1>1, <2>1 DEF Names
  <2>2. CASE Prepares(p)
    BY <1>0, <1>1, <2>2 DEF Prepares, Names
  <2>3. CASE OpenForWrite(p)
    BY <1>0, <1>1, <2>3, OpenFacts DEF Creates, Opened, Names
  <2> QED
    BY <2>1, <2>2, <2>3, TruncateFacts, WriteFacts, ReadFacts
       DEF Steps, Closes, OpensForRead
<1>2. ASSUME NEW q \in Proc, q # p, fd'[q] = f, key'[q] = k
      PROVE  Names(k, f)
  BY <1>2, StepsKeepOthers DEF OthersKeep, Names
<1>3. ASSUME fd'[p] = f, key'[p] = k
      PROVE  Names(k, f)
  <2>1. ~Closes(p)
    BY <1>0, <1>3 DEF Closes
  <2>2. ~Prepares(p)
    BY <1>0, <1>3 DEF Prepares, TypeOK
  <2>3. CASE OpensForRead(p)
    BY <1>3, <2>3 DEF OpensForRead, Names
  <2>4. CASE OpenForWrite(p)
    BY <1>0, <1>3, <2>4, OpenFacts DEF Creates, Opened, Names
  <2>5. CASE Truncate(p) \/ WriteUnit(p) \/ ReadUnit(p)
    <3>1. fd' = fd /\ key' = key
      BY <2>5, TruncateFacts, WriteFacts, ReadFacts
    <3> QED
      BY <1>3, <3>1 DEF Names
  <2> QED
    BY <2>1, <2>2, <2>3, <2>4, <2>5 DEF Steps
<1> QED
  BY <1>1, <1>2, <1>3 DEF Names

(* A file that appears was created by the step, for its key. *)
LEMMA NewFile ==
  ASSUME TypeOK, LocalInv, NEW p \in Proc, Steps(p),
         NEW f \in 1..Len(file'), f \in 1..Len(file) => Creates(p, f)
  PROVE  /\ Creates(p, f) /\ file'[f] = <<>>
         /\ \A k \in Key : Names(k, f)' => k = key[p]
<1>1. Creates(p, f)
  <2>1. CASE file' = file
    BY <2>1
  <2>2. CASE Truncate(p) \/ WriteUnit(p)
    BY <2>2, TruncateFacts, WriteFacts
  <2>3. CASE OpenForWrite(p)
    BY <2>1, <2>3, OpenFiles DEF Creates
  <2> QED
    BY <2>1, <2>2, <2>3, ReadFacts DEF Steps, Closes, Prepares, OpensForRead
<1>2. f = Opened(p) /\ file'[f] = <<>> /\ f \notin Used
  BY <1>1, OpenFiles DEF Creates
<1>3. ASSUME NEW k \in Key, entry'[k] = f
      PROVE  k = key[p]
  BY <1>1, <1>2, <1>3, OpenFacts DEF Creates, Used
<1>4. ASSUME NEW k \in Key, NEW q \in Proc, fd'[q] = f, key'[q] = k
      PROVE  k = key[p]
  <2>1. fd[q] # f
    BY <1>2 DEF Used
  <2>2. q = p
    BY <1>1, <1>4, <2>1, OpenFacts DEF OthersKeep, Creates
  <2> QED
    BY <1>1, <1>4, <2>2, OpenFacts DEF Creates
<1> QED
  BY <1>1, <1>2, <1>3, <1>4 DEF Names

(* Each file keeps to one key. *)
LEMMA OneKeyStep ==
  ASSUME TypeOK, LocalInv, OneKeyPerFile, NEW p \in Proc, Steps(p)
  PROVE  OneKeyPerFile'
<1> SUFFICES ASSUME NEW f \in 1..Len(file'), NEW k \in Key, NEW l \in Key,
                    Names(k, f)', Names(l, f)'
             PROVE  k = l
  BY DEF OneKeyPerFile
<1>1. CASE f \in 1..Len(file) /\ ~Creates(p, f)
  <2>1. Names(k, f) /\ Names(l, f)
    BY <1>1, NamesStep
  <2> QED
    BY <1>1, <2>1 DEF OneKeyPerFile
<1>2. CASE f \in 1..Len(file) => Creates(p, f)
  <2>1. k = key[p] /\ l = key[p]
    BY <1>2, NewFile
  <2> QED
    BY <2>1
<1> QED
  BY <1>1, <1>2

-----------------------------------------------------------------------------
(* A process that has a file open goes on pending, unless it moves. *)
LEMMA PendingOthers ==
  ASSUME TypeOK, NEW p \in Proc, OthersKeep(p), NEW f, NEW i,
         Pending(f, i), ~Pending(f, i)'
  PROVE  fd[p] = f /\ (pc[p] = "truncate" \/ (pc[p] = "write" /\ pos[p] < i))
<1>1. PICK q \in Proc : fd[q] = f /\ (pc[q] = "truncate" \/ (pc[q] = "write" /\ pos[q] < i))
  BY DEF Pending
<1>2. CASE q # p
  BY <1>1, <1>2 DEF OthersKeep, Pending
<1> QED
  BY <1>1, <1>2

(* The value a writer writes is the block of the file. *)
LEMMA WriterValue ==
  ASSUME ContentAddressed, TypeOK, LocalInv, OneKeyPerFile,
         NEW p \in Proc, pc[p] \in {"truncate", "write"}, fd[p] \in 1..Len(file),
         NEW k \in Key, Names(k, fd[p]), NEW v \in Allowed[k]
  PROVE  val[p] = v
<1>1. Names(key[p], fd[p]) /\ key[p] \in Key
  BY DEF Names, TypeOK
<1>2. key[p] = k /\ val[p] \in Allowed[key[p]]
  BY <1>1 DEF OneKeyPerFile, LocalInv
<1> QED
  BY <1>2 DEF ContentAddressed

(* What RightOrPending says of one file and one block. *)
Sound(f, v) ==
    /\ Len(file[f]) <= Size[v]
    /\ f \notin damaged => \A i \in 1..Size[v] : Right(f, i, v) \/ Pending(f, i)

(* Steps that write to no file leave each unit right or pending. *)
LEMMA SoundUnwritten ==
  ASSUME ContentAddressed, TypeOK, LocalInv, OneKeyPerFile,
         NEW p \in Proc, Closes(p) \/ Prepares(p) \/ OpensForRead(p) \/ OpenForWrite(p)
                         \/ ReadUnit(p),
         NEW f \in 1..Len(file), ~Creates(p, f), NEW k \in Key, Names(k, f), NEW v \in Allowed[k],
         Sound(f, v)
  PROVE  Sound(f, v)'
<1>0. OthersKeep(p) /\ file'[f] = file[f] /\ (f \in damaged => f \in damaged')
      /\ v \in Value /\ Size[v] \in Nat
  <2>1. v \in Value /\ Size[v] \in Nat
    OBVIOUS
  <2>2. CASE OpenForWrite(p)
    BY <2>1, <2>2, OpenFacts, OpenFiles DEF Creates
  <2>3. CASE ReadUnit(p)
    BY <2>1, <2>3, ReadFacts
  <2> QED
    BY <2>1, <2>2, <2>3 DEF Closes, Prepares, OpensForRead
<1>1. SUFFICES ASSUME f \notin damaged', NEW i \in 1..Size[v], ~Right(f, i, v)
               PROVE  Pending(f, i)'
  BY <1>0 DEF Sound, Right
<1>2. Pending(f, i)
  BY <1>0, <1>1 DEF Sound
<1>3. SUFFICES ASSUME ~Pending(f, i)'
               PROVE  FALSE
  OBVIOUS
<1>4. fd[p] = f /\ (pc[p] = "truncate" \/ (pc[p] = "write" /\ pos[p] < i))
  BY <1>0, <1>2, <1>3, PendingOthers
<1>5. Closes(p)
  BY <1>4, OpenFacts, ReadFacts DEF Prepares, OpensForRead
<1>6. pc[p] = "write" /\ pos[p] = Size[val[p]]
  BY <1>1, <1>4, <1>5 DEF Closes
<1>7. val[p] = v
  BY <1>4, WriterValue
<1> QED
  BY <1>0, <1>4, <1>6, <1>7

(* ftruncate makes every unit pending. *)
LEMMA SoundTruncated ==
  ASSUME TypeOK, NEW p \in Proc, Truncate(p),
         NEW f \in 1..Len(file), NEW k \in Key, Names(k, f), NEW v \in Allowed[k],
         LocalInv, Sound(f, v)
  PROVE  Sound(f, v)'
<1>1. Size[v] \in Nat
  OBVIOUS
<1>2. CASE f # fd[p]
  <2>1. file'[f] = file[f] /\ damaged' = damaged
    BY <1>2, TruncateFacts
  <2>2. \A i \in 1..Size[v] : Pending(f, i) => Pending(f, i)'
    BY <1>2, TruncateFacts, PendingOthers
  <2> QED
    BY <2>1, <2>2 DEF Sound, Right
<1>3. CASE f = fd[p]
  <2>1. Len(file'[f]) <= Size[v]
    BY <1>1, <1>3, TruncateFacts DEF Sound
  <2>2. pos'[p] = 0 /\ fd'[p] = f /\ pc'[p] = "write"
    BY <1>3, TruncateFacts DEF LocalInv
  <2>3. \A i \in 1..Size[v] : Pending(f, i)'
    BY <1>1, <2>2 DEF Pending
  <2> QED
    BY <2>1, <2>3 DEF Sound
<1> QED
  BY <1>2, <1>3

(* write(2) makes its unit right; the holes it may leave are pending. *)
LEMMA SoundWritten ==
  ASSUME ContentAddressed, TypeOK, LocalInv, OneKeyPerFile, NEW p \in Proc, WriteUnit(p),
         NEW f \in 1..Len(file), NEW k \in Key, Names(k, f), NEW v \in Allowed[k],
         Sound(f, v)
  PROVE  Sound(f, v)'
<1>1. Size[v] \in Nat /\ v \in Unit
  BY DEF Unit
<1>2. CASE f # fd[p]
  <2>1. file'[f] = file[f] /\ damaged' = damaged
    BY <1>2, WriteFacts
  <2>2. \A i \in 1..Size[v] : Pending(f, i) => Pending(f, i)'
    BY <1>2, WriteFacts, PendingOthers
  <2> QED
    BY <2>1, <2>2 DEF Sound, Right
<1>3. CASE f = fd[p]
  <2>1. val[p] = v
    BY <1>3, WriteFacts, WriterValue
  <2>2. PICK c \in Seq(Unit) : c = file[f]
    BY SMTT(30) DEF TypeOK
  <2>3. pos[p] \in Nat /\ pos[p] < Size[v] /\ damaged' = damaged
    BY <2>1, WriteFacts
  <2>4. PICK n \in Nat \ {0} : n = pos[p] + 1 /\ n <= Size[v]
    BY <1>1, <2>3
  <2>5. Len(c) <= Size[v] /\ Len(c) \in Nat /\ damaged' = damaged
    BY <2>2, <2>3 DEF Sound
  <2>6. file'[f] = Overlay(c, n, v)
    BY <1>3, <2>1, <2>2, <2>4, WriteFacts
  <2>7. /\ Len(file'[f]) = IF n > Len(c) THEN n ELSE Len(c)
        /\ \A j \in 1..Len(file'[f]) :
              file'[f][j] = IF j = n THEN v ELSE IF j <= Len(c) THEN c[j] ELSE Hole
    <3>1. Overlaid(Overlay(c, n, v), c, n, v)
      BY <1>1, OverlayType
    <3>2. Overlaid(file'[f], c, n, v)
      BY <2>6, <3>1, Zenon
    <3> QED
      BY <3>2, Zenon DEF Overlaid
  <2>8. ASSUME NEW i \in 1..Size[v], Right(f, i, v) \/ Pending(f, i)
        PROVE  Right(f, i, v)' \/ Pending(f, i)'
    <3>1. CASE i = n
      BY <2>5, <2>7, <3>1 DEF Right
    <3>2. CASE i # n /\ Right(f, i, v)
      BY <2>2, <2>5, <2>7, <3>2 DEF Right
    <3>3. CASE i # n /\ Pending(f, i)
      <4>1. SUFFICES ASSUME ~Pending(f, i)'
                     PROVE  FALSE
        OBVIOUS
      <4>2. pos[p] < i
        BY <3>3, <4>1, PendingOthers, WriteFacts
      <4>3. fd'[p] = f /\ pc'[p] = "write" /\ pos'[p] < i
        <5>1. pos[p] + 1 < i
          BY <1>1, <2>3, <2>4, <3>3, <4>2
        <5> QED
          BY <1>3, <5>1, WriteFacts
      <4> QED
        BY <4>1, <4>3 DEF Pending
    <3> QED
      BY <2>8, <3>1, <3>2, <3>3
  <2>9. Len(file'[f]) <= Size[v]
    BY <1>1, <2>4, <2>5, <2>7
  <2>10. f \notin damaged' => \A i \in 1..Size[v] : Right(f, i, v)' \/ Pending(f, i)'
    BY <2>5, <2>8 DEF Sound
  <2> QED
    BY <2>9, <2>10 DEF Sound
<1> QED
  BY <1>2, <1>3

(* Each unit of each file is right or pending after the step, too. *)
LEMMA RightOrPendingStep ==
  ASSUME ContentAddressed, TypeOK, LocalInv, OneKeyPerFile, RightOrPending,
         NEW p \in Proc, Steps(p)
  PROVE  RightOrPending'
<1> SUFFICES ASSUME NEW f \in 1..Len(file'), NEW k \in Key, Names(k, f)'
             PROVE  Allowed[k] # {} /\ \A v \in Allowed[k] : Sound(f, v)'
  BY DEF RightOrPending, Sound
<1>1. CASE f \in 1..Len(file) /\ ~Creates(p, f)
  <2>1. Names(k, f)
    BY <1>1, NamesStep
  <2>2. Allowed[k] # {} /\ \A v \in Allowed[k] : Sound(f, v)
    BY <1>1, <2>1 DEF RightOrPending, Sound
  <2> QED
    BY <1>1, <2>1, <2>2, SoundUnwritten, SoundTruncated, SoundWritten DEF Steps
<1>2. CASE f \in 1..Len(file) => Creates(p, f)
  <2>1. OpenForWrite(p) /\ f = Opened(p) /\ file'[f] = <<>> /\ k = key[p]
    BY <1>2, NewFile DEF Creates
  <2>2. val[p] \in Allowed[k] /\ pos'[p] = 0 /\ fd'[p] = f /\ pc'[p] \in {"write", "truncate"}
    BY <2>1, OpenFacts DEF LocalInv
  <2>3. ASSUME NEW v \in Allowed[k]
        PROVE  Sound(f, v)'
    <3>1. Size[v] \in Nat /\ Len(file'[f]) = 0
      BY <2>1
    <3>2. \A i \in 1..Size[v] : Pending(f, i)'
      BY <2>2, <3>1 DEF Pending
    <3> QED
      BY <3>1, <3>2 DEF Sound
  <2> QED
    BY <2>2, <2>3
<1> QED
  BY <1>1, <1>2

-----------------------------------------------------------------------------
(* A reader's file is written by nobody who was not there before it. *)
LEMMA OtherReaderKept ==
  ASSUME TypeOK, LocalInv, ReadsPrefix, NEW p \in Proc, Steps(p),
         NEW q \in Proc, q # p, pc'[q] = "read", alone'[q]
  PROVE  /\ pc[q] = "read" /\ alone[q] /\ fd'[q] = fd[q]
         /\ (Writers(fd[q]) = {})' /\ file'[fd[q]] = file[fd[q]]
<1>1. pc[q] = "read" /\ fd'[q] = fd[q]
  BY StepsKeepOthers DEF OthersKeep
<1>2. alone[q]
  BY OpenFacts, TruncateFacts, WriteFacts, ReadFacts
     DEF Steps, Closes, Prepares, OpensForRead, TypeOK
<1>3. Writers(fd[q]) = {} /\ fd[q] \in 1..Len(file)
  BY <1>1, <1>2, SMTT(30) DEF ReadsPrefix, TypeOK
<1>4. fd'[p] = fd[q] => pc'[p] \notin {"truncate", "write"}
  <2>1. CASE OpenForWrite(p)
    BY <2>1, OpenFacts
  <2>2. CASE Truncate(p) \/ WriteUnit(p)
    BY <1>3, <2>2, TruncateFacts, WriteFacts DEF Writers
  <2>3. CASE ReadUnit(p)
    BY <2>3, ReadFacts
  <2> QED
    BY <2>1, <2>2, <2>3 DEF Steps, Closes, Prepares, OpensForRead
<1>5. (Writers(fd[q]) = {})'
  <2> SUFFICES ASSUME NEW w \in Proc, pc'[w] \in {"truncate", "write"}, fd'[w] = fd'[q]
               PROVE  FALSE
    BY DEF Writers
  <2>1. CASE w = p
    BY <1>1, <1>4, <2>1
  <2>2. CASE w # p
    <3>1. pc[w] \in {"truncate", "write"} /\ fd[w] = fd[q]
      BY <1>1, <2>2, StepsKeepOthers DEF OthersKeep
    <3> QED
      BY <1>3, <3>1 DEF Writers
  <2> QED
    BY <2>1, <2>2
<1>6. file'[fd[q]] = file[fd[q]]
  <2>1. CASE OpenForWrite(p)
    <3>1. fd[q] \in Used
      BY DEF Used
    <3> QED
      BY <1>3, <2>1, <3>1, OpenFiles
  <2>2. CASE Truncate(p) \/ WriteUnit(p)
    <3>1. fd[p] # fd[q]
      BY <1>3, <2>2, TruncateFacts, WriteFacts DEF Writers
    <3> QED
      BY <1>3, <2>2, <3>1, TruncateFacts, WriteFacts
  <2>3. CASE ReadUnit(p)
    BY <2>3, ReadFacts
  <2> QED
    BY <2>1, <2>2, <2>3 DEF Steps, Closes, Prepares, OpensForRead
<1> QED
  BY <1>1, <1>2, <1>5, <1>6

(* The reader that moves has one unit more of the same file. *)
LEMMA ReaderKept ==
  ASSUME TypeOK, LocalInv, ReadsPrefix, NEW p \in Proc, Steps(p),
         pc'[p] = "read", alone'[p]
  PROVE  /\ (Writers(fd[p]) = {})'
         /\ pos'[p] <= Len(file'[fd'[p]]) /\ Len(buf'[p]) = pos'[p]
         /\ \A i \in 1..pos'[p] : buf'[p][i] = file'[fd'[p]][i]
<1>1. OpensForRead(p) \/ ReadUnit(p)
  BY OpenFacts, TruncateFacts, WriteFacts DEF Steps, Closes, Prepares
<1>2. CASE OpensForRead(p)
  <2>1. PICK k \in Key : /\ OthersKeep(p) /\ pc[p] = "idle" /\ entry[k] # 0
                         /\ fd'[p] = entry[k] /\ pc'[p] = "read"
                         /\ alone' = [alone EXCEPT ![p] = Writers(entry[k]) = {}]
                         /\ UNCHANGED <<pos, buf, entry, file, damaged>>
    BY <1>2 DEF OpensForRead
  <2>2. Writers(entry[k]) = {}
    BY <2>1 DEF TypeOK
  <2>3. (Writers(fd[p]) = {})'
    BY <2>1, <2>2 DEF Writers, OthersKeep
  <2>4. pos'[p] = 0 /\ buf'[p] = <<>> /\ fd'[p] \in 1..Len(file) /\ file' = file
    BY <2>1, SMTT(30) DEF LocalInv, TypeOK
  <2>5. Len(file'[fd'[p]]) \in Nat
    BY <2>4, SMTT(30) DEF TypeOK
  <2> QED
    BY <2>3, <2>4, <2>5
<1>3. CASE ReadUnit(p)
  <2>1. /\ pc[p] = "read" /\ alone[p] /\ Writers(fd[p]) = {} /\ Len(buf[p]) = pos[p]
        /\ \A i \in 1..pos[p] : buf[p][i] = file[fd[p]][i]
    BY <1>3, ReadFacts DEF ReadsPrefix
  <2>2. (Writers(fd[p]) = {})'
    BY <1>3, <2>1, ReadFacts DEF Writers
  <2>3. /\ buf[p] \in Seq(Unit) /\ file[fd[p]] \in Seq(Unit) /\ pos[p] \in Nat
        /\ pos[p] < Len(file[fd[p]])
    <3>1. fd[p] \in 1..Len(file) /\ buf[p] \in Seq(Unit)
      BY <2>1 DEF TypeOK
    <3>2. file[fd[p]] \in Seq(Unit)
      BY <3>1 DEF TypeOK
    <3> QED
      BY <1>3, <3>1, <3>2, ReadFacts
  <2>4. file[fd[p]][pos[p] + 1] \in Unit
    BY <2>3
  <2>5. /\ Len(buf'[p]) = pos[p] + 1
        /\ \A i \in 1..(pos[p] + 1) : buf'[p][i] = file[fd[p]][i]
    <3>1. buf'[p] = Append(buf[p], file[fd[p]][pos[p] + 1])
      BY <1>3, ReadFacts
    <3> QED
      BY <2>1, <2>3, <2>4, <3>1
  <2>6. pos'[p] = pos[p] + 1 /\ file' = file /\ fd' = fd
    BY <1>3, ReadFacts
  <2> QED
    BY <2>2, <2>3, <2>5, <2>6
<1> QED
  BY <1>1, <1>2, <1>3

(* Readers keep their prefixes. *)
LEMMA ReadsPrefixStep ==
  ASSUME TypeOK, LocalInv, ReadsPrefix, NEW p \in Proc, Steps(p)
  PROVE  ReadsPrefix'
<1>1. ASSUME NEW q \in Proc, q # p, pc'[q] = "read", alone'[q]
      PROVE  /\ (Writers(fd[q]) = {})'
             /\ pos'[q] <= Len(file'[fd'[q]]) /\ Len(buf'[q]) = pos'[q]
             /\ \A i \in 1..pos'[q] : buf'[q][i] = file'[fd'[q]][i]
  <2>1. /\ pc[q] = "read" /\ alone[q] /\ fd'[q] = fd[q]
        /\ (Writers(fd[q]) = {})' /\ file'[fd[q]] = file[fd[q]]
    BY <1>1, OtherReaderKept
  <2>2. pos'[q] = pos[q] /\ buf'[q] = buf[q]
    BY <1>1, StepsKeepOthers DEF OthersKeep
  <2> QED
    BY <2>1, <2>2 DEF ReadsPrefix
<1> QED
  BY <1>1, ReaderKept, ZenonT(30) DEF ReadsPrefix

-----------------------------------------------------------------------------
(* What the invariant says of a file that nobody writes. *)
LEMMA WholeUnlessWritten ==
  ASSUME TypeOK, RightOrPending, NEW f \in 1..Len(file), NEW k \in Key, Names(k, f),
         f \notin damaged, Writers(f) = {}, NEW v \in Allowed[k]
  PROVE  file[f] = Whole(v)
<1>1. Size[v] \in Nat /\ file[f] \in Seq(Unit)
  BY DEF TypeOK
<1>2. \A i \in 1..Size[v] : ~Pending(f, i)
  BY DEF Pending, Writers
<1>3. /\ Len(file[f]) <= Size[v]
      /\ \A i \in 1..Size[v] : i <= Len(file[f]) /\ file[f][i] = v
  BY <1>2 DEF RightOrPending, Right
<1>4. Len(file[f]) = Size[v]
  BY <1>1, <1>3
<1> QED
  BY <1>1, <1>3, <1>4 DEF Whole

(* The first units of a block. *)
LEMMA WholePrefix ==
  ASSUME NEW v \in Value, NEW n \in Nat, n <= Size[v]
  PROVE  SubSeq(Whole(v), 1, n) = [i \in 1..n |-> v]
<1>1. Size[v] \in Nat
  OBVIOUS
<1>2. Whole(v) \in Seq(Value) /\ Len(Whole(v)) = Size[v]
  BY <1>1 DEF Whole
<1>3. \A i \in 1..n : Whole(v)[i] = v
  BY <1>1 DEF Whole
<1> QED
  BY <1>1, <1>2, <1>3

(* The properties follow from the invariant. *)
LEMMA InvImplies ==
  ASSUME SmartInv
  PROVE  QuiescentIntact /\ ReadIntact
<1>1. QuiescentIntact
  <2> SUFFICES ASSUME NEW k \in Key, entry[k] # 0, entry[k] \notin damaged,
                      Writers(entry[k]) = {}
               PROVE  \E v \in Allowed[k] : file[entry[k]] = Whole(v)
    BY DEF QuiescentIntact
  <2>1. entry[k] \in 1..Len(file) /\ Names(k, entry[k])
    BY DEF SmartInv, TypeOK, Names
  <2>2. PICK v : v \in Allowed[k]
    BY <2>1 DEF SmartInv, RightOrPending
  <2> QED
    BY <2>1, <2>2, WholeUnlessWritten DEF SmartInv
<1>2. ReadIntact
  <2> SUFFICES ASSUME NEW p \in Proc, pc[p] = "read", alone[p], fd[p] \notin damaged
               PROVE  \E v \in Allowed[key[p]] :
                         /\ file[fd[p]] = Whole(v)
                         /\ buf[p] = SubSeq(Whole(v), 1, pos[p])
    BY DEF ReadIntact
  <2>1. /\ fd[p] \in 1..Len(file) /\ key[p] \in Key /\ Names(key[p], fd[p])
        /\ pos[p] \in Nat /\ buf[p] \in Seq(Unit)
    BY DEF SmartInv, TypeOK, Names
  <2>2. PICK v : v \in Allowed[key[p]]
    BY <2>1 DEF SmartInv, RightOrPending
  <2>3. /\ Writers(fd[p]) = {} /\ pos[p] <= Len(file[fd[p]]) /\ Len(buf[p]) = pos[p]
        /\ \A i \in 1..pos[p] : buf[p][i] = file[fd[p]][i]
    BY DEF SmartInv, ReadsPrefix
  <2>4. file[fd[p]] = Whole(v)
    BY <2>1, <2>2, <2>3, WholeUnlessWritten DEF SmartInv
  <2>5. v \in Value /\ Size[v] \in Nat
    BY <2>1, <2>2
  <2>6. pos[p] <= Size[v] /\ \A i \in 1..pos[p] : buf[p][i] = v
    BY <2>1, <2>3, <2>4, <2>5 DEF Whole
  <2>7. buf[p] = [i \in 1..pos[p] |-> v]
    <3>1. PICK b \in Seq(Unit), n \in Nat : b = buf[p] /\ n = pos[p] /\ Len(b) = n
      BY <2>1, <2>3
    <3>2. b = [i \in 1..n |-> b[i]]
      BY <3>1
    <3> QED
      BY <2>6, <3>1, <3>2
  <2> QED
    BY <2>1, <2>2, <2>4, <2>5, <2>6, <2>7, WholePrefix
<1> QED
  BY <1>1, <1>2

(* The invariant is inductive. *)
LEMMA SmartInvariant ==
  ASSUME ContentAddressed
  PROVE  Spec => []SmartInv
<1>1. FsInit /\ TypeOK => SmartInv
  <2> SUFFICES ASSUME FsInit, TypeOK PROVE SmartInv
    OBVIOUS
  <2>1. LocalInv /\ ReadsPrefix
    BY DEF FsInit, LocalInv, ReadsPrefix
  <2>2. 1..Len(file) = {}
    BY DEF FsInit
  <2> QED
    BY <2>1, <2>2 DEF SmartInv, OneKeyPerFile, RightOrPending
<1>2. TypeOK' /\ SmartInv /\ [Next]_fsVars => SmartInv'
  <2>1. ASSUME SmartInv, Next, TypeOK' PROVE SmartInv'
    <3>1. PICK p \in Proc : Steps(p)
      BY <2>1, StepKinds DEF SmartInv
    <3> QED
      BY <2>1, <3>1, LocalStep, OneKeyStep, RightOrPendingStep, ReadsPrefixStep
         DEF SmartInv
  <2>2. ASSUME SmartInv, UNCHANGED fsVars PROVE SmartInv'
    <3>1. TypeOK' /\ LocalInv'
      BY <2>2 DEF SmartInv, fsVars, TypeOK, LocalInv
    <3>2. OneKeyPerFile'
      BY <2>2 DEF SmartInv, fsVars, OneKeyPerFile, Names
    <3>3. RightOrPending'
      BY <2>2, SMTT(30) DEF SmartInv, fsVars, RightOrPending, Names, Right, Pending
    <3>4. ReadsPrefix'
      BY <2>2 DEF SmartInv, fsVars, ReadsPrefix, Writers
    <3> QED
      BY <3>1, <3>2, <3>3, <3>4 DEF SmartInv
  <2> QED
    BY <2>1, <2>2
<1> QED
  BY <1>1, <1>2, SmartTypeCorrect, PTL DEF Spec

(***************************************************************************)
(* If keys name one content each, a block that nobody is writing and that  *)
(* no writer of chop_fs_write_block left half-way is complete, however     *)
(* many processes truncate, write, delete and read it at once.             *)
(***************************************************************************)
THEOREM BlocksIntact == ASSUME ContentAddressed PROVE Spec => []QuiescentIntact
<1>1. SmartInv => QuiescentIntact
  BY InvImplies
<1> QED
  BY <1>1, SmartInvariant, PTL

(***************************************************************************)
(* And a reader of chop_fs_read_block that met no writer has read a prefix *)
(* of the block, although its file may be deleted or replaced meanwhile.   *)
(***************************************************************************)
THEOREM ReadsIntact == ASSUME ContentAddressed PROVE Spec => []ReadIntact
<1>1. SmartInv => ReadIntact
  BY InvImplies
<1> QED
  BY <1>1, SmartInvariant, PTL
=============================================================================
