--------------------------- MODULE HashTreeProofs ---------------------------
(***************************************************************************)
(* Proofs about HashTree and MCHashTree, for every IndexesPerBlock >= 2,   *)
(* every depth limit and every number of blocks and failures.  First the   *)
(* structure: types, and the depths of the keys in key blocks that are     *)
(* stored, pending or on their way up; then what the tree spans.  Then     *)
(* what chop_tree_index_blocks leaves in the metadata store: no pending    *)
(* key block loses keys before a key block with exactly these keys is      *)
(* stored; after a successful call the stored blocks are one tree; and the *)
(* tree is never taller than its number of blocks requires.                *)
(***************************************************************************)
EXTENDS MCHashTree, SetInduction, TLAPS

(* h may be a key of a key block of depth d. *)
KeyOK(d, h) ==
    IF d = 0 THEN h \in 1..nblocks
             ELSE h \in 1..Len(inodes) /\ inodes[h].depth = d - 1

(* Where the control is, and how far the nested calls may have climbed. *)
ControlInv ==
    /\ pc = "read" => /\ cursor = 0
                      /\ nblocks > 0 => Len(levels) >= 1
                      /\ nblocks = 0 => levels = <<>>
    /\ pc = "add" => /\ base = cursor + 1
                     /\ Len(carried) >= 1
                     /\ Top <= Len(levels)
                     /\ nblocks > 0
    /\ pc = "flush" => cursor >= 1 /\ cursor <= Len(levels) /\ nblocks > 0
    /\ pc # "aborted" /\ pc # "add" => carried = <<>> /\ base = 0

(* Only a parent that was just created is empty; blocks never overflow. *)
LevelsInv ==
    \A l \in 1..Len(levels) :
        /\ Len(levels[l]) < IndexesPerBlock
        /\ levels[l] = <<>> => pc = "add" /\ l = Top /\ l = Len(levels)

(* Every key, stored, pending or carried, is of the depth of its place. *)
StoredKeys ==
    \A i \in 1..Len(inodes) :
        /\ Len(inodes[i].keys) >= 1
        /\ Len(inodes[i].keys) < IndexesPerBlock
        /\ \A j \in 1..Len(inodes[i].keys) :
            /\ KeyOK(inodes[i].depth, inodes[i].keys[j])
            /\ inodes[i].depth > 0 => inodes[i].keys[j] < i

PendingKeys ==
    \A l \in 1..Len(levels) : \A j \in 1..Len(levels[l]) :
        KeyOK(l - 1, levels[l][j])

CarriedKeys ==
    pc = "add" => \A i \in 1..Len(carried) : KeyOK(base + i - 2, carried[i])

-----------------------------------------------------------------------------
(* The inductive invariant. *)
Shape ==
    /\ TypeOK
    /\ ControlInv
    /\ LevelsInv
    /\ StoredKeys
    /\ PendingKeys
    /\ CarriedKeys

USE IndexesAssumption, DepthAssumption, BoundAssumption

(* The structure holds when chop_tree_index_blocks begins. *)
LEMMA InitShape == Init => Shape
<1> SUFFICES ASSUME Init PROVE Shape
  OBVIOUS
<1>1. TypeOK
  <2>1. levels \in Seq(Seq(Nat)) /\ inodes \in Seq(Inode) /\ carried \in Seq(Nat)
    BY DEF Init
  <2>2. dropped \in BOOLEAN
    BY DEF Init
  <2>3. Len(inodes) = 0
    BY DEF Init
  <2> QED
    BY <2>1, <2>2, <2>3 DEF Init, TypeOK
<1>2. Len(levels) = 0 /\ Len(inodes) = 0
  BY DEF Init
<1>3. ControlInv
  BY DEF Init, ControlInv
<1>4. LevelsInv
  BY <1>2 DEF LevelsInv
<1>5. StoredKeys /\ PendingKeys /\ CarriedKeys
  BY <1>2 DEF Init, StoredKeys, PendingKeys, CarriedKeys
<1> QED
  BY <1>1, <1>3, <1>4, <1>5 DEF Shape

(* What a key stands for has a first and a last input block. *)
LEMMA SpanType ==
  ASSUME TypeOK, NEW d \in Nat, NEW h, KeyOK(d, h)
  PROVE  Lo(d, h) \in Nat /\ Hi(d, h) \in Nat
<1>1. CASE d = 0
  BY <1>1 DEF KeyOK, Lo, Hi, TypeOK
<1>2. CASE d # 0
  <2>1. inodes[h] \in Inode
    BY <1>2 DEF KeyOK, TypeOK
  <2> QED
    BY <1>2, <2>1 DEF Lo, Hi, Inode
<1> QED
  BY <1>1, <1>2

(* A pending block that is not empty can be written: its inode is one. *)
LEMMA InodeType ==
  ASSUME Shape, NEW l \in 1..Len(levels), levels[l] # <<>>
  PROVE  /\ InodeOf(l) \in Inode
         /\ InodeOf(l).depth = l - 1
         /\ InodeOf(l).keys = levels[l]
         /\ InodeOf(l).lo = Lo(l - 1, levels[l][1])
         /\ InodeOf(l).hi = Hi(l - 1, levels[l][Len(levels[l])])
         /\ levels[l] \in Seq(Nat)
         /\ Len(levels[l]) \in Nat
         /\ Len(levels[l]) >= 1
         /\ Len(levels[l]) < IndexesPerBlock
<1>1. levels[l] \in Seq(Nat) /\ Len(levels[l]) \in Nat
  BY DEF Shape, TypeOK
<1>2. Len(levels[l]) >= 1
  BY <1>1
<1>3. KeyOK(l - 1, levels[l][1]) /\ KeyOK(l - 1, levels[l][Len(levels[l])])
  BY <1>1, <1>2 DEF Shape, PendingKeys
<1>4. l - 1 \in Nat
  BY DEF Shape, TypeOK
<1>5. /\ Lo(l - 1, levels[l][1]) \in Nat
      /\ Hi(l - 1, levels[l][Len(levels[l])]) \in Nat
  BY <1>3, <1>4, SpanType DEF Shape
<1>6. Len(levels[l]) < IndexesPerBlock
  BY DEF Shape, LevelsInv
<1> QED
  BY <1>1, <1>2, <1>4, <1>5, <1>6 DEF InodeOf, Inode

-----------------------------------------------------------------------------
(* What any step does to the two stores: nothing is ever overwritten. *)
Grows ==
    /\ nblocks' >= nblocks
    /\ Len(inodes') >= Len(inodes)
    /\ \A i \in 1..Len(inodes) : inodes'[i] = inodes[i]

(* Level l is written to the metadata store. *)
Writes(l) == inodes' = Append(inodes, InodeOf(l))

(* A step leaves the metadata store alone or writes one pending block. *)
StoreStep ==
    /\ nblocks' \in Nat
    /\ nblocks' >= nblocks
    /\ \/ inodes' = inodes
       \/ \E l \in 1..Len(levels) : levels[l] # <<>> /\ Writes(l)

(* chop_key_block_flush adds one key block and changes no other. *)
LEMMA WritesAppends ==
  ASSUME Shape, NEW l \in 1..Len(levels), levels[l] # <<>>, Writes(l)
  PROVE  /\ inodes' \in Seq(Inode)
         /\ Len(inodes') = Len(inodes) + 1
         /\ inodes'[Len(inodes) + 1] = InodeOf(l)
         /\ \A i \in 1..Len(inodes) : inodes'[i] = inodes[i]
<1>1. inodes \in Seq(Inode) /\ InodeOf(l) \in Inode
  BY InodeType DEF Shape, TypeOK
<1> QED
  BY <1>1 DEF Writes

(* A step only adds to the stores. *)
LEMMA StoreGrows ==
  ASSUME Shape, StoreStep
  PROVE  Grows /\ inodes' \in Seq(Inode)
<1>1. inodes \in Seq(Inode) /\ Len(inodes) \in Nat /\ nblocks \in Nat
  BY DEF Shape, TypeOK
<1>2. CASE inodes' = inodes
  BY <1>1, <1>2 DEF StoreStep, Grows
<1>3. CASE \E l \in 1..Len(levels) : levels[l] # <<>> /\ Writes(l)
  <2>1. PICK l \in 1..Len(levels) : levels[l] # <<>> /\ Writes(l)
    BY <1>3
  <2> QED
    BY <1>1, <2>1, WritesAppends DEF StoreStep, Grows
<1> QED
  BY <1>2, <1>3 DEF StoreStep

(* What a key stands for never changes. *)
LEMMA KeyStays ==
  ASSUME Shape, StoreStep
  PROVE  \A d \in Nat : \A h : KeyOK(d, h) =>
            KeyOK(d, h)' /\ Lo(d, h)' = Lo(d, h) /\ Hi(d, h)' = Hi(d, h)
<1>1. Grows /\ inodes' \in Seq(Inode) /\ nblocks' \in Nat /\ TypeOK
  BY StoreGrows DEF Shape, StoreStep
<1>2. Len(inodes) \in Nat /\ Len(inodes') \in Nat
  BY <1>1 DEF TypeOK
<1> SUFFICES ASSUME NEW d \in Nat, NEW h, KeyOK(d, h)
             PROVE  /\ KeyOK(d, h)'
                    /\ Lo(d, h)' = Lo(d, h)
                    /\ Hi(d, h)' = Hi(d, h)
  OBVIOUS
<1>3. CASE d = 0
  BY <1>1, <1>3 DEF KeyOK, Lo, Hi, TypeOK, Grows
<1>4. CASE d # 0
  <2>1. h \in 1..Len(inodes) /\ inodes[h].depth = d - 1
    BY <1>4 DEF KeyOK
  <2>2. inodes'[h] = inodes[h] /\ h \in 1..Len(inodes')
    BY <1>1, <1>2, <2>1 DEF Grows
  <2> QED
    BY <1>4, <2>1, <2>2 DEF KeyOK, Lo, Hi
<1> QED
  BY <1>3, <1>4

(* Whatever a step writes, every stored key keeps its depth. *)
LEMMA StoredStay ==
  ASSUME Shape, StoreStep
  PROVE  StoredKeys'
<1>1. TypeOK /\ Grows /\ nblocks' \in Nat /\ inodes' \in Seq(Inode)
  BY StoreGrows DEF Shape, StoreStep
<1>2. Len(inodes) \in Nat /\ \A i \in 1..Len(inodes) :
        inodes[i].depth \in Nat /\ inodes[i].keys \in Seq(Nat)
  <2>1. Len(inodes) \in Nat /\ \A i \in 1..Len(inodes) : inodes[i] \in Inode
    BY <1>1 DEF TypeOK
  <2> QED
    BY <2>1 DEF Inode
<1>3. \A d \in Nat : \A h : KeyOK(d, h) => KeyOK(d, h)'
  BY KeyStays
<1>4. ASSUME NEW i \in 1..Len(inodes)
      PROVE  /\ Len(inodes'[i].keys) >= 1
             /\ Len(inodes'[i].keys) < IndexesPerBlock
             /\ \A j \in 1..Len(inodes'[i].keys) :
                 /\ KeyOK(inodes[i].depth, inodes[i].keys[j])'
                 /\ inodes'[i].depth > 0 => inodes'[i].keys[j] < i
  <2>1. inodes'[i] = inodes[i]
    BY <1>1 DEF Grows
  <2>2. \A j \in 1..Len(inodes[i].keys) :
          KeyOK(inodes[i].depth, inodes[i].keys[j])'
    BY <1>2, <1>3, <2>1 DEF Shape, StoredKeys
  <2> QED
    BY <2>1, <2>2 DEF Shape, StoredKeys
<1>5. CASE inodes' = inodes
  BY <1>4, <1>5 DEF StoredKeys
<1>6. CASE \E l \in 1..Len(levels) : levels[l] # <<>> /\ Writes(l)
  <2>1. PICK l \in 1..Len(levels) : levels[l] # <<>> /\ Writes(l)
    BY <1>6
  <2>0. PICK n \in Nat : n = Len(inodes) + 1
    BY <1>2
  <2>2. /\ Len(inodes') = n
        /\ inodes'[n].depth = l - 1
        /\ inodes'[n].keys = levels[l]
        /\ Len(levels[l]) >= 1
        /\ Len(levels[l]) < IndexesPerBlock
        /\ l - 1 \in Nat
    BY <2>0, <2>1, WritesAppends, InodeType
  <2>3. ASSUME NEW j \in 1..Len(levels[l])
        PROVE  /\ KeyOK(inodes[n].depth, inodes[n].keys[j])'
               /\ inodes'[n].depth > 0 => inodes'[n].keys[j] < n
    <3>1. KeyOK(l - 1, levels[l][j])
      BY <2>1 DEF Shape, PendingKeys
    <3>2. inodes'[n].depth > 0 => inodes'[n].keys[j] < n
      BY <1>2, <2>0, <2>2, <3>1 DEF KeyOK
    <3> QED
      BY <1>3, <2>2, <3>1, <3>2
  <2>4. \A i \in 1..Len(inodes') : i \in 1..Len(inodes) \/ i = n
    BY <1>2, <2>0, <2>2
  <2> QED
    BY <1>4, <2>2, <2>3, <2>4 DEF StoredKeys
<1> QED
  BY <1>5, <1>6 DEF StoreStep

(* The block a call of chop_key_block_flush writes is not empty. *)
LEMMA TopWritable ==
  ASSUME Shape, pc = "add"
  PROVE  /\ Top \in 1..Len(levels)
         /\ Top = base + Len(carried) - 1
         /\ base \in Nat /\ base >= 1
         /\ Len(carried) \in Nat /\ Len(carried) >= 1
         /\ levels[Top] \in Seq(Nat)
         /\ Len(levels) \in Nat
         /\ Len(levels[Top]) \in Nat
         /\ Full(Top) => levels[Top] # <<>>
<1>1. /\ base \in Nat /\ base >= 1
      /\ Len(carried) \in Nat /\ Len(carried) >= 1
      /\ Len(levels) \in Nat
      /\ Top <= Len(levels)
  BY DEF Shape, TypeOK, ControlInv
<1>2. Top \in 1..Len(levels)
  BY <1>1 DEF Top
<1>3. levels[Top] \in Seq(Nat)
  BY <1>2 DEF Shape, TypeOK
<1>4. Full(Top) => levels[Top] # <<>>
  BY <1>3 DEF Full
<1> QED
  BY <1>1, <1>2, <1>3, <1>4 DEF Top

(* The block the flush loop is at is one of the chain and not empty. *)
LEMMA CursorWritable ==
  ASSUME Shape, pc = "flush"
  PROVE  /\ cursor \in 1..Len(levels)
         /\ levels[cursor] # <<>>
         /\ Len(levels) \in Nat
BY DEF Shape, TypeOK, LevelsInv

(* Every action of the indexer is such a step on the stores. *)
LEMMA NextStoreStep == Shape /\ [Next]_vars => StoreStep
<1> SUFFICES ASSUME Shape, [Next]_vars PROVE StoreStep
  OBVIOUS
<1>1. nblocks \in Nat
  BY DEF Shape, TypeOK
<1>2. CASE UNCHANGED vars
  BY <1>1, <1>2 DEF vars, StoreStep
<1>3. CASE ReadBlock
  BY <1>1, <1>3 DEF ReadBlock, StoreStep
<1>4. CASE \/ StoreBlockFails \/ ReadFails \/ EndOfEmptyStream \/ EndOfStream
           \/ FlushFullBlockFails \/ AppendIndex \/ FlushLevelFails
           \/ AssertionFails
  <2>1. nblocks' = nblocks /\ inodes' = inodes
    BY <1>4 DEF StoreBlockFails, ReadFails, EndOfEmptyStream, EndOfStream,
                FlushFullBlockFails, AppendIndex, FlushLevelFails,
                AssertionFails
  <2> QED
    BY <1>1, <2>1 DEF StoreStep
<1>5. CASE FlushFullBlock
  <2>1. Top \in 1..Len(levels) /\ levels[Top] # <<>> /\ Writes(Top)
    BY <1>5, TopWritable DEF FlushFullBlock, Writes
  <2>2. nblocks' = nblocks
    BY <1>5 DEF FlushFullBlock
  <2> QED
    BY <1>1, <2>1, <2>2 DEF StoreStep
<1>6. CASE FlushLevel
  <2>1. cursor \in 1..Len(levels) /\ levels[cursor] # <<>> /\ Writes(cursor)
    BY <1>6, CursorWritable DEF FlushLevel, Writes
  <2>2. nblocks' = nblocks
    BY <1>6 DEF FlushLevel
  <2> QED
    BY <1>1, <2>1, <2>2 DEF StoreStep
<1> QED
  BY <1>2, <1>3, <1>4, <1>5, <1>6 DEF Next

(* A step that leaves the pending blocks alone leaves their keys good. *)
LEMMA PendingStay ==
  ASSUME Shape, StoreStep, levels' = levels
  PROVE  PendingKeys'
<1>1. \A d \in Nat : \A h : KeyOK(d, h) => KeyOK(d, h)'
  BY KeyStays
<1>2. \A l \in 1..Len(levels) : l - 1 \in Nat
  BY DEF Shape, TypeOK
<1> QED
  BY <1>1, <1>2 DEF Shape, PendingKeys

-----------------------------------------------------------------------------
(* A handle read from the chopper is carried to the block of depth 0. *)
LEMMA ReadBlockShape ==
  ASSUME Shape, ReadBlock
  PROVE  Shape'
<1>0. StoreStep
  BY NextStoreStep DEF Next
<1>1. inodes' \in Seq(Inode) /\ inodes' = inodes
  BY DEF ReadBlock, Shape, TypeOK
<1>2. levels' \in Seq(Seq(Nat)) /\ Len(levels') \in Nat /\ Len(levels') >= 1
  <2>1. CASE levels = <<>>
    BY <2>1 DEF ReadBlock
  <2>2. CASE levels # <<>>
    BY <2>2 DEF ReadBlock, Shape, TypeOK
  <2> QED
    BY <2>1, <2>2
<1>3. /\ carried' = <<nblocks + 1>> /\ carried' \in Seq(Nat)
      /\ Len(carried') = 1 /\ carried'[1] = nblocks + 1
      /\ base' = 1 /\ cursor' = 0 /\ nblocks' = nblocks + 1
      /\ nblocks \in Nat /\ pc' = "add"
  BY DEF ReadBlock, Shape, TypeOK, ControlInv
<1>4. Top' = 1
  BY <1>3 DEF Top
<1>5. TypeOK'
  <2>1. dropped' \in BOOLEAN
    BY DEF ReadBlock, Shape, TypeOK
  <2> QED
    BY <1>1, <1>2, <1>3, <1>4, <2>1 DEF ReadBlock, Shape, TypeOK
<1>6. ControlInv'
  BY <1>2, <1>3, <1>4 DEF ControlInv
<1>7. LevelsInv' /\ PendingKeys'
  <2>1. CASE levels = <<>>
    BY <1>3, <1>4, <2>1 DEF ReadBlock, LevelsInv, PendingKeys
  <2>2. CASE levels # <<>>
    <3>1. levels' = levels /\ pc = "read"
      BY <2>2 DEF ReadBlock
    <3> QED
      BY <1>0, <3>1, PendingStay DEF LevelsInv, Shape
  <2> QED
    BY <2>1, <2>2
<1>8. CarriedKeys'
  BY <1>3 DEF CarriedKeys, KeyOK
<1> QED
  BY <1>0, <1>5, <1>6, <1>7, <1>8, StoredStay DEF Shape

(* The actions that end the call leave an empty chain of blocks. *)
LEMMA ReturnShape ==
  ASSUME Shape,
         StoreBlockFails \/ ReadFails \/ EndOfEmptyStream \/ FlushLevelFails
  PROVE  Shape'
<1>0. StoreStep
  BY NextStoreStep DEF Next
<1> USE DEF StoreBlockFails, ReadFails, EndOfEmptyStream, FlushLevelFails, Return
<1>1. levels' = <<>> /\ Len(levels') = 0 /\ pc' = "done" /\ cursor' = 0
  OBVIOUS
<1>2. carried' = carried /\ base' = base /\ inodes' = inodes /\ nblocks' = nblocks
  OBVIOUS
<1>3. carried = <<>> /\ base = 0
  BY DEF Shape, ControlInv
<1>4. TypeOK'
  <2>1. dropped' \in BOOLEAN
    BY DEF Shape, TypeOK
  <2>2. failures' \in 0..MaxFailures /\ root' \in 0..Len(inodes')
    BY SMTT(30) DEF Shape, TypeOK
  <2>3. result' \in {"none", "ok", "store_error", "stream_error", "empty_source"}
    OBVIOUS
  <2>4. levels' \in Seq(Seq(Nat))
    BY <1>1
  <2> QED
    BY <1>1, <1>2, <2>1, <2>2, <2>3, <2>4 DEF Shape, TypeOK
<1>5. ControlInv'
  BY <1>1, <1>2, <1>3 DEF ControlInv
<1>6. LevelsInv' /\ PendingKeys' /\ CarriedKeys'
  BY <1>1 DEF LevelsInv, PendingKeys, CarriedKeys
<1> QED
  BY <1>0, <1>4, <1>5, <1>6, StoredStay DEF Shape

(* The flush begins at the block of depth 0. *)
LEMMA EndOfStreamShape ==
  ASSUME Shape, EndOfStream
  PROVE  Shape'
<1>0. StoreStep /\ levels' = levels
  BY NextStoreStep DEF Next, EndOfStream
<1>1. Len(levels) \in Nat /\ Len(levels) >= 1
  BY DEF Shape, TypeOK, ControlInv, EndOfStream
<1>2. TypeOK'
  BY <1>1 DEF Shape, TypeOK, EndOfStream
<1>3. ControlInv'
  BY <1>1 DEF Shape, ControlInv, EndOfStream
<1>4. LevelsInv'
  BY DEF Shape, LevelsInv, EndOfStream
<1>5. CarriedKeys'
  BY DEF CarriedKeys, EndOfStream
<1> QED
  BY <1>0, <1>2, <1>3, <1>4, <1>5, StoredStay, PendingStay DEF Shape

(* An abort leaves everything as it is. *)
LEMMA AssertionFailsShape ==
  ASSUME Shape, AssertionFails
  PROVE  Shape'
<1>0. StoreStep /\ levels' = levels /\ pc' = "aborted"
  BY NextStoreStep DEF Next, AssertionFails
<1>1. TypeOK'
  BY DEF Shape, TypeOK, AssertionFails
<1>2. ControlInv' /\ CarriedKeys'
  BY <1>0 DEF ControlInv, CarriedKeys
<1>3. LevelsInv'
  <2>1. \A l \in 1..Len(levels) : levels[l] # <<>>
    BY TopWritable, CursorWritable DEF Shape, LevelsInv, AssertionFails
  <2> QED
    BY <1>0, <2>1 DEF Shape, LevelsInv
<1> QED
  BY <1>0, <1>1, <1>2, <1>3, StoredStay, PendingStay DEF Shape

(* A full block is written and its handle carried one level up. *)
LEMMA FlushFullBlockShape ==
  ASSUME Shape, FlushFullBlock
  PROVE  Shape'
<1>0. StoreStep
  BY NextStoreStep DEF Next
<1>1. PICK n \in Nat : n = Len(inodes) + 1
  BY DEF Shape, TypeOK
<1>2. PICK t \in Nat : t = Top
  BY TopWritable DEF FlushFullBlock
<1>3. /\ t \in 1..Len(levels) /\ levels[t] # <<>> /\ Writes(t)
      /\ t = base + Len(carried) - 1 /\ Len(levels) \in Nat
      /\ base \in Nat /\ base >= 1 /\ Len(carried) \in Nat /\ Len(carried) >= 1
  BY <1>2, TopWritable DEF FlushFullBlock, Writes
<1>4. /\ inodes' \in Seq(Inode) /\ Len(inodes') = n
      /\ inodes'[n] = InodeOf(t) /\ InodeOf(t).depth = t - 1
  BY <1>1, <1>3, WritesAppends, InodeType
<1>5. /\ carried' = Append(carried, n) /\ carried' \in Seq(Nat)
      /\ Len(carried') = Len(carried) + 1
      /\ carried'[Len(carried) + 1] = n
      /\ \A i \in 1..Len(carried) : carried'[i] = carried[i]
  BY <1>1 DEF FlushFullBlock, Shape, TypeOK
<1>6. pc = "add" /\ pc' = "add" /\ base' = base /\ cursor' = cursor /\ nblocks' = nblocks
  BY DEF FlushFullBlock
<1>7. Top' = t + 1
  BY <1>3, <1>5, <1>6 DEF Top
<1>8. /\ levels' \in Seq(Seq(Nat)) /\ Len(levels') \in Nat
      /\ Len(levels') >= t + 1
      /\ Len(levels') >= Len(levels)
      /\ \A l \in 1..Len(levels) : levels'[l] = levels[l]
      /\ \A l \in 1..Len(levels') : l \in 1..Len(levels) \/
            (levels'[l] = <<>> /\ l = t + 1 /\ l = Len(levels'))
  <2>1. CASE t = Len(levels)
    <3>1. levels' = Append(levels, <<>>)
      BY <1>2, <2>1 DEF FlushFullBlock
    <3>2. levels \in Seq(Seq(Nat)) /\ <<>> \in Seq(Nat)
      BY DEF Shape, TypeOK
    <3> QED
      BY <1>3, <2>1, <3>1, <3>2
  <2>2. CASE t # Len(levels)
    <3>1. levels' = levels
      BY <1>2, <2>2 DEF FlushFullBlock
    <3> QED
      BY <1>3, <2>2, <3>1 DEF Shape, TypeOK
  <2> QED
    BY <2>1, <2>2
<1>9. TypeOK'
  <2>1. dropped' \in BOOLEAN
    BY DEF FlushFullBlock, Shape, TypeOK
  <2>2. root' \in 0..Len(inodes')
    BY <1>1, <1>4 DEF FlushFullBlock, Shape, TypeOK
  <2>3. carried' # <<>>
    BY <1>3, <1>5
  <2> QED
    BY <1>3, <1>4, <1>5, <1>6, <1>7, <1>8, <2>1, <2>2, <2>3
       DEF FlushFullBlock, Shape, TypeOK
<1>10. ControlInv'
  BY <1>3, <1>5, <1>6, <1>7, <1>8 DEF Shape, ControlInv
<1>11. LevelsInv'
  <2>1. \A l \in 1..Len(levels) : levels[l] # <<>>
    BY <1>2, <1>3 DEF Shape, LevelsInv
  <2>2. Len(<<>>) < IndexesPerBlock
    OBVIOUS
  <2> QED
    BY <1>6, <1>7, <1>8, <2>1, <2>2 DEF Shape, LevelsInv
<1>12. PendingKeys'
  <2>1. \A d \in Nat : \A h : KeyOK(d, h) => KeyOK(d, h)'
    BY <1>0, KeyStays
  <2>2. \A l \in 1..Len(levels) : l - 1 \in Nat
    BY <1>3
  <2>3. \A l \in 1..Len(levels) : \A j \in 1..Len(levels'[l]) :
           KeyOK(l - 1, levels[l][j])'
    BY <1>8, <2>1, <2>2 DEF Shape, PendingKeys
  <2>4. Len(<<>>) = 0
    OBVIOUS
  <2> QED
    BY <1>8, <2>3, <2>4, SMTT(30) DEF PendingKeys
<1>13. CarriedKeys'
  <2>1. \A d \in Nat : \A h : KeyOK(d, h) => KeyOK(d, h)'
    BY <1>0, KeyStays
  <2>2. ASSUME NEW i \in 1..Len(carried)
        PROVE  KeyOK(base + i - 2, carried[i])'
    <3>1. KeyOK(base + i - 2, carried[i]) /\ base + i - 2 \in Nat
      BY <1>3, <1>6 DEF Shape, CarriedKeys
    <3> QED
      BY <1>5, <1>6, <2>1, <3>1
  <2>3. PICK m \in Nat : m = Len(carried) + 1
    BY <1>3
  <2>4. KeyOK(base + m - 2, carried[m])'
    <3>1. KeyOK(t, n)'
      BY <1>1, <1>3, <1>4 DEF KeyOK
    <3>2. base' + m - 2 = t /\ carried'[m] = n
      BY <1>3, <1>5, <1>6, <2>3
    <3> QED
      BY <3>1, <3>2
  <2>5. \A i \in 1..Len(carried') : i \in 1..Len(carried) \/ i = m
    BY <1>3, <1>5, <2>3
  <2> QED
    BY <2>2, <2>4, <2>5 DEF CarriedKeys
<1> QED
  BY <1>0, <1>9, <1>10, <1>11, <1>12, <1>13, StoredStay DEF Shape

(* Back in the caller: the read loop, or the next level of the flush. *)
LEMMA AddReturnsControl ==
  ASSUME Shape, pc = "add", NEW err, AddReturns(err)
  PROVE  /\ base' = 0 /\ carried' = <<>>
         /\ \/ cursor = 0 /\ cursor' = 0 /\ pc' = "read"
            \/ cursor >= 1 /\ cursor' = cursor + 1 /\ pc' = "flush"
         /\ cursor \in Nat
         /\ cursor + 1 = base
         /\ base \in 1..Top
<1>1. cursor \in Nat /\ cursor + 1 = base
  BY DEF Shape, TypeOK, ControlInv
<1>2. base \in 1..Top
  BY TopWritable
<1>3. base' = 0 /\ carried' = <<>>
  BY DEF AddReturns
<1>4. CASE cursor = 0
  BY <1>1, <1>2, <1>3, <1>4 DEF AddReturns
<1>5. CASE cursor # 0
  <2>1. pc' = "flush" /\ cursor' = cursor + 1
    BY <1>5 DEF AddReturns
  <2> QED
    BY <1>1, <1>2, <1>3, <1>5, <2>1
<1> QED
  BY <1>4, <1>5

(* A failed write of a full block changes no block. *)
LEMMA FlushFullBlockFailsShape ==
  ASSUME Shape, FlushFullBlockFails
  PROVE  Shape'
<1>0. StoreStep /\ levels' = levels /\ inodes' = inodes /\ nblocks' = nblocks
  BY NextStoreStep DEF Next, FlushFullBlockFails
<1>1. /\ Top \in 1..Len(levels) /\ levels[Top] # <<>> /\ pc = "add"
      /\ Len(levels) \in Nat
  BY TopWritable DEF FlushFullBlockFails
<1>2. /\ base' = 0 /\ carried' = <<>>
      /\ \/ cursor = 0 /\ cursor' = 0 /\ pc' = "read"
         \/ cursor >= 1 /\ cursor' = cursor + 1 /\ pc' = "flush"
      /\ cursor \in Nat
      /\ cursor + 1 = base
      /\ base \in 1..Top
  BY <1>1, AddReturnsControl DEF FlushFullBlockFails
<1>3. TypeOK'
  <2>1. dropped' \in BOOLEAN
    BY DEF FlushFullBlockFails, AddReturns
  <2>2. failures' \in 0..MaxFailures
    BY DEF FlushFullBlockFails, Shape, TypeOK
  <2> QED
    BY <1>0, <1>1, <1>2, <2>1, <2>2, SMTT(30) DEF FlushFullBlockFails, Shape, TypeOK
<1>4. ControlInv'
  BY <1>0, <1>1, <1>2 DEF Shape, ControlInv
<1>5. LevelsInv'
  BY <1>0, <1>1, <1>2 DEF Shape, LevelsInv
<1>6. CarriedKeys'
  BY <1>2 DEF CarriedKeys
<1> QED
  BY <1>0, <1>3, <1>4, <1>5, <1>6, StoredStay, PendingStay DEF Shape

(* One iteration of chop_block_tree_flush. *)
LEMMA FlushLevelShape ==
  ASSUME Shape, FlushLevel
  PROVE  Shape'
<1>0. StoreStep
  BY NextStoreStep DEF Next
<1>1. PICK n \in Nat : n = Len(inodes) + 1
  BY DEF Shape, TypeOK
<1>2. /\ cursor \in 1..Len(levels) /\ levels[cursor] # <<>> /\ Writes(cursor)
      /\ Len(levels) \in Nat
  BY CursorWritable DEF FlushLevel, Writes
<1>3. /\ inodes' \in Seq(Inode) /\ Len(inodes') = n
      /\ inodes'[n] = InodeOf(cursor) /\ InodeOf(cursor).depth = cursor - 1
  BY <1>1, <1>2, WritesAppends, InodeType
<1>4. /\ pc = "flush" /\ carried = <<>> /\ base = 0
      /\ root' = n /\ nblocks' = nblocks /\ nblocks \in Nat
  BY <1>1 DEF FlushLevel, Shape, ControlInv, TypeOK
<1>5. dropped' \in BOOLEAN
  BY DEF FlushLevel, Shape, TypeOK
<1>6. CASE cursor < Len(levels)
  <2>1. /\ pc' = "add" /\ base' = cursor + 1 /\ carried' = <<n>>
        /\ levels' = levels /\ cursor' = cursor /\ result' = result
    BY <1>1, <1>6 DEF FlushLevel
  <2>2. carried' \in Seq(Nat) /\ Len(carried') = 1 /\ carried'[1] = n
    BY <2>1
  <2>3. Top' = cursor + 1
    BY <1>2, <2>1, <2>2 DEF Top
  <2>4. TypeOK'
    BY <1>2, <1>3, <1>4, <1>5, <1>6, <2>1, <2>2, <2>3 DEF FlushLevel, Shape, TypeOK
  <2>5. ControlInv'
    BY <1>2, <1>4, <1>6, <2>1, <2>2, <2>3 DEF Shape, ControlInv
  <2>6. LevelsInv'
    BY <1>4, <2>1 DEF Shape, LevelsInv
  <2>7. CarriedKeys'
    <3>1. KeyOK(cursor, n)'
      BY <1>1, <1>2, <1>3, <2>1 DEF KeyOK
    <3> QED
      BY <1>2, <2>1, <2>2, <3>1 DEF CarriedKeys
  <2> QED
    BY <1>0, <2>1, <2>4, <2>5, <2>6, <2>7, StoredStay, PendingStay DEF Shape
<1>7. CASE ~(cursor < Len(levels))
  <2>1. /\ pc' = "done" /\ result' = "ok" /\ levels' = <<>> /\ cursor' = 0
        /\ carried' = carried /\ base' = base
    BY <1>7 DEF FlushLevel, Return
  <2>2. Len(levels') = 0 /\ levels' \in Seq(Seq(Nat))
    BY <2>1
  <2>3. TypeOK'
    BY <1>3, <1>4, <1>5, <2>1, <2>2 DEF FlushLevel, Shape, TypeOK
  <2>4. ControlInv'
    BY <1>4, <2>1 DEF ControlInv
  <2>5. LevelsInv' /\ PendingKeys' /\ CarriedKeys'
    BY <2>1, <2>2 DEF LevelsInv, PendingKeys, CarriedKeys
  <2> QED
    BY <1>0, <2>3, <2>4, <2>5, StoredStay DEF Shape
<1> QED
  BY <1>6, <1>7

(* What AppendIndex leaves in each block of the chain. *)
LEMMA AppendedLevels ==
  ASSUME Shape, AppendIndex
  PROVE  /\ Len(levels') = Len(levels)
         /\ levels' \in Seq(Seq(Nat))
         /\ levels'[Top] = Append(levels[Top], carried[Len(carried)])
         /\ \A l \in base..(Top - 1) : levels'[l] = <<carried[l - base + 1]>>
         /\ \A l \in 1..Len(levels) :
              l \notin base..Top => levels'[l] = levels[l]
         /\ \A i \in 1..Len(carried) : carried[i] \in Nat
<1>1. /\ Top \in 1..Len(levels) /\ Top = base + Len(carried) - 1
      /\ base \in Nat /\ base >= 1
      /\ Len(carried) \in Nat /\ Len(carried) >= 1 /\ Len(levels) \in Nat
  BY TopWritable DEF AppendIndex
<1>2. carried \in Seq(Nat) /\ levels \in Seq(Seq(Nat))
  BY DEF Shape, TypeOK
<1>3. \A i \in 1..Len(carried) : carried[i] \in Nat
  BY <1>2
<1>4. \A l \in base..Top : l - base + 1 \in 1..Len(carried)
  BY <1>1
<1> DEFINE L(l) == CASE l = Top            -> Append(levels[l], carried[l - base + 1])
                     [] l \in base..Top-1  -> <<carried[l - base + 1]>>
                     [] OTHER              -> levels[l]
<1>5. levels' = [l \in 1..Len(levels) |-> L(l)]
  BY DEF AppendIndex
<1>6. L(Top) = Append(levels[Top], carried[Len(carried)])
  <2>1. Top - base + 1 = Len(carried)
    BY <1>1
  <2> QED
    BY <2>1
<1>7. \A l \in base..(Top - 1) : L(l) = <<carried[l - base + 1]>>
  BY <1>1
<1>8. \A l \in 1..Len(levels) : l \notin base..Top => L(l) = levels[l]
  BY <1>1, SMTT(30)
<1>9. \A l \in 1..Len(levels) : L(l) \in Seq(Nat)
  <2> SUFFICES ASSUME NEW l \in 1..Len(levels) PROVE L(l) \in Seq(Nat)
    OBVIOUS
  <2>1. CASE l = Top
    <3>1. levels[Top] \in Seq(Nat) /\ carried[Len(carried)] \in Nat
      BY <1>1, <1>2, <1>3
    <3>2. Append(levels[Top], carried[Len(carried)]) \in Seq(Nat)
      BY <3>1
    <3> QED
      BY <1>6, <2>1, <3>2
  <2>2. CASE l \in base..(Top - 1)
    <3>1. carried[l - base + 1] \in Nat
      BY <1>1, <1>3, <1>4, <2>2
    <3> QED
      BY <1>7, <2>2, <3>1
  <2>3. CASE l # Top /\ l \notin base..(Top - 1)
    BY <1>1, <1>2, <1>8, <2>3, SMTT(30)
  <2> QED
    BY <2>1, <2>2, <2>3
<1> HIDE DEF L
<1>10. Len(levels') = Len(levels) /\ levels' \in Seq(Seq(Nat))
  BY <1>1, <1>5, <1>9
<1>11. base..(Top - 1) \subseteq 1..Len(levels)
  BY <1>1
<1> QED
  BY <1>1, <1>3, <1>5, <1>6, <1>7, <1>8, <1>10, <1>11

(* The nested calls return, each block taking its own index. *)
LEMMA AppendIndexShape ==
  ASSUME Shape, AppendIndex
  PROVE  Shape'
<1>0. StoreStep /\ inodes' = inodes /\ nblocks' = nblocks
  BY NextStoreStep DEF Next, AppendIndex
<1>1. /\ Top \in 1..Len(levels) /\ Top = base + Len(carried) - 1 /\ pc = "add"
      /\ base \in Nat /\ base >= 1
      /\ Len(carried) \in Nat /\ Len(carried) >= 1 /\ Len(levels) \in Nat
      /\ levels[Top] \in Seq(Nat) /\ Len(levels[Top]) \in Nat
      /\ ~Full(Top)
  BY TopWritable DEF AppendIndex
<1>2. /\ base' = 0 /\ carried' = <<>>
      /\ \/ cursor = 0 /\ cursor' = 0 /\ pc' = "read"
         \/ cursor >= 1 /\ cursor' = cursor + 1 /\ pc' = "flush"
      /\ cursor \in Nat
      /\ cursor + 1 = base
      /\ base \in 1..Top
  BY <1>1, AddReturnsControl DEF AppendIndex
<1>3. PICK t \in Nat : t = Top
  BY <1>1
<1>4. PICK c \in Nat : c = Len(carried)
  BY <1>1
<1>5. /\ Len(levels') = Len(levels)
      /\ levels' \in Seq(Seq(Nat))
      /\ levels'[t] = Append(levels[t], carried[c])
      /\ \A l \in base..(t - 1) : levels'[l] = <<carried[l - base + 1]>>
      /\ \A l \in 1..Len(levels) : l \notin base..t => levels'[l] = levels[l]
      /\ \A i \in 1..c : carried[i] \in Nat
  BY <1>3, <1>4, AppendedLevels
<1>12. Len(levels') = Len(levels) /\ levels' \in Seq(Seq(Nat))
  BY <1>5
<1>6. \A l \in 1..Len(levels) :
         l = t \/ l \in base..(t - 1) \/ l \notin base..t
  BY <1>1, <1>3
<1>7. TypeOK'
  <2>1. dropped' \in BOOLEAN
    BY DEF AppendIndex, AddReturns
  <2>2. root' = root /\ result' = result /\ failures' = failures
    BY DEF AppendIndex
  <2>3. pc' \in {"read", "flush"} /\ cursor' \in Nat
    BY <1>2
  <2>4. pc' = "flush" => cursor' \in 1..Len(levels')
    BY <1>1, <1>2, <1>12
  <2> QED
    BY <1>0, <1>2, <1>12, <2>1, <2>2, <2>3, <2>4 DEF Shape, TypeOK
<1>8. ControlInv'
  BY <1>0, <1>1, <1>2, <1>12, SMTT(30) DEF Shape, ControlInv
<1>9. /\ Len(levels'[t]) = Len(levels[t]) + 1
      /\ \A l \in base..(t - 1) : Len(levels'[l]) = 1
      /\ levels'[t][Len(levels[t]) + 1] = carried[c]
      /\ \A j \in 1..Len(levels[t]) : levels'[t][j] = levels[t][j]
      /\ \A l \in base..(t - 1) : levels'[l][1] = carried[l - base + 1]
  <2>1. levels[t] \in Seq(Nat) /\ carried[c] \in Nat
    BY <1>1, <1>3, <1>4, <1>5
  <2>2. /\ Len(Append(levels[t], carried[c])) = Len(levels[t]) + 1
        /\ Append(levels[t], carried[c])[Len(levels[t]) + 1] = carried[c]
        /\ \A j \in 1..Len(levels[t]) :
              Append(levels[t], carried[c])[j] = levels[t][j]
    BY <2>1
  <2>3. \A x : Len(<<x>>) = 1 /\ <<x>>[1] = x
    OBVIOUS
  <2>4. levels'[t] = Append(levels[t], carried[c])
    BY <1>5, Zenon
  <2>5. \A l \in base..(t - 1) : levels'[l] = <<carried[l - base + 1]>>
    BY <1>5, Zenon
  <2>6. \A l \in base..(t - 1) : Len(levels'[l]) = 1 /\ levels'[l][1] = carried[l - base + 1]
    BY <2>3, <2>5, Zenon
  <2> QED
    BY <2>2, <2>4, <2>6, Zenon
<1>10. LevelsInv'
  <2> SUFFICES ASSUME NEW l \in 1..Len(levels)
               PROVE  Len(levels'[l]) < IndexesPerBlock /\ levels'[l] # <<>>
    BY <1>5 DEF LevelsInv
  <2>1. CASE l = t
    BY <1>1, <1>3, <1>9, <2>1, SMTT(30) DEF Full
  <2>2. CASE l \in base..(t - 1)
    <3>1. Len(<<>>) = 0
      OBVIOUS
    <3>2. Len(levels'[l]) = 1
      BY <1>9, <2>2, Zenon
    <3> QED
      BY <3>1, <3>2
  <2>3. CASE l \notin base..t
    <3>1. levels'[l] = levels[l] /\ l # Top
      BY <1>1, <1>3, <1>5, <2>3, SMTT(30)
    <3> QED
      BY <3>1 DEF Shape, LevelsInv
  <2> QED
    BY <1>6, <2>1, <2>2, <2>3
<1>11. PendingKeys'
  <2>1. \A d \in Nat : \A h : KeyOK(d, h) => KeyOK(d, h)'
    BY <1>0, KeyStays
  <2>2. \A l \in 1..Len(levels) : l - 1 \in Nat
    BY <1>1
  <2>3. \A l \in 1..Len(levels) : \A j \in 1..Len(levels[l]) :
           KeyOK(l - 1, levels[l][j])
    BY DEF Shape, PendingKeys
  <2>4. \A l \in base..t : KeyOK(l - 1, carried[l - base + 1])
    <3> SUFFICES ASSUME NEW l \in base..t PROVE KeyOK(l - 1, carried[l - base + 1])
      OBVIOUS
    <3>1. PICK i \in Nat : i = l - base + 1
      BY <1>1, <1>3
    <3>2. i \in 1..Len(carried) /\ base + i - 2 = l - 1
      BY <1>1, <1>3, <3>1
    <3> QED
      BY <1>1, <3>1, <3>2 DEF Shape, CarriedKeys
  <2> SUFFICES ASSUME NEW l \in 1..Len(levels), NEW j \in 1..Len(levels'[l])
               PROVE  KeyOK(l - 1, levels'[l][j])
    BY <1>0, <1>5, <2>1, <2>2 DEF PendingKeys
  <2>5. CASE l = t
    <3>1. t - base + 1 = c /\ t \in base..t
      BY <1>1, <1>2, <1>3, <1>4
    <3>2. j \in 1..Len(levels[t]) \/ j = Len(levels[t]) + 1
      BY <1>1, <1>3, <1>9, <2>5, SMTT(30)
    <3>3. CASE j \in 1..Len(levels[t])
      BY <1>9, <2>3, <2>5, <3>3, Zenon
    <3>4. CASE j = Len(levels[t]) + 1
      BY <1>9, <2>4, <2>5, <3>1, <3>4, Zenon
    <3> QED
      BY <3>2, <3>3, <3>4
  <2>6. CASE l \in base..(t - 1)
    <3>0. Len(levels'[l]) = 1
      BY <1>9, <2>6, Zenon
    <3>1. j = 1 /\ l \in base..t
      BY <1>1, <1>3, <2>6, <3>0
    <3>2. levels'[l][j] = carried[l - base + 1]
      BY <1>9, <2>6, <3>1, Zenon
    <3> QED
      BY <2>4, <3>1, <3>2, Zenon
  <2>7. CASE l \notin base..t
    BY <1>5, <2>3, <2>7
  <2> QED
    BY <1>6, <2>5, <2>6, <2>7
<1>13. CarriedKeys'
  BY <1>2 DEF CarriedKeys
<1> QED
  BY <1>0, <1>7, <1>8, <1>10, <1>11, <1>13, StoredStay DEF Shape

-----------------------------------------------------------------------------
(* Every step of the indexer preserves the structure. *)
LEMMA NextShape == Shape /\ [Next]_vars => Shape'
<1> SUFFICES ASSUME Shape, [Next]_vars PROVE Shape'
  OBVIOUS
<1>1. CASE UNCHANGED vars
  BY <1>1 DEF vars, Shape, TypeOK, ControlInv, LevelsInv, StoredKeys,
              PendingKeys, CarriedKeys, KeyOK, Top
<1>2. CASE Next
  BY <1>2, ReadBlockShape, ReturnShape, EndOfStreamShape, AssertionFailsShape,
     FlushFullBlockShape, FlushFullBlockFailsShape, AppendIndexShape,
     FlushLevelShape DEF Next
<1> QED
  BY <1>1, <1>2

(***************************************************************************)
(* Throughout chop_tree_index_blocks every key, stored, pending or carried *)
(* up by nested calls of chop_key_block_add_index, is of the right depth,  *)
(* and no key block overflows or is empty but a parent just created.       *)
(***************************************************************************)
THEOREM ShapeInvariant == Spec => []Shape
<1>1. Init => Shape
  BY InitShape
<1>2. Shape /\ [Next]_vars => Shape'
  BY NextShape
<1> QED
  BY <1>1, <1>2, PTL DEF Spec

(***************************************************************************)
(* The nested calls of chop_key_block_add_index and the loop of            *)
(* chop_block_tree_flush stay within the chain of pending key blocks.      *)
(***************************************************************************)
THEOREM TypeCorrect == Spec => []TypeOK
<1>1. Shape => TypeOK
  BY DEF Shape
<1> QED
  BY <1>1, ShapeInvariant, PTL

(***************************************************************************)
(* Whatever chop_block_indexer_index fails on, every key block that        *)
(* chop_key_block_flush wrote is one the reader can follow: non-empty,     *)
(* within its capacity, its keys being stored data blocks or earlier key   *)
(* blocks one level down.                                                  *)
(***************************************************************************)
THEOREM LinksCorrect == Spec => []TreeLinks
<1>1. Shape => TreeLinks
  <2> SUFFICES ASSUME Shape, NEW i \in 1..Len(inodes)
               PROVE  /\ Len(inodes[i].keys) \in 1..IndexesPerBlock
                      /\ \A j \in 1..Len(inodes[i].keys) :
                           LET k == inodes[i].keys[j] IN
                           IF inodes[i].depth = 0
                             THEN k \in 1..nblocks
                             ELSE /\ k \in 1..(i - 1)
                                  /\ inodes[k].depth = inodes[i].depth - 1
    BY DEF TreeLinks
  <2>1. inodes[i] \in Inode /\ i \in Nat /\ Len(inodes) \in Nat
    BY DEF Shape, TypeOK
  <2>2. inodes[i].keys \in Seq(Nat) /\ inodes[i].depth \in Nat
    BY <2>1 DEF Inode
  <2>3. Len(inodes[i].keys) \in 1..IndexesPerBlock
    BY <2>2 DEF Shape, StoredKeys
  <2>4. ASSUME NEW j \in 1..Len(inodes[i].keys)
        PROVE  LET k == inodes[i].keys[j] IN
               IF inodes[i].depth = 0
                 THEN k \in 1..nblocks
                 ELSE k \in 1..(i - 1) /\ inodes[k].depth = inodes[i].depth - 1
    <3>1. PICK d \in Nat, k \in Nat : d = inodes[i].depth /\ k = inodes[i].keys[j]
      BY <2>2
    <3>2. KeyOK(d, k) /\ (d > 0 => k < i)
      BY <2>4, <3>1 DEF Shape, StoredKeys
    <3>3. CASE d = 0
      BY <3>1, <3>2, <3>3 DEF KeyOK
    <3>4. CASE d # 0
      <4>1. k \in 1..Len(inodes) /\ inodes[k].depth = d - 1 /\ k < i
        BY <3>2, <3>4 DEF KeyOK
      <4>2. k \in 1..(i - 1)
        BY <2>1, <4>1
      <4> QED
        BY <3>1, <3>4, <4>1, <4>2
    <3> QED
      BY <3>3, <3>4
  <2> QED
    BY <2>3, <2>4
<1> QED
  BY <1>1, ShapeInvariant, PTL

-----------------------------------------------------------------------------
(***************************************************************************)
(* What the tree spans: no key block lists an input block twice or out of  *)
(* order, and when no error was discarded the returned handle spans the    *)
(* whole input.  The argument follows the frontier of the tree: the        *)
(* pending blocks, read from the top level down to depth 0, cover the      *)
(* input from its beginning to the last block read.                        *)
(***************************************************************************)
(* b begins where a ends; after a discarded error there may be a gap. *)
Follows(a, b) == a <= b /\ (a = b \/ dropped)

Linked(d, keys) ==
    /\ \A j, k \in 1..Len(keys) : j < k => Hi(d, keys[j]) <= Lo(d, keys[k])
    /\ \A j \in 1..(Len(keys) - 1) : Follows(Hi(d, keys[j]), Lo(d, keys[j + 1]))

Start(l) == Lo(l - 1, levels[l][1])

End(l) ==
    IF l \in 1..Len(levels) /\ levels[l] # <<>>
      THEN Hi(l - 1, levels[l][Len(levels[l])]) ELSE 0

(* Inside a key block, stored or pending, spans follow one another. *)
StoredSpans ==
    \A i \in 1..Len(inodes) :
        /\ inodes[i].lo < inodes[i].hi
        /\ Linked(inodes[i].depth, inodes[i].keys)

PendingSpans ==
    \A l \in 1..Len(levels) : Linked(l - 1, levels[l])

(***************************************************************************)
(* Across levels, a pending block begins where its parent ends (the flush  *)
(* leaves this behind below its cursor), and the lowest one ends with the  *)
(* last input block.                                                       *)
(***************************************************************************)
ChainInv ==
    \A l \in 1..Len(levels) :
        l >= cursor /\ levels[l] # <<>> => Follows(End(l + 1), Start(l))

TailInv ==
    /\ pc = "read" => Follows(End(1), nblocks)
    /\ pc = "flush" => Follows(End(cursor), nblocks)

(***************************************************************************)
(* A carried handle fits right behind the block it is to be appended to    *)
(* and ends where the full block it was made from ends.                    *)
(***************************************************************************)
CarryInv ==
    pc = "add" =>
        /\ Follows(Hi(base - 1, carried[1]), nblocks)
        /\ \A i \in 1..Len(carried) :
            /\ Follows(End(base + i - 1), Lo(base + i - 2, carried[i]))
            /\ i > 1 => Hi(base + i - 2, carried[i]) = End(base + i - 2)

(* What a successful call returns. *)
ResultInv ==
    result = "ok" =>
        /\ pc = "done"
        /\ root \in 1..Len(inodes)
        /\ Follows(0, inodes[root].lo)
        /\ Follows(inodes[root].hi, nblocks)

IInv ==
    /\ Shape
    /\ StoredSpans
    /\ PendingSpans
    /\ ChainInv
    /\ TailInv
    /\ CarryInv
    /\ ResultInv

-----------------------------------------------------------------------------
(* An empty chain covers an empty input. *)
LEMMA InitSpans == Init => IInv
<1> SUFFICES ASSUME Init PROVE IInv
  OBVIOUS
<1>1. Len(levels) = 0 /\ Len(inodes) = 0 /\ levels = <<>>
  BY DEF Init
<1>2. StoredSpans /\ PendingSpans /\ ChainInv
  BY <1>1 DEF StoredSpans, PendingSpans, ChainInv
<1>3. TailInv
  <2>1. End(1) = 0 /\ nblocks = 0
    BY <1>1 DEF Init, End
  <2> QED
    BY <2>1 DEF Init, TailInv, Follows
<1>4. CarryInv /\ ResultInv
  BY DEF Init, CarryInv, ResultInv
<1> QED
  BY <1>2, <1>3, <1>4, InitShape DEF IInv

-----------------------------------------------------------------------------
(* A key spans at least one input block. *)
LEMMA SpanNonEmpty ==
  ASSUME Shape, StoredSpans
  PROVE  \A d \in Nat : \A h : KeyOK(d, h) =>
            Lo(d, h) \in Nat /\ Hi(d, h) \in Nat /\ Lo(d, h) < Hi(d, h)
<1> SUFFICES ASSUME NEW d \in Nat, NEW h, KeyOK(d, h)
             PROVE  Lo(d, h) \in Nat /\ Hi(d, h) \in Nat /\ Lo(d, h) < Hi(d, h)
  OBVIOUS
<1>1. Lo(d, h) \in Nat /\ Hi(d, h) \in Nat
  BY SpanType DEF Shape
<1>2. CASE d = 0
  BY <1>1, <1>2 DEF KeyOK, Lo, Hi, Shape, TypeOK
<1>3. CASE d # 0
  BY <1>1, <1>3 DEF KeyOK, Lo, Hi, StoredSpans
<1> QED
  BY <1>1, <1>2, <1>3

(* In a block whose keys are linked, no key ends after the last one. *)
LEMMA LastIsLast ==
  ASSUME Shape, StoredSpans, NEW d \in Nat, NEW s \in Seq(Nat), s # <<>>,
         \A j \in 1..Len(s) : KeyOK(d, s[j]),
         Linked(d, s)
  PROVE  /\ \A j \in 1..Len(s) : Hi(d, s[j]) <= Hi(d, s[Len(s)])
         /\ Lo(d, s[1]) < Hi(d, s[Len(s)])
<1>1. Len(s) \in Nat /\ Len(s) >= 1
  OBVIOUS
<1>2. \A j \in 1..Len(s) :
        Lo(d, s[j]) \in Nat /\ Hi(d, s[j]) \in Nat /\ Lo(d, s[j]) < Hi(d, s[j])
  BY SpanNonEmpty
<1>3. \A j \in 1..Len(s) : j < Len(s) => Hi(d, s[j]) <= Lo(d, s[Len(s)])
  BY <1>1 DEF Linked
<1>4. ASSUME NEW j \in 1..Len(s)
      PROVE  Hi(d, s[j]) <= Hi(d, s[Len(s)])
  <2>1. CASE j = Len(s)
    BY <1>1, <1>2, <2>1
  <2>2. CASE j < Len(s)
    <3>1. Hi(d, s[j]) <= Lo(d, s[Len(s)])
      BY <1>3, <2>2
    <3>2. Len(s) \in 1..Len(s)
      BY <1>1
    <3>3. /\ Hi(d, s[j]) \in Nat
          /\ Lo(d, s[Len(s)]) \in Nat /\ Hi(d, s[Len(s)]) \in Nat
          /\ Lo(d, s[Len(s)]) < Hi(d, s[Len(s)])
      BY <1>2, <3>2, Zenon
    <3> QED
      BY <3>1, <3>3
  <2> QED
    BY <1>1, <2>1, <2>2
<1>5. 1 \in 1..Len(s) /\ Len(s) \in 1..Len(s)
  BY <1>1
<1>6. Lo(d, s[1]) < Hi(d, s[Len(s)])
  BY <1>2, <1>4, <1>5
<1> QED
  BY <1>4, <1>6

(* A key that follows the last one may be appended. *)
LEMMA LinkedAppend ==
  ASSUME Shape, StoredSpans, NEW d \in Nat, NEW s \in Seq(Nat), NEW h \in Nat,
         \A j \in 1..Len(s) : KeyOK(d, s[j]), KeyOK(d, h),
         Linked(d, s),
         s # <<>> => Follows(Hi(d, s[Len(s)]), Lo(d, h))
  PROVE  Linked(d, Append(s, h))
<1> DEFINE a == Append(s, h)
<1>1. /\ Len(s) \in Nat /\ Len(a) = Len(s) + 1 /\ a[Len(s) + 1] = h
      /\ \A j \in 1..Len(s) : a[j] = s[j]
  OBVIOUS
<1> HIDE DEF a
<1>2. ASSUME NEW j \in 1..Len(a), NEW k \in 1..Len(a), j < k
      PROVE  Hi(d, a[j]) <= Lo(d, a[k])
  <2>1. j \in 1..Len(s) /\ a[j] = s[j]
    BY <1>1, <1>2
  <2>2. CASE k \in 1..Len(s)
    BY <1>1, <1>2, <2>1, <2>2 DEF Linked
  <2>3. CASE k = Len(s) + 1
    <3>1. s # <<>>
      BY <2>1
    <3>2. Hi(d, s[j]) <= Hi(d, s[Len(s)])
      BY <2>1, <3>1, LastIsLast
    <3>3. Hi(d, s[Len(s)]) <= Lo(d, h)
      BY <3>1 DEF Follows
    <3>4. /\ Hi(d, s[j]) \in Nat /\ Hi(d, s[Len(s)]) \in Nat
          /\ Lo(d, h) \in Nat
      <4>1. Len(s) \in 1..Len(s)
        BY <1>1, <2>1
      <4> QED
        BY <2>1, <4>1, SpanNonEmpty
    <3> QED
      BY <1>1, <2>1, <2>3, <3>2, <3>3, <3>4
  <2> QED
    BY <1>1, <2>2, <2>3
<1>3. ASSUME NEW j \in 1..(Len(a) - 1)
      PROVE  Follows(Hi(d, a[j]), Lo(d, a[j + 1]))
  <2>1. CASE j = Len(s)
    BY <1>1, <2>1
  <2>2. CASE j < Len(s)
    <3>1. j \in 1..(Len(s) - 1) /\ j \in 1..Len(s) /\ j + 1 \in 1..Len(s)
      BY <1>1, <2>2
    <3> QED
      BY <1>1, <3>1 DEF Linked
  <2> QED
    BY <1>1, <2>1, <2>2
<1> QED
  BY <1>2, <1>3 DEF Linked, a

-----------------------------------------------------------------------------
(* A step never makes a discarded error good again. *)
LEMMA DroppedStays ==
  ASSUME Shape, [Next]_vars
  PROVE  \A a, b : Follows(a, b) => Follows(a, b)'
<1>1. dropped => dropped'
  BY Zenon DEF vars, Next, ReadBlock, StoreBlockFails, ReadFails,
     EndOfEmptyStream, EndOfStream, FlushFullBlock, FlushFullBlockFails,
     AppendIndex, FlushLevel, FlushLevelFails, AssertionFails, AddReturns
<1> QED
  BY <1>1 DEF Follows

(* Keys that are linked stay so. *)
LEMMA LinkedStays ==
  ASSUME Shape, [Next]_vars, NEW d \in Nat, NEW s \in Seq(Nat),
         \A j \in 1..Len(s) : KeyOK(d, s[j]), Linked(d, s)
  PROVE  Linked(d, s)'
<1>1. \A j \in 1..Len(s) :
        Lo(d, s[j])' = Lo(d, s[j]) /\ Hi(d, s[j])' = Hi(d, s[j])
  BY NextStoreStep, KeyStays
<1>2. \A a, b : Follows(a, b) => Follows(a, b)'
  BY DroppedStays
<1>3. \A j, k \in 1..Len(s) : j < k => Hi(d, s[j])' <= Lo(d, s[k])'
  BY <1>1 DEF Linked
<1>4. ASSUME NEW j \in 1..(Len(s) - 1)
      PROVE  Follows(Hi(d, s[j]), Lo(d, s[j + 1]))'
  <2>1. j \in 1..Len(s) /\ j + 1 \in 1..Len(s)
    OBVIOUS
  <2>2. PICK a : a = Hi(d, s[j])
    OBVIOUS
  <2>3. PICK b : b = Lo(d, s[j + 1])
    OBVIOUS
  <2>4. Follows(a, b)
    BY <2>2, <2>3 DEF Linked
  <2>5. Follows(a, b)'
    BY <1>2, <2>4
  <2>6. Hi(d, s[j])' = a /\ Lo(d, s[j + 1])' = b
    BY <1>1, <2>1, <2>2, <2>3
  <2> QED
    BY <2>5, <2>6
<1> QED
  BY <1>3, <1>4 DEF Linked

(* What is stored stays linked, and so is a block that is written. *)
LEMMA StoredSpansStay ==
  ASSUME Shape, StoredSpans, PendingSpans, [Next]_vars
  PROVE  StoredSpans'
<1>0. StoreStep
  BY NextStoreStep
<1>1. Len(inodes) \in Nat /\ \A i \in 1..Len(inodes) :
        inodes[i].depth \in Nat /\ inodes[i].keys \in Seq(Nat)
  <2>1. Len(inodes) \in Nat /\ \A i \in 1..Len(inodes) : inodes[i] \in Inode
    BY DEF Shape, TypeOK
  <2> QED
    BY <2>1 DEF Inode
<1>2. ASSUME NEW i \in 1..Len(inodes)
      PROVE  /\ inodes'[i].lo < inodes'[i].hi
             /\ Linked(inodes[i].depth, inodes[i].keys)'
  <2>1. inodes'[i] = inodes[i]
    BY <1>0, StoreGrows DEF Grows
  <2>2. PICK d \in Nat : d = inodes[i].depth
    BY <1>1
  <2>3. PICK s \in Seq(Nat) : s = inodes[i].keys
    BY <1>1
  <2>4. Linked(d, s) /\ \A j \in 1..Len(s) : KeyOK(d, s[j])
    BY <2>2, <2>3 DEF Shape, StoredKeys, StoredSpans
  <2>5. Linked(d, s)'
    BY <2>4, LinkedStays
  <2>6. inodes'[i].depth = d /\ inodes'[i].keys = s
    BY <2>1, <2>2, <2>3
  <2>7. inodes'[i].lo < inodes'[i].hi
    BY <2>1 DEF StoredSpans
  <2> QED
    BY <2>5, <2>6, <2>7
<1>3. CASE inodes' = inodes
  BY <1>2, <1>3 DEF StoredSpans
<1>4. CASE \E l \in 1..Len(levels) : levels[l] # <<>> /\ Writes(l)
  <2>1. PICK l \in 1..Len(levels) : levels[l] # <<>> /\ Writes(l)
    BY <1>4
  <2>2. PICK n \in Nat : n = Len(inodes) + 1
    BY <1>1
  <2>3. PICK d \in Nat : d = l - 1
    BY DEF Shape, TypeOK
  <2>4. PICK s \in Seq(Nat) : s = levels[l]
    BY <2>1, InodeType
  <2>5. /\ Len(inodes') = n
        /\ inodes'[n].depth = d
        /\ inodes'[n].keys = s
        /\ inodes'[n].lo = Lo(d, s[1])
        /\ inodes'[n].hi = Hi(d, s[Len(s)])
        /\ s # <<>>
    BY <2>1, <2>2, <2>3, <2>4, WritesAppends, InodeType
  <2>6. Linked(d, s) /\ \A j \in 1..Len(s) : KeyOK(d, s[j])
    BY <2>3, <2>4 DEF Shape, PendingKeys, PendingSpans
  <2>7. inodes'[n].lo < inodes'[n].hi
    BY <2>5, <2>6, LastIsLast
  <2>8. Linked(inodes[n].depth, inodes[n].keys)'
    <3>1. Linked(d, s)'
      BY <2>6, LinkedStays
    <3> QED
      BY <2>5, <3>1
  <2>9. \A i \in 1..Len(inodes') : i \in 1..Len(inodes) \/ i = n
    BY <1>1, <2>2, <2>5
  <2> QED
    BY <1>2, <2>7, <2>8, <2>9 DEF StoredSpans
<1> QED
  BY <1>0, <1>3, <1>4 DEF StoreStep

(* A block of the chain that a step leaves alone stays linked, and begins  *)
(* and ends where it did.                                                  *)
LEMMA LevelStays ==
  ASSUME Shape, PendingSpans, [Next]_vars,
         NEW l \in 1..Len(levels), l \in 1..Len(levels'), levels'[l] = levels[l]
  PROVE  /\ Linked(l - 1, levels[l])'
         /\ End(l)' = End(l)
         /\ levels[l] # <<>> => Start(l)' = Start(l)
<1>1. PICK d \in Nat : d = l - 1
  BY DEF Shape, TypeOK
<1>2. PICK s \in Seq(Nat) : s = levels[l]
  BY DEF Shape, TypeOK
<1>3. Linked(d, s) /\ \A j \in 1..Len(s) : KeyOK(d, s[j])
  BY <1>1, <1>2 DEF Shape, PendingKeys, PendingSpans
<1>4. Linked(d, s)'
  BY <1>3, LinkedStays
<1>5. \A j \in 1..Len(s) :
        Lo(d, s[j])' = Lo(d, s[j]) /\ Hi(d, s[j])' = Hi(d, s[j])
  BY <1>3, NextStoreStep, KeyStays
<1>6. s # <<>> => 1 \in 1..Len(s) /\ Len(s) \in 1..Len(s)
  OBVIOUS
<1>7. End(l)' = End(l)
  BY <1>1, <1>2, <1>5, <1>6 DEF End
<1>8. levels[l] # <<>> => Start(l)' = Start(l)
  BY <1>1, <1>2, <1>5, <1>6 DEF Start
<1> QED
  BY <1>1, <1>2, <1>4, <1>7, <1>8

(* A step that changes no block of the chain. *)
LEMMA ChainStays ==
  ASSUME IInv, [Next]_vars, levels' = levels
  PROVE  /\ PendingSpans'
         /\ \A l \in Nat : End(l)' = End(l)
         /\ cursor' \in Nat /\ cursor' >= cursor => ChainInv'
<1>1. Shape /\ PendingSpans /\ ChainInv /\ Len(levels) \in Nat /\ cursor \in Nat
  BY DEF IInv, Shape, TypeOK
<1>2. \A l \in 1..Len(levels) :
         /\ Linked(l - 1, levels[l])'
         /\ End(l)' = End(l)
         /\ levels[l] # <<>> => Start(l)' = Start(l)
  BY <1>1, LevelStays
<1>3. \A l \in Nat : End(l)' = End(l)
  <2> SUFFICES ASSUME NEW l \in Nat PROVE End(l)' = End(l)
    OBVIOUS
  <2>1. CASE l \in 1..Len(levels)
    BY <1>2, <2>1
  <2>2. CASE l \notin 1..Len(levels)
    BY <2>2 DEF End
  <2> QED
    BY <2>1, <2>2
<1>4. ASSUME cursor' \in Nat, cursor' >= cursor,
             NEW l \in 1..Len(levels), l >= cursor', levels[l] # <<>>
      PROVE  Follows(End(l + 1), Start(l))'
  <2>1. PICK a : a = End(l + 1)
    OBVIOUS
  <2>2. PICK b : b = Start(l)
    OBVIOUS
  <2>3. Follows(a, b)
    BY <1>1, <1>4, <2>1, <2>2 DEF ChainInv
  <2>4. Follows(a, b)'
    BY <1>1, <2>3, DroppedStays
  <2>5. End(l + 1)' = a /\ Start(l)' = b
    BY <1>1, <1>2, <1>3, <1>4, <2>1, <2>2
  <2> QED
    BY <2>4, <2>5
<1> QED
  BY <1>2, <1>3, <1>4 DEF PendingSpans, ChainInv

(* A level ends with some input block. *)
LEMMA EndType ==
  ASSUME Shape, NEW l \in Nat
  PROVE  End(l) \in Nat
<1>1. CASE l \in 1..Len(levels) /\ levels[l] # <<>>
  <2>1. InodeOf(l) \in Inode /\ InodeOf(l).hi = Hi(l - 1, levels[l][Len(levels[l])])
    BY <1>1, InodeType
  <2> QED
    BY <1>1, <2>1 DEF End, Inode
<1>2. CASE ~(l \in 1..Len(levels) /\ levels[l] # <<>>)
  BY <1>2 DEF End
<1> QED
  BY <1>1, <1>2

(* A call that goes on has returned nothing yet. *)
LEMMA NoResultYet ==
  ASSUME IInv, pc # "done", result' = result
  PROVE  ResultInv'
BY DEF IInv, ResultInv

-----------------------------------------------------------------------------
(* The handle of the next block read continues the frontier. *)
LEMMA ReadBlockSpans ==
  ASSUME IInv, ReadBlock
  PROVE  IInv'
<1>0. Shape /\ StoredSpans /\ PendingSpans /\ [Next]_vars /\ Next
  BY DEF IInv, Next
<1>1. Shape' /\ StoredSpans'
  BY <1>0, ReadBlockShape, StoredSpansStay
<1>2. /\ pc = "read" /\ pc' = "add" /\ result' = result
      /\ cursor = 0 /\ cursor' = 0 /\ base' = 1
      /\ nblocks' = nblocks + 1 /\ nblocks \in Nat
      /\ carried' = <<nblocks + 1>> /\ Len(carried') = 1
      /\ carried'[1] = nblocks + 1
  BY <1>0 DEF ReadBlock, Shape, ControlInv, TypeOK
<1>3. ResultInv'
  BY <1>2, NoResultYet
<1>4. TailInv'
  BY <1>2 DEF TailInv
<1>5. PICK m \in Nat : m = nblocks
  BY <1>2
<1>6. PendingSpans' /\ ChainInv' /\ Follows(End(1), m)'
  <2>1. CASE levels = <<>>
    <3>1. levels' = << <<>> >> /\ Len(levels') = 1 /\ levels'[1] = <<>>
          /\ Len(<<>>) = 0
      BY <2>1 DEF ReadBlock
    <3>2. PendingSpans'
      BY <3>1 DEF PendingSpans, Linked
    <3>3. ChainInv'
      BY <3>1 DEF ChainInv
    <3>4. End(1)' = 0
      BY <3>1 DEF End
    <3>5. m = 0
      <4>1. Len(levels) = 0
        BY <2>1
      <4> QED
        BY <1>0, <1>2, <1>5, <4>1 DEF Shape, ControlInv
    <3> QED
      BY <3>2, <3>3, <3>4, <3>5 DEF Follows
  <2>2. CASE levels # <<>>
    <3>1. levels' = levels
      BY <2>2 DEF ReadBlock
    <3>2. PendingSpans' /\ ChainInv' /\ End(1)' = End(1)
      BY <1>0, <1>2, <3>1, ChainStays
    <3>3. PICK e : e = End(1)
      OBVIOUS
    <3>4. Follows(e, m)
      BY <1>2, <1>5, <3>3 DEF IInv, TailInv
    <3>5. Follows(e, m)'
      BY <1>0, <3>4, DroppedStays
    <3> QED
      BY <3>2, <3>3, <3>5
  <2> QED
    BY <2>1, <2>2
<1>7. CarryInv'
  <2>1. /\ carried'[1] = m + 1 /\ nblocks' = m + 1 /\ base' = 1
        /\ 1 \in 1..Len(carried') /\ \A i \in 1..Len(carried') : i = 1
    BY <1>2, <1>5
  <2>2. Lo(0, m + 1)' = m /\ Hi(0, m + 1)' = m + 1
    BY DEF Lo, Hi
  <2>3. Follows(m + 1, m + 1)'
    BY DEF Follows
  <2> QED
    BY <1>6, <2>1, <2>2, <2>3 DEF CarryInv
<1> QED
  BY <1>1, <1>3, <1>4, <1>6, <1>7 DEF IInv

(* A call that gives up leaves the stored key blocks as they are. *)
LEMMA ReturnSpans ==
  ASSUME IInv,
         StoreBlockFails \/ ReadFails \/ EndOfEmptyStream \/ FlushLevelFails
  PROVE  IInv'
<1>0. Shape /\ StoredSpans /\ PendingSpans /\ [Next]_vars
  BY DEF IInv, Next
<1>1. Shape' /\ StoredSpans'
  BY <1>0, ReturnShape, StoredSpansStay
<1>2. /\ levels' = <<>> /\ Len(levels') = 0 /\ pc' = "done"
      /\ result' \in {"store_error", "stream_error", "empty_source"}
  BY DEF StoreBlockFails, ReadFails, EndOfEmptyStream, FlushLevelFails, Return
<1>3. PendingSpans' /\ ChainInv' /\ TailInv' /\ CarryInv' /\ ResultInv'
  BY <1>2 DEF PendingSpans, ChainInv, TailInv, CarryInv, ResultInv
<1> QED
  BY <1>1, <1>3 DEF IInv

(* The flush begins with the last block read. *)
LEMMA EndOfStreamSpans ==
  ASSUME IInv, EndOfStream
  PROVE  IInv'
<1>0. Shape /\ StoredSpans /\ PendingSpans /\ [Next]_vars
  BY DEF IInv, Next
<1>1. Shape' /\ StoredSpans'
  BY <1>0, EndOfStreamShape, StoredSpansStay
<1>2. /\ pc = "read" /\ pc' = "flush" /\ result' = result /\ levels' = levels
      /\ cursor = 0 /\ cursor' = 1 /\ nblocks' = nblocks
  BY <1>0 DEF EndOfStream, Shape, ControlInv
<1>3. PendingSpans' /\ ChainInv' /\ End(1)' = End(1)
  BY <1>0, <1>2, ChainStays
<1>4. TailInv'
  <2>1. Follows(End(1), nblocks)
    BY <1>2 DEF IInv, TailInv
  <2>2. dropped' = dropped
    BY DEF EndOfStream
  <2>3. Follows(End(1), nblocks)'
    BY <1>2, <1>3, <2>1, <2>2 DEF Follows
  <2> QED
    BY <1>2, <2>3 DEF TailInv
<1>5. CarryInv' /\ ResultInv'
  BY <1>2, NoResultYet DEF CarryInv
<1> QED
  BY <1>1, <1>3, <1>4, <1>5 DEF IInv

(* An abort leaves every span as it is. *)
LEMMA AssertionFailsSpans ==
  ASSUME IInv, AssertionFails
  PROVE  IInv'
<1>0. Shape /\ StoredSpans /\ PendingSpans /\ [Next]_vars
  BY DEF IInv, Next
<1>1. Shape' /\ StoredSpans'
  BY <1>0, AssertionFailsShape, StoredSpansStay
<1>2. /\ pc # "done" /\ pc' = "aborted" /\ result' = result /\ levels' = levels
      /\ cursor' = cursor /\ cursor \in Nat
  BY <1>0 DEF AssertionFails, Shape, TypeOK
<1>3. PendingSpans' /\ ChainInv'
  BY <1>0, <1>2, ChainStays
<1>4. TailInv' /\ CarryInv' /\ ResultInv'
  BY <1>2, NoResultYet DEF TailInv, CarryInv
<1> QED
  BY <1>1, <1>3, <1>4 DEF IInv

(* The carried handles are lost: from now on there may be a gap. *)
LEMMA FlushFullBlockFailsSpans ==
  ASSUME IInv, FlushFullBlockFails
  PROVE  IInv'
<1>0. Shape /\ StoredSpans /\ PendingSpans /\ [Next]_vars
  BY DEF IInv, Next
<1>1. Shape' /\ StoredSpans'
  BY <1>0, FlushFullBlockFailsShape, StoredSpansStay
<1>2. /\ pc = "add" /\ result' = result /\ levels' = levels
      /\ nblocks' = nblocks /\ nblocks \in Nat
      /\ base \in Nat /\ base >= 1 /\ Len(carried) >= 1 /\ Len(carried) \in Nat
  BY <1>0, TopWritable DEF FlushFullBlockFails, Shape, TypeOK
<1>3. /\ \/ cursor = 0 /\ cursor' = 0 /\ pc' = "read"
         \/ cursor >= 1 /\ cursor' = cursor + 1 /\ pc' = "flush"
      /\ cursor \in Nat
      /\ cursor + 1 = base
  BY <1>0, <1>2, AddReturnsControl DEF FlushFullBlockFails
<1>4. PendingSpans' /\ ChainInv' /\ \A l \in Nat : End(l)' = End(l)
  BY <1>0, <1>2, <1>3, ChainStays
<1>5. dropped'
  BY Zenon DEF FlushFullBlockFails, AddReturns
<1>6. PICK e : e = End(base)
  OBVIOUS
<1>7. e <= nblocks
  <2>1. PICK h : h = carried[1]
    OBVIOUS
  <2>2. PICK d \in Nat : d = base - 1
    BY <1>2
  <2>3. KeyOK(d, h) /\ e <= Lo(d, h) /\ Hi(d, h) <= nblocks
    <3>1. 1 \in 1..Len(carried) /\ base + 1 - 1 = base /\ base + 1 - 2 = d
      BY <1>2, <2>2
    <3>2. KeyOK(base + 1 - 2, carried[1])
      BY <1>0, <1>2, <3>1 DEF Shape, CarriedKeys
    <3>3. Follows(End(base + 1 - 1), Lo(base + 1 - 2, carried[1]))
      BY <1>2, <3>1 DEF IInv, CarryInv
    <3>4. Follows(Hi(base - 1, carried[1]), nblocks)
      BY <1>2 DEF IInv, CarryInv
    <3> QED
      BY <1>6, <2>1, <2>2, <3>1, <3>2, <3>3, <3>4 DEF Follows
  <2>4. Lo(d, h) \in Nat /\ Hi(d, h) \in Nat /\ Lo(d, h) < Hi(d, h)
    BY <1>0, <2>3, SpanNonEmpty
  <2>5. e \in Nat
    BY <1>0, <1>2, <1>6, EndType
  <2> QED
    BY <1>2, <2>3, <2>4, <2>5
<1>8. TailInv'
  <2>1. PICK b \in Nat : b = base
    BY <1>2
  <2>2. End(b)' = e
    BY <1>4, <1>6, <2>1
  <2>3. pc' = "read" => b = 1
    BY <1>3, <2>1
  <2>4. pc' = "flush" => cursor' = b
    BY <1>3, <2>1
  <2> QED
    BY <1>2, <1>5, <1>7, <2>2, <2>3, <2>4 DEF TailInv, Follows
<1>9. CarryInv' /\ ResultInv'
  BY <1>2, <1>3, NoResultYet DEF CarryInv
<1> QED
  BY <1>1, <1>4, <1>8, <1>9 DEF IInv

(* The handle of a flushed level continues its parent. *)
LEMMA FlushLevelSpans ==
  ASSUME IInv, FlushLevel
  PROVE  IInv'
<1>0. Shape /\ StoredSpans /\ PendingSpans /\ [Next]_vars
  BY DEF IInv, Next
<1>1. Shape' /\ StoredSpans'
  BY <1>0, FlushLevelShape, StoredSpansStay
<1>2. PICK n \in Nat : n = Len(inodes) + 1
  BY <1>0 DEF Shape, TypeOK
<1>3. PICK k \in Nat : k = cursor
  BY <1>0 DEF Shape, TypeOK
<1>4. /\ k \in 1..Len(levels) /\ levels[k] # <<>> /\ Writes(k)
      /\ Len(levels) \in Nat /\ pc = "flush"
      /\ nblocks' = nblocks /\ root' = n
  BY <1>0, <1>2, <1>3, CursorWritable DEF FlushLevel, Writes
<1>5. PICK a \in Nat : a = Start(k)
  <2>1. InodeOf(k) \in Inode /\ InodeOf(k).lo = Start(k)
    BY <1>0, <1>4, InodeType DEF Start
  <2> QED
    BY <2>1 DEF Inode
<1>6. PICK e \in Nat : e = End(k)
  BY <1>0, EndType
<1>7. Len(inodes') = n /\ inodes'[n].lo = a /\ inodes'[n].hi = e
  BY <1>0, <1>2, <1>4, <1>5, <1>6, WritesAppends, InodeType DEF Start, End
<1>8. PICK p : p = End(k + 1)
  OBVIOUS
<1>9. PICK m : m = nblocks
  OBVIOUS
<1>10. Follows(p, a)'
  <2>1. Follows(p, a)
    BY <1>3, <1>4, <1>5, <1>8 DEF IInv, ChainInv
  <2> QED
    BY <1>0, <2>1, DroppedStays
<1>11. Follows(e, m)'
  <2>1. Follows(e, m)
    BY <1>3, <1>4, <1>6, <1>9 DEF IInv, TailInv
  <2> QED
    BY <1>0, <2>1, DroppedStays
<1>12. CASE cursor < Len(levels)
  <2>1. /\ pc' = "add" /\ base' = k + 1 /\ carried' = <<n>> /\ levels' = levels
        /\ cursor' = cursor /\ result' = result
        /\ Len(carried') = 1 /\ carried'[1] = n
    BY <1>2, <1>3, <1>12 DEF FlushLevel
  <2>2. PendingSpans' /\ ChainInv' /\ End(k + 1)' = p
    BY <1>0, <1>3, <1>8, <2>1, ChainStays
  <2>3. ResultInv' /\ TailInv'
    BY <1>4, <2>1, NoResultYet DEF TailInv
  <2>4. CarryInv'
    <3>1. Lo(k, n)' = a /\ Hi(k, n)' = e
      BY <1>4, <1>7 DEF Lo, Hi
    <3>2. Follows(Hi(base - 1, carried[1]), nblocks)'
      <4>1. base' - 1 = k /\ nblocks' = m
        BY <1>4, <1>9, <2>1
      <4> QED
        BY <1>11, <2>1, <3>1, <4>1
    <3>3. ASSUME NEW i \in 1..Len(carried')
          PROVE  /\ Follows(End(base + i - 1), Lo(base + i - 2, carried[i]))'
                 /\ ~(i > 1)
      <4>1. i = 1 /\ base' + i - 1 = k + 1 /\ base' + i - 2 = k
        BY <2>1
      <4>2. Follows(End(k + 1), Lo(k, n))'
        BY <1>10, <2>2, <3>1
      <4> QED
        BY <2>1, <4>1, <4>2
    <3> QED
      BY <3>2, <3>3 DEF CarryInv
  <2> QED
    BY <1>1, <2>2, <2>3, <2>4 DEF IInv
<1>13. CASE ~(cursor < Len(levels))
  <2>1. pc' = "done" /\ levels' = <<>> /\ Len(levels') = 0
    BY <1>13 DEF FlushLevel, Return
  <2>2. PendingSpans' /\ ChainInv' /\ TailInv' /\ CarryInv'
    BY <2>1 DEF PendingSpans, ChainInv, TailInv, CarryInv
  <2>3. p = 0
    BY <1>3, <1>4, <1>8, <1>13 DEF End
  <2>4. ResultInv'
    <3>1. n \in 1..Len(inodes')
      BY <1>0, <1>2, <1>7 DEF Shape, TypeOK
    <3>2. Follows(0, inodes[n].lo)' /\ Follows(inodes[n].hi, nblocks)'
      BY <1>4, <1>7, <1>9, <1>10, <1>11, <2>3
    <3> QED
      BY <1>4, <2>1, <3>1, <3>2 DEF ResultInv
  <2> QED
    BY <1>1, <2>2, <2>4 DEF IInv
<1> QED
  BY <1>12, <1>13

(* The handle of a full block continues its parent. *)
LEMMA FlushFullBlockSpans ==
  ASSUME IInv, FlushFullBlock
  PROVE  IInv'
<1>0. Shape /\ StoredSpans /\ PendingSpans /\ [Next]_vars
  BY DEF IInv, Next
<1>1. Shape' /\ StoredSpans'
  BY <1>0, FlushFullBlockShape, StoredSpansStay
<1>2. PICK n \in Nat : n = Len(inodes) + 1
  BY <1>0 DEF Shape, TypeOK
<1>3. PICK t \in Nat : t = Top
  BY <1>0, TopWritable DEF FlushFullBlock
<1>4. PICK c \in Nat : c = Len(carried)
  BY <1>0 DEF Shape, TypeOK
<1>5. PICK b \in Nat : b = base
  BY <1>0 DEF Shape, TypeOK
<1>6. /\ t \in 1..Len(levels) /\ levels[t] # <<>> /\ Writes(t)
      /\ t = b + c - 1 /\ b >= 1 /\ c >= 1
      /\ Len(levels) \in Nat /\ pc = "add" /\ pc' = "add" /\ base' = b
      /\ nblocks' = nblocks /\ result' = result /\ cursor' = cursor
  BY <1>0, <1>3, <1>4, <1>5, TopWritable DEF FlushFullBlock, Writes
<1>7. cursor \in Nat /\ b = cursor + 1
  BY <1>0, <1>5, <1>6 DEF Shape, TypeOK, ControlInv
<1>8. PICK a \in Nat : a = Start(t)
  <2>1. InodeOf(t) \in Inode /\ InodeOf(t).lo = Start(t)
    BY <1>0, <1>6, InodeType DEF Start
  <2> QED
    BY <2>1 DEF Inode
<1>9. PICK e \in Nat : e = End(t)
  BY <1>0, EndType
<1>10. Len(inodes') = n /\ inodes'[n].lo = a /\ inodes'[n].hi = e
  BY <1>0, <1>2, <1>6, <1>8, <1>9, WritesAppends, InodeType DEF Start, End
<1>11. /\ Len(carried') = c + 1
       /\ carried'[c + 1] = n
       /\ \A i \in 1..c : carried'[i] = carried[i]
  BY <1>0, <1>2, <1>4 DEF FlushFullBlock, Shape, TypeOK
<1>12. /\ Len(levels') \in Nat
       /\ Len(levels') >= Len(levels)
       /\ \A l \in 1..Len(levels) : levels'[l] = levels[l]
       /\ \A l \in 1..Len(levels') : l \notin 1..Len(levels) => levels'[l] = <<>>
  <2>1. levels \in Seq(Seq(Nat)) /\ <<>> \in Seq(Nat)
    BY <1>0 DEF Shape, TypeOK
  <2>2. CASE levels' = Append(levels, <<>>)
    <3>1. /\ Len(levels') = Len(levels) + 1
          /\ levels'[Len(levels) + 1] = <<>>
          /\ \A l \in 1..Len(levels) : levels'[l] = levels[l]
      BY <2>1, <2>2
    <3>2. \A l \in 1..(Len(levels) + 1) :
            l \notin 1..Len(levels) => l = Len(levels) + 1
      BY <1>6
    <3> QED
      BY <1>6, <3>1, <3>2
  <2>3. CASE levels' = levels
    BY <1>6, <2>3
  <2> QED
    BY <2>2, <2>3 DEF FlushFullBlock
<1>13. \A l \in 1..Len(levels) :
          /\ l \in 1..Len(levels')
          /\ Linked(l - 1, levels[l])'
          /\ End(l)' = End(l)
          /\ levels[l] # <<>> => Start(l)' = Start(l)
  <2> SUFFICES ASSUME NEW l \in 1..Len(levels)
               PROVE  /\ l \in 1..Len(levels')
                      /\ Linked(l - 1, levels[l])'
                      /\ End(l)' = End(l)
                      /\ levels[l] # <<>> => Start(l)' = Start(l)
    OBVIOUS
  <2>1. l \in 1..Len(levels') /\ levels'[l] = levels[l]
    BY <1>6, <1>12
  <2> QED
    BY <1>0, <2>1, LevelStays
<1>14. \A l \in Nat : End(l)' = End(l)
  <2> SUFFICES ASSUME NEW l \in Nat PROVE End(l)' = End(l)
    OBVIOUS
  <2>1. CASE l \in 1..Len(levels)
    BY <1>13, <2>1
  <2>2. CASE l \notin 1..Len(levels)
    BY <1>12, <2>2 DEF End
  <2> QED
    BY <2>1, <2>2
<1>15. PendingSpans'
  <2>1. Len(<<>>) = 0
    OBVIOUS
  <2>2. \A l \in 1..Len(levels') : l \notin 1..Len(levels) =>
           Linked(l - 1, levels[l])'
    BY <1>12, <2>1 DEF Linked
  <2> QED
    BY <1>13, <2>2 DEF PendingSpans
<1>16. ChainInv'
  <2> SUFFICES ASSUME NEW l \in 1..Len(levels'), l >= cursor', levels'[l] # <<>>
               PROVE  Follows(End(l + 1), Start(l))'
    BY DEF ChainInv
  <2>1. l \in 1..Len(levels) /\ levels[l] # <<>> /\ l >= cursor
    BY <1>6, <1>12
  <2>2. PICK x : x = End(l + 1)
    OBVIOUS
  <2>3. PICK y : y = Start(l)
    OBVIOUS
  <2>4. Follows(x, y)
    BY <2>1, <2>2, <2>3 DEF IInv, ChainInv
  <2>5. Follows(x, y)'
    BY <1>0, <2>4, DroppedStays
  <2>6. End(l + 1)' = x /\ Start(l)' = y
    BY <1>6, <1>13, <1>14, <2>1, <2>2, <2>3
  <2> QED
    BY <2>5, <2>6
<1>17. ResultInv' /\ TailInv'
  BY <1>6, NoResultYet DEF TailInv
<1>18. CarryInv'
  <2>1. \A d \in Nat : \A h : KeyOK(d, h) =>
           Lo(d, h)' = Lo(d, h) /\ Hi(d, h)' = Hi(d, h)
    BY <1>0, NextStoreStep, KeyStays
  <2>2. \A x, y : Follows(x, y) => Follows(x, y)'
    BY <1>0, DroppedStays
  <2>3. ASSUME NEW i \in 1..c
        PROVE  /\ carried'[i] = carried[i]
               /\ Lo(b + i - 2, carried[i])' = Lo(b + i - 2, carried[i])
               /\ Hi(b + i - 2, carried[i])' = Hi(b + i - 2, carried[i])
    <3>1. PICK d \in Nat : d = b + i - 2
      BY <1>6
    <3>2. PICK h : h = carried[i]
      OBVIOUS
    <3>3. KeyOK(d, h)
      BY <1>0, <1>4, <1>5, <1>6, <3>1, <3>2 DEF Shape, CarriedKeys
    <3> QED
      BY <1>11, <2>1, <3>1, <3>2, <3>3
  <2>4. Follows(Hi(base - 1, carried[1]), nblocks)'
    <3>1. PICK h : h = carried[1]
      OBVIOUS
    <3>2. PICK x : x = Hi(b - 1, h)
      OBVIOUS
    <3>3. PICK y : y = nblocks
      OBVIOUS
    <3>4. Follows(x, y)
      BY <1>5, <1>6, <3>1, <3>2, <3>3 DEF IInv, CarryInv
    <3>5. 1 \in 1..c /\ b + 1 - 2 = b - 1
      BY <1>6
    <3>6. Hi(b - 1, h)' = x /\ carried'[1] = h
      BY <2>3, <3>1, <3>2, <3>5
    <3> QED
      BY <1>6, <2>2, <3>3, <3>4, <3>6
  <2>5. ASSUME NEW i \in 1..c
        PROVE  /\ Follows(End(base + i - 1), Lo(base + i - 2, carried[i]))'
               /\ i > 1 => Hi(base + i - 2, carried[i])' = End(base + i - 2)'
    <3>1. PICK h : h = carried[i]
      OBVIOUS
    <3>2. PICK x : x = End(b + i - 1)
      OBVIOUS
    <3>3. PICK y : y = Lo(b + i - 2, h)
      OBVIOUS
    <3>4. Follows(x, y) /\ (i > 1 => Hi(b + i - 2, h) = End(b + i - 2))
      BY <1>4, <1>5, <1>6, <3>1, <3>2, <3>3 DEF IInv, CarryInv
    <3>5. b + i - 1 \in Nat /\ (i > 1 => b + i - 2 \in Nat)
      BY <1>6
    <3>6. End(b + i - 1)' = x /\ Lo(b + i - 2, h)' = y /\ carried'[i] = h
      BY <1>14, <2>3, <3>1, <3>2, <3>3, <3>5
    <3>7. i > 1 => Hi(b + i - 2, h)' = End(b + i - 2)'
      BY <1>14, <2>3, <3>1, <3>4, <3>5
    <3> QED
      BY <1>6, <2>2, <3>4, <3>6, <3>7
  <2>6. PICK i \in Nat : i = c + 1
    OBVIOUS
  <2>7. /\ Follows(End(base + i - 1), Lo(base + i - 2, carried[i]))'
        /\ Hi(base + i - 2, carried[i])' = End(base + i - 2)'
    <3>1. base' + i - 1 = t + 1 /\ base' + i - 2 = t /\ carried'[i] = n
      BY <1>6, <1>11, <2>6
    <3>2. Lo(t, n)' = a /\ Hi(t, n)' = e
      BY <1>6, <1>10 DEF Lo, Hi
    <3>3. PICK x : x = End(t + 1)
      OBVIOUS
    <3>4. Follows(x, a)
      BY <1>6, <1>7, <1>8, <3>3 DEF IInv, ChainInv
    <3>5. End(t + 1)' = x /\ End(t)' = e
      BY <1>9, <1>14, <3>3
    <3>6. Follows(End(t + 1), Lo(t, n))'
      BY <2>2, <3>2, <3>4, <3>5
    <3> QED
      BY <3>1, <3>2, <3>5, <3>6
  <2>8. \A j \in 1..Len(carried') : j \in 1..c \/ j = i
    BY <1>11, <2>6
  <2> QED
    BY <2>4, <2>5, <2>7, <2>8 DEF CarryInv
<1> QED
  BY <1>1, <1>15, <1>16, <1>17, <1>18 DEF IInv

(* Each block of the chain begins where its parent now ends. *)
LEMMA AppendIndexSpans ==
  ASSUME IInv, AppendIndex
  PROVE  IInv'
<1>0. Shape /\ StoredSpans /\ PendingSpans /\ [Next]_vars
  BY DEF IInv, Next
<1>1. Shape' /\ StoredSpans'
  BY <1>0, AppendIndexShape, StoredSpansStay
<1>2. PICK t \in Nat : t = Top
  BY <1>0, TopWritable DEF AppendIndex
<1>3. PICK c \in Nat : c = Len(carried)
  BY <1>0 DEF Shape, TypeOK
<1>4. PICK b \in Nat : b = base
  BY <1>0 DEF Shape, TypeOK
<1>5. /\ t \in 1..Len(levels) /\ t = b + c - 1 /\ b >= 1 /\ c >= 1
      /\ Len(levels) \in Nat /\ levels[t] \in Seq(Nat) /\ pc = "add"
      /\ nblocks' = nblocks /\ inodes' = inodes /\ result' = result
  BY <1>0, <1>2, <1>3, <1>4, TopWritable DEF AppendIndex
<1>6. dropped' = dropped
  <2>1. dropped \in BOOLEAN /\ dropped' = (dropped \/ FALSE)
    BY <1>0 DEF AppendIndex, AddReturns, Shape, TypeOK
  <2> QED
    BY <2>1, Zenon
<1>7. /\ \/ cursor = 0 /\ cursor' = 0 /\ pc' = "read"
         \/ cursor >= 1 /\ cursor' = cursor + 1 /\ pc' = "flush"
      /\ cursor \in Nat
      /\ cursor + 1 = b
  BY <1>0, <1>4, <1>5, AddReturnsControl DEF AppendIndex
<1>8. /\ Len(levels') = Len(levels)
      /\ levels'[t] = Append(levels[t], carried[c])
      /\ \A l \in b..(t - 1) : levels'[l] = <<carried[l - b + 1]>>
      /\ \A l \in 1..Len(levels) : l \notin b..t => levels'[l] = levels[l]
      /\ \A i \in 1..c : carried[i] \in Nat
  BY <1>0, <1>2, <1>3, <1>4, AppendedLevels
(* The stores are the same, so spans are. *)
<1>9. /\ \A d, h : Lo(d, h)' = Lo(d, h) /\ Hi(d, h)' = Hi(d, h)
      /\ \A x, y : Follows(x, y)' <=> Follows(x, y)
  BY <1>5, <1>6 DEF Lo, Hi, Follows
<1>10. /\ Follows(Hi(b - 1, carried[1]), nblocks)
       /\ \A i \in 1..c :
            /\ KeyOK(b + i - 2, carried[i])
            /\ Follows(End(b + i - 1), Lo(b + i - 2, carried[i]))
            /\ i > 1 => Hi(b + i - 2, carried[i]) = End(b + i - 2)
  BY <1>0, <1>3, <1>4, <1>5 DEF IInv, CarryInv, Shape, CarriedKeys
(* The same, by level. *)
<1>11. \A l \in b..t :
          /\ l - b + 1 \in 1..c
          /\ KeyOK(l - 1, carried[l - b + 1])
          /\ Follows(End(l), Lo(l - 1, carried[l - b + 1]))
  <2> SUFFICES ASSUME NEW l \in b..t
               PROVE  /\ l - b + 1 \in 1..c
                      /\ KeyOK(l - 1, carried[l - b + 1])
                      /\ Follows(End(l), Lo(l - 1, carried[l - b + 1]))
    OBVIOUS
  <2>1. PICK i \in Nat : i = l - b + 1
    BY <1>5
  <2>2. i \in 1..c /\ b + i - 2 = l - 1 /\ b + i - 1 = l
    BY <1>5, <2>1
  <2>3. KeyOK(b + i - 2, carried[i]) /\ Follows(End(b + i - 1), Lo(b + i - 2, carried[i]))
    BY <1>10, <2>2, Zenon
  <2> QED
    BY <2>1, <2>2, <2>3
<1>12. \A l \in b..(t - 1) : Hi(l, carried[l - b + 2]) = End(l)
  <2> SUFFICES ASSUME NEW l \in b..(t - 1)
               PROVE  Hi(l, carried[l - b + 2]) = End(l)
    OBVIOUS
  <2>1. PICK i \in Nat : i = l - b + 2
    BY <1>5
  <2>2. i \in 1..c /\ b + i - 2 = l /\ i > 1
    BY <1>5, <2>1
  <2>3. Hi(b + i - 2, carried[i]) = End(b + i - 2)
    BY <1>10, <2>2, Zenon
  <2> QED
    BY <2>1, <2>2, <2>3
(* The new blocks: where they begin and end, and that they are linked. *)
<1>13. /\ Len(levels'[t]) = Len(levels[t]) + 1 /\ levels'[t] # <<>>
       /\ levels'[t][Len(levels[t]) + 1] = carried[c]
       /\ levels[t] # <<>> => levels'[t][1] = levels[t][1]
       /\ levels[t] = <<>> => levels'[t][1] = carried[c]
  <2>1. PICK s \in Seq(Nat) : s = levels[t]
    BY <1>5
  <2>2. PICK h \in Nat : h = carried[c]
    BY <1>5, <1>8
  <2>3. /\ Len(Append(s, h)) = Len(s) + 1 /\ Append(s, h) # <<>>
        /\ Append(s, h)[Len(s) + 1] = h
        /\ s # <<>> => Append(s, h)[1] = s[1]
        /\ s = <<>> => Append(s, h)[1] = h
    OBVIOUS
  <2>4. levels'[t] = Append(s, h)
    BY <1>8, <2>1, <2>2
  <2> QED
    BY <2>1, <2>2, <2>3, <2>4
<1>14. \A l \in b..(t - 1) :
          /\ Len(levels'[l]) = 1 /\ levels'[l] # <<>>
          /\ levels'[l][1] = carried[l - b + 1]
  <2>1. \A x : Len(<<x>>) = 1 /\ <<x>> # <<>> /\ <<x>>[1] = x
    OBVIOUS
  <2> QED
    BY <1>8, <2>1, ZenonT(30)
<1>15. \A l \in b..t : End(l)' = Hi(l - 1, carried[l - b + 1])
  <2> SUFFICES ASSUME NEW l \in b..t
               PROVE  End(l)' = Hi(l - 1, carried[l - b + 1])
    OBVIOUS
  <2>0. l \in 1..Len(levels') /\ (l = t \/ l \in b..(t - 1))
    BY <1>5, <1>8
  <2>1. CASE l = t
    <3>1. l - b + 1 = c
      BY <1>5, <2>1
    <3> QED
      BY <1>9, <1>13, <2>0, <2>1, <3>1 DEF End
  <2>2. CASE l \in b..(t - 1)
    <3>1. Len(levels'[l]) = 1 /\ levels'[l] # <<>> /\ levels'[l][1] = carried[l - b + 1]
      BY <1>14, <2>2, Zenon
    <3> QED
      BY <1>9, <2>0, <3>1 DEF End
  <2> QED
    BY <2>0, <2>1, <2>2
<1>16. \A l \in 1..Len(levels) : l \notin b..t =>
          /\ Linked(l - 1, levels[l])'
          /\ End(l)' = End(l)
          /\ levels[l] # <<>> => Start(l)' = Start(l)
  BY <1>0, <1>8, LevelStays
<1>17. PendingSpans'
  <2> SUFFICES ASSUME NEW l \in 1..Len(levels)
               PROVE  Linked(l - 1, levels[l])'
    BY <1>8 DEF PendingSpans
  <2>1. CASE l = t
    <3>1. PICK d \in Nat : d = t - 1
      BY <1>5
    <3>2. PICK s \in Seq(Nat) : s = levels[t]
      BY <1>5
    <3>3. PICK h \in Nat : h = carried[c]
      BY <1>5, <1>8
    <3>4. t \in b..t /\ t - b + 1 = c
      BY <1>5
    <3>5. KeyOK(d, h) /\ Follows(End(t), Lo(d, h))
      BY <1>11, <3>1, <3>3, <3>4
    <3>6. \A j \in 1..Len(s) : KeyOK(d, s[j])
      BY <1>0, <1>5, <3>1, <3>2 DEF Shape, PendingKeys
    <3>7. Linked(d, s)
      BY <1>0, <1>5, <3>1, <3>2 DEF PendingSpans
    <3>8. s # <<>> => Follows(Hi(d, s[Len(s)]), Lo(d, h))
      BY <1>5, <3>1, <3>2, <3>5 DEF End
    <3>9. Linked(d, Append(s, h))
      BY <1>0, <3>5, <3>6, <3>7, <3>8, LinkedAppend
    <3>10. PICK a : a = Append(s, h)
      OBVIOUS
    <3>11. Linked(d, a)'
      BY <1>9, <3>9, <3>10 DEF Linked
    <3> QED
      BY <1>8, <2>1, <3>1, <3>2, <3>3, <3>10, <3>11
  <2>2. CASE l \in b..(t - 1)
    <3>1. Len(levels'[l]) = 1
      BY <1>14, <2>2, Zenon
    <3> QED
      BY <3>1 DEF Linked
  <2>3. CASE l \notin b..t
    BY <1>16, <2>3
  <2>4. l = t \/ l \in b..(t - 1) \/ l \notin b..t
    BY <1>5
  <2> QED
    BY <2>1, <2>2, <2>3, <2>4
<1>18. \A l \in Nat : l > t => End(l)' = End(l)
  <2> SUFFICES ASSUME NEW l \in Nat, l > t PROVE End(l)' = End(l)
    OBVIOUS
  <2>1. CASE l \in 1..Len(levels)
    BY <1>5, <1>16, <2>1
  <2>2. CASE l \notin 1..Len(levels)
    BY <1>8, <2>2 DEF End
  <2> QED
    BY <2>1, <2>2
<1>19. ChainInv'
  <2> SUFFICES ASSUME NEW l \in 1..Len(levels), l >= cursor'
               PROVE  Follows(End(l + 1), Start(l))'
    BY <1>8 DEF ChainInv
  <2>0. l >= b /\ l >= cursor /\ l \in Nat
    BY <1>5, <1>7
  <2>1. CASE l > t
    <3>1. End(l + 1)' = End(l + 1) /\ l \notin b..t
      BY <1>5, <1>18, <2>0, <2>1
    <3>2. levels[l] # <<>>
      BY <1>0, <1>2, <2>1 DEF Shape, LevelsInv
    <3>3. Start(l)' = Start(l)
      BY <1>16, <3>1, <3>2
    <3>4. Follows(End(l + 1), Start(l))
      BY <2>0, <3>2 DEF IInv, ChainInv
    <3> QED
      BY <1>6, <3>1, <3>3, <3>4 DEF Follows
  <2>2. CASE l = t
    <3>1. End(t + 1)' = End(t + 1)
      BY <1>18
    <3>2. CASE levels[t] # <<>>
      <4>1. Start(t)' = Start(t)
        BY <1>9, <1>13, <3>2 DEF Start
      <4>2. Follows(End(t + 1), Start(t))
        BY <1>5, <2>0, <2>2, <3>2 DEF IInv, ChainInv
      <4> QED
        BY <1>6, <2>2, <3>1, <4>1, <4>2 DEF Follows
    <3>3. CASE levels[t] = <<>>
      <4>1. End(t + 1) = 0 /\ End(t) = 0
        <5>1. t = Len(levels)
          BY <1>0, <1>2, <1>5, <3>3 DEF Shape, LevelsInv
        <5> QED
          BY <1>5, <3>3, <5>1 DEF End
      <4>2. Start(t)' = Lo(t - 1, carried[c])
        BY <1>9, <1>13, <3>3 DEF Start
      <4>3. Follows(End(t), Lo(t - 1, carried[c]))
        <5>1. t \in b..t /\ t - b + 1 = c
          BY <1>5
        <5> QED
          BY <1>11, <5>1
      <4> QED
        BY <1>6, <2>2, <3>1, <4>1, <4>2, <4>3 DEF Follows
    <3> QED
      BY <3>2, <3>3
  <2>3. CASE l < t
    <3>1. /\ l \in b..(t - 1) /\ l \in b..t /\ l + 1 \in b..t
          /\ (l + 1) - 1 = l /\ (l + 1) - b + 1 = l - b + 2
      BY <1>5, <2>0, <2>3
    <3>2. End(l + 1)' = End(l)
      <4>1. End(l + 1)' = Hi((l + 1) - 1, carried[(l + 1) - b + 1])
        BY <1>15, <3>1, Zenon
      <4>2. Hi(l, carried[l - b + 2]) = End(l)
        BY <1>12, <3>1, Zenon
      <4> QED
        BY <3>1, <4>1, <4>2
    <3>3. Start(l)' = Lo(l - 1, carried[l - b + 1])
      <4>1. levels'[l][1] = carried[l - b + 1]
        BY <1>14, <3>1, Zenon
      <4> QED
        BY <1>9, <4>1 DEF Start
    <3>4. Follows(End(l), Lo(l - 1, carried[l - b + 1]))
      BY <1>11, <3>1, Zenon
    <3> QED
      BY <1>6, <3>2, <3>3, <3>4 DEF Follows
  <2> QED
    BY <1>5, <2>0, <2>1, <2>2, <2>3
<1>20. TailInv'
  <2>1. End(b)' = Hi(b - 1, carried[1])
    <3>1. b \in b..t /\ b - b + 1 = 1
      BY <1>5
    <3> QED
      BY <1>15, <3>1
  <2>2. Follows(End(b), nblocks)'
    BY <1>5, <1>6, <1>10, <2>1 DEF Follows
  <2>3. (pc' = "read" => b = 1) /\ (pc' = "flush" => cursor' = b)
    BY <1>7
  <2> QED
    BY <2>2, <2>3 DEF TailInv
<1>21. CarryInv' /\ ResultInv'
  BY <1>5, <1>7, NoResultYet DEF CarryInv
<1> QED
  BY <1>1, <1>17, <1>19, <1>20, <1>21 DEF IInv

-----------------------------------------------------------------------------
(* Every step of the indexer preserves the frontier. *)
LEMMA NextSpans == IInv /\ [Next]_vars => IInv'
<1> SUFFICES ASSUME IInv, [Next]_vars PROVE IInv'
  OBVIOUS
<1>1. CASE UNCHANGED vars
  <2> USE <1>1 DEF vars
  <2>1. Shape'
    BY NextShape DEF IInv
  <2>2. StoredSpans' /\ PendingSpans'
    BY DEF IInv, StoredSpans, PendingSpans, Linked, Follows, Lo, Hi
  <2>3. ChainInv'
    BY DEF IInv, ChainInv, Follows, Start, End, Lo, Hi
  <2>4. TailInv'
    BY DEF IInv, TailInv, Follows, End, Hi
  <2>5. CarryInv'
    BY DEF IInv, CarryInv, Follows, End, Lo, Hi
  <2>6. ResultInv'
    BY DEF IInv, ResultInv, Follows
  <2> QED
    BY <2>1, <2>2, <2>3, <2>4, <2>5, <2>6 DEF IInv
<1>2. CASE Next
  BY <1>2, ReadBlockSpans, ReturnSpans, EndOfStreamSpans, AssertionFailsSpans,
     FlushFullBlockSpans, FlushFullBlockFailsSpans, AppendIndexSpans,
     FlushLevelSpans DEF Next
<1> QED
  BY <1>1, <1>2

-----------------------------------------------------------------------------
(* A key block spans what its first to its last key span. *)
StoredEnds ==
    \A i \in 1..Len(inodes) :
        /\ inodes[i].lo = Lo(inodes[i].depth, inodes[i].keys[1])
        /\ inodes[i].hi = Hi(inodes[i].depth, inodes[i].keys[Len(inodes[i].keys)])

TreeInv == IInv /\ StoredEnds

(* Key blocks are not changed, and each is written with its ends. *)
LEMMA EndsStay ==
  ASSUME Shape, StoredEnds, [Next]_vars
  PROVE  StoredEnds'
<1>0. StoreStep
  BY NextStoreStep
<1>1. Len(inodes) \in Nat /\ \A i \in 1..Len(inodes) :
        inodes[i].depth \in Nat /\ inodes[i].keys \in Seq(Nat)
  <2>1. Len(inodes) \in Nat /\ \A i \in 1..Len(inodes) : inodes[i] \in Inode
    BY DEF Shape, TypeOK
  <2> QED
    BY <2>1 DEF Inode
<1>2. \A d \in Nat : \A h : KeyOK(d, h) => Lo(d, h)' = Lo(d, h) /\ Hi(d, h)' = Hi(d, h)
  BY <1>0, KeyStays
<1>3. ASSUME NEW i \in 1..Len(inodes)
      PROVE  /\ inodes'[i].lo = Lo(inodes[i].depth, inodes[i].keys[1])'
             /\ inodes'[i].hi = Hi(inodes[i].depth, inodes[i].keys[Len(inodes[i].keys)])'
  <2>1. inodes'[i] = inodes[i]
    BY <1>0, StoreGrows DEF Grows
  <2>2. PICK d \in Nat, s \in Seq(Nat) : d = inodes[i].depth /\ s = inodes[i].keys
    BY <1>1
  <2>3. Len(s) >= 1 /\ \A j \in 1..Len(s) : KeyOK(d, s[j])
    BY <2>2 DEF Shape, StoredKeys
  <2>4. KeyOK(d, s[1]) /\ KeyOK(d, s[Len(s)])
    BY <2>3
  <2>5. inodes[i].lo = Lo(d, s[1]) /\ inodes[i].hi = Hi(d, s[Len(s)])
    BY <2>2 DEF StoredEnds
  <2>6. inodes'[i].lo = Lo(d, s[1])' /\ inodes'[i].hi = Hi(d, s[Len(s)])'
    BY <1>2, <2>1, <2>4, <2>5
  <2> QED
    BY <2>1, <2>2, <2>6
<1>4. CASE inodes' = inodes
  BY <1>3, <1>4 DEF StoredEnds
<1>5. CASE \E l \in 1..Len(levels) : levels[l] # <<>> /\ Writes(l)
  <2>1. PICK l \in 1..Len(levels) : levels[l] # <<>> /\ Writes(l)
    BY <1>5
  <2>2. PICK n \in Nat : n = Len(inodes) + 1
    BY <1>1
  <2>3. PICK d \in Nat, s \in Seq(Nat) : d = l - 1 /\ s = levels[l]
    <3>1. l - 1 \in Nat
      BY DEF Shape, TypeOK
    <3> QED
      BY <2>1, <3>1, InodeType
  <2>4. /\ Len(inodes') = n
        /\ inodes'[n].depth = d
        /\ inodes'[n].keys = s
        /\ inodes'[n].lo = Lo(d, s[1])
        /\ inodes'[n].hi = Hi(d, s[Len(s)])
        /\ Len(s) >= 1
    BY <2>1, <2>2, <2>3, WritesAppends, InodeType
  <2>5. KeyOK(d, s[1]) /\ KeyOK(d, s[Len(s)])
    BY <2>3, <2>4 DEF Shape, PendingKeys
  <2>6. Lo(d, s[1])' = Lo(d, s[1]) /\ Hi(d, s[Len(s)])' = Hi(d, s[Len(s)])
    BY <1>2, <2>5
  <2>7. \A i \in 1..Len(inodes') : i \in 1..Len(inodes) \/ i = n
    BY <1>1, <2>2, <2>4
  <2> QED
    BY <1>3, <2>4, <2>6, <2>7 DEF StoredEnds
<1> QED
  BY <1>0, <1>4, <1>5 DEF StoreStep

(* The stored tree is as it should be at every step of the indexer. *)
LEMMA TreeStays ==
  ASSUME TreeInv, [Next]_vars
  PROVE  TreeInv'
  BY NextSpans, EndsStay DEF TreeInv, IInv

-----------------------------------------------------------------------------
(***************************************************************************)
(* At every step of chop_tree_index_blocks the pending key blocks cover    *)
(* the input, from the top level down, up to the last block read.          *)
(***************************************************************************)
THEOREM SpanInvariant == Spec => []IInv
<1>1. Init => IInv
  BY InitSpans
<1>2. IInv /\ [Next]_vars => IInv'
  BY NextSpans
<1> QED
  BY <1>1, <1>2, PTL DEF Spec

(***************************************************************************)
(* Whatever store writes fail, and although chop_tree_index_blocks ignores *)
(* the errors of chop_block_tree_add_index, no key block lists an input    *)
(* block twice or before an earlier one.                                   *)
(***************************************************************************)
THEOREM InOrderCorrect == Spec => []InOrder
<1>1. IInv => InOrder
  BY DEF IInv, StoredSpans, Linked, InOrder
<1> QED
  BY <1>1, SpanInvariant, PTL

(***************************************************************************)
(* Unless an error of chop_key_block_add_index was discarded, key blocks   *)
(* have no gaps and the handle chop_tree_index_blocks returns on success   *)
(* spans every input block.                                                *)
(***************************************************************************)
THEOREM RootSpansInputCorrect == Spec => []RootSpansInput
<1>1. IInv => RootSpansInput
  <2> SUFFICES ASSUME IInv, ~dropped PROVE
        /\ \A i \in 1..Len(inodes) :
             LET b == inodes[i] IN
             \A j \in 1..(Len(b.keys) - 1) :
                 Lo(b.depth, b.keys[j + 1]) = Hi(b.depth, b.keys[j])
        /\ result = "ok" => /\ root # 0
                            /\ inodes[root].lo = 0
                            /\ inodes[root].hi = nblocks
    BY DEF RootSpansInput
  <2>1. \A x, y : Follows(x, y) => x = y
    BY DEF Follows
  <2>2. ASSUME NEW i \in 1..Len(inodes),
               NEW j \in 1..(Len(inodes[i].keys) - 1)
        PROVE  Lo(inodes[i].depth, inodes[i].keys[j + 1])
                 = Hi(inodes[i].depth, inodes[i].keys[j])
    BY <2>1 DEF IInv, StoredSpans, Linked
  <2>3. result = "ok" => /\ root # 0
                         /\ inodes[root].lo = 0
                         /\ inodes[root].hi = nblocks
    BY <2>1 DEF IInv, ResultInv
  <2> QED
    BY <2>2, <2>3
<1> QED
  BY <1>1, SpanInvariant, PTL

-----------------------------------------------------------------------------
(* The pending block of level l has been written as it is. *)
Stored(l) ==
    \E i \in 1..Len(inodes) :
        inodes[i].depth = l - 1 /\ inodes[i].keys = levels[l]

(* A handle on its way up names a copy of the block it was made from. *)
CarriedCopies ==
    pc = "add" => \A i \in 1..Len(carried) :
        i > 1 => inodes[carried[i]].keys = levels[base + i - 2]

(* The flush leaves blocks behind only after writing them. *)
FlushedCopies ==
    \A l \in 1..Len(levels) :
        l < (IF pc = "add" THEN base ELSE cursor) => Stored(l)

WInv == Shape /\ CarriedCopies /\ FlushedCopies

-----------------------------------------------------------------------------
(* A block that was written and not touched since is still there. *)
LEMMA StoredStays ==
  ASSUME Shape, StoreStep, NEW l, levels'[l] = levels[l], Stored(l)
  PROVE  Stored(l)'
<1>1. Grows /\ inodes' \in Seq(Inode) /\ inodes \in Seq(Inode)
  BY StoreGrows DEF Shape, TypeOK
<1>2. PICK i \in 1..Len(inodes) :
        inodes[i].depth = l - 1 /\ inodes[i].keys = levels[l]
  BY DEF Stored
<1>3. inodes'[i] = inodes[i] /\ i \in 1..Len(inodes')
  <2>1. Len(inodes) \in Nat /\ Len(inodes') \in Nat
    BY <1>1
  <2> QED
    BY <1>1, <2>1 DEF Grows
<1> QED
  BY <1>2, <1>3 DEF Stored

(* A block that is being written is there after the step. *)
LEMMA WritesStores ==
  ASSUME Shape, NEW l \in 1..Len(levels), levels[l] # <<>>, Writes(l)
  PROVE  Saved(l) /\ (levels'[l] = levels[l] => Stored(l)')
<1>1. PICK n \in Nat : n = Len(inodes) + 1
  BY DEF Shape, TypeOK
<1>2. n \in 1..Len(inodes') /\ inodes'[n].depth = l - 1 /\ inodes'[n].keys = levels[l]
  BY <1>1, WritesAppends, InodeType
<1> QED
  BY <1>2 DEF Saved, Stored

(* A step that leaves the chain alone loses nothing. *)
LEMMA UnchangedKeeps ==
  ASSUME Shape, StoreStep, levels' = levels
  PROVE  /\ \A l \in 1..Len(levels) : Keeps(l)
         /\ \A l \in 1..Len(levels) : Stored(l) => Stored(l)'
<1>1. \A l \in 1..Len(levels) : Len(levels[l]) \in Nat
  BY DEF Shape, TypeOK
<1> QED
  BY <1>1, StoredStays DEF Keeps

(* What WrittenBeforeReset says of one step. *)
LossFree == result' \in {"none", "ok"} =>
                \A l \in 1..Len(levels) : Keeps(l) \/ Saved(l)

(* A new handle displaces nothing. *)
LEMMA ReadBlockWrites ==
  ASSUME WInv, ReadBlock
  PROVE  CarriedCopies' /\ FlushedCopies' /\ LossFree
<1>0. Shape /\ StoreStep
  BY NextStoreStep DEF WInv, Next
<1>1. Len(carried') = 1 /\ base' = 1 /\ pc' = "add"
  BY DEF ReadBlock
<1>2. CarriedCopies' /\ FlushedCopies'
  BY <1>1 DEF CarriedCopies, FlushedCopies
<1>3. LossFree
  <2>1. CASE levels = <<>>
    BY <2>1 DEF LossFree
  <2>2. CASE levels # <<>>
    BY <1>0, <2>2, UnchangedKeeps DEF ReadBlock, LossFree
  <2> QED
    BY <2>1, <2>2
<1> QED
  BY <1>2, <1>3

(* A call that gives up reports it. *)
LEMMA ReturnWrites ==
  ASSUME WInv,
         StoreBlockFails \/ ReadFails \/ EndOfEmptyStream \/ FlushLevelFails
  PROVE  CarriedCopies' /\ FlushedCopies' /\ LossFree
<1>1. /\ Len(levels') = 0 /\ pc' = "done"
      /\ result' \in {"store_error", "stream_error", "empty_source"}
  BY DEF StoreBlockFails, ReadFails, EndOfEmptyStream, FlushLevelFails, Return
<1> QED
  BY <1>1 DEF CarriedCopies, FlushedCopies, LossFree

(* Steps that touch neither the chain nor the metadata store. *)
LEMMA ControlWrites ==
  ASSUME WInv, EndOfStream \/ AssertionFails \/ FlushFullBlockFails
  PROVE  CarriedCopies' /\ FlushedCopies' /\ LossFree
<1>0. Shape /\ StoreStep /\ CarriedCopies /\ FlushedCopies
  BY NextStoreStep DEF WInv, Next
<1>1. levels' = levels /\ pc' # "add"
  BY DEF EndOfStream, AssertionFails, FlushFullBlockFails, AddReturns
<1>2. cursor \in Nat /\ base \in Nat /\ (pc = "add" => base = cursor + 1)
  BY <1>0 DEF Shape, TypeOK, ControlInv
<1>3. /\ cursor' \in Nat
      /\ cursor' <= (IF pc = "add" THEN base ELSE cursor) \/ cursor' = 1
  BY <1>2 DEF EndOfStream, AssertionFails, FlushFullBlockFails, AddReturns
<1>4. \A l \in 1..Len(levels) : l \in Nat /\ l >= 1
  BY <1>0 DEF Shape, TypeOK
<1>5. FlushedCopies'
  <2> SUFFICES ASSUME NEW l \in 1..Len(levels), l < cursor' PROVE Stored(l)'
    BY <1>1 DEF FlushedCopies
  <2>1. l < (IF pc = "add" THEN base ELSE cursor)
    BY <1>2, <1>3, <1>4
  <2>2. Stored(l)
    BY <1>0, <2>1 DEF FlushedCopies
  <2> QED
    BY <1>0, <1>1, <2>2, UnchangedKeeps
<1>6. CarriedCopies' /\ LossFree
  BY <1>0, <1>1, UnchangedKeeps DEF CarriedCopies, LossFree
<1> QED
  BY <1>5, <1>6

(* A level is written before the flush leaves it. *)
LEMMA FlushLevelWrites ==
  ASSUME WInv, FlushLevel
  PROVE  CarriedCopies' /\ FlushedCopies' /\ LossFree
<1>0. Shape /\ StoreStep /\ CarriedCopies /\ FlushedCopies
  BY NextStoreStep DEF WInv, Next
<1>1. PICK k \in Nat : k = cursor
  BY <1>0 DEF Shape, TypeOK
<1>2. /\ k \in 1..Len(levels) /\ levels[k] # <<>> /\ Writes(k)
      /\ Len(levels) \in Nat /\ pc = "flush"
  BY <1>0, <1>1, CursorWritable DEF FlushLevel, Writes
<1>3. CASE cursor < Len(levels)
  <2>1. /\ pc' = "add" /\ base' = k + 1 /\ Len(carried') = 1
        /\ levels' = levels
    BY <1>1, <1>3 DEF FlushLevel
  <2>2. CarriedCopies'
    BY <2>1 DEF CarriedCopies
  <2>3. LossFree
    BY <1>0, <2>1, UnchangedKeeps DEF LossFree
  <2>4. FlushedCopies'
    <3> SUFFICES ASSUME NEW l \in 1..Len(levels), l < k + 1 PROVE Stored(l)'
      BY <2>1 DEF FlushedCopies
    <3>1. CASE l = k
      BY <1>0, <1>2, <2>1, <3>1, WritesStores
    <3>2. CASE l < k
      <4>1. Stored(l)
        BY <1>0, <1>1, <1>2, <3>2 DEF FlushedCopies
      <4> QED
        BY <1>0, <2>1, <4>1, UnchangedKeeps
    <3> QED
      BY <1>2, <3>1, <3>2
  <2> QED
    BY <2>2, <2>3, <2>4
<1>4. CASE ~(cursor < Len(levels))
  <2>1. pc' = "done" /\ Len(levels') = 0
    BY <1>4 DEF FlushLevel, Return
  <2>2. CarriedCopies' /\ FlushedCopies'
    BY <2>1 DEF CarriedCopies, FlushedCopies
  <2>3. ASSUME NEW l \in 1..Len(levels) PROVE Saved(l)
    <3>1. CASE l = k
      BY <1>0, <1>2, <3>1, WritesStores
    <3>2. CASE l # k
      <4>1. l < cursor
        BY <1>1, <1>2, <1>4, <3>2
      <4>2. PICK i \in 1..Len(inodes) :
              inodes[i].depth = l - 1 /\ inodes[i].keys = levels[l]
        BY <1>0, <1>2, <4>1 DEF FlushedCopies, Stored
      <4>3. inodes'[i] = inodes[i] /\ i \in 1..Len(inodes')
        <5>1. Grows /\ Len(inodes) \in Nat /\ Len(inodes') \in Nat
          BY <1>0, StoreGrows DEF Shape, TypeOK
        <5> QED
          BY <5>1 DEF Grows
      <4> QED
        BY <4>2, <4>3 DEF Saved
    <3> QED
      BY <3>1, <3>2
  <2> QED
    BY <2>2, <2>3 DEF LossFree
<1> QED
  BY <1>3, <1>4

(* A full block is written and kept until the calls return. *)
LEMMA FlushFullBlockWrites ==
  ASSUME WInv, FlushFullBlock
  PROVE  CarriedCopies' /\ FlushedCopies' /\ LossFree
<1>0. Shape /\ StoreStep /\ CarriedCopies /\ FlushedCopies
  BY NextStoreStep DEF WInv, Next
<1>1. PICK n \in Nat : n = Len(inodes) + 1
  BY <1>0 DEF Shape, TypeOK
<1>2. PICK t \in Nat : t = Top
  BY <1>0, TopWritable DEF FlushFullBlock
<1>3. PICK c \in Nat : c = Len(carried)
  BY <1>0 DEF Shape, TypeOK
<1>4. PICK b \in Nat : b = base
  BY <1>0 DEF Shape, TypeOK
<1>5. /\ t \in 1..Len(levels) /\ levels[t] # <<>> /\ Writes(t)
      /\ t = b + c - 1 /\ b >= 1 /\ c >= 1
      /\ Len(levels) \in Nat /\ pc = "add" /\ pc' = "add" /\ base' = b
  BY <1>0, <1>2, <1>3, <1>4, TopWritable DEF FlushFullBlock, Writes
<1>6. inodes'[n].keys = levels[t] /\ \A i \in 1..Len(inodes) : inodes'[i] = inodes[i]
  BY <1>0, <1>1, <1>5, WritesAppends, InodeType
<1>7. /\ Len(carried') = c + 1
      /\ carried'[c + 1] = n
      /\ \A i \in 1..c : carried'[i] = carried[i]
  BY <1>0, <1>1, <1>3 DEF FlushFullBlock, Shape, TypeOK
<1>8. /\ Len(levels') \in Nat
      /\ Len(levels') >= Len(levels)
      /\ \A l \in 1..Len(levels) : levels'[l] = levels[l]
      /\ \A l \in 1..Len(levels') : l \notin 1..Len(levels) => l = t + 1
  <2>1. levels \in Seq(Seq(Nat)) /\ <<>> \in Seq(Nat)
    BY <1>0 DEF Shape, TypeOK
  <2>2. CASE t = Len(levels)
    <3>1. levels' = Append(levels, <<>>)
      BY <1>2, <2>2 DEF FlushFullBlock
    <3>2. /\ Len(levels') = Len(levels) + 1
          /\ \A l \in 1..Len(levels) : levels'[l] = levels[l]
      BY <2>1, <3>1
    <3> QED
      BY <1>5, <2>2, <3>2
  <2>3. CASE t # Len(levels)
    <3>1. levels' = levels
      BY <1>2, <2>3 DEF FlushFullBlock
    <3> QED
      BY <1>5, <3>1
  <2> QED
    BY <2>2, <2>3
<1>9. LossFree
  <2>1. \A l \in 1..Len(levels) : Len(levels[l]) \in Nat
    BY <1>0 DEF Shape, TypeOK
  <2>2. \A l \in 1..Len(levels) : l \in 1..Len(levels')
    BY <1>5, <1>8
  <2> QED
    BY <1>8, <2>1, <2>2 DEF LossFree, Keeps
<1>10. FlushedCopies'
  <2> SUFFICES ASSUME NEW l \in 1..Len(levels'), l < b PROVE Stored(l)'
    BY <1>5 DEF FlushedCopies
  <2>1. l \in 1..Len(levels)
    BY <1>5, <1>8
  <2>2. Stored(l)
    BY <1>0, <1>4, <1>5, <2>1 DEF FlushedCopies
  <2> QED
    BY <1>0, <1>8, <2>1, <2>2, StoredStays
<1>11. CarriedCopies'
  <2> SUFFICES ASSUME NEW i \in 1..(c + 1), i > 1
               PROVE  inodes'[carried'[i]].keys = levels'[b + i - 2]
    BY <1>5, <1>7 DEF CarriedCopies
  <2>1. CASE i = c + 1
    <3>1. b + i - 2 = t
      BY <1>5, <2>1
    <3> QED
      BY <1>5, <1>6, <1>7, <1>8, <2>1, <3>1
  <2>2. CASE i # c + 1
    <3>1. i \in 1..c /\ b + i - 2 \in 1..Len(levels)
      BY <1>5, <2>2
    <3>2. inodes[carried[i]].keys = levels[b + i - 2]
      BY <1>0, <1>3, <1>4, <1>5, <3>1 DEF CarriedCopies
    <3>3. carried[i] \in 1..Len(inodes)
      <4>1. KeyOK(b + i - 2, carried[i])
        BY <1>0, <1>3, <1>4, <1>5, <3>1 DEF Shape, CarriedKeys
      <4>2. b + i - 2 # 0
        BY <1>5
      <4> QED
        BY <4>1, <4>2 DEF KeyOK
    <3> QED
      BY <1>6, <1>7, <1>8, <3>1, <3>2, <3>3
  <2> QED
    BY <2>1, <2>2
<1> QED
  BY <1>9, <1>10, <1>11

(* The blocks that are reset are those whose handles were carried. *)
LEMMA AppendIndexWrites ==
  ASSUME WInv, AppendIndex
  PROVE  CarriedCopies' /\ FlushedCopies' /\ LossFree
<1>0. Shape /\ StoreStep /\ CarriedCopies /\ FlushedCopies
  BY NextStoreStep DEF WInv, Next
<1>1. PICK t \in Nat : t = Top
  BY <1>0, TopWritable DEF AppendIndex
<1>2. PICK c \in Nat : c = Len(carried)
  BY <1>0 DEF Shape, TypeOK
<1>3. PICK b \in Nat : b = base
  BY <1>0 DEF Shape, TypeOK
<1>4. /\ t \in 1..Len(levels) /\ t = b + c - 1 /\ b >= 1 /\ c >= 1
      /\ Len(levels) \in Nat /\ levels[t] \in Seq(Nat) /\ pc = "add"
      /\ inodes' = inodes
  BY <1>0, <1>1, <1>2, <1>3, TopWritable DEF AppendIndex
<1>5. /\ \/ cursor' = 0 /\ pc' = "read"
         \/ cursor' = b /\ pc' = "flush"
      /\ cursor \in Nat
  BY <1>0, <1>3, <1>4, AddReturnsControl DEF AppendIndex
<1>6. /\ Len(levels') = Len(levels)
      /\ levels'[t] = Append(levels[t], carried[c])
      /\ \A l \in 1..Len(levels) : l \notin b..t => levels'[l] = levels[l]
      /\ \A i \in 1..c : carried[i] \in Nat
  BY <1>0, <1>1, <1>2, <1>3, AppendedLevels
<1>7. CarriedCopies'
  BY <1>5 DEF CarriedCopies
<1>8. FlushedCopies'
  <2> SUFFICES ASSUME NEW l \in 1..Len(levels), l < cursor' PROVE Stored(l)'
    BY <1>5, <1>6 DEF FlushedCopies
  <2>1. l < b /\ l \notin b..t
    BY <1>4, <1>5
  <2>2. Stored(l)
    BY <1>0, <1>3, <1>4, <2>1 DEF FlushedCopies
  <2> QED
    BY <1>0, <1>6, <2>1, <2>2, StoredStays
<1>9. LossFree
  <2> SUFFICES ASSUME NEW l \in 1..Len(levels) PROVE Keeps(l) \/ Saved(l)
    BY DEF LossFree
  <2>0. l \in 1..Len(levels') /\ levels[l] \in Seq(Nat) /\ Len(levels[l]) \in Nat
    BY <1>0, <1>6 DEF Shape, TypeOK
  <2>1. CASE l = t
    <3>0. carried[c] \in Nat
      <4>1. c \in 1..c
        BY <1>4
      <4> QED
        BY <1>6, <4>1, Zenon
    <3>1. PICK h \in Nat : h = carried[c]
      BY <3>0
    <3>2. PICK s \in Seq(Nat) : s = levels[t]
      BY <1>4
    <3>3. /\ Len(Append(s, h)) = Len(s) + 1
          /\ \A j \in 1..Len(s) : Append(s, h)[j] = s[j]
      OBVIOUS
    <3>4. levels'[t] = Append(s, h)
      BY <1>6, <3>1, <3>2
    <3> QED
      BY <2>0, <2>1, <3>2, <3>3, <3>4 DEF Keeps
  <2>2. CASE l \in b..(t - 1)
    <3>1. PICK i \in Nat : i = l - b + 2
      BY <1>4, <2>2
    <3>2. i \in 1..c /\ i > 1 /\ b + i - 2 = l /\ l # 0
      BY <1>4, <2>2, <3>1
    <3>3. inodes[carried[i]].keys = levels[b + i - 2] /\ KeyOK(b + i - 2, carried[i])
      BY <1>0, <1>2, <1>3, <1>4, <3>2 DEF CarriedCopies, Shape, CarriedKeys
    <3>4. /\ carried[i] \in 1..Len(inodes) /\ inodes[carried[i]].depth = l - 1
          /\ inodes[carried[i]].keys = levels[l]
      BY <3>2, <3>3 DEF KeyOK
    <3> QED
      BY <1>4, <3>4 DEF Saved
  <2>3. CASE l \notin b..t
    BY <1>6, <2>0, <2>3 DEF Keeps
  <2> QED
    BY <1>4, <2>1, <2>2, <2>3
<1> QED
  BY <1>7, <1>8, <1>9

-----------------------------------------------------------------------------
(* Every step keeps the copies and loses nothing. *)
LEMMA NextWrites == WInv /\ [Next]_vars => WInv' /\ (LossFree \/ UNCHANGED vars)
<1> SUFFICES ASSUME WInv, [Next]_vars PROVE WInv' /\ (LossFree \/ UNCHANGED vars)
  OBVIOUS
<1>1. Shape'
  BY NextShape DEF WInv
<1>2. CASE UNCHANGED vars
  <2>1. CarriedCopies' /\ FlushedCopies'
    BY <1>2 DEF WInv, vars, CarriedCopies, FlushedCopies, Stored
  <2> QED
    BY <1>1, <1>2, <2>1 DEF WInv
<1>3. CASE Next
  <2>1. CarriedCopies' /\ FlushedCopies' /\ LossFree
    BY <1>3, ReadBlockWrites, ReturnWrites, ControlWrites, FlushLevelWrites,
       FlushFullBlockWrites, AppendIndexWrites DEF Next
  <2> QED
    BY <1>1, <2>1 DEF WInv
<1> QED
  BY <1>2, <1>3

(***************************************************************************)
(* For every capacity and every pattern of failures: a key block that      *)
(* chop_key_block_reinit resets, or that chop_block_tree_free drops after  *)
(* a successful call, has been written with exactly the keys it held.      *)
(***************************************************************************)
THEOREM WrittenBeforeResetCorrect == Spec => WrittenBeforeReset
<1>1. Init => WInv
  <2> SUFFICES ASSUME Init PROVE WInv
    OBVIOUS
  <2>1. Len(levels) = 0 /\ pc = "read"
    BY DEF Init
  <2> QED
    BY <2>1, InitShape DEF WInv, CarriedCopies, FlushedCopies
<1>2. WInv /\ [Next]_vars => WInv'
  BY NextWrites
<1>3. WInv /\ [Next]_vars =>
        [ result' \in {"none", "ok"} =>
            \A l \in 1..Len(levels) : Keeps(l) \/ Saved(l) ]_vars
  BY NextWrites DEF LossFree
<1> QED
  BY <1>1, <1>2, <1>3, PTL DEF Spec, WrittenBeforeReset

-----------------------------------------------------------------------------
(***************************************************************************)
(* Nothing is stored in vain.  Two facts about the key blocks of one level *)
(* make the stored blocks a tree: they span disjoint parts of the input,   *)
(* so that no handle is in two of them, and the handle of every block is   *)
(* in a stored parent, in the pending one or on its way to it.             *)
(***************************************************************************)
Running == pc \in {"read", "add", "flush"}

(* The lowest level that is still to be written. *)
Unwritten == IF pc = "add" THEN base ELSE cursor

HasParent(k) ==
    \E i \in 1..Len(inodes) :
        /\ inodes[i].depth = inodes[k].depth + 1
        /\ \E j \in 1..Len(inodes[i].keys) : inodes[i].keys[j] = k

IsPending(k) ==
    \E l \in 1..Len(levels) :
        /\ l = inodes[k].depth + 2
        /\ \E j \in 1..Len(levels[l]) : levels[l][j] = k

IsCarried(k) ==
    pc = "add" /\ \E i \in 1..Len(carried) :
        base + i - 1 = inodes[k].depth + 2 /\ carried[i] = k

Placed ==
    /\ ~dropped /\ Running => \A k \in 1..Len(inodes) :
            HasParent(k) \/ IsPending(k) \/ IsCarried(k)
    /\ ~dropped /\ result = "ok" => \A k \in 1..Len(inodes) :
            HasParent(k) \/ k = root
    /\ result = "ok" => root = Len(inodes)
    /\ Running => result = "none"

(* Key blocks of one level do not overlap. *)
Disjoint ==
    ~dropped => \A i, j \in 1..Len(inodes) :
        i < j /\ inodes[i].depth = inodes[j].depth => inodes[i].hi <= inodes[j].lo

(***************************************************************************)
(* What was written of a level lies before what is pending there; a level  *)
(* the recursion has just written ends where its copy does.                *)
(***************************************************************************)
Reach(l) == IF pc = "add" /\ l < Top THEN End(l) ELSE Start(l)

Behind ==
    ~dropped /\ Running => \A i \in 1..Len(inodes) :
        /\ inodes[i].depth < Len(levels)
        /\ \A l \in 1..Len(levels) :
             l = inodes[i].depth + 1 /\ l >= Unwritten =>
                 levels[l] # <<>> /\ inodes[i].hi <= Reach(l)

OrphanInv == TreeInv /\ WInv /\ Placed /\ Disjoint /\ Behind

-----------------------------------------------------------------------------
(* The fields of a stored block. *)
LEMMA StoredTypes ==
  ASSUME Shape
  PROVE  /\ Len(inodes) \in Nat /\ Len(levels) \in Nat
         /\ \A i \in 1..Len(inodes) :
              /\ inodes[i].depth \in Nat /\ inodes[i].keys \in Seq(Nat)
              /\ inodes[i].lo \in Nat /\ inodes[i].hi \in Nat
<1>1. /\ Len(inodes) \in Nat /\ Len(levels) \in Nat
      /\ \A i \in 1..Len(inodes) : inodes[i] \in Inode
  BY DEF Shape, TypeOK
<1> QED
  BY <1>1 DEF Inode

(* What a pending block spans: it begins before it ends. *)
LEMMA PendingEnds ==
  ASSUME IInv, NEW l \in 1..Len(levels), levels[l] # <<>>
  PROVE  /\ Start(l) \in Nat /\ End(l) \in Nat /\ Start(l) < End(l)
         /\ InodeOf(l).lo = Start(l) /\ InodeOf(l).hi = End(l)
         /\ InodeOf(l).depth = l - 1 /\ InodeOf(l).keys = levels[l]
<1>1. Shape /\ StoredSpans /\ PendingSpans
  BY DEF IInv
<1>2. PICK d \in Nat, s \in Seq(Nat) : d = l - 1 /\ s = levels[l]
  <2>1. l - 1 \in Nat /\ levels[l] \in Seq(Nat)
    BY <1>1 DEF Shape, TypeOK
  <2> QED
    BY <2>1
<1>3. \A j \in 1..Len(s) : KeyOK(d, s[j])
  BY <1>1, <1>2 DEF Shape, PendingKeys
<1>4. Linked(d, s) /\ s # <<>>
  BY <1>1, <1>2 DEF PendingSpans
<1>5. Lo(d, s[1]) < Hi(d, s[Len(s)])
  BY <1>1, <1>3, <1>4, LastIsLast
<1>6. Len(s) >= 1 /\ Len(s) \in Nat
  BY <1>4
<1>7. Lo(d, s[1]) \in Nat /\ Hi(d, s[Len(s)]) \in Nat
  <2>1. KeyOK(d, s[1]) /\ KeyOK(d, s[Len(s)])
    BY <1>3, <1>6
  <2> QED
    BY <1>1, <2>1, SpanNonEmpty
<1>8. Start(l) = Lo(d, s[1]) /\ End(l) = Hi(d, s[Len(s)])
  BY <1>2 DEF Start, End
<1>9. /\ InodeOf(l).lo = Lo(d, s[1]) /\ InodeOf(l).hi = Hi(d, s[Len(s)])
      /\ InodeOf(l).depth = l - 1 /\ InodeOf(l).keys = levels[l]
  BY <1>2 DEF InodeOf
<1> QED
  BY <1>5, <1>7, <1>8, <1>9

(* A step that writes nothing keeps the stored blocks disjoint. *)
LEMMA DisjointStays ==
  ASSUME Disjoint, inodes' = inodes, dropped => dropped'
  PROVE  Disjoint'
BY DEF Disjoint

(* So does writing a level behind which all of its stored blocks lie. *)
LEMMA DisjointGrows ==
  ASSUME TreeInv, Disjoint, Behind, Running, dropped' = dropped,
         NEW l \in 1..Len(levels), levels[l] # <<>>, Writes(l),
         l >= Unwritten, pc = "add" => l = Top
  PROVE  Disjoint'
<1>0. Shape /\ IInv
  BY DEF TreeInv, IInv
<1>1. SUFFICES ASSUME ~dropped,
                 NEW i \in 1..Len(inodes'), NEW j \in 1..Len(inodes'), i < j,
                 inodes'[i].depth = inodes'[j].depth
               PROVE  inodes'[i].hi <= inodes'[j].lo
  BY DEF Disjoint
<1>2. PICK n \in Nat : n = Len(inodes) + 1
  BY <1>0, StoredTypes
<1>3. /\ Len(inodes') = n /\ inodes'[n] = InodeOf(l)
      /\ \A m \in 1..Len(inodes) : inodes'[m] = inodes[m]
  BY <1>0, <1>2, WritesAppends
<1>4. Len(inodes) \in Nat /\ i \in 1..Len(inodes)
  BY <1>0, <1>1, <1>2, <1>3, StoredTypes
<1>5. CASE j \in 1..Len(inodes)
  BY <1>1, <1>3, <1>4, <1>5 DEF Disjoint
<1>6. CASE j \notin 1..Len(inodes)
  <2>1. j = n
    BY <1>2, <1>3, <1>4, <1>6
  <2>2. inodes'[j].lo = Start(l) /\ inodes'[j].depth = l - 1
    BY <1>0, <1>3, <2>1, PendingEnds
  <2>3. inodes[i].depth = l - 1 /\ inodes[i].depth \in Nat
    BY <1>0, <1>1, <1>3, <1>4, <2>2, StoredTypes
  <2>4. l = inodes[i].depth + 1
    BY <1>0, <2>3, StoredTypes
  <2>5. inodes[i].hi <= Reach(l)
    BY <1>1, <1>4, <2>4 DEF Behind
  <2>6. Reach(l) = Start(l)
    <3>1. CASE pc = "add"
      <4>1. ~(l < Top)
        BY <1>0, <3>1, StoredTypes, TopWritable
      <4> QED
        BY <4>1 DEF Reach
    <3>2. CASE pc # "add"
      BY <3>2 DEF Reach
    <3> QED
      BY <3>1, <3>2
  <2> QED
    BY <1>3, <1>4, <2>2, <2>5, <2>6
<1> QED
  BY <1>5, <1>6

(* A block that has a parent keeps it. *)
LEMMA ParentStays ==
  ASSUME Shape, StoreStep, NEW k \in 1..Len(inodes)
  PROVE  /\ k \in 1..Len(inodes') /\ inodes'[k] = inodes[k]
         /\ HasParent(k) => HasParent(k)'
<1>1. Grows /\ Len(inodes) \in Nat /\ Len(inodes') \in Nat
  BY StoreGrows, StoredTypes DEF Shape, TypeOK
<1>2. \A i \in 1..Len(inodes) : i \in 1..Len(inodes') /\ inodes'[i] = inodes[i]
  BY <1>1 DEF Grows
<1> QED
  BY <1>2 DEF HasParent

(* A handle in a block that was saved has a parent. *)
LEMMA SavedParent ==
  ASSUME Shape, StoreStep, NEW k \in 1..Len(inodes), NEW l \in 1..Len(levels),
         l = inodes[k].depth + 2,
         NEW j \in 1..Len(levels[l]), levels[l][j] = k, Saved(l)
  PROVE  HasParent(k)'
<1>1. PICK i \in 1..Len(inodes') :
        inodes'[i].depth = l - 1 /\ inodes'[i].keys = levels[l]
  BY DEF Saved
<1>2. inodes'[k] = inodes[k] /\ inodes[k].depth \in Nat /\ l - 1 = inodes[k].depth + 1
  BY ParentStays, StoredTypes, SMTT(30)
<1> QED
  BY <1>1, <1>2 DEF HasParent

(* A pending handle stays pending or gets its block's copy as a parent. *)
LEMMA PendingStays ==
  ASSUME Shape, Shape', StoreStep, LossFree, result' \in {"none", "ok"},
         NEW k \in 1..Len(inodes), IsPending(k)
  PROVE  HasParent(k)' \/ IsPending(k)'
<1>1. PICK l \in 1..Len(levels) :
        /\ l = inodes[k].depth + 2
        /\ \E j \in 1..Len(levels[l]) : levels[l][j] = k
  BY DEF IsPending
<1>2. PICK j \in 1..Len(levels[l]) : levels[l][j] = k
  BY <1>1
<1>3. CASE Saved(l)
  BY <1>1, <1>2, <1>3, SavedParent
<1>4. CASE Keeps(l)
  <2>1. inodes'[k] = inodes[k]
    BY ParentStays
  <2>2. Len(levels[l]) \in Nat
    <3>1. levels \in Seq(Seq(Nat))
      BY DEF Shape, TypeOK
    <3> QED
      BY <3>1
  <2>3. l \in 1..Len(levels') /\ Len(levels'[l]) \in Nat
    <3>1. l \in 1..Len(levels') /\ levels' \in Seq(Seq(Nat))
      BY <1>4 DEF Keeps, Shape, TypeOK
    <3> QED
      BY <3>1
  <2>4. j \in 1..Len(levels'[l]) /\ levels'[l][j] = k
    BY <1>2, <1>4, <2>2, <2>3 DEF Keeps
  <2> QED
    BY <1>1, <2>1, <2>3, <2>4 DEF IsPending
<1> QED
  BY <1>3, <1>4 DEF LossFree

(* The last handle a block takes, and the only one a reset block takes. *)
LEMMA TakenPending ==
  ASSUME Shape, AppendIndex, NEW k \in 1..Len(inodes), IsCarried(k)
  PROVE  IsPending(k)'
<1>0. pc = "add" /\ inodes' = inodes
  BY DEF AppendIndex
<1>1. PICK t \in Nat, c \in Nat, b \in Nat :
         /\ t = Top /\ c = Len(carried) /\ b = base
         /\ t = b + c - 1 /\ t \in 1..Len(levels) /\ b >= 1 /\ c >= 1
         /\ Len(levels) \in Nat
  BY <1>0, TopWritable
<1>2. PICK i \in 1..c : b + i - 1 = inodes[k].depth + 2 /\ carried[i] = k
  BY <1>0, <1>1 DEF IsCarried
<1>3. PICK l \in Nat : l = b + i - 1
  BY <1>1
<1>4. l \in b..t /\ l \in 1..Len(levels) /\ i = l - b + 1
  BY <1>1, <1>3
<1>5. /\ Len(levels') = Len(levels)
      /\ levels'[t] = Append(levels[t], carried[c])
      /\ \A m \in b..(t - 1) : levels'[m] = <<carried[m - b + 1]>>
  BY <1>0, <1>1, AppendedLevels
<1>6. \E j \in 1..Len(levels'[l]) : levels'[l][j] = k
  <2>1. CASE l = t
    <3>1. i = c
      BY <1>1, <1>3, <2>1
    <3>2. PICK s \in Seq(Nat) : s = levels[t]
      BY <1>0, <1>1, TopWritable
    <3>3. k \in Nat /\ levels'[l] = Append(s, k)
      BY <1>2, <1>5, <2>1, <3>1, <3>2, StoredTypes, SMTT(30)
    <3>4. Len(Append(s, k)) = Len(s) + 1 /\ Append(s, k)[Len(s) + 1] = k /\ Len(s) \in Nat
      BY <3>3
    <3> QED
      BY <3>3, <3>4
  <2>2. CASE l # t
    <3>1. levels'[l] = <<k>>
      BY <1>1, <1>2, <1>4, <1>5, <2>2, SMTT(30)
    <3> QED
      BY <3>1
  <2> QED
    BY <2>1, <2>2
<1> QED
  BY <1>0, <1>2, <1>3, <1>4, <1>5, <1>6 DEF IsPending

(* What every step may rely on. *)
LEMMA OrphanFacts ==
  ASSUME OrphanInv, Next
  PROVE  /\ Shape /\ Shape' /\ IInv /\ IInv' /\ StoreStep /\ TreeInv /\ WInv
         /\ dropped \in BOOLEAN /\ (dropped => dropped')
<1>1. Shape /\ IInv /\ TreeInv /\ WInv
  BY DEF OrphanInv, TreeInv, IInv
<1>2. IInv' /\ StoreStep
  BY <1>1, NextSpans, NextStoreStep
<1>3. Shape'
  BY <1>2 DEF IInv
<1>4. dropped \in BOOLEAN /\ (dropped => dropped')
  <2>1. dropped \in BOOLEAN
    BY <1>1 DEF Shape, TypeOK
  <2>2. dropped => dropped'
    BY Zenon DEF Next, ReadBlock, StoreBlockFails, ReadFails,
       EndOfEmptyStream, EndOfStream, FlushFullBlock, FlushFullBlockFails,
       AppendIndex, FlushLevel, FlushLevelFails, AssertionFails, AddReturns
  <2> QED
    BY <2>1, <2>2
<1> QED
  BY <1>1, <1>2, <1>3, <1>4

(* A call that gives up promises nothing. *)
LEMMA ReturnOrphans ==
  ASSUME OrphanInv,
         StoreBlockFails \/ ReadFails \/ EndOfEmptyStream \/ FlushLevelFails
  PROVE  Placed' /\ Disjoint' /\ Behind'
<1>0. Next
  BY DEF Next
<1>1. /\ pc' = "done" /\ inodes' = inodes
      /\ result' \in {"store_error", "stream_error", "empty_source"}
  BY DEF StoreBlockFails, ReadFails, EndOfEmptyStream, FlushLevelFails, Return
<1>2. Disjoint'
  BY <1>0, <1>1, OrphanFacts, DisjointStays DEF OrphanInv
<1> QED
  BY <1>1, <1>2 DEF Placed, Behind, Running

(* Neither does one whose error is discarded or that is stopped. *)
LEMMA DroppedOrphans ==
  ASSUME OrphanInv, FlushFullBlockFails \/ AssertionFails
  PROVE  Placed' /\ Disjoint' /\ Behind'
<1>0. Next
  BY DEF Next
<1>1. /\ inodes' = inodes /\ result' = result /\ Running
      /\ dropped' \/ pc' = "aborted"
      /\ pc' # "done"
  BY DEF FlushFullBlockFails, AssertionFails, AddReturns, Running
<1>2. Disjoint'
  BY <1>0, <1>1, OrphanFacts, DisjointStays DEF OrphanInv
<1>3. result = "none"
  BY <1>1 DEF OrphanInv, Placed
<1> QED
  BY <1>1, <1>2, <1>3 DEF Placed, Behind, Running

(* The flush begins at the lowest level. *)
LEMMA EndOfStreamOrphans ==
  ASSUME OrphanInv, EndOfStream
  PROVE  Placed' /\ Disjoint' /\ Behind'
<1>0. Next
  BY DEF Next
<1>1. /\ inodes' = inodes /\ levels' = levels /\ result' = result
      /\ dropped' = dropped /\ root' = root
      /\ pc = "read" /\ pc' = "flush" /\ cursor' = 1
  BY DEF EndOfStream
<1>2. Disjoint'
  BY <1>0, <1>1, OrphanFacts, DisjointStays DEF OrphanInv
<1>3. Running /\ Placed /\ Behind /\ cursor = 0
  BY <1>1, OrphanFacts, <1>0 DEF OrphanInv, Running, Shape, ControlInv
<1>4. result = "none"
  BY <1>3 DEF Placed
<1>5. Placed'
  <2>1. \A k : ~IsCarried(k)
    BY <1>1 DEF IsCarried
  <2>2. \A k : (HasParent(k) <=> HasParent(k)') /\ (IsPending(k) <=> IsPending(k)')
    BY <1>1 DEF HasParent, IsPending
  <2> QED
    BY <1>1, <1>3, <1>4, <2>1, <2>2 DEF Placed
<1>6. Behind'
  <2>1. \A l : Reach(l)' = Reach(l)
    BY <1>1 DEF Reach, Start, Lo
  <2>2. Unwritten = 0 /\ Unwritten' = 1
    BY <1>1, <1>3 DEF Unwritten
  <2>3. \A l \in 1..Len(levels) : l >= 1 /\ l >= 0
    BY <1>0, OrphanFacts, StoredTypes
  <2> QED
    BY <1>1, <1>3, <2>1, <2>2, <2>3 DEF Behind
<1> QED
  BY <1>2, <1>5, <1>6

(* A new data handle is no key block's. *)
LEMMA ReadBlockOrphans ==
  ASSUME OrphanInv, ReadBlock
  PROVE  Placed' /\ Disjoint' /\ Behind'
<1>0. Next
  BY DEF Next
<1>a. Shape /\ Len(levels) \in Nat /\ Len(inodes) \in Nat
  BY <1>0, OrphanFacts, StoredTypes
<1>1. /\ inodes' = inodes /\ result' = result
      /\ dropped' = dropped /\ root' = root
      /\ pc = "read" /\ pc' = "add" /\ base' = 1 /\ Len(carried') = 1
      /\ levels' = IF levels = <<>> THEN << <<>> >> ELSE levels
  BY DEF ReadBlock
<1>2. Disjoint'
  BY <1>0, <1>1, OrphanFacts, DisjointStays DEF OrphanInv
<1>3. Running /\ Placed /\ Behind /\ cursor = 0
  BY <1>1, <1>a DEF OrphanInv, Running, Shape, ControlInv
<1>4. result = "none"
  BY <1>3 DEF Placed
<1>5. CASE dropped
  BY <1>1, <1>2, <1>4, <1>5 DEF Placed, Behind, Running
<1>6. CASE ~dropped /\ levels = <<>>
  <2>1. \A i \in 1..Len(inodes) : inodes[i].depth < 0
    BY <1>3, <1>6 DEF Behind
  <2>2. \A i \in 1..Len(inodes) : FALSE
    BY <2>1, <1>a, StoredTypes
  <2> QED
    BY <1>1, <1>2, <1>4, <2>2 DEF Placed, Behind, Running
<1>7. CASE ~dropped /\ levels # <<>>
  <2>0. levels' = levels
    BY <1>1, <1>7
  <2>1. \A k : ~IsCarried(k)
    BY <1>1 DEF IsCarried
  <2>2. \A k : (HasParent(k) <=> HasParent(k)') /\ (IsPending(k) <=> IsPending(k)')
    BY <1>1, <2>0 DEF HasParent, IsPending
  <2>3. Placed'
    BY <1>1, <1>3, <1>4, <2>1, <2>2 DEF Placed
  <2>4. Behind'
    <3>1. Top' = 1
      BY <1>1 DEF Top
    <3>2. \A l \in 1..Len(levels) : l >= 1 /\ l >= 0 /\ ~(l < 1)
      BY <1>a
    <3>3. \A l \in 1..Len(levels) : Reach(l)' = Reach(l)
      BY <1>1, <2>0, <3>1, <3>2 DEF Reach, Start, Lo
    <3>4. Unwritten = 0 /\ Unwritten' = 1
      BY <1>1, <1>3 DEF Unwritten
    <3> QED
      BY <1>1, <1>3, <2>0, <3>2, <3>3, <3>4 DEF Behind
  <2> QED
    BY <1>2, <2>3, <2>4
<1> QED
  BY <1>5, <1>6, <1>7

(* The handle of a full block is carried to its parent. *)
LEMMA FlushFullBlockOrphans ==
  ASSUME OrphanInv, FlushFullBlock
  PROVE  Placed' /\ Disjoint' /\ Behind'
<1>0. Next /\ [Next]_vars
  BY DEF Next
<1>a. /\ Shape /\ Shape' /\ IInv /\ IInv' /\ StoreStep /\ TreeInv /\ WInv
      /\ PendingSpans
  BY <1>0, OrphanFacts DEF IInv
<1>b. Len(levels) \in Nat /\ Len(inodes) \in Nat
  BY <1>a, StoredTypes
<1>1. /\ result' = result /\ dropped' = dropped /\ root' = root
      /\ pc = "add" /\ pc' = "add" /\ base' = base
  BY DEF FlushFullBlock
<1>2. PICK t \in Nat, c \in Nat, b \in Nat :
         /\ t = Top /\ c = Len(carried) /\ b = base
         /\ t = b + c - 1 /\ t \in 1..Len(levels) /\ b >= 1 /\ c >= 1
  BY <1>a, <1>1, TopWritable
<1>3. levels[t] # <<>> /\ Writes(t)
  BY <1>a, <1>1, <1>2, TopWritable DEF FlushFullBlock, Writes
<1>4. PICK n \in Nat : n = Len(inodes) + 1
  BY <1>b
<1>5. /\ Len(inodes') = n /\ inodes'[n] = InodeOf(t)
      /\ \A i \in 1..Len(inodes) : inodes'[i] = inodes[i]
  BY <1>a, <1>2, <1>3, <1>4, WritesAppends
<1>6. /\ inodes'[n].depth = t - 1 /\ inodes'[n].hi = End(t)
      /\ Start(t) \in Nat /\ End(t) \in Nat /\ Start(t) < End(t)
  BY <1>a, <1>2, <1>3, <1>5, PendingEnds
<1>7. /\ Len(carried') = c + 1 /\ carried'[c + 1] = n
      /\ \A i \in 1..c : carried'[i] = carried[i]
  BY <1>a, <1>2, <1>4 DEF FlushFullBlock, Shape, TypeOK
<1>8. Running /\ Placed /\ Behind /\ Disjoint
  BY <1>1 DEF OrphanInv, Running
<1>9. result = "none" /\ LossFree
  BY <1>8, FlushFullBlockWrites, <1>a DEF Placed
<1>10. \A i \in 1..Len(inodes') : i \in 1..Len(inodes) \/ i = n
  BY <1>b, <1>4, <1>5
<1>11. Disjoint'
  <2>1. t >= Unwritten
    BY <1>1, <1>2 DEF Unwritten
  <2> QED
    BY <1>a, <1>1, <1>2, <1>3, <1>8, <2>1, DisjointGrows
<1>12. Placed'
  <2> SUFFICES ASSUME ~dropped, NEW k \in 1..Len(inodes')
               PROVE  HasParent(k)' \/ IsPending(k)' \/ IsCarried(k)'
    BY <1>1, <1>9 DEF Placed
  <2>1. CASE k = n
    <3>1. c + 1 \in 1..Len(carried') /\ b + (c + 1) - 1 = (t - 1) + 2
      BY <1>2, <1>7
    <3> QED
      BY <1>1, <1>2, <1>6, <1>7, <2>1, <3>1 DEF IsCarried
  <2>2. CASE k \in 1..Len(inodes)
    <3>1. CASE HasParent(k)
      BY <1>a, <2>2, <3>1, ParentStays
    <3>2. CASE IsPending(k)
      BY <1>a, <1>1, <1>9, <2>2, <3>2, PendingStays
    <3>3. CASE IsCarried(k)
      <4>1. PICK i \in 1..c : b + i - 1 = inodes[k].depth + 2 /\ carried[i] = k
        BY <1>2, <3>3 DEF IsCarried
      <4>2. i \in 1..Len(carried')
        BY <1>2, <1>7
      <4> QED
        BY <1>1, <1>2, <1>5, <1>7, <2>2, <4>1, <4>2 DEF IsCarried
    <3> QED
      BY <1>8, <2>2, <3>1, <3>2, <3>3 DEF Placed
  <2> QED
    BY <1>10, <2>1, <2>2
<1>13. /\ Len(levels') \in Nat /\ Len(levels') >= Len(levels)
       /\ Len(levels') >= t
       /\ \A l \in 1..Len(levels) : levels'[l] = levels[l] /\ l \in 1..Len(levels')
       /\ \A l \in 1..Len(levels') : l \notin 1..Len(levels) => l = t + 1 /\ t = Len(levels)
  <2>1. levels \in Seq(Seq(Nat)) /\ <<>> \in Seq(Nat)
    BY <1>a DEF Shape, TypeOK
  <2>2. CASE t = Len(levels)
    <3>1. levels' = Append(levels, <<>>)
      BY <1>2, <2>2 DEF FlushFullBlock
    <3>2. /\ Len(levels') = Len(levels) + 1
          /\ \A l \in 1..Len(levels) : levels'[l] = levels[l]
      BY <2>1, <3>1
    <3> QED
      BY <1>b, <2>2, <3>2
  <2>3. CASE t # Len(levels)
    <3>1. levels' = levels
      BY <1>2, <2>3 DEF FlushFullBlock
    <3> QED
      BY <1>b, <1>2, <3>1
  <2> QED
    BY <2>2, <2>3
<1>14. Top' = t + 1 /\ Unwritten' = b /\ Unwritten = b
  BY <1>1, <1>2, <1>7 DEF Top, Unwritten
<1>15. \A l \in 1..Len(levels) : End(l)' = End(l) /\ (levels[l] # <<>> => Start(l)' = Start(l))
  BY <1>a, <1>0, <1>13, LevelStays
<1>16. Behind'
  <2> SUFFICES ASSUME ~dropped, NEW i \in 1..Len(inodes')
               PROVE  /\ inodes'[i].depth < Len(levels')
                      /\ \A l \in 1..Len(levels') :
                           l = inodes'[i].depth + 1 /\ l >= b =>
                             levels'[l] # <<>> /\ inodes'[i].hi <= Reach(l)'
    BY <1>1, <1>14 DEF Behind
  <2>1. CASE i = n
    <3>1. inodes'[i].depth < Len(levels')
      BY <1>2, <1>6, <1>13, <2>1, SMTT(30)
    <3>2. ASSUME NEW l \in 1..Len(levels'), l = inodes'[i].depth + 1
          PROVE  levels'[l] # <<>> /\ inodes'[i].hi <= Reach(l)'
      <4>1. l = t
        BY <1>2, <1>6, <2>1, <3>2
      <4>2. t < t + 1
        BY <1>2
      <4>3. Reach(l)' = End(t)
        BY <1>1, <1>2, <1>14, <1>15, <4>1, <4>2 DEF Reach
      <4> QED
        BY <1>2, <1>3, <1>6, <1>13, <2>1, <4>1, <4>3, SMTT(30)
    <3> QED
      BY <3>1, <3>2
  <2>2. CASE i \in 1..Len(inodes)
    <3>1. inodes'[i] = inodes[i] /\ inodes[i].depth \in Nat /\ inodes[i].hi \in Nat
      BY <1>a, <1>5, <2>2, StoredTypes
    <3>2. inodes[i].depth < Len(levels)
      BY <1>8, <2>2 DEF Behind
    <3>3. ASSUME NEW l \in 1..Len(levels'), l = inodes[i].depth + 1, l >= b
          PROVE  levels'[l] # <<>> /\ inodes[i].hi <= Reach(l)'
      <4>1. l \in 1..Len(levels) /\ l \in Nat
        BY <1>b, <3>1, <3>2, <3>3, SMTT(30)
      <4>2. levels[l] # <<>> /\ inodes[i].hi <= Reach(l)
        BY <1>8, <1>14, <2>2, <3>3, <4>1 DEF Behind
      <4>3. CASE l < t
        <5>1. Reach(l) = End(l) /\ Reach(l)' = End(l)
          BY <1>1, <1>2, <1>14, <1>15, <4>1, <4>3 DEF Reach
        <5> QED
          BY <1>13, <4>1, <4>2, <5>1
      <4>4. CASE l = t
        <5>1. t < t + 1 /\ ~(t < t)
          BY <1>2
        <5>2. Reach(l) = Start(t) /\ Reach(l)' = End(t)
          BY <1>1, <1>2, <1>14, <1>15, <4>1, <4>4, <5>1 DEF Reach
        <5> QED
          BY <1>6, <1>13, <3>1, <4>1, <4>2, <5>2, SMTT(30)
      <4>5. CASE l > t
        <5>1. ~(l < t) /\ ~(l < t + 1)
          BY <1>2, <4>1, <4>5
        <5>2. Reach(l) = Start(l) /\ Reach(l)' = Start(l)
          BY <1>1, <1>2, <1>14, <1>15, <4>1, <4>2, <5>1 DEF Reach
        <5> QED
          BY <1>13, <4>1, <4>2, <5>2
      <4> QED
        BY <1>2, <4>1, <4>3, <4>4, <4>5
    <3>4. inodes[i].depth < Len(levels')
      BY <1>b, <1>13, <3>1, <3>2
    <3> QED
      BY <3>1, <3>3, <3>4
  <2> QED
    BY <1>10, <2>1, <2>2
<1> QED
  BY <1>11, <1>12, <1>16

(* The m-th of c carried handles, which enter levels b to t, is for level l. *)
LEMMA Place ==
  ASSUME NEW b \in Nat, NEW c \in Nat, NEW t \in Nat, NEW l \in Nat,
         t = b + c - 1, l >= b, l < t
  PROVE  \E m \in 1..c : /\ m \in Nat /\ m = l - b + 1 /\ b + m - 1 = l /\ b + m - 2 = l - 1
                         /\ l \in b..(t - 1)
<1>1. l - b + 1 \in Nat /\ b + (l - b + 1) - 1 = l /\ b + (l - b + 1) - 2 = l - 1
  OBVIOUS
<1>2. l - b + 1 \in 1..c /\ l \in b..(t - 1)
  OBVIOUS
<1> QED
  BY <1>1, <1>2

(* The handles reach their parents, and the blocks that were written begin *)
(* anew where they ended.                                                  *)
LEMMA AppendIndexOrphans ==
  ASSUME OrphanInv, AppendIndex
  PROVE  Placed' /\ Disjoint' /\ Behind'
<1>0. Next /\ [Next]_vars
  BY DEF Next
<1>a. /\ Shape /\ Shape' /\ IInv /\ IInv' /\ StoreStep /\ TreeInv /\ WInv
      /\ PendingSpans
  BY <1>0, OrphanFacts DEF IInv
<1>b. Len(levels) \in Nat /\ Len(inodes) \in Nat
  BY <1>a, StoredTypes
<1>1. /\ result' = result /\ root' = root /\ inodes' = inodes
      /\ pc = "add"
  BY DEF AppendIndex
<1>c. dropped' = dropped
  <2>1. dropped \in BOOLEAN /\ dropped' = (dropped \/ FALSE)
    BY <1>a DEF AppendIndex, AddReturns, Shape, TypeOK
  <2> QED
    BY <2>1, Zenon
<1>2. PICK t \in Nat, c \in Nat, b \in Nat :
         /\ t = Top /\ c = Len(carried) /\ b = base
         /\ t = b + c - 1 /\ t \in 1..Len(levels) /\ b >= 1 /\ c >= 1
  BY <1>a, <1>1, TopWritable
<1>3. /\ \/ cursor' = 0 /\ pc' = "read" /\ b = 1
         \/ cursor' = b /\ pc' = "flush"
      /\ pc' # "add"
  <2>1. /\ \/ cursor = 0 /\ cursor' = 0 /\ pc' = "read"
           \/ cursor >= 1 /\ cursor' = cursor + 1 /\ pc' = "flush"
        /\ cursor \in Nat
        /\ cursor + 1 = base
    BY <1>a, <1>1, AddReturnsControl DEF AppendIndex
  <2> QED
    BY <1>2, <2>1
<1>4. /\ Len(levels') = Len(levels)
      /\ levels'[t] = Append(levels[t], carried[c])
      /\ \A l \in b..(t - 1) : levels'[l] = <<carried[l - b + 1]>>
      /\ \A l \in 1..Len(levels) : l \notin b..t => levels'[l] = levels[l]
      /\ \A i \in 1..c : carried[i] \in Nat
  BY <1>a, <1>2, AppendedLevels
<1>5. Running /\ Placed /\ Behind /\ Disjoint
  BY <1>1 DEF OrphanInv, Running
<1>6. result = "none" /\ LossFree
  BY <1>5, AppendIndexWrites, <1>a DEF Placed
<1>7. Disjoint'
  BY <1>1, <1>c, <1>5, DisjointStays
<1>8. Placed'
  <2> SUFFICES ASSUME ~dropped, NEW k \in 1..Len(inodes)
               PROVE  HasParent(k)' \/ IsPending(k)' \/ IsCarried(k)'
    BY <1>1, <1>c, <1>6 DEF Placed
  <2>1. CASE HasParent(k)
    BY <1>a, <2>1, ParentStays
  <2>2. CASE IsPending(k)
    BY <1>a, <1>1, <1>6, <2>2, PendingStays
  <2>3. CASE IsCarried(k)
    BY <1>a, <2>3, TakenPending
  <2> QED
    BY <1>5, <2>1, <2>2, <2>3 DEF Placed
<1>9. Behind'
  <2> SUFFICES ASSUME ~dropped, NEW i \in 1..Len(inodes)
               PROVE  /\ inodes[i].depth < Len(levels)
                      /\ \A l \in 1..Len(levels) :
                           l = inodes[i].depth + 1 /\ l >= Unwritten' =>
                             levels'[l] # <<>> /\ inodes[i].hi <= Start(l)'
    BY <1>1, <1>c, <1>3, <1>4 DEF Behind, Reach
  <2>1. inodes[i].depth < Len(levels) /\ inodes[i].hi \in Nat
    BY <1>a, <1>5, StoredTypes DEF Behind
  <2> SUFFICES ASSUME NEW l \in 1..Len(levels), l = inodes[i].depth + 1,
                      l >= Unwritten'
               PROVE  levels'[l] # <<>> /\ inodes[i].hi <= Start(l)'
    BY <2>1
  <2>2. Unwritten = b /\ l >= b /\ l \in Nat
    BY <1>b, <1>1, <1>2, <1>3 DEF Unwritten
  <2>3. levels[l] # <<>> /\ inodes[i].hi <= Reach(l)
    BY <1>5, <2>2 DEF Behind
  <2>4. \A d, h : Lo(d, h)' = Lo(d, h)
    BY <1>1 DEF Lo
  <2>5. CASE l > t
    <3>1. l \notin b..t /\ ~(l < t)
      BY <1>2, <2>2, <2>5
    <3>2. levels'[l] = levels[l]
      BY <1>4, <3>1
    <3>3. Reach(l) = Start(l) /\ Start(l)' = Start(l)
      BY <1>2, <2>4, <3>1, <3>2 DEF Reach, Start
    <3> QED
      BY <2>3, <3>2, <3>3
  <2>6. CASE l = t
    <3>1. PICK s \in Seq(Nat), h \in Nat : s = levels[t] /\ h = carried[c]
      <4>1. c \in 1..c /\ levels[t] \in Seq(Nat)
        BY <1>a, <1>1, <1>2, TopWritable
      <4> QED
        BY <1>4, <4>1
    <3>2. s # <<>> /\ levels'[l] = Append(s, h)
      BY <1>4, <2>3, <2>6, <3>1
    <3>3. Append(s, h) # <<>> /\ Append(s, h)[1] = s[1]
      BY <3>2, SMTT(30)
    <3>4. ~(t < t)
      BY <1>2
    <3>5. Reach(l) = Lo(l - 1, s[1])
      BY <1>2, <2>6, <3>1, <3>4 DEF Reach, Start
    <3>6. Start(l)' = Lo(l - 1, s[1])
      BY <2>4, <3>2, <3>3 DEF Start
    <3> QED
      BY <2>3, <3>2, <3>3, <3>5, <3>6
  <2>7. CASE l < t
    <3>0. t = b + c - 1
      BY <1>2
    <3>1. PICK m \in 1..c : /\ m \in Nat /\ m = l - b + 1 /\ b + m - 1 = l /\ b + m - 2 = l - 1
                           /\ l \in b..(t - 1)
      BY <2>2, <2>7, <3>0, Place
    <3>2. levels'[l] = <<carried[m]>>
      BY <1>4, <3>1
    <3>4. Follows(End(l), Lo(l - 1, carried[m]))
      BY <1>a, <1>1, <1>2, <3>1 DEF IInv, CarryInv
    <3>5. End(l) = Lo(l - 1, carried[m])
      BY <3>4 DEF Follows
    <3>6. Reach(l) = End(l)
      BY <1>1, <1>2, <2>7 DEF Reach
    <3>7. Start(l)' = Lo(l - 1, carried[m])
      BY <2>4, <3>2 DEF Start
    <3>8. <<carried[m]>> # <<>>
      OBVIOUS
    <3> QED
      BY <2>3, <3>2, <3>5, <3>6, <3>7, <3>8
  <2> QED
    BY <1>2, <2>2, <2>5, <2>6, <2>7, SMTT(30)
<1> QED
  BY <1>7, <1>8, <1>9

(* The flush hands a level's handle to its parent, or returns it. *)
LEMMA FlushLevelOrphans ==
  ASSUME OrphanInv, FlushLevel
  PROVE  Placed' /\ Disjoint' /\ Behind'
<1>0. Next /\ [Next]_vars
  BY DEF Next
<1>a. /\ Shape /\ Shape' /\ IInv /\ IInv' /\ StoreStep /\ TreeInv /\ WInv
      /\ PendingSpans
  BY <1>0, OrphanFacts DEF IInv
<1>b. Len(levels) \in Nat /\ Len(inodes) \in Nat
  BY <1>a, StoredTypes
<1>1. dropped' = dropped /\ pc = "flush"
  BY DEF FlushLevel
<1>2. PICK q \in Nat : q = cursor /\ q \in 1..Len(levels) /\ levels[q] # <<>> /\ Writes(q)
  BY <1>a, <1>b, <1>1, CursorWritable DEF FlushLevel, Writes
<1>3. PICK n \in Nat : n = Len(inodes) + 1
  BY <1>b
<1>4. /\ Len(inodes') = n /\ inodes'[n] = InodeOf(q)
      /\ \A i \in 1..Len(inodes) : inodes'[i] = inodes[i]
      /\ root' = n
  BY <1>a, <1>2, <1>3, WritesAppends DEF FlushLevel
<1>5. inodes'[n].depth = q - 1
  BY <1>a, <1>2, <1>4, PendingEnds
<1>6. Running /\ Placed /\ Behind /\ Disjoint
  BY <1>1 DEF OrphanInv, Running
<1>7. result = "none" /\ LossFree
  BY <1>6, FlushLevelWrites, <1>a DEF Placed
<1>8. \A i \in 1..Len(inodes') : i \in 1..Len(inodes) \/ i = n
  BY <1>b, <1>3, <1>4
<1>9. Unwritten = q
  BY <1>1, <1>2 DEF Unwritten
<1>10. Disjoint'
  <2>1. q >= Unwritten /\ (pc = "add" => q = Top)
    BY <1>1, <1>2, <1>9
  <2> QED
    BY <1>a, <1>1, <1>2, <1>6, <2>1, DisjointGrows
<1>11. \A k : ~IsCarried(k)
  BY <1>1 DEF IsCarried
<1>12. CASE cursor < Len(levels)
  <2>1. /\ pc' = "add" /\ base' = q + 1 /\ Len(carried') = 1
        /\ carried'[1] = n /\ levels' = levels /\ result' = result
    BY <1>2, <1>3, <1>12 DEF FlushLevel
  <2>2. Placed'
    <3> SUFFICES ASSUME ~dropped, NEW k \in 1..Len(inodes')
                 PROVE  HasParent(k)' \/ IsPending(k)' \/ IsCarried(k)'
      BY <1>1, <1>7, <2>1 DEF Placed
    <3>1. CASE k = n
      <4>1. 1 \in 1..1 /\ (q + 1) + 1 - 1 = (q - 1) + 2
        BY <1>2
      <4> QED
        BY <1>5, <2>1, <3>1, <4>1 DEF IsCarried
    <3>2. CASE k \in 1..Len(inodes)
      <4>1. CASE HasParent(k)
        BY <1>a, <3>2, <4>1, ParentStays
      <4>2. CASE IsPending(k)
        BY <1>a, <1>7, <2>1, <3>2, <4>2, PendingStays
      <4> QED
        BY <1>6, <1>11, <3>2, <4>1, <4>2 DEF Placed
    <3> QED
      BY <1>8, <3>1, <3>2
  <2>3. Behind'
    <3>1. Unwritten' = q + 1 /\ Top' = q + 1
      BY <2>1 DEF Unwritten, Top
    <3> SUFFICES ASSUME ~dropped, NEW i \in 1..Len(inodes')
                 PROVE  /\ inodes'[i].depth < Len(levels)
                        /\ \A l \in 1..Len(levels) :
                             l = inodes'[i].depth + 1 /\ l >= q + 1 =>
                               levels[l] # <<>> /\ inodes'[i].hi <= Reach(l)'
      BY <1>1, <2>1, <3>1 DEF Behind
    <3>2. CASE i = n
      <4>1. q - 1 < Len(levels) /\ ~((q - 1) + 1 >= q + 1)
        BY <1>b, <1>2
      <4> QED
        BY <1>5, <3>2, <4>1
    <3>3. CASE i \in 1..Len(inodes)
      <4>1. inodes'[i] = inodes[i] /\ inodes[i].depth < Len(levels)
        BY <1>4, <1>6, <3>3 DEF Behind
      <4>2. ASSUME NEW l \in 1..Len(levels), l = inodes[i].depth + 1, l >= q + 1
            PROVE  levels[l] # <<>> /\ inodes[i].hi <= Reach(l)'
        <5>1. l >= q /\ ~(l < q + 1) /\ l \in Nat
          BY <1>b, <1>2, <4>2
        <5>2. levels[l] # <<>> /\ inodes[i].hi <= Reach(l)
          BY <1>6, <1>9, <3>3, <4>2, <5>1 DEF Behind
        <5>3. Start(l)' = Start(l)
          BY <1>a, <1>0, <2>1, <5>2, LevelStays
        <5>4. Reach(l) = Start(l) /\ Reach(l)' = Start(l)'
          BY <1>1, <3>1, <5>1 DEF Reach
        <5> QED
          BY <5>2, <5>3, <5>4
      <4> QED
        BY <4>1, <4>2
    <3> QED
      BY <1>8, <3>2, <3>3
  <2> QED
    BY <1>10, <2>2, <2>3
<1>13. CASE ~(cursor < Len(levels))
  <2>1. pc' = "done" /\ levels' = <<>> /\ result' = "ok"
    BY <1>13 DEF FlushLevel, Return
  <2>2. Behind'
    BY <2>1 DEF Behind, Running
  <2>3. ASSUME ~dropped, NEW k \in 1..Len(inodes'), k # n
        PROVE  HasParent(k)'
    <3>1. k \in 1..Len(inodes)
      BY <1>8, <2>3
    <3>2. CASE HasParent(k)
      BY <1>a, <3>1, <3>2, ParentStays
    <3>3. CASE IsPending(k)
      <4>1. HasParent(k)' \/ IsPending(k)'
        BY <1>a, <1>7, <2>1, <3>1, <3>3, PendingStays
      <4>2. ~IsPending(k)'
        BY <2>1 DEF IsPending
      <4> QED
        BY <4>1, <4>2
    <3> QED
      BY <1>6, <1>11, <2>3, <3>1, <3>2, <3>3 DEF Placed
  <2>4. Placed'
    BY <1>1, <1>4, <2>1, <2>3 DEF Placed, Running
  <2> QED
    BY <1>10, <2>2, <2>4
<1> QED
  BY <1>12, <1>13

(* Every step keeps the stored blocks a forest under the pending ones. *)
LEMMA NextOrphans == OrphanInv /\ [Next]_vars => OrphanInv'
<1> SUFFICES ASSUME OrphanInv, [Next]_vars PROVE OrphanInv'
  OBVIOUS
<1>1. TreeInv' /\ WInv'
  BY TreeStays, NextWrites DEF OrphanInv
<1>2. CASE UNCHANGED vars
  <2> USE <1>2 DEF vars
  <2>1. Placed'
    BY SMTT(30) DEF OrphanInv, Placed, Running, HasParent, IsPending, IsCarried
  <2>2. Disjoint'
    BY DEF OrphanInv, Disjoint
  <2>3. /\ Running' = Running /\ Unwritten' = Unwritten
        /\ \A l : Reach(l)' = Reach(l)
    BY DEF Running, Unwritten, Reach, Top, Start, End, Lo, Hi
  <2>4. Behind'
    BY <2>3 DEF OrphanInv, Behind
  <2> QED
    BY <1>1, <2>1, <2>2, <2>4 DEF OrphanInv
<1>3. CASE Next
  <2>1. Placed' /\ Disjoint' /\ Behind'
    BY <1>3, ReadBlockOrphans, ReturnOrphans, DroppedOrphans, EndOfStreamOrphans,
       FlushFullBlockOrphans, AppendIndexOrphans, FlushLevelOrphans DEF Next
  <2> QED
    BY <1>1, <2>1 DEF OrphanInv
<1> QED
  BY <1>2, <1>3

(* A key's span lies within the span of a block that lists it. *)
LEMMA WithinParent ==
  ASSUME TreeInv, NEW i \in 1..Len(inodes), NEW j \in 1..Len(inodes[i].keys),
         NEW d, NEW h, d = inodes[i].depth, h = inodes[i].keys[j]
  PROVE  /\ Lo(d, h) \in Nat /\ Hi(d, h) \in Nat /\ Lo(d, h) < Hi(d, h)
         /\ inodes[i].lo <= Lo(d, h) /\ Hi(d, h) <= inodes[i].hi
<1>1. Shape /\ StoredSpans /\ StoredEnds
  BY DEF TreeInv, IInv
<1>2. PICK s \in Seq(Nat), k \in Nat : s = inodes[i].keys /\ k = Len(s) /\ d \in Nat
  <2>1. inodes[i].keys \in Seq(Nat) /\ inodes[i].depth \in Nat
    BY <1>1, StoredTypes
  <2> QED
    BY <2>1
<1>3. j \in 1..k /\ h = s[j] /\ k >= 1 /\ 1 \in 1..k /\ k \in 1..k
  BY <1>2
<1>4. \A m \in 1..k : KeyOK(d, s[m])
  BY <1>1, <1>2 DEF Shape, StoredKeys
<1>5. \A m \in 1..k : Lo(d, s[m]) \in Nat /\ Hi(d, s[m]) \in Nat /\ Lo(d, s[m]) < Hi(d, s[m])
  BY <1>1, <1>2, <1>4, SpanNonEmpty
<1>6. \A m, o \in 1..k : m < o => Hi(d, s[m]) <= Lo(d, s[o])
  BY <1>1, <1>2 DEF StoredSpans, Linked
<1>7. inodes[i].lo = Lo(d, s[1]) /\ inodes[i].hi = Hi(d, s[k])
  BY <1>1, <1>2 DEF StoredEnds
<1>8. Lo(d, s[1]) <= Lo(d, s[j])
  <2>1. CASE j = 1
    BY <1>3, <1>5, <2>1
  <2>2. CASE j # 1
    <3>1. 1 < j
      BY <1>2, <1>3, <2>2
    <3>2. Hi(d, s[1]) <= Lo(d, s[j])
      BY <1>3, <1>6, <3>1
    <3> QED
      BY <1>3, <1>5, <3>2
  <2> QED
    BY <2>1, <2>2
<1>9. Hi(d, s[j]) <= Hi(d, s[k])
  <2>1. CASE j = k
    BY <1>3, <1>5, <2>1
  <2>2. CASE j # k
    <3>1. j < k
      BY <1>2, <1>3, <2>2
    <3>2. Hi(d, s[j]) <= Lo(d, s[k])
      BY <1>3, <1>6, <3>1
    <3> QED
      BY <1>3, <1>5, <3>2
  <2> QED
    BY <2>1, <2>2
<1> QED
  BY <1>3, <1>5, <1>7, <1>8, <1>9

(* Disjoint blocks of one level share no handle. *)
LEMMA OneParent ==
  ASSUME TreeInv, Disjoint, ~dropped,
         NEW i \in 1..Len(inodes), NEW j \in 1..Len(inodes),
         inodes[i].depth = inodes[j].depth, i < j,
         NEW k, NEW x \in 1..Len(inodes[i].keys), NEW y \in 1..Len(inodes[j].keys),
         inodes[i].keys[x] = k, inodes[j].keys[y] = k
  PROVE  FALSE
<1>1. PICK d : d = inodes[i].depth
  OBVIOUS
<1>2. PICK a \in Nat, b \in Nat :
        a = Lo(d, k) /\ b = Hi(d, k) /\ a < b /\ b <= inodes[i].hi
  <2>1. /\ Lo(d, k) \in Nat /\ Hi(d, k) \in Nat /\ Lo(d, k) < Hi(d, k)
        /\ Hi(d, k) <= inodes[i].hi
    BY <1>1, WithinParent, Zenon
  <2> QED
    BY <2>1, Zenon
<1>3. inodes[j].lo <= a
  BY <1>1, <1>2, WithinParent
<1>4. inodes[i].hi <= inodes[j].lo
  BY DEF Disjoint
<1>5. inodes[i].hi \in Nat /\ inodes[j].lo \in Nat
  BY StoredTypes DEF TreeInv, IInv
<1> QED
  BY <1>2, <1>3, <1>4, <1>5, SMTT(30)

(***************************************************************************)
(* For every capacity and every pattern of failures: when                  *)
(* chop_tree_index_blocks succeeds and discarded no error, the key blocks  *)
(* it put into the metadata store are one tree; each but the root is       *)
(* listed by exactly one other.                                            *)
(***************************************************************************)
THEOREM NoOrphansCorrect == Spec => []NoOrphans
<1>1. Init => OrphanInv
  <2> SUFFICES ASSUME Init PROVE OrphanInv
    OBVIOUS
  <2>1. Len(levels) = 0 /\ Len(inodes) = 0 /\ pc = "read" /\ result = "none" /\ root = 0
    BY DEF Init
  <2>2. IInv /\ StoredEnds
    BY <2>1, InitSpans DEF StoredEnds
  <2>3. WInv
    BY <2>1, InitShape DEF WInv, CarriedCopies, FlushedCopies
  <2>4. Placed /\ Disjoint /\ Behind
    BY <2>1 DEF Placed, Disjoint, Behind, Running
  <2> QED
    BY <2>2, <2>3, <2>4 DEF OrphanInv, TreeInv
<1>2. OrphanInv /\ [Next]_vars => OrphanInv'
  BY NextOrphans
<1>3. OrphanInv => NoOrphans
  <2> SUFFICES ASSUME OrphanInv, result = "ok", ~dropped, NEW k \in 1..Len(inodes)
               PROVE  LET Parents == {i \in 1..Len(inodes) :
                              /\ inodes[i].depth = inodes[k].depth + 1
                              /\ \E j \in 1..Len(inodes[i].keys) : inodes[i].keys[j] = k}
                      IN  IF k = root THEN Parents = {} ELSE \E i \in Parents : Parents = {i}
    BY DEF NoOrphans
  <2> DEFINE Parents == {i \in 1..Len(inodes) :
                              /\ inodes[i].depth = inodes[k].depth + 1
                              /\ \E j \in 1..Len(inodes[i].keys) : inodes[i].keys[j] = k}
  <2>0. TreeInv /\ Disjoint /\ Placed /\ Shape
    BY DEF OrphanInv, TreeInv, IInv
  <2>1. CASE k = root
    <3> SUFFICES ASSUME NEW i \in Parents PROVE FALSE
      BY <2>1
    <3>1. PICK j \in 1..Len(inodes[i].keys) : inodes[i].keys[j] = k
      OBVIOUS
    <3>2. k = Len(inodes) /\ Len(inodes) \in Nat /\ inodes[k].depth \in Nat
      BY <2>0, <2>1, StoredTypes DEF Placed
    <3>3. inodes[i].depth > 0 /\ i \in 1..Len(inodes)
      BY <3>2
    <3>4. k < i
      BY <2>0, <3>1, <3>3 DEF Shape, StoredKeys
    <3> QED
      BY <3>2, <3>3, <3>4
  <2>2. CASE k # root
    <3>1. HasParent(k)
      BY <2>0, <2>2 DEF Placed
    <3>2. PICK i \in Parents : TRUE
      BY <3>1 DEF HasParent
    <3>3. ASSUME NEW m \in Parents PROVE m = i
      <4>1. /\ i \in 1..Len(inodes) /\ m \in 1..Len(inodes)
            /\ inodes[i].depth = inodes[m].depth
        OBVIOUS
      <4>2. PICK x \in 1..Len(inodes[i].keys) : inodes[i].keys[x] = k
        OBVIOUS
      <4>3. PICK y \in 1..Len(inodes[m].keys) : inodes[m].keys[y] = k
        OBVIOUS
      <4>4. ~(i < m)
        BY <2>0, <4>1, <4>2, <4>3, OneParent
      <4>5. ~(m < i)
        BY <2>0, <4>1, <4>2, <4>3, OneParent
      <4>6. Len(inodes) \in Nat
        BY <2>0, StoredTypes
      <4> QED
        BY <4>1, <4>4, <4>5, <4>6
    <3>4. Parents = {i}
      BY <3>2, <3>3
    <3> QED
      BY <2>2, <3>2, <3>4
  <2> QED
    BY <2>1, <2>2
<1> QED
  BY <1>1, <1>2, <1>3, PTL DEF Spec

-----------------------------------------------------------------------------
(***************************************************************************)
(* How tall the tree grows.  A key block the recursion writes is full of   *)
(* handles of full blocks, so that one of depth d spans at least Room[d+1] *)
(* input blocks; the flush adds handles of partly filled blocks, but only  *)
(* to the level it comes to next.                                          *)
(***************************************************************************)
Rooms(f, n) ==
    f = [d \in 0..n |-> IF d = 0 THEN 1 ELSE (IndexesPerBlock - 1) * f[d - 1]]

Room == CHOOSE f : Rooms(f, DepthLimit)

(* No stored block reaches beyond the input. *)
WithinInput == \A i \in 1..Len(inodes) : inodes[i].hi <= nblocks

(* A level exists only when the levels below could not hold the input. *)
HeightInv ==
    /\ Len(levels) <= DepthLimit + 1
    /\ \A l \in 2..Len(levels) : nblocks > Room[l - 1]

(* Above the flush cursor, pending blocks hold handles of full blocks. *)
Heavy(l) ==
    levels[l] # <<>> => Start(l) + Len(levels[l]) * Room[l - 1] <= End(l)

HeavyLevels ==
    \A l \in 1..Len(levels) : l > cursor => Heavy(l)

(* So are the handles the recursion carries, but the one the flush wrote. *)
HeavyCarried ==
    pc = "add" => \A i \in 1..Len(carried) :
        i > 1 \/ cursor = 0 =>
            Lo(base + i - 2, carried[i]) + Room[base + i - 2]
              <= Hi(base + i - 2, carried[i])

DepthInv ==
    /\ IInv
    /\ WithinInput
    /\ HeightInv
    /\ HeavyLevels
    /\ HeavyCarried
    /\ AssertionMeansTooDeep

(* The recursion in Capacity has a solution. *)
LEMMA RoomsExist == \A n \in Nat : \E f : Rooms(f, n)
<1> DEFINE S == {n \in Nat : \E f : Rooms(f, n)}
<1>1. 0 \in S
  <2> DEFINE f == [d \in 0..0 |-> 1]
  <2>1. Rooms(f, 0)
    BY DEF Rooms
  <2> QED
    BY <2>1
<1>2. ASSUME NEW n \in Nat, n \in S PROVE n + 1 \in S
  <2>1. PICK f : Rooms(f, n)
    BY <1>2
  <2> DEFINE step(x) == (IndexesPerBlock - 1) * x
             g == [d \in 0..(n + 1) |-> IF d = n + 1 THEN step(f[n]) ELSE f[d]]
  <2>2. f = [d \in 0..n |-> IF d = 0 THEN 1 ELSE step(f[d - 1])]
    BY <2>1 DEF Rooms
  <2> HIDE DEF step
  <2>3. \A d \in 0..(n + 1) : g[d] = IF d = 0 THEN 1 ELSE step(g[d - 1])
    BY <2>2
  <2>4. g = [d \in 0..(n + 1) |-> IF d = 0 THEN 1 ELSE step(g[d - 1])]
    BY <2>3
  <2>5. Rooms(g, n + 1)
    BY <2>4 DEF Rooms, step
  <2> QED
    BY <2>5
<1> HIDE DEF S
<1>3. \A n \in Nat : n \in S
  BY <1>1, <1>2, NatSetInduction
<1> QED
  BY <1>3 DEF S

(* A block of full blocks has room for one key block less one as many. *)
LEMMA RoomFacts ==
  /\ Room[0] = 1
  /\ \A d \in 1..DepthLimit : Room[d] = (IndexesPerBlock - 1) * Room[d - 1]
  /\ \A d \in 0..DepthLimit : Room[d] \in Nat
  /\ Capacity = Room[DepthLimit]
<1> DEFINE step(x) == (IndexesPerBlock - 1) * x
<1>0. Rooms(Room, DepthLimit)
  <2>1. \E f : Rooms(f, DepthLimit)
    BY RoomsExist, DepthAssumption
  <2> QED
    BY <2>1 DEF Room
<1>1. Room = [d \in 0..DepthLimit |-> IF d = 0 THEN 1 ELSE step(Room[d - 1])]
  BY <1>0 DEF Rooms
<1>2. \A x \in Nat : step(x) \in Nat
  BY IndexesAssumption
<1> HIDE DEF step
<1>3. \A d \in 0..DepthLimit : Room[d] = IF d = 0 THEN 1 ELSE step(Room[d - 1])
  BY <1>1
<1>4. Room[0] = 1
  BY <1>3, DepthAssumption
<1>5. \A d \in 1..DepthLimit : Room[d] = step(Room[d - 1])
  BY <1>3
<1> DEFINE S == {n \in Nat : n <= DepthLimit => Room[n] \in Nat}
<1>6. 0 \in S
  BY <1>4
<1>7. ASSUME NEW n \in Nat, n \in S PROVE n + 1 \in S
  <2> SUFFICES ASSUME n + 1 <= DepthLimit PROVE Room[n + 1] \in Nat
    OBVIOUS
  <2>1. Room[n] \in Nat /\ n + 1 \in 1..DepthLimit /\ (n + 1) - 1 = n
    BY <1>7, DepthAssumption
  <2> QED
    BY <1>2, <1>5, <2>1
<1> HIDE DEF S
<1>8. \A n \in Nat : n \in S
  BY <1>6, <1>7, NatSetInduction
<1>9. \A d \in 0..DepthLimit : Room[d] \in Nat
  BY <1>8 DEF S
<1>10. Capacity = Room[DepthLimit]
  BY DEF Capacity, Room, Rooms
<1> QED
  BY <1>4, <1>5, <1>9, <1>10 DEF step

(* What a key stands for lies within the input. *)
LEMMA KeyWithin ==
  ASSUME Shape, WithinInput
  PROVE  \A d \in Nat : \A h : KeyOK(d, h) => Hi(d, h) <= nblocks
<1> SUFFICES ASSUME NEW d \in Nat, NEW h, KeyOK(d, h) PROVE Hi(d, h) <= nblocks
  OBVIOUS
<1>1. CASE d = 0
  BY <1>1 DEF KeyOK, Hi, Shape, TypeOK
<1>2. CASE d # 0
  BY <1>2 DEF KeyOK, Hi, WithinInput
<1> QED
  BY <1>1, <1>2

(* Spans stay within the input. *)
LEMMA WithinStays ==
  ASSUME IInv, WithinInput, [Next]_vars
  PROVE  WithinInput'
<1>0. Shape /\ StoreStep /\ Grows
  BY NextStoreStep, StoreGrows DEF IInv
<1>1. /\ Len(inodes) \in Nat /\ nblocks \in Nat /\ nblocks' \in Nat /\ nblocks' >= nblocks
      /\ \A i \in 1..Len(inodes) : inodes[i].hi \in Nat
  BY <1>0, StoredTypes DEF Shape, TypeOK, StoreStep
<1>2. \A i \in 1..Len(inodes) : inodes'[i].hi <= nblocks'
  <2> SUFFICES ASSUME NEW i \in 1..Len(inodes) PROVE inodes'[i].hi <= nblocks'
    OBVIOUS
  <2>1. inodes'[i] = inodes[i] /\ inodes[i].hi <= nblocks
    BY <1>0 DEF Grows, WithinInput
  <2> QED
    BY <1>1, <2>1
<1>3. CASE inodes' = inodes
  BY <1>2, <1>3 DEF WithinInput
<1>4. CASE \E l \in 1..Len(levels) : levels[l] # <<>> /\ Writes(l)
  <2>1. PICK l \in 1..Len(levels) : levels[l] # <<>> /\ Writes(l)
    BY <1>4
  <2>2. PICK n \in Nat : n = Len(inodes) + 1
    BY <1>1
  <2>3. Len(inodes') = n /\ inodes'[n].hi = End(l) /\ End(l) \in Nat
    BY <1>0, <2>1, <2>2, WritesAppends, PendingEnds
  <2>4. End(l) <= nblocks
    <3>1. PICK d \in Nat, s \in Seq(Nat) : d = l - 1 /\ s = levels[l]
      <4>1. l - 1 \in Nat /\ levels[l] \in Seq(Nat)
        BY <1>0 DEF Shape, TypeOK
      <4> QED
        BY <4>1
    <3>2. Len(s) \in 1..Len(s)
      BY <2>1, <3>1
    <3>3. KeyOK(d, s[Len(s)])
      BY <1>0, <3>1, <3>2 DEF Shape, PendingKeys
    <3>4. End(l) = Hi(d, s[Len(s)])
      BY <2>1, <3>1 DEF End
    <3> QED
      BY <1>0, <3>3, <3>4, KeyWithin
  <2>5. \A i \in 1..Len(inodes') : i \in 1..Len(inodes) \/ i = n
    BY <1>1, <2>2, <2>3
  <2>6. inodes'[n].hi <= nblocks'
    BY <1>1, <2>3, <2>4
  <2> QED
    BY <1>2, <2>5, <2>6 DEF WithinInput
<1> QED
  BY <1>0, <1>3, <1>4 DEF StoreStep

(* A block of the chain that a step leaves alone stays as heavy. *)
LEMMA HeavyStays ==
  ASSUME IInv, [Next]_vars, NEW l \in 1..Len(levels), l \in 1..Len(levels'),
         levels'[l] = levels[l], Heavy(l)
  PROVE  Heavy(l)'
<1>1. End(l)' = End(l) /\ (levels[l] # <<>> => Start(l)' = Start(l))
  BY LevelStays DEF IInv
<1> QED
  BY <1>1 DEF Heavy

(* A step that leaves the chain alone and adds no block to the input. *)
LEMMA HeightStays ==
  ASSUME DepthInv, [Next]_vars, levels' = levels, cursor' \in Nat,
         cursor' >= cursor
  PROVE  HeightInv' /\ HeavyLevels'
<1>1. IInv /\ Shape /\ HeightInv /\ HeavyLevels /\ StoreStep
  BY NextStoreStep DEF DepthInv, IInv
<1>2. nblocks \in Nat /\ nblocks' \in Nat /\ nblocks' >= nblocks /\ Len(levels) \in Nat /\ cursor \in Nat
  BY <1>1 DEF StoreStep, Shape, TypeOK
<1>3. HeightInv'
  <2>1. ASSUME NEW l \in 2..Len(levels) PROVE nblocks' > Room[l - 1]
    <3>1. l - 1 \in 0..DepthLimit /\ nblocks > Room[l - 1]
      BY <1>1, <1>2, DepthAssumption DEF HeightInv
    <3>2. Room[l - 1] \in Nat
      BY <3>1, RoomFacts
    <3> QED
      BY <1>2, <3>1, <3>2
  <2> QED
    BY <1>1, <2>1 DEF HeightInv
<1>4. HeavyLevels'
  <2> SUFFICES ASSUME NEW l \in 1..Len(levels), l > cursor' PROVE Heavy(l)'
    BY DEF HeavyLevels
  <2>1. l > cursor
    BY <1>2
  <2> QED
    BY <1>1, <2>1, HeavyStays DEF HeavyLevels
<1> QED
  BY <1>3, <1>4

(* What each step below has to show: the rest follows from the stores. *)
Tall == HeightInv /\ HeavyLevels /\ HeavyCarried /\ AssertionMeansTooDeep

(* Nothing is pending after a return, whatever was returned. *)
LEMMA ReturnTall ==
  ASSUME DepthInv,
         \/ StoreBlockFails \/ ReadFails \/ EndOfEmptyStream \/ FlushLevelFails
         \/ FlushLevel /\ ~(cursor < Len(levels))
  PROVE  Tall'
<1>1. levels' = <<>> /\ pc' = "done"
  BY DEF StoreBlockFails, ReadFails, EndOfEmptyStream, FlushLevelFails,
         FlushLevel, Return
<1>2. Len(levels') = 0 /\ 0 <= DepthLimit + 1
  BY <1>1, DepthAssumption
<1> QED
  BY <1>1, <1>2 DEF Tall, HeightInv, HeavyLevels, HeavyCarried, AssertionMeansTooDeep

(* Steps that change no pending block. *)
LEMMA ControlTall ==
  ASSUME DepthInv,
         \/ EndOfStream \/ FlushFullBlockFails
         \/ FlushLevel /\ cursor < Len(levels)
  PROVE  Tall'
<1>0. Next /\ [Next]_vars /\ Shape
  BY DEF Next, DepthInv, IInv
<1>1. levels' = levels /\ pc' # "aborted"
  BY DEF EndOfStream, FlushFullBlockFails, FlushLevel, AddReturns
<1>2. cursor' \in Nat /\ cursor' >= cursor
  <2>1. /\ cursor \in Nat
        /\ pc = "read" => cursor = 0
    BY <1>0 DEF Shape, TypeOK, ControlInv
  <2>2. CASE EndOfStream \/ (FlushLevel /\ cursor < Len(levels))
    <3>1. cursor' = cursor \/ (cursor = 0 /\ cursor' = 1)
      BY <2>1, <2>2 DEF EndOfStream, FlushLevel
    <3> QED
      BY <2>1, <3>1
  <2>3. CASE FlushFullBlockFails
    <3>1. (cursor' = 0 /\ cursor = 0) \/ cursor' = cursor + 1
      BY <2>3 DEF FlushFullBlockFails, AddReturns
    <3> QED
      BY <2>1, <3>1
  <2> QED
    BY <2>2, <2>3
<1>3. HeightInv' /\ HeavyLevels'
  BY <1>0, <1>1, <1>2, HeightStays
<1>4. HeavyCarried'
  <2>1. CASE EndOfStream \/ FlushFullBlockFails
    BY <2>1 DEF EndOfStream, FlushFullBlockFails, AddReturns, HeavyCarried
  <2>2. CASE FlushLevel /\ cursor < Len(levels)
    <3>1. Len(carried') = 1 /\ cursor' = cursor /\ cursor # 0
      BY <1>0, <2>2 DEF FlushLevel, Shape, ControlInv
    <3> QED
      BY <3>1 DEF HeavyCarried
  <2> QED
    BY <2>1, <2>2
<1> QED
  BY <1>1, <1>3, <1>4 DEF Tall, AssertionMeansTooDeep

(* The depth does not fit only when the last level that fits is full. *)
LEMMA AssertionTall ==
  ASSUME DepthInv, AssertionFails
  PROVE  Tall'
<1>0. Next /\ [Next]_vars /\ Shape /\ HeightInv
  BY DEF Next, DepthInv, IInv
<1>1. levels' = levels /\ pc' = "aborted" /\ nblocks' = nblocks /\ cursor' = cursor
  BY DEF AssertionFails
<1>2. cursor \in Nat /\ Len(levels) \in Nat
  BY <1>0 DEF Shape, TypeOK
<1>3. HeightInv' /\ HeavyLevels'
  <2>1. cursor' \in Nat /\ cursor' >= cursor
    BY <1>1, <1>2
  <2> QED
    BY <1>0, <1>1, <2>1, HeightStays
<1>4. HeavyCarried'
  BY <1>1 DEF HeavyCarried
<1>5. Len(levels) = DepthLimit + 1
  <2>1. CASE pc = "add" /\ Full(Top) /\ ~DepthFits(Top)
    <3>1. PICK t \in Nat : t = Top /\ t \in 1..Len(levels)
      BY <1>0, <1>2, <2>1, TopWritable
    <3>2. ~(t - 1 < DepthLimit)
      BY <2>1, <3>1 DEF DepthFits
    <3> QED
      BY <1>0, <1>2, <3>1, <3>2, DepthAssumption DEF HeightInv
  <2>2. CASE pc = "flush" /\ ~DepthFits(cursor)
    <3>1. cursor \in 1..Len(levels) /\ ~(cursor - 1 < DepthLimit)
      BY <1>0, <2>2, CursorWritable DEF DepthFits
    <3> QED
      BY <1>0, <1>2, <3>1, DepthAssumption DEF HeightInv
  <2> QED
    BY <2>1, <2>2 DEF AssertionFails
<1>6. nblocks > Capacity
  <2>1. DepthLimit + 1 \in 2..Len(levels) /\ (DepthLimit + 1) - 1 = DepthLimit
    BY <1>5, DepthAssumption
  <2> QED
    BY <1>0, <2>1, RoomFacts DEF HeightInv
<1> QED
  BY <1>1, <1>3, <1>4, <1>6 DEF Tall, AssertionMeansTooDeep

(* A data block is as heavy as a handle of depth 0 has to be. *)
LEMMA ReadBlockTall ==
  ASSUME DepthInv, ReadBlock
  PROVE  Tall'
<1>0. Next /\ [Next]_vars /\ Shape
  BY DEF Next, DepthInv, IInv
<1>1. /\ pc' = "add" /\ base' = 1 /\ cursor' = cursor /\ nblocks' = nblocks + 1
      /\ carried' = <<nblocks + 1>>
      /\ levels' = IF levels = <<>> THEN << <<>> >> ELSE levels
  BY DEF ReadBlock
<1>2. nblocks \in Nat /\ cursor \in Nat
  BY <1>0 DEF Shape, TypeOK
<1>3. HeavyCarried'
  <2>1. PICK h \in Nat : h = nblocks + 1 /\ h - 1 = nblocks
    BY <1>2
  <2>2. Len(carried') = 1 /\ carried'[1] = h
    BY <1>1, <2>1
  <2>3. Lo(0, h)' = h - 1 /\ Hi(0, h)' = h
    BY DEF Lo, Hi
  <2>4. Lo(0, h)' + Room[0] <= Hi(0, h)'
    BY <2>1, <2>3, RoomFacts
  <2>5. ASSUME NEW i \in 1..Len(carried')
        PROVE  Lo(base + i - 2, carried[i])' + Room[base' + i - 2] <= Hi(base + i - 2, carried[i])'
    <3>1. i = 1 /\ base' + i - 2 = 0 /\ carried'[i] = h
      BY <1>1, <2>2
    <3> QED
      BY <2>4, <3>1
  <2> QED
    BY <2>5 DEF HeavyCarried
<1>4. HeightInv' /\ HeavyLevels'
  <2>1. CASE levels = <<>>
    <3>1. levels' = << <<>> >> /\ Len(levels') = 1 /\ levels'[1] = <<>>
      BY <1>1, <2>1
    <3>2. 1 <= DepthLimit + 1
      BY DepthAssumption
    <3> QED
      BY <3>1, <3>2 DEF HeightInv, HeavyLevels, Heavy
  <2>2. CASE levels # <<>>
    <3>1. levels' = levels /\ cursor' \in Nat /\ cursor' >= cursor
      BY <1>1, <1>2, <2>2
    <3> QED
      BY <1>0, <3>1, HeightStays
  <2> QED
    BY <2>1, <2>2
<1> QED
  BY <1>1, <1>3, <1>4 DEF Tall, AssertionMeansTooDeep

(* A full block of heavy handles spans what a handle of its depth must,    *)
(* and the handle that did not fit lies behind it.                         *)
LEMMA FullSpan ==
  ASSUME DepthInv, pc = "add", Full(Top), DepthFits(Top), NEW t, t = Top
  PROVE  /\ t \in 1..DepthLimit /\ Room[t] \in Nat
         /\ Start(t) \in Nat /\ End(t) \in Nat
         /\ Start(t) + Room[t] <= End(t)
         /\ End(t) < nblocks
<1>0. Shape /\ IInv /\ StoredSpans
  BY DEF DepthInv, IInv
<1>1. PICK c \in Nat, b \in Nat :
         /\ c = Len(carried) /\ b = base
         /\ t = b + c - 1 /\ t \in 1..Len(levels) /\ b >= 1 /\ c >= 1
         /\ levels[t] # <<>>
  BY <1>0, TopWritable
<1>2. t \in 1..DepthLimit
  BY <1>1, DepthAssumption DEF DepthFits
<1>3. PICK m \in Nat : m = Len(levels[t]) /\ m = IndexesPerBlock - 1
  <2>1. Len(levels[t]) \in Nat /\ Len(levels[t]) + 1 >= IndexesPerBlock
    BY <1>0, TopWritable DEF Full
  <2>2. Len(levels[t]) < IndexesPerBlock
    BY <1>0, <1>1 DEF Shape, LevelsInv
  <2> QED
    BY <2>1, <2>2, IndexesAssumption
<1>4. Room[t] = m * Room[t - 1] /\ Room[t] \in Nat
  BY <1>2, <1>3, RoomFacts
<1>5. t > cursor
  BY <1>0, <1>1 DEF Shape, TypeOK, ControlInv
<1>6. Start(t) + m * Room[t - 1] <= End(t)
  BY <1>1, <1>3, <1>5 DEF DepthInv, HeavyLevels, Heavy
<1>7. Start(t) \in Nat /\ End(t) \in Nat
  BY <1>0, <1>1, PendingEnds
<1>8. End(t) < nblocks
  <2>1. PICK d \in Nat, h \in Nat : d = b + c - 2 /\ h = carried[c] /\ c \in 1..c
    <3>1. b + c - 2 \in Nat /\ c \in 1..c
      BY <1>1
    <3>2. carried[c] \in Nat
      BY <1>0, <1>1, <3>1, SMTT(30) DEF Shape, TypeOK
    <3> QED
      BY <3>1, <3>2
  <2>2. KeyOK(d, h)
    BY <1>0, <1>1, <2>1 DEF Shape, CarriedKeys
  <2>3. Follows(End(b + c - 1), Lo(d, h))
    BY <1>0, <1>1, <2>1 DEF IInv, CarryInv
  <2>4. End(t) <= Lo(d, h)
    BY <1>1, <2>3 DEF Follows
  <2>5. Lo(d, h) \in Nat /\ Hi(d, h) \in Nat /\ Lo(d, h) < Hi(d, h)
    BY <1>0, <2>2, SpanNonEmpty
  <2>6. Hi(d, h) <= nblocks /\ nblocks \in Nat
    BY <1>0, <2>2, KeyWithin DEF DepthInv, Shape, TypeOK
  <2> QED
    BY <1>7, <2>4, <2>5, <2>6
<1> QED
  BY <1>2, <1>4, <1>6, <1>7, <1>8

(* The recursion carries a full block up, and may add a level for it. *)
LEMMA FlushFullBlockTall ==
  ASSUME DepthInv, FlushFullBlock
  PROVE  Tall'
<1>0. /\ Next /\ [Next]_vars /\ Shape /\ IInv /\ StoreStep
      /\ HeightInv /\ HeavyLevels /\ HeavyCarried
  BY NextStoreStep DEF Next, DepthInv, IInv
<1>1. /\ pc = "add" /\ pc' = "add" /\ base' = base /\ cursor' = cursor
      /\ nblocks' = nblocks /\ Full(Top) /\ DepthFits(Top)
  BY DEF FlushFullBlock
<1>2. PICK t \in Nat, c \in Nat, b \in Nat :
         /\ t = Top /\ c = Len(carried) /\ b = base
         /\ t = b + c - 1 /\ t \in 1..Len(levels) /\ b >= 1 /\ c >= 1
         /\ levels[t] # <<>> /\ Writes(t)
  <2>1. /\ Top \in 1..Len(levels) /\ Top = base + Len(carried) - 1 /\ base \in Nat
        /\ base >= 1 /\ Len(carried) \in Nat /\ Len(carried) >= 1
        /\ levels[Top] # <<>> /\ Writes(Top) /\ Top \in Nat
    BY <1>0, <1>1, TopWritable DEF FlushFullBlock, Writes
  <2> QED
    BY <2>1, Zenon
<1>3. /\ t \in 1..DepthLimit /\ Room[t] \in Nat
      /\ Start(t) \in Nat /\ End(t) \in Nat
      /\ Start(t) + Room[t] <= End(t)
      /\ End(t) < nblocks
  BY <1>1, <1>2, FullSpan
<1>4. PICK n \in Nat : n = Len(inodes) + 1
  BY <1>0, StoredTypes
<1>5. Len(inodes') = n /\ inodes'[n].lo = Start(t) /\ inodes'[n].hi = End(t)
  BY <1>0, <1>2, <1>4, WritesAppends, PendingEnds
<1>6. /\ Len(carried') = c + 1 /\ carried'[c + 1] = n
      /\ \A i \in 1..c : carried'[i] = carried[i]
  BY <1>0, <1>2, <1>4 DEF FlushFullBlock, Shape, TypeOK
<1>7. HeavyCarried'
  <2> SUFFICES ASSUME NEW i \in 1..(c + 1), i > 1 \/ cursor = 0
               PROVE  Lo(b + i - 2, carried[i])' + Room[b + i - 2] <= Hi(b + i - 2, carried[i])'
    BY <1>1, <1>2, <1>6 DEF HeavyCarried
  <2>1. CASE i = c + 1
    <3>1. b + i - 2 = t /\ t # 0
      BY <1>2, <2>1
    <3>2. Lo(t, n)' = Start(t) /\ Hi(t, n)' = End(t)
      BY <1>5, <3>1 DEF Lo, Hi
    <3> QED
      BY <1>3, <1>6, <2>1, <3>1, <3>2
  <2>2. CASE i # c + 1
    <3>1. i \in 1..c /\ b + i - 2 \in Nat
      BY <1>2, <2>2
    <3>2. PICK d \in Nat, h \in Nat : d = b + i - 2 /\ h = carried[i]
      <4>1. carried \in Seq(Nat) /\ i \in 1..Len(carried)
        BY <1>0, <1>2, <3>1 DEF Shape, TypeOK
      <4>2. carried[i] \in Nat
        BY <4>1
      <4> QED
        BY <3>1, <4>2
    <3>3. KeyOK(d, h)
      BY <1>0, <1>1, <1>2, <3>1, <3>2 DEF Shape, CarriedKeys
    <3>4. Lo(d, h)' = Lo(d, h) /\ Hi(d, h)' = Hi(d, h)
      BY <1>0, <3>3, KeyStays
    <3>5. Lo(d, h) + Room[d] <= Hi(d, h)
      BY <1>0, <1>1, <1>2, <3>1, <3>2 DEF HeavyCarried
    <3> QED
      BY <1>6, <3>1, <3>2, <3>4, <3>5
  <2> QED
    BY <2>1, <2>2
<1>8. CASE t # Len(levels)
  <2>1. levels' = levels /\ cursor' \in Nat /\ cursor' >= cursor
    BY <1>0, <1>1, <1>2, <1>8 DEF FlushFullBlock, Shape, TypeOK
  <2>2. HeightInv' /\ HeavyLevels'
    BY <1>0, <2>1, HeightStays
  <2> QED
    BY <1>1, <1>7, <2>2 DEF Tall, AssertionMeansTooDeep
<1>9. CASE t = Len(levels)
  <2>0. levels \in Seq(Seq(Nat)) /\ <<>> \in Seq(Nat)
    BY <1>0 DEF Shape, TypeOK
  <2>1. levels' = Append(levels, <<>>)
    BY <1>2, <1>9 DEF FlushFullBlock
  <2>2. /\ Len(levels') = t + 1 /\ levels'[t + 1] = <<>>
        /\ \A l \in 1..t : levels'[l] = levels[l]
    BY <1>9, <2>0, <2>1
  <2>3. HeightInv'
    <3>1. t + 1 <= DepthLimit + 1
      BY <1>3, DepthAssumption
    <3>2. ASSUME NEW l \in 2..(t + 1) PROVE nblocks > Room[l - 1]
      <4>1. CASE l = t + 1
        <5>1. l - 1 = t /\ nblocks \in Nat
          BY <1>0, <1>2, <4>1 DEF Shape, TypeOK
        <5> QED
          BY <1>3, <5>1
      <4>2. CASE l # t + 1
        <5>1. l \in 2..Len(levels)
          BY <1>2, <1>9, <4>2
        <5> QED
          BY <1>0, <5>1 DEF HeightInv
      <4> QED
        BY <4>1, <4>2
    <3> QED
      BY <1>1, <2>2, <3>1, <3>2 DEF HeightInv
  <2>4. HeavyLevels'
    <3> SUFFICES ASSUME NEW l \in 1..(t + 1), l > cursor PROVE Heavy(l)'
      BY <1>1, <2>2 DEF HeavyLevels
    <3>1. CASE l = t + 1
      BY <2>2, <3>1 DEF Heavy
    <3>2. CASE l # t + 1
      <4>1. l \in 1..Len(levels) /\ l \in 1..Len(levels') /\ l \in 1..t
        BY <1>2, <1>9, <2>2, <3>2
      <4>2. Heavy(l) /\ levels'[l] = levels[l]
        BY <1>0, <2>2, <4>1 DEF HeavyLevels
      <4> QED
        BY <1>0, <4>1, <4>2, HeavyStays
    <3> QED
      BY <3>1, <3>2
  <2> QED
    BY <1>1, <1>7, <2>3, <2>4 DEF Tall, AssertionMeansTooDeep
<1> QED
  BY <1>8, <1>9

(* Heavy handles make heavy blocks. *)
LEMMA AppendIndexTall ==
  ASSUME DepthInv, AppendIndex
  PROVE  Tall'
<1>0. /\ Next /\ [Next]_vars /\ Shape /\ IInv /\ StoredSpans
      /\ HeightInv /\ HeavyLevels /\ HeavyCarried
  BY DEF Next, DepthInv, IInv
<1>1. pc = "add" /\ nblocks' = nblocks /\ inodes' = inodes
  BY DEF AppendIndex
<1>2. PICK t \in Nat, c \in Nat, b \in Nat :
         /\ t = Top /\ c = Len(carried) /\ b = base
         /\ t = b + c - 1 /\ t \in 1..Len(levels) /\ b >= 1 /\ c >= 1
         /\ Len(levels) \in Nat
  BY <1>0, <1>1, TopWritable
<1>3. /\ \/ cursor = 0 /\ cursor' = 0 /\ pc' = "read"
         \/ cursor >= 1 /\ cursor' = cursor + 1 /\ pc' = "flush"
      /\ cursor \in Nat
      /\ cursor + 1 = b
  BY <1>0, <1>1, <1>2, AddReturnsControl DEF AppendIndex
<1>4. /\ Len(levels') = Len(levels)
      /\ levels'[t] = Append(levels[t], carried[c])
      /\ \A l \in b..(t - 1) : levels'[l] = <<carried[l - b + 1]>>
      /\ \A l \in 1..Len(levels) : l \notin b..t => levels'[l] = levels[l]
      /\ \A i \in 1..c : carried[i] \in Nat
  BY <1>0, <1>2, AppendedLevels
<1>5. HeightInv' /\ HeavyCarried' /\ AssertionMeansTooDeep'
  BY <1>0, <1>1, <1>3, <1>4 DEF HeightInv, HeavyCarried, AssertionMeansTooDeep
<1>6. HeavyLevels'
  <2> SUFFICES ASSUME NEW l \in 1..Len(levels), l > cursor' PROVE Heavy(l)'
    BY <1>4 DEF HeavyLevels
  <2>1. l > cursor /\ l >= b /\ l \in Nat /\ (l > b \/ cursor = 0)
    BY <1>2, <1>3
  <2>2. Heavy(l) /\ l \in 1..Len(levels')
    BY <1>0, <1>4, <2>1 DEF HeavyLevels
  <2>3. PICK d \in Nat : d = l - 1 /\ d \in 0..DepthLimit
    BY <1>0, <1>2, <2>1, DepthAssumption DEF HeightInv
  <2>4. PICK r \in Nat : r = Room[d]
    BY <2>3, RoomFacts
  <2>5. CASE l > t
    <3>1. l \notin b..t
      BY <1>2, <2>1, <2>5
    <3> QED
      BY <1>0, <1>4, <2>2, <3>1, HeavyStays
  <2>6. CASE l <= t
    <3>0. PICK i \in Nat : i = l - b + 1
      BY <1>2, <2>1
    <3>1. i \in 1..c /\ (i > 1 \/ cursor = 0) /\ b + i - 2 = d /\ b + i - 1 = l
      BY <1>2, <2>1, <2>3, <2>6, <3>0
    <3>2. PICK h \in Nat : h = carried[i]
      BY <1>4, <3>1
    <3>3. KeyOK(d, h) /\ Lo(d, h) + r <= Hi(d, h)
      BY <1>0, <1>1, <1>2, <2>4, <3>1, <3>2 DEF Shape, CarriedKeys, HeavyCarried
    <3>4. PICK x \in Nat, y \in Nat : x = Lo(d, h) /\ y = Hi(d, h) /\ x + r <= y
      BY <1>0, <3>3, SpanNonEmpty
    <3>5. Lo(d, h)' = x /\ Hi(d, h)' = y /\ \A k : Lo(d, k)' = Lo(d, k)
      BY <1>1, <3>4 DEF Lo, Hi
    <3>6. CASE levels'[l] = <<h>>
      <4>1. Len(levels'[l]) = 1 /\ levels'[l][1] = h /\ levels'[l] # <<>>
        BY <3>6
      <4>2. Start(l)' = x /\ End(l)' = y
        BY <2>2, <2>3, <3>5, <4>1 DEF Start, End
      <4>3. x + 1 * r <= y
        BY <3>4
      <4> QED
        BY <2>3, <2>4, <4>1, <4>2, <4>3 DEF Heavy
    <3>7. CASE l = t
      <4>1. i = c
        BY <1>2, <3>0, <3>7
      <4>2. PICK s \in Seq(Nat), m \in Nat : s = levels[t] /\ m = Len(s)
        BY <1>0, <1>1, <1>2, TopWritable
      <4>3. levels'[l] = Append(s, h)
        BY <1>4, <3>2, <3>7, <4>1, <4>2
      <4>4. /\ Len(Append(s, h)) = m + 1 /\ Append(s, h)[m + 1] = h
            /\ Append(s, h) # <<>> /\ (s # <<>> => Append(s, h)[1] = s[1])
        <5>1. /\ Len(Append(s, h)) = Len(s) + 1 /\ Append(s, h)[Len(s) + 1] = h
              /\ \A j \in 1..Len(s) : Append(s, h)[j] = s[j]
          OBVIOUS
        <5>2. s # <<>> => 1 \in 1..Len(s)
          OBVIOUS
        <5>3. Append(s, h) # <<>>
          BY <5>1
        <5> QED
          BY <4>2, <5>1, <5>2, <5>3
      <4>5. End(l)' = y
        BY <2>2, <2>3, <3>5, <4>3, <4>4 DEF End
      <4>6. CASE s = <<>>
        <5>1. Append(s, h) = <<h>>
          BY <4>6
        <5> QED
          BY <3>6, <4>3, <5>1
      <4>7. CASE s # <<>>
        <5>1. PICK a \in Nat, e \in Nat : a = Start(l) /\ e = End(l)
          BY <1>0, <3>7, <4>2, <4>7, PendingEnds
        <5>2. a + m * r <= e
          BY <2>2, <2>3, <2>4, <3>7, <4>2, <4>7, <5>1 DEF Heavy
        <5>3. Follows(e, x)
          BY <1>0, <1>1, <1>2, <3>1, <3>2, <3>4, <5>1 DEF IInv, CarryInv
        <5>4. e <= x
          BY <5>3 DEF Follows
        <5>5. a + (m + 1) * r <= y
          <6>1. (m + 1) * r = m * r + r /\ m * r \in Nat
            OBVIOUS
          <6> QED
            BY <3>4, <5>2, <5>4, <6>1
        <5>6. Start(l)' = a
          BY <2>3, <3>5, <3>7, <4>2, <4>3, <4>4, <4>7, <5>1 DEF Start
        <5> QED
          BY <2>3, <2>4, <4>3, <4>4, <4>5, <5>5, <5>6 DEF Heavy
      <4> QED
        BY <4>6, <4>7
    <3>8. CASE l # t
      <4>1. l \in b..(t - 1)
        BY <1>2, <2>1, <2>6, <3>8
      <4>2. levels'[l] = <<carried[i]>>
        BY <1>4, <3>0, <4>1
      <4> QED
        BY <3>2, <3>6, <4>2
    <3> QED
      BY <3>7, <3>8
  <2> QED
    BY <1>2, <2>1, <2>5, <2>6
<1> QED
  BY <1>5, <1>6 DEF Tall

(* Every step keeps the tree as low as it can be. *)
LEMMA NextTall == DepthInv /\ [Next]_vars => DepthInv'
<1> SUFFICES ASSUME DepthInv, [Next]_vars PROVE DepthInv'
  OBVIOUS
<1>1. IInv' /\ WithinInput'
  BY NextSpans, WithinStays DEF DepthInv
<1>2. CASE UNCHANGED vars
  <2> USE <1>2 DEF vars
  <2>1. HeightInv'
    BY DEF DepthInv, HeightInv
  <2>2. HeavyLevels'
    BY DEF DepthInv, HeavyLevels, Heavy, Start, End, Lo, Hi
  <2>3. HeavyCarried'
    BY DEF DepthInv, HeavyCarried, Lo, Hi
  <2>4. AssertionMeansTooDeep'
    BY DEF DepthInv, AssertionMeansTooDeep
  <2> QED
    BY <1>1, <2>1, <2>2, <2>3, <2>4 DEF DepthInv
<1>3. CASE Next
  <2>1. Tall'
    BY <1>3, ReturnTall, ControlTall, AssertionTall, ReadBlockTall,
       FlushFullBlockTall, AppendIndexTall DEF Next
  <2> QED
    BY <1>1, <2>1 DEF DepthInv, Tall
<1> QED
  BY <1>2, <1>3

(***************************************************************************)
(* For every capacity, depth limit, input and pattern of failures: the     *)
(* assertion of chop_key_block_fill_header fails only for an input that    *)
(* has more blocks than a tree of the depths the header can hold has room  *)
(* for.                                                                    *)
(***************************************************************************)
THEOREM AssertionMeansTooDeepCorrect == Spec => []AssertionMeansTooDeep
<1>1. Init => DepthInv
  <2> SUFFICES ASSUME Init PROVE DepthInv
    OBVIOUS
  <2>1. Len(levels) = 0 /\ Len(inodes) = 0 /\ pc = "read" /\ 0 <= DepthLimit + 1
    BY DepthAssumption DEF Init
  <2> QED
    BY <2>1, InitSpans DEF DepthInv, WithinInput, HeightInv, HeavyLevels,
       HeavyCarried, AssertionMeansTooDeep
<1>2. DepthInv /\ [Next]_vars => DepthInv'
  BY NextTall
<1>3. DepthInv => AssertionMeansTooDeep
  BY DEF DepthInv
<1> QED
  BY <1>1, <1>2, <1>3, PTL DEF Spec

-----------------------------------------------------------------------------
(***************************************************************************)
(* What a walk of the tree finds.  The leaves of a key block are data      *)
(* handles of the span of the block, in order; without a discarded error   *)
(* they are all of them.                                                   *)
(***************************************************************************)
Ordered(q, a, b) ==
    /\ q \in Seq(Nat)
    /\ \A m \in 1..Len(q) : a < q[m] /\ q[m] <= b
    /\ \A m, o \in 1..Len(q) : m < o => q[m] < q[o]

Interval(q, a, b) ==
    /\ q \in Seq(Nat) /\ Len(q) = b - a
    /\ \A m \in 1..Len(q) : q[m] = a + m

(* Two pieces, one behind the other. *)
LEMMA OrderedConcat ==
  ASSUME NEW p, NEW q, NEW a \in Nat, NEW b \in Nat, NEW c \in Nat, NEW d \in Nat,
         Ordered(p, a, b), Ordered(q, c, d), a <= b, b <= c, c <= d
  PROVE  Ordered(p \o q, a, d)
<1>1. p \in Seq(Nat) /\ q \in Seq(Nat)
  BY DEF Ordered
<1>2. PICK x \in Nat, y \in Nat : x = Len(p) /\ y = Len(q)
  BY <1>1
<1>3. /\ p \o q \in Seq(Nat) /\ Len(p \o q) = x + y
      /\ \A m \in 1..(x + y) : (p \o q)[m] = IF m <= x THEN p[m] ELSE q[m - x]
  BY <1>1, <1>2
<1>4. PICK z : z = p \o q
  OBVIOUS
<1>5. /\ \A m \in 1..x : p[m] \in Nat /\ a < p[m] /\ p[m] <= b
      /\ \A m \in 1..y : q[m] \in Nat /\ c < q[m] /\ q[m] <= d
      /\ \A m, o \in 1..x : m < o => p[m] < p[o]
      /\ \A m, o \in 1..y : m < o => q[m] < q[o]
  BY <1>1, <1>2 DEF Ordered
<1>6. ASSUME NEW m \in 1..(x + y)
      PROVE  \/ m \in 1..x /\ z[m] = p[m]
             \/ m - x \in 1..y /\ z[m] = q[m - x] /\ m > x
  BY <1>2, <1>3, <1>4
<1>7. ASSUME NEW m \in 1..(x + y) PROVE a < z[m] /\ z[m] <= d
  <2>1. CASE m \in 1..x /\ z[m] = p[m]
    BY <1>5, <2>1
  <2>2. CASE m - x \in 1..y /\ z[m] = q[m - x]
    <3>1. q[m - x] \in Nat /\ c < q[m - x] /\ q[m - x] <= d
      BY <1>5, <2>2
    <3> QED
      BY <2>2, <3>1
  <2> QED
    BY <1>6, <2>1, <2>2
<1>8. ASSUME NEW m \in 1..(x + y), NEW o \in 1..(x + y), m < o PROVE z[m] < z[o]
  <2>1. CASE o \in 1..x /\ z[o] = p[o]
    <3>1. m \in 1..x /\ z[m] = p[m]
      BY <1>2, <1>6, <1>8, <2>1
    <3> QED
      BY <1>5, <1>8, <2>1, <3>1
  <2>2. CASE o - x \in 1..y /\ z[o] = q[o - x]
    <3>1. q[o - x] \in Nat /\ c < q[o - x]
      BY <1>5, <2>2
    <3>2. CASE m \in 1..x /\ z[m] = p[m]
      <4>1. p[m] \in Nat /\ p[m] <= b
        BY <1>5, <3>2
      <4> QED
        BY <2>2, <3>1, <3>2, <4>1
    <3>3. CASE m - x \in 1..y /\ z[m] = q[m - x]
      <4>1. m - x < o - x
        BY <1>2, <1>8
      <4> QED
        BY <1>5, <2>2, <3>3, <4>1
    <3> QED
      BY <1>6, <3>2, <3>3
  <2> QED
    BY <1>6, <2>1, <2>2
<1> QED
  BY <1>3, <1>4, <1>7, <1>8 DEF Ordered

(* Adjoining intervals concatenate to an interval. *)
LEMMA IntervalConcat ==
  ASSUME NEW p, NEW q, NEW a \in Nat, NEW b \in Nat, NEW d \in Nat,
         Interval(p, a, b), Interval(q, b, d), a <= b, b <= d
  PROVE  Interval(p \o q, a, d)
<1>1. p \in Seq(Nat) /\ q \in Seq(Nat)
  BY DEF Interval
<1>2. PICK x \in Nat, y \in Nat : x = Len(p) /\ y = Len(q)
  BY <1>1
<1>a. x = b - a /\ y = d - b
  BY <1>2 DEF Interval
<1>3. /\ p \o q \in Seq(Nat) /\ Len(p \o q) = x + y
      /\ \A m \in 1..(x + y) : (p \o q)[m] = IF m <= x THEN p[m] ELSE q[m - x]
  BY <1>1, <1>2
<1>4. /\ \A m \in 1..x : p[m] = a + m
      /\ \A m \in 1..y : q[m] = b + m
  BY <1>2 DEF Interval
<1>5. ASSUME NEW m \in 1..(x + y) PROVE (p \o q)[m] = a + m
  <2>1. CASE m <= x
    BY <1>2, <1>3, <1>4, <2>1
  <2>2. CASE ~(m <= x)
    <3>1. m - x \in 1..y
      BY <1>2, <2>2
    <3>2. (p \o q)[m] = b + (m - x)
      BY <1>3, <1>4, <2>2, <3>1
    <3> QED
      BY <1>a, <3>2
  <2> QED
    BY <2>1, <2>2
<1>6. x + y = d - a
  BY <1>a
<1> QED
  BY <1>3, <1>5, <1>6 DEF Interval

(* The recursion in FlattenSeq. *)
Flattens(f, ss, n) ==
    f = [i \in 1..n |-> IF i = 1 THEN ss[i] ELSE f[i - 1] \o ss[i]]

(* The recursion in FlattenSeq has a solution. *)
LEMMA FlattensExist ==
  ASSUME NEW ss
  PROVE  \A n \in Nat : \E f : Flattens(f, ss, n)
<1> DEFINE S == {n \in Nat : \E f : Flattens(f, ss, n)}
<1>1. 0 \in S
  <2> DEFINE f == [i \in 1..0 |-> ss[i]]
  <2>1. Flattens(f, ss, 0)
    BY DEF Flattens
  <2> QED
    BY <2>1
<1>2. ASSUME NEW n \in Nat, n \in S PROVE n + 1 \in S
  <2>1. PICK f : Flattens(f, ss, n)
    BY <1>2
  <2> DEFINE step(x, i) == x \o ss[i]
             g == [i \in 1..(n + 1) |->
                     IF i = n + 1 THEN IF i = 1 THEN ss[i] ELSE step(f[n], i) ELSE f[i]]
  <2>2. f = [i \in 1..n |-> IF i = 1 THEN ss[i] ELSE step(f[i - 1], i)]
    BY <2>1 DEF Flattens
  <2> HIDE DEF step
  <2>3. \A i \in 1..(n + 1) : g[i] = IF i = 1 THEN ss[i] ELSE step(g[i - 1], i)
    BY <2>2
  <2>4. g = [i \in 1..(n + 1) |-> IF i = 1 THEN ss[i] ELSE step(g[i - 1], i)]
    BY <2>3
  <2>5. Flattens(g, ss, n + 1)
    BY <2>4 DEF Flattens, step
  <2> QED
    BY <2>5
<1> HIDE DEF S
<1>3. \A n \in Nat : n \in S
  BY <1>1, <1>2, NatSetInduction
<1> QED
  BY <1>3 DEF S

(* FlattenSeq appends the sequences one after another. *)
LEMMA FlattenIsLast ==
  ASSUME NEW ss, NEW n \in Nat, n = Len(ss), n >= 1
  PROVE  \E f : /\ FlattenSeq(ss) = f[n] /\ f[1] = ss[1]
                /\ \A i \in 1..(n - 1) : f[i + 1] = f[i] \o ss[i + 1]
<1> DEFINE f == CHOOSE f : Flattens(f, ss, n)
<1>1. Flattens(f, ss, n)
  <2>1. \E g : Flattens(g, ss, n)
    BY FlattensExist
  <2> QED
    BY <2>1
<1>2. FlattenSeq(ss) = f[n]
  <2>1. n # 0
    OBVIOUS
  <2> QED
    BY <2>1 DEF FlattenSeq, Flattens
<1> HIDE DEF f
<1> DEFINE step(x, i) == x \o ss[i]
<1>3. f = [i \in 1..n |-> IF i = 1 THEN ss[i] ELSE step(f[i - 1], i)]
  BY <1>1 DEF Flattens
<1> HIDE DEF step
<1>4. \A i \in 1..n : f[i] = IF i = 1 THEN ss[i] ELSE step(f[i - 1], i)
  BY <1>3
<1>5. f[1] = ss[1]
  BY <1>4
<1>6. ASSUME NEW i \in 1..(n - 1) PROVE f[i + 1] = step(f[i], i + 1)
  <2>1. i + 1 \in 1..n /\ i + 1 # 1 /\ (i + 1) - 1 = i
    OBVIOUS
  <2> QED
    BY <1>4, <2>1
<1> QED
  BY <1>2, <1>5, <1>6 DEF step

(* Pieces that are in order make a sequence in order. *)
LEMMA OrderedFlatten ==
  ASSUME NEW ss, NEW n \in Nat, n = Len(ss), n >= 1,
         NEW A, NEW B,
         \A i \in 1..n : A[i] \in Nat /\ B[i] \in Nat /\ A[i] <= B[i] /\ Ordered(ss[i], A[i], B[i]),
         \A i \in 1..(n - 1) : B[i] <= A[i + 1]
  PROVE  Ordered(FlattenSeq(ss), A[1], B[n])
<1>1. PICK f : /\ FlattenSeq(ss) = f[n] /\ f[1] = ss[1]
               /\ \A i \in 1..(n - 1) : f[i + 1] = f[i] \o ss[i + 1]
  BY FlattenIsLast
<1> DEFINE S == {i \in Nat : i \in 1..n => A[1] <= B[i] /\ Ordered(f[i], A[1], B[i])}
<1>2. 0 \in S
  OBVIOUS
<1>3. ASSUME NEW i \in Nat, i \in S PROVE i + 1 \in S
  <2> SUFFICES ASSUME i + 1 \in 1..n
               PROVE  A[1] <= B[i + 1] /\ Ordered(f[i + 1], A[1], B[i + 1])
    OBVIOUS
  <2>1. CASE i = 0
    <3>1. i + 1 = 1 /\ 1 \in 1..n
      BY <2>1
    <3> QED
      BY <1>1, <3>1
  <2>2. CASE i # 0
    <3>1. i \in 1..n /\ i \in 1..(n - 1) /\ 1 \in 1..n
      BY <2>2
    <3>2. PICK a \in Nat, b \in Nat, c \in Nat, d \in Nat :
             a = A[1] /\ b = B[i] /\ c = A[i + 1] /\ d = B[i + 1]
      BY <3>1
    <3>3. a <= b /\ Ordered(f[i], a, b) /\ b <= c /\ c <= d /\ Ordered(ss[i + 1], c, d)
      BY <1>3, <3>1, <3>2
    <3>4. Ordered(f[i] \o ss[i + 1], a, d) /\ a <= d
      BY <3>3, OrderedConcat
    <3> QED
      BY <1>1, <3>1, <3>2, <3>4
  <2> QED
    BY <2>1, <2>2
<1> HIDE DEF S
<1>4. n \in S
  BY <1>2, <1>3, NatSetInduction
<1> QED
  BY <1>1, <1>4 DEF S

(* Flattening intervals that adjoin gives the whole interval. *)
LEMMA IntervalFlatten ==
  ASSUME NEW ss, NEW n \in Nat, n = Len(ss), n >= 1,
         NEW A, NEW B,
         \A i \in 1..n : A[i] \in Nat /\ B[i] \in Nat /\ A[i] <= B[i] /\ Interval(ss[i], A[i], B[i]),
         \A i \in 1..(n - 1) : B[i] = A[i + 1]
  PROVE  Interval(FlattenSeq(ss), A[1], B[n])
<1>1. PICK f : /\ FlattenSeq(ss) = f[n] /\ f[1] = ss[1]
               /\ \A i \in 1..(n - 1) : f[i + 1] = f[i] \o ss[i + 1]
  BY FlattenIsLast
<1> DEFINE S == {i \in Nat : i \in 1..n => A[1] <= B[i] /\ Interval(f[i], A[1], B[i])}
<1>2. 0 \in S
  OBVIOUS
<1>3. ASSUME NEW i \in Nat, i \in S PROVE i + 1 \in S
  <2> SUFFICES ASSUME i + 1 \in 1..n
               PROVE  A[1] <= B[i + 1] /\ Interval(f[i + 1], A[1], B[i + 1])
    OBVIOUS
  <2>1. CASE i = 0
    <3>1. i + 1 = 1 /\ 1 \in 1..n
      BY <2>1
    <3> QED
      BY <1>1, <3>1
  <2>2. CASE i # 0
    <3>1. i \in 1..n /\ i \in 1..(n - 1) /\ 1 \in 1..n
      BY <2>2
    <3>2. PICK a \in Nat, b \in Nat, d \in Nat :
             a = A[1] /\ b = B[i] /\ b = A[i + 1] /\ d = B[i + 1]
      BY <3>1
    <3>3. a <= b /\ Interval(f[i], a, b) /\ b <= d /\ Interval(ss[i + 1], b, d)
      BY <1>3, <3>1, <3>2
    <3>4. Interval(f[i] \o ss[i + 1], a, d) /\ a <= d
      BY <3>3, IntervalConcat
    <3> QED
      BY <1>1, <3>1, <3>2, <3>4
  <2> QED
    BY <2>1, <2>2
<1> HIDE DEF S
<1>4. n \in S
  BY <1>2, <1>3, NatSetInduction
<1> QED
  BY <1>1, <1>4 DEF S

(* One step of the walk, and the walk of the first n key blocks. *)
Visit(L, s, i) ==
    IF s[i].depth = 0
      THEN s[i].keys
      ELSE FlattenSeq([j \in 1..Len(s[i].keys) |-> L[s[i].keys[j]]])

Walks(L, s, n) == L = [i \in 1..n |-> Visit(L, s, i)]

(* Walks that agree on earlier blocks agree on a block that points to them. *)
LEMMA VisitAgrees ==
  ASSUME NEW L, NEW M, NEW s, NEW i,
         s[i].depth # 0 => \A j \in 1..Len(s[i].keys) : L[s[i].keys[j]] = M[s[i].keys[j]]
  PROVE  Visit(L, s, i) = Visit(M, s, i)
<1>1. CASE s[i].depth = 0
  BY <1>1 DEF Visit
<1>2. CASE s[i].depth # 0
  <2>1. [j \in 1..Len(s[i].keys) |-> L[s[i].keys[j]]]
          = [j \in 1..Len(s[i].keys) |-> M[s[i].keys[j]]]
    BY <1>2
  <2> QED
    BY <1>2, <2>1 DEF Visit
<1> QED
  BY <1>1, <1>2

(* The recursion in Leaves has a solution. *)
LEMMA WalksExist ==
  ASSUME NEW s, NEW k \in Nat,
         \A i \in 1..k : s[i].depth # 0 =>
             \A j \in 1..Len(s[i].keys) : s[i].keys[j] \in 1..(i - 1)
  PROVE  \E L : Walks(L, s, k)
<1> DEFINE S == {n \in Nat : n <= k => \E L : Walks(L, s, n)}
<1>1. 0 \in S
  <2> DEFINE L == [i \in 1..0 |-> 0]
  <2>1. Walks(L, s, 0)
    BY DEF Walks
  <2> QED
    BY <2>1
<1>2. ASSUME NEW n \in Nat, n \in S PROVE n + 1 \in S
  <2> SUFFICES ASSUME n + 1 <= k PROVE \E L : Walks(L, s, n + 1)
    OBVIOUS
  <2>1. PICK L : Walks(L, s, n)
    BY <1>2
  <2> DEFINE M == [i \in 1..(n + 1) |-> IF i = n + 1 THEN Visit(L, s, n + 1) ELSE L[i]]
  <2>2. \A i \in 1..n : L[i] = Visit(L, s, i)
    BY <2>1 DEF Walks
  <2>3. \A i \in 1..n : M[i] = L[i]
    OBVIOUS
  <2>4. M[n + 1] = Visit(L, s, n + 1)
    OBVIOUS
  <2>5. M = [i \in 1..(n + 1) |-> M[i]]
    OBVIOUS
  <2> HIDE DEF M
  <2>6. ASSUME NEW i \in 1..(n + 1) PROVE M[i] = Visit(M, s, i)
    <3>1. s[i].depth # 0 => \A j \in 1..Len(s[i].keys) : s[i].keys[j] \in 1..n
      BY <2>6
    <3>2. Visit(L, s, i) = Visit(M, s, i)
      BY <2>3, <3>1, VisitAgrees
    <3>3. CASE i = n + 1
      BY <2>4, <3>2, <3>3
    <3>4. CASE i # n + 1
      <4>1. i \in 1..n
        BY <3>4
      <4> QED
        BY <2>2, <2>3, <3>2, <4>1
    <3> QED
      BY <3>3, <3>4
  <2>7. Walks(M, s, n + 1)
    BY <2>5, <2>6 DEF Walks
  <2> QED
    BY <2>7
<1> HIDE DEF S
<1>3. k \in S
  BY <1>1, <1>2, NatSetInduction
<1> QED
  BY <1>3 DEF S

(* Leaves is that solution. *)
LEMMA LeavesWalk ==
  ASSUME Shape
  PROVE  \E L : /\ \A i \in 1..Len(inodes) : L[i] = Visit(L, inodes, i)
                /\ \A i \in 1..Len(inodes) : Leaves(inodes, i) = L[i]
<1>1. PICK k \in Nat : k = Len(inodes)
  BY StoredTypes
<1>2. \A i \in 1..k : inodes[i].depth # 0 =>
        \A j \in 1..Len(inodes[i].keys) : inodes[i].keys[j] \in 1..(i - 1)
  <2> SUFFICES ASSUME NEW i \in 1..k, inodes[i].depth # 0,
                      NEW j \in 1..Len(inodes[i].keys)
               PROVE  inodes[i].keys[j] \in 1..(i - 1)
    OBVIOUS
  <2>1. PICK d \in Nat, h \in Nat : d = inodes[i].depth /\ h = inodes[i].keys[j]
    <3>1. inodes[i].depth \in Nat /\ inodes[i].keys \in Seq(Nat)
      BY <1>1, StoredTypes
    <3>2. inodes[i].keys[j] \in Nat
      BY <3>1
    <3> QED
      BY <3>1, <3>2
  <2>2. KeyOK(d, h) /\ (d > 0 => h < i)
    BY <1>1, <2>1 DEF Shape, StoredKeys
  <2>3. h \in 1..Len(inodes) /\ h < i
    BY <2>1, <2>2 DEF KeyOK
  <2> QED
    BY <1>1, <2>1, <2>3
<1> DEFINE L == CHOOSE L : Walks(L, inodes, k)
<1>3. Walks(L, inodes, k)
  <2>1. \E M : Walks(M, inodes, k)
    BY <1>2, WalksExist
  <2> QED
    BY <2>1
<1>4. \A i \in 1..k : Leaves(inodes, i) = L[i]
  BY <1>1 DEF Leaves, Walks, Visit
<1> HIDE DEF L
<1>5. \A i \in 1..k : L[i] = Visit(L, inodes, i)
  BY <1>3 DEF Walks
<1> QED
  BY <1>1, <1>4, <1>5

(* The keys of a stored block and what they span, by position. *)
LEMMA KeySpans ==
  ASSUME TreeInv, NEW i \in 1..Len(inodes)
  PROVE  \E d \in Nat, s \in Seq(Nat), n \in Nat :
           /\ d = inodes[i].depth /\ s = inodes[i].keys /\ n = Len(s) /\ n >= 1
           /\ \A j \in 1..n : /\ KeyOK(d, s[j]) /\ (d > 0 => s[j] < i)
                              /\ Lo(d, s[j]) \in Nat /\ Hi(d, s[j]) \in Nat
                              /\ Lo(d, s[j]) < Hi(d, s[j])
           /\ \A j, k \in 1..n : j < k => Hi(d, s[j]) <= Lo(d, s[k])
           /\ \A j \in 1..(n - 1) : Follows(Hi(d, s[j]), Lo(d, s[j + 1]))
           /\ inodes[i].lo = Lo(d, s[1]) /\ inodes[i].hi = Hi(d, s[n])
<1>1. Shape /\ StoredSpans /\ StoredEnds
  BY DEF TreeInv, IInv
<1>2. PICK d \in Nat, s \in Seq(Nat), n \in Nat :
        d = inodes[i].depth /\ s = inodes[i].keys /\ n = Len(s)
  <2>1. inodes[i].depth \in Nat /\ inodes[i].keys \in Seq(Nat)
    BY <1>1, StoredTypes
  <2>2. Len(inodes[i].keys) \in Nat
    BY <2>1
  <2> QED
    BY <2>1, <2>2, Zenon
<1>3. n >= 1 /\ \A j \in 1..n : KeyOK(d, s[j]) /\ (d > 0 => s[j] < i)
  BY <1>1, <1>2 DEF Shape, StoredKeys
<1>4. \A j \in 1..n : Lo(d, s[j]) \in Nat /\ Hi(d, s[j]) \in Nat /\ Lo(d, s[j]) < Hi(d, s[j])
  BY <1>1, <1>3, SpanNonEmpty
<1>5. /\ \A j, k \in 1..n : j < k => Hi(d, s[j]) <= Lo(d, s[k])
      /\ \A j \in 1..(n - 1) : Follows(Hi(d, s[j]), Lo(d, s[j + 1]))
  BY <1>1, <1>2 DEF StoredSpans, Linked
<1>6. inodes[i].lo = Lo(d, s[1]) /\ inodes[i].hi = Hi(d, s[n])
  BY <1>1, <1>2 DEF StoredEnds
<1> QED
  BY <1>2, <1>3, <1>4, <1>5, <1>6, Zenon

(* The leaves of every stored block are in order and within its span. *)
LEMMA LeavesOrdered ==
  ASSUME TreeInv, NEW r \in 1..Len(inodes)
  PROVE  Ordered(Leaves(inodes, r), inodes[r].lo, inodes[r].hi)
<1>0. Shape /\ Len(inodes) \in Nat
  BY StoredTypes DEF TreeInv, IInv
<1>1. PICK L : /\ \A i \in 1..Len(inodes) : L[i] = Visit(L, inodes, i)
               /\ \A i \in 1..Len(inodes) : Leaves(inodes, i) = L[i]
  BY <1>0, LeavesWalk
<1> DEFINE S == {i \in Nat : i \in 1..Len(inodes) => Ordered(L[i], inodes[i].lo, inodes[i].hi)}
<1>2. ASSUME NEW i \in Nat, \A m \in 0..(i - 1) : m \in S PROVE i \in S
  <2> SUFFICES ASSUME i \in 1..Len(inodes)
               PROVE  Ordered(L[i], inodes[i].lo, inodes[i].hi)
    OBVIOUS
  <2>1. PICK d \in Nat, s \in Seq(Nat), n \in Nat :
           /\ d = inodes[i].depth /\ s = inodes[i].keys /\ n = Len(s) /\ n >= 1
           /\ \A j \in 1..n : /\ KeyOK(d, s[j]) /\ (d > 0 => s[j] < i)
                              /\ Lo(d, s[j]) \in Nat /\ Hi(d, s[j]) \in Nat
                              /\ Lo(d, s[j]) < Hi(d, s[j])
           /\ \A j, k \in 1..n : j < k => Hi(d, s[j]) <= Lo(d, s[k])
           /\ \A j \in 1..(n - 1) : Follows(Hi(d, s[j]), Lo(d, s[j + 1]))
           /\ inodes[i].lo = Lo(d, s[1]) /\ inodes[i].hi = Hi(d, s[n])
    BY KeySpans
  <2>2. CASE d = 0
    <3>1. L[i] = s
      BY <1>1, <2>1, <2>2 DEF Visit
    <3>2. \A j \in 1..n : s[j] \in Nat /\ Lo(d, s[j]) = s[j] - 1 /\ Hi(d, s[j]) = s[j]
      BY <2>1, <2>2 DEF Lo, Hi
    <3>3. \A j, k \in 1..n : j < k => s[j] < s[k]
      <4> SUFFICES ASSUME NEW j \in 1..n, NEW k \in 1..n, j < k PROVE s[j] < s[k]
        OBVIOUS
      <4>1. Hi(d, s[j]) <= Lo(d, s[k])
        BY <2>1
      <4> QED
        BY <3>2, <4>1
    <3>4. PICK a \in Nat, b \in Nat : a = inodes[i].lo /\ b = inodes[i].hi
      BY <1>0, StoredTypes
    <3>5. a = s[1] - 1 /\ b = s[n] /\ 1 \in 1..n /\ n \in 1..n
      <4>1. 1 \in 1..n /\ n \in 1..n
        BY <2>1
      <4>2. a = Lo(d, s[1]) /\ b = Hi(d, s[n])
        BY <2>1, <3>4, Zenon
      <4>3. Lo(d, s[1]) = s[1] - 1 /\ Hi(d, s[n]) = s[n]
        BY <3>2, <4>1, Zenon
      <4> QED
        BY <4>1, <4>2, <4>3, Zenon
    <3>6. ASSUME NEW m \in 1..n PROVE a < s[m] /\ s[m] <= b
      <4>1. m = 1 \/ 1 < m
        OBVIOUS
      <4>2. m = n \/ m < n
        OBVIOUS
      <4>5. s[1] \in Nat /\ s[m] \in Nat /\ s[n] \in Nat
        BY <3>2, <3>5, Zenon
      <4>3. s[1] <= s[m]
        <5>1. CASE m = 1
          BY <4>5, <5>1
        <5>2. CASE 1 < m
          <6>1. s[1] < s[m]
            BY <3>3, <3>5, <5>2, Zenon
          <6> QED
            BY <4>5, <6>1
        <5> QED
          BY <4>1, <5>1, <5>2
      <4>4. s[m] <= s[n]
        <5>1. CASE m = n
          BY <4>5, <5>1
        <5>2. CASE m < n
          <6>1. s[m] < s[n]
            BY <3>3, <3>5, <5>2, Zenon
          <6> QED
            BY <4>5, <6>1
        <5> QED
          BY <4>2, <5>1, <5>2
      <4> QED
        BY <3>5, <4>3, <4>4, <4>5
    <3> QED
      BY <2>1, <3>1, <3>3, <3>4, <3>6 DEF Ordered
  <2>3. CASE d # 0
    <3> DEFINE ss == [j \in 1..n |-> L[s[j]]]
               A == [j \in 1..n |-> Lo(d, s[j])]
               B == [j \in 1..n |-> Hi(d, s[j])]
    <3>1. L[i] = FlattenSeq(ss)
      BY <1>1, <2>1, <2>3 DEF Visit
    <3>2. Len(ss) = n
      BY <2>1
    <3>3. \A j \in 1..n : ss[j] = L[s[j]] /\ A[j] = Lo(d, s[j]) /\ B[j] = Hi(d, s[j])
      OBVIOUS
    <3> HIDE DEF ss, A, B
    <3>4. ASSUME NEW j \in 1..n
          PROVE  A[j] \in Nat /\ B[j] \in Nat /\ A[j] <= B[j] /\ Ordered(ss[j], A[j], B[j])
      <4>1. Lo(d, s[j]) \in Nat /\ Hi(d, s[j]) \in Nat /\ Lo(d, s[j]) < Hi(d, s[j])
        BY <2>1
      <4>2. KeyOK(d, s[j]) /\ s[j] < i
        BY <2>1, <2>3
      <4>3. s[j] \in 1..Len(inodes) /\ s[j] \in 0..(i - 1)
        BY <1>0, <2>3, <4>2 DEF KeyOK
      <4>4. Ordered(L[s[j]], inodes[s[j]].lo, inodes[s[j]].hi)
        BY <1>2, <4>3
      <4>5. inodes[s[j]].lo = Lo(d, s[j]) /\ inodes[s[j]].hi = Hi(d, s[j])
        BY <2>3 DEF Lo, Hi
      <4> QED
        BY <3>3, <4>1, <4>4, <4>5
    <3>5. ASSUME NEW j \in 1..(n - 1) PROVE B[j] <= A[j + 1]
      <4>1. j \in 1..n /\ j + 1 \in 1..n /\ j < j + 1
        OBVIOUS
      <4>2. Hi(d, s[j]) <= Lo(d, s[j + 1])
        BY <2>1, <4>1
      <4> QED
        BY <3>3, <4>1, <4>2
    <3>6. Ordered(FlattenSeq(ss), A[1], B[n])
      BY <2>1, <3>2, <3>4, <3>5, OrderedFlatten
    <3>7. A[1] = inodes[i].lo /\ B[n] = inodes[i].hi
      <4>1. 1 \in 1..n /\ n \in 1..n
        BY <2>1
      <4> QED
        BY <2>1, <3>3, <4>1
    <3> QED
      BY <3>1, <3>6, <3>7
  <2> QED
    BY <2>2, <2>3
<1> HIDE DEF S
<1>3. r \in S /\ r \in Nat
  BY <1>0, <1>2, StrongSetInduction
<1> QED
  BY <1>1, <1>3 DEF S

(* Without a gap they are the whole span. *)
LEMMA LeavesInterval ==
  ASSUME TreeInv, ~dropped, NEW r \in 1..Len(inodes)
  PROVE  Interval(Leaves(inodes, r), inodes[r].lo, inodes[r].hi)
<1>0. Shape /\ Len(inodes) \in Nat
  BY StoredTypes DEF TreeInv, IInv
<1>1. PICK L : /\ \A i \in 1..Len(inodes) : L[i] = Visit(L, inodes, i)
               /\ \A i \in 1..Len(inodes) : Leaves(inodes, i) = L[i]
  BY <1>0, LeavesWalk
<1>a. \A x, y : Follows(x, y) => x = y
  BY DEF Follows
<1> DEFINE S == {i \in Nat : i \in 1..Len(inodes) => Interval(L[i], inodes[i].lo, inodes[i].hi)}
<1>2. ASSUME NEW i \in Nat, \A m \in 0..(i - 1) : m \in S PROVE i \in S
  <2> SUFFICES ASSUME i \in 1..Len(inodes)
               PROVE  Interval(L[i], inodes[i].lo, inodes[i].hi)
    OBVIOUS
  <2>1. PICK d \in Nat, s \in Seq(Nat), n \in Nat :
           /\ d = inodes[i].depth /\ s = inodes[i].keys /\ n = Len(s) /\ n >= 1
           /\ \A j \in 1..n : /\ KeyOK(d, s[j]) /\ (d > 0 => s[j] < i)
                              /\ Lo(d, s[j]) \in Nat /\ Hi(d, s[j]) \in Nat
                              /\ Lo(d, s[j]) < Hi(d, s[j])
           /\ \A j, k \in 1..n : j < k => Hi(d, s[j]) <= Lo(d, s[k])
           /\ \A j \in 1..(n - 1) : Follows(Hi(d, s[j]), Lo(d, s[j + 1]))
           /\ inodes[i].lo = Lo(d, s[1]) /\ inodes[i].hi = Hi(d, s[n])
    BY KeySpans
  <2>2. CASE d = 0
    <3>1. L[i] = s
      BY <1>1, <2>1, <2>2 DEF Visit
    <3>2. \A j \in 1..n : s[j] \in Nat /\ Lo(d, s[j]) = s[j] - 1 /\ Hi(d, s[j]) = s[j]
      BY <2>1, <2>2 DEF Lo, Hi
    <3>4. PICK a \in Nat, b \in Nat : a = inodes[i].lo /\ b = inodes[i].hi
      BY <1>0, StoredTypes
    <3>5. a + 1 = s[1] /\ b = s[n] /\ 1 \in 1..n /\ n \in 1..n
      <4>1. 1 \in 1..n /\ n \in 1..n
        BY <2>1
      <4>2. a = Lo(d, s[1]) /\ b = Hi(d, s[n])
        BY <2>1, <3>4, Zenon
      <4>3. Lo(d, s[1]) = s[1] - 1 /\ Hi(d, s[n]) = s[n] /\ s[1] \in Nat
        BY <3>2, <4>1, Zenon
      <4>4. a = s[1] - 1 /\ b = s[n]
        BY <4>2, <4>3, Zenon
      <4>5. a + 1 = s[1]
        BY <4>3, <4>4
      <4> QED
        BY <4>1, <4>4, <4>5
    <3> DEFINE T == {m \in Nat : m \in 1..n => s[m] = a + m}
    <3>6. 0 \in T
      OBVIOUS
    <3>7. ASSUME NEW m \in Nat, m \in T PROVE m + 1 \in T
      <4> SUFFICES ASSUME m + 1 \in 1..n PROVE s[m + 1] = a + (m + 1)
        OBVIOUS
      <4>1. CASE m = 0
        BY <3>5, <4>1
      <4>2. CASE m # 0
        <5>1. m \in 1..n /\ m \in 1..(n - 1)
          BY <4>2
        <5>2. s[m] = a + m
          BY <3>7, <5>1
        <5>3. Hi(d, s[m]) = Lo(d, s[m + 1])
          BY <1>a, <2>1, <5>1
        <5>4. Hi(d, s[m]) = s[m] /\ Lo(d, s[m + 1]) = s[m + 1] - 1 /\ s[m + 1] \in Nat
          BY <3>2, <5>1
        <5>5. PICK x \in Nat : x = s[m + 1]
          BY <5>4
        <5>6. a + m = x - 1
          BY <5>2, <5>3, <5>4, <5>5, Zenon
        <5>7. x = a + (m + 1)
          BY <5>6
        <5> QED
          BY <5>5, <5>7, Zenon
      <4> QED
        BY <4>1, <4>2
    <3> HIDE DEF T
    <3>8. \A m \in Nat : m \in T
      BY <3>6, <3>7, NatSetInduction
    <3>9. \A m \in 1..n : s[m] = a + m
      BY <3>8 DEF T
    <3>10. n = b - a
      BY <3>5, <3>9
    <3> QED
      BY <2>1, <3>1, <3>4, <3>9, <3>10 DEF Interval
  <2>3. CASE d # 0
    <3> DEFINE ss == [j \in 1..n |-> L[s[j]]]
               A == [j \in 1..n |-> Lo(d, s[j])]
               B == [j \in 1..n |-> Hi(d, s[j])]
    <3>1. L[i] = FlattenSeq(ss)
      BY <1>1, <2>1, <2>3 DEF Visit
    <3>2. Len(ss) = n
      BY <2>1
    <3>3. \A j \in 1..n : ss[j] = L[s[j]] /\ A[j] = Lo(d, s[j]) /\ B[j] = Hi(d, s[j])
      OBVIOUS
    <3> HIDE DEF ss, A, B
    <3>4. ASSUME NEW j \in 1..n
          PROVE  A[j] \in Nat /\ B[j] \in Nat /\ A[j] <= B[j] /\ Interval(ss[j], A[j], B[j])
      <4>1. Lo(d, s[j]) \in Nat /\ Hi(d, s[j]) \in Nat /\ Lo(d, s[j]) < Hi(d, s[j])
        BY <2>1
      <4>2. KeyOK(d, s[j]) /\ s[j] < i
        BY <2>1, <2>3
      <4>3. s[j] \in 1..Len(inodes) /\ s[j] \in 0..(i - 1)
        BY <1>0, <2>3, <4>2 DEF KeyOK
      <4>4. Interval(L[s[j]], inodes[s[j]].lo, inodes[s[j]].hi)
        BY <1>2, <4>3
      <4>5. inodes[s[j]].lo = Lo(d, s[j]) /\ inodes[s[j]].hi = Hi(d, s[j])
        BY <2>3 DEF Lo, Hi
      <4> QED
        BY <3>3, <4>1, <4>4, <4>5
    <3>5. ASSUME NEW j \in 1..(n - 1) PROVE B[j] = A[j + 1]
      <4>1. j \in 1..n /\ j + 1 \in 1..n
        OBVIOUS
      <4>2. Hi(d, s[j]) = Lo(d, s[j + 1])
        BY <1>a, <2>1
      <4> QED
        BY <3>3, <4>1, <4>2
    <3>6. Interval(FlattenSeq(ss), A[1], B[n])
      BY <2>1, <3>2, <3>4, <3>5, IntervalFlatten
    <3>7. A[1] = inodes[i].lo /\ B[n] = inodes[i].hi
      <4>1. 1 \in 1..n /\ n \in 1..n
        BY <2>1
      <4> QED
        BY <2>1, <3>3, <4>1
    <3> QED
      BY <3>1, <3>6, <3>7
  <2> QED
    BY <2>2, <2>3
<1> HIDE DEF S
<1>3. r \in S /\ r \in Nat
  BY <1>0, <1>2, StrongSetInduction
<1> QED
  BY <1>1, <1>3 DEF S

(* The tree on disk is good at every step. *)
LEMMA TreeInvariant == Spec => []TreeInv
<1>1. Init => TreeInv
  <2> SUFFICES ASSUME Init PROVE TreeInv
    OBVIOUS
  <2>1. Len(inodes) = 0
    BY DEF Init
  <2> QED
    BY <2>1, InitSpans DEF TreeInv, StoredEnds
<1>2. TreeInv /\ [Next]_vars => TreeInv'
  BY TreeStays
<1> QED
  BY <1>1, <1>2, PTL DEF Spec

(***************************************************************************)
(* For every capacity and input: a walk from the handle that               *)
(* chop_tree_index_blocks returns with success, when it discarded no       *)
(* error, finds all input blocks, each once and in order.                  *)
(***************************************************************************)
THEOREM CompleteCorrect == Spec => []Complete
<1>1. TreeInv => Complete
  <2> SUFFICES ASSUME TreeInv, result = "ok", ~dropped
               PROVE  Leaves(inodes, root) = [i \in 1..nblocks |-> i]
    BY DEF Complete, InputBlocks
  <2>1. /\ root \in 1..Len(inodes) /\ inodes[root].lo = 0
        /\ inodes[root].hi = nblocks /\ nblocks \in Nat
    BY DEF TreeInv, IInv, ResultInv, Follows, Shape, TypeOK
  <2>2. PICK q : q = Leaves(inodes, root)
    OBVIOUS
  <2>3. Interval(q, 0, nblocks)
    BY <2>1, <2>2, LeavesInterval
  <2>4. q \in Seq(Nat) /\ Len(q) = nblocks /\ \A m \in 1..nblocks : q[m] = m
    BY <2>1, <2>3 DEF Interval
  <2> QED
    BY <2>2, <2>4
<1> QED
  BY <1>1, TreeInvariant, PTL

(***************************************************************************)
(* Whatever was discarded, a walk from the handle that                     *)
(* chop_tree_index_blocks returns with success finds input blocks in       *)
(* order, none of them twice.                                              *)
(***************************************************************************)
THEOREM SubsequenceCorrect == Spec => []Subsequence
<1>1. TreeInv => Subsequence
  <2> SUFFICES ASSUME TreeInv, result = "ok"
               PROVE  \A i, j \in 1..Len(Leaves(inodes, root)) :
                        i < j => Leaves(inodes, root)[i] < Leaves(inodes, root)[j]
    BY DEF Subsequence
  <2>1. root \in 1..Len(inodes)
    BY DEF TreeInv, IInv, ResultInv
  <2>2. Ordered(Leaves(inodes, root), inodes[root].lo, inodes[root].hi)
    BY <2>1, LeavesOrdered
  <2> QED
    BY <2>2 DEF Ordered
<1> QED
  BY <1>1, TreeInvariant, PTL
=============================================================================
